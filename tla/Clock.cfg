SPECIFICATION Spec
CONSTANTS
  Half = 6
  PowerUpDelays = {1, 4}
  TransferTimes = {0, 2}
  Settles = {1, 3}
PROPERTIES
  ClockDoesNotWrap
