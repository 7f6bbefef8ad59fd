SPECIFICATION Spec
CONSTANTS
  SettleMs <- MCSettle
  Words = {w0, w1}
  DefaultWord = w0
  BadWord = wBad
  NoWord = wNone
  w0 = w0
  w1 = w1
  wBad = wBad
  wNone = wNone
  s1 = s1
  s2 = s2
  sNone = sNone
  Serials = {s1, s2}
  Variants = {"SCD40", "SCD41"}
  NoSerial = sNone
  UsedKinds <- InspectKinds
  RequestIds = {1}
  MaxGeneration = 1
  MaxEpoch = 1
  MaxSequence = 1
  Configs <- Lax
  MaxFailures = 1
  Deadlines = {15}
  Advances = {0, 1}
  Durations = {0, 1}
  Budgets = {0, 2}
  SensorStates <- Delivered
  Replacements = {}
INVARIANTS
  ConfigurationWhole
PROPERTIES
  NextDueTellsWhen
