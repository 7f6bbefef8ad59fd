SPECIFICATION WordsSpec
CONSTANTS
  SettleMs <- MCSettle
  MaxInput = 175000
  SampleWords = {0, 48879, 65535}
INVARIANTS
  CrcIsTheRemainder
  DamageNoticed
  RoundsToNearest
  AdmittedReadsBack
  RewriteKeepsWord
CHECK_DEADLOCK FALSE
