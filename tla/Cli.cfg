SPECIFICATION CliSpec
CONSTANTS
  SettleMs <- MCSettle
  Words = {w0, w1}
  DefaultWord = w0
  BadWord = wBad
  NoWord = wNone
  w0 = w0
  w1 = w1
  wBad = wBad
  wNone = wNone
  s1 = s1
  s2 = s2
  sNone = sNone
  Serials = {s1, s2}
  Variants = {"SCD40", "SCD41"}
  NoSerial = sNone
  UsedKinds <- CliKinds
  RequestIds = {1, 2}
  MaxGeneration = 1
  MaxEpoch = 1
  MaxSequence = 1
  Configs <- Lax
  MaxFailures = 1
  Deadlines = {3, 7, 14}
  Advances = {1}
  Durations = {1}
  Budgets = {1}
  SensorStates <- EitherVariant
  Cycles = {1}
  TransferTimeout = 1
  PowerUpDelayMax = 2
  Margin = 2
  Replacements = {}
INVARIANTS
  WorkflowOwnsSlot
  WorkflowModeKept
  BudgetSuffices
PROPERTIES
  ScanWhenQuiet
  WorkflowEnds
  LoopIsFair
