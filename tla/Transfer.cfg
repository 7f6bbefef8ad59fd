SPECIFICATION Spec
INVARIANTS
  SuccessIsExact
  DoubtIsKept
  AdaptersPromiseNoMore
  WakeSeesTheNack
