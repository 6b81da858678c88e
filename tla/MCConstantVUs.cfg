CONSTANTS
  v1 = v1
  v2 = v2
  VUs = {v1, v2}
  GateTarget = 2
  RatioNum = 9
  RatioDen = 10
  MaxPreTestRetries = 0
  HasTimeout = TRUE
  MaxIterations = 2
  UseGate = TRUE
  HasRampUp = TRUE
  HasDrain = TRUE
SPECIFICATION FairSpec
INVARIANTS
  ReturnsAfterEveryWorker
  EveryIterationAccounted
  AtMostOneIterationAfterStop
PROPERTIES
  ImplementsPacingEngine
  RunReturns
  GateReleasesEveryone
