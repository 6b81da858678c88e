CONSTANTS
  v1 = v1
  v2 = v2
  VUs = {v1, v2}
  GateTarget = 2
  RatioNum = 1
  RatioDen = 2
  MaxPreTestRetries = 0
  HasTimeout = FALSE
  MaxIterations = 2
  UseGate = TRUE
  HasDrain = TRUE
  HasRampUp = TRUE
  BurstBuffer = 1
  MaxDispatch = 2
SPECIFICATION FairSpec
INVARIANTS
  TypeOK
  TokensAreConserved
  GracefulDrainServesTheQueue
PROPERTIES
  ImplementsPacingEngine
  RunReturns
