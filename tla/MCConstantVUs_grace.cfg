CONSTANTS
  v1 = v1
  v2 = v2
  VUs = {v1, v2}
  GateTarget = 2
  RatioNum = 9
  RatioDen = 10
  MaxPreTestRetries = 0
  HasTimeout = TRUE
  MaxIterations = 1
  UseGate = TRUE
  HasRampUp = FALSE
  HasDrain = TRUE
SPECIFICATION Spec
INVARIANTS
  QuorumFailureRunsNothing
