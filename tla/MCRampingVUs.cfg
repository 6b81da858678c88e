CONSTANTS
  VUs = {1, 2, 3}
  Stages <- UpAndDown
  GateTarget = 1
  RatioNum = 1
  RatioDen = 2
  MaxPreTestRetries = 0
  HasTimeout = FALSE
  MaxIterations = 1
  UseGate = TRUE
  HasDrain = TRUE
SPECIFICATION Spec
INVARIANTS
  TypeOK
  DrainStopsEveryone
  LoadFollowsStages
PROPERTIES
  ImplementsPacingEngine
