CONSTANTS
  VUs = {1, 2, 3}
  Stages <- DownToNone
  GateTarget = 2
  RatioNum = 1
  RatioDen = 2
  MaxPreTestRetries = 0
  HasTimeout = FALSE
  MaxIterations = 1
  UseGate = FALSE
  HasDrain = TRUE
SPECIFICATION FairSpec
INVARIANTS
  StopChannelsPartition
PROPERTIES
  RunReturns
