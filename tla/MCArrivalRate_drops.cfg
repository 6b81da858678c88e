CONSTANTS
  v1 = v1
  v2 = v2
  VUs = {v1, v2}
  GateTarget = 2
  RatioNum = 1
  RatioDen = 2
  MaxPreTestRetries = 0
  HasTimeout = FALSE
  MaxIterations = 2
  UseGate = FALSE
  HasDrain = TRUE
  HasRampUp = FALSE
  BurstBuffer = 1
  MaxDispatch = 2
SPECIFICATION Spec
PROPERTIES
  DropsOnlyWhenAllBusy
