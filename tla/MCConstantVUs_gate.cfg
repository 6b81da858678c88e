CONSTANTS
  v1 = v1
  v2 = v2
  v3 = v3
  VUs = {v1, v2, v3}
  GateTarget = 3
  RatioNum = 3
  RatioDen = 5
  MaxPreTestRetries = 1
  HasTimeout = FALSE
  MaxIterations = 1
  UseGate = TRUE
  HasRampUp = FALSE
  HasDrain = TRUE
SPECIFICATION Spec
SYMMETRY Symmetry
INVARIANTS
  IInv
  GateDecidesOnce
  NoIterationBeforeQuorum
  DropoutRunsNothing
  DropoutErrorShowsShortfall
  DropoutIsBackedByTelemetry
