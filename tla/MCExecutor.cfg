CONSTANTS
  v1 = v1
  v2 = v2
  VUs = {v1, v2}
  DrainsQueue = TRUE
  HasAbort = TRUE
SPECIFICATION FairSpec
INVARIANTS
  TypeOK
  TeardownIsAlone
  TornDownOnce
PROPERTIES
  ImplementsScenarioRun
  DecidedAbortIsReported
  MonitorEnds
