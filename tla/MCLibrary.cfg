CONSTANTS
  vu1 = vu1
  vu2 = vu2
  Documents <- MCDocuments
  CommandLines <- MCCommandLines
  Programs <- MCPrograms
  Recordings <- MCRecordings
  Recorders = {vu1, vu2}
  MetricNames = {"m", "n"}
  Kinds = {"counter", "rate"}
  MaxRecords = 2
  Observers = {vu1, vu2}
  Variants = {"a", "b"}
  histShards = 2
  histMinValue = 1
  histMaxValue = 2
  Samples = {0, 3}
  Attempts <- MCAttempts
  MaxObserved <- MCMaxObserved
  Readers = {1, 2}
  MaxDocument = 3
  MaxNexts = 2
  Watched = {vu1, vu2}
  StallThresholds = {0}
  VUTimeouts = {2}
  GuardDeadline0 = 2
  P99s = {0, 1}
  MaxNow = 3
  MaxBegins <- MCMaxBegins
  MaxLines = 3
  EventBuffer = 1
  HTTPCallers = {vu1, vu2, "setup"}
  SetupHook = "setup"
  Declared <- MCDeclared
  ClientOptions <- MCClientOptions
  MaxCalls <- MCMaxCalls
  ContextVUs = {vu1, vu2}
  GroupNames = {"g"}
  MaxHooks <- MCMaxHooks
  MaxNesting = 2
  ServedVUs = {vu1, vu2}
  DeclaredParams <- MCDeclaredParams
  CheckNames = {"c"}
  MaxChecks = 1
  KafkaVUs = {vu1, vu2}
  KafkaOptions <- MCKafkaOptions
  BatchSizes = {0, 2}
  DefaultBatch = 3
  TopicLength = 4
  MaxKafkaCalls = 3
  NATSVUs = {vu1, vu2}
  NATSOptions <- MCNATSOptions
  MaxNATSCalls = 3
  Turns = 2
  MaxServerEvents = 5
  SessionBuffer = 1
SPECIFICATION LibrarySpec
CHECK_DEADLOCK FALSE
INVARIANTS
  LibraryTypeOK
  ValidatedScenarioRuns
  VerdictsAgree
  SnapshotsShowWhatWasObserved
  RecordsAreDealtOnce
  GroupsRunInTheirIteration
  PolledRecordsReachOneReader
  CallsAreCountedOnce
PROPERTIES
  ImplementsMetricMap
  HungIterationIsFlagged
  StreamsAreReleased
