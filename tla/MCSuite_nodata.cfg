CONSTANTS
  Documents <- MCDocuments
  CommandLines <- MCCommandLines
  Programs <- MCPrograms
  Recordings <- MCRecordings
SPECIFICATION SuiteSpec
CHECK_DEADLOCK FALSE
INVARIANT OnNoDataDecides
