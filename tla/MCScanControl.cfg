SPECIFICATION FairSpec
CONSTANTS
  Requests <- MCRequests
  MaxRuns = 3
  MaxRestarts = 1
  MaxWarnings = 1
  HistoryLimit = 2
  LogLimit = 3
INVARIANTS
  TypeOK
  SingleFlight
  RunningHasWorker
  HistoryComplete
  CompletionHonest
  LogBounded
  ShownScanIsOnDisk
PROPERTIES
  EndedRecordIsFinal
  ImplementsRegister
  ImplementsFairRegister
  RunsEnd
CHECK_DEADLOCK FALSE
