SPECIFICATION Spec
CONSTANTS
  Requests <- MCRequests
  MaxRuns = 2
  MaxRestarts = 1
  MaxWarnings = 1
  HistoryLimit = 1
  LogLimit = 2
INVARIANTS
  CompletedScanIsAlerted
CHECK_DEADLOCK FALSE
