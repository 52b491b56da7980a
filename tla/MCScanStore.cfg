SPECIFICATION Spec
CONSTANTS
  Dashboard = Dashboard
  CommandLine = CommandLine
  Visitors = {v1}
  Records = {r1}
  MaxScans = 3
  MaxFailures = 1
INVARIANTS
  TypeOK
  LatestIsNotStale
  BaselineIsPrevious
  ReportMatchesBaseline
CHECK_DEADLOCK FALSE
