SPECIFICATION Spec
CONSTANTS
  Dashboard = Dashboard
  CommandLine = CommandLine
  Visitors = {v1}
  Records = {r1}
  MaxScans = 2
  MaxFailures = 0
INVARIANTS
  IntroducedIsReported
CHECK_DEADLOCK FALSE
