SPECIFICATION Spec
CONSTANTS
  Rank <- MCRank
  Accounts <- MCAccounts
  FindingIds = {"f1", "f2", "f3", "f4", "f5", "f6", "f7", "f8", "f9", "fcdn", "fdns"}
  Approved = {"acc1", "acc2"}
  StaleDays = 3
  GhostDays = 5
  RootOf <- MCRootOf
  Federated <- MCFederated
  PrincipalArn <- MCPrincipalArn
  FindingId <- MCFindingId
  ArnAccount <- MCArnAccount
  RootAccount <- MCRootAccount
  BroadResources = 5
  BroadAccounts = 3
  MaxPathDepth = 4
  MaxCandidates = 8
  MaxVariants = 3
  NodeCap = 7
  EdgeCap = 10
  MaxHops = 2
  AttackLimit = 9
  HopEdges = 3
  HopNeighbors = 2
  DefaultTopK = 1
  MaxTopK = 2
  ProbeFactor = 1
  ProbeMin = 1
  ProbeMax = 2
  QuestionTopK = 2
  Exporters = {"dashboard", "request"}
  Timed = {"request"}
  Worlds <- Judging
INVARIANTS
  StaleAdminIsAlerted
CHECK_DEADLOCK FALSE
