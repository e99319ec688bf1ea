CONSTANTS
  NULL = NULL
  Hosts = {"127.0.0.1", "10.0.0.7"}
  Labels = {"node-a", "node-b", "node c"}
  Ports = {"5000", "5001"}
  Shell <- MCShell
  Dashed = {"-x", "--worker-id"}
  Extras <- MCExtras
  MaxNodes = 2
  MaxLaunches = 1
SPECIFICATION Spec
INVARIANTS
  TypeOK
  PlanIsUnderstood
  NothingUnconfiguredStarts
  RankIsNeverGiven
