CONSTANTS
  p1 = p1
  p2 = p2
  Python <- MCPython
  Initial <- MCInitial
  Changes <- MCChanges
  Texts <- MCTexts
  PullRequests <- MCPullRequests
  MaxMerges = 2
SPECIFICATION Spec
CHECK_DEADLOCK FALSE
SYMMETRY Symmetry
INVARIANTS
  TypeOK
  RulesHoldOnMain
  ToolingConfined
  CheckedMainIsWhole
  PathsHoldOnMain
