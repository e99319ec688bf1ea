CONSTANTS
  p1 = p1
  p2 = p2
  Python <- MCPython
  Initial <- MCInitial
  Changes <- ImportChanges
  Texts <- MCTexts
  PullRequests <- MCPullRequests
  MaxMerges = 2
SPECIFICATION Spec
CHECK_DEADLOCK FALSE
SYMMETRY Symmetry
INVARIANTS
  SynchronizationIsolated
