CONSTANTS
  NULL = NULL
  e1 = e1
  e2 = e2
  Emitters <- MCEmitters
  LEVELS = {20, 30, 40}
  INFO = 20
  WARNING = 30
  MaxSetups = 3
  MaxRecords = 2
SPECIFICATION Spec
SYMMETRY Symmetry
INVARIANTS
  TypeOK
  NeverTwice
  LatestSetupRules
CHECK_DEADLOCK FALSE
