CONSTANTS
  NULL = NULL
  MaxBigint = 2
  t1 = t1
  t2 = t2
  Rows <- MCRows
  Txns <- MCTxns
  MaxRows = 2
SPECIFICATION Spec
SYMMETRY Symmetry
INVARIANTS
  RecordedOnce
  OnlyDuplicatesRefused
