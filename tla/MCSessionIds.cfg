CONSTANTS
  NULL = NULL
  MaxBigint = 2
  t1 = t1
  t2 = t2
  Rows <- TwoAttempts
  Txns <- MCTxns
  MaxRows = 2
SPECIFICATION Spec
SYMMETRY Symmetry
INVARIANT
  SessionIdPerAttempt
