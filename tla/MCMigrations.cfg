CONSTANTS
  NULL = NULL
  MaxBigint = 2
  m1 = m1
  m2 = m2
  pbl4_db = pbl4_db
  other_db = other_db
  Migrators = {m1, m2}
  Databases = {pbl4_db, other_db}
  Reachable = {pbl4_db}
  Settings <- MCSettings
  INI <- MCINI
SPECIFICATION Spec
INVARIANTS
  TypeOK
  AllOrNothing
  GoesWhereTold
  OvertakenOrPossible
  OnlineNeverDeadlocks
PROPERTIES
  SuccessMeansDone
  RunsEnd
