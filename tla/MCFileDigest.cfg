CONSTANTS
  Bytes = {0, 1}
  CHUNK = 2
  MaxSize = 4
  MaxWrites = 2
SPECIFICATION Spec
INVARIANTS
  TypeOK
  HashesAPrefix
PROPERTY
  DigestsTheWholeFile
CHECK_DEADLOCK FALSE
