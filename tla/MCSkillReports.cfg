CONSTANTS
  CORE = {}
  VENDORS = {"fastapi"}
  Paths <- MCPaths
  Contents <- MCContents
  Committed <- MCCommitted
  Pins <- MCPins
  SUPPLY_CHAIN_SCAN <- Scanned
  RAW_REFERENCE_EXCLUSIONS <- Excluded
  MaxEdits = 2
SPECIFICATION Spec
INVARIANTS
  TypeOK
  NoOtherHarm
  PassMeansInactive
  ReportsAreComplete
