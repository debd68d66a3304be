SPECIFICATION FileSpec
CONSTANTS
  Texts <- Words
INVARIANTS
  CsvKeepsWaypoints
