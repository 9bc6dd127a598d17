SPECIFICATION Spec
CONSTANTS
  NumVar = 3
  Strength = 2
  Clause <- MCClause
  Group = {}
  Row <- MCRow
  Starts <- MCStarts
  ThreadNum = 2
  UseWeight = TRUE
  TabooSize = 1
  MaxIdx = 5
  MaxWeight = 2
INVARIANTS
  TypeOK
  CountsExact
  PlacesExact
  UniqueExact
  WeightsExact
  MarksDistinct
  ScanExact
PROPERTIES
  ImplementsCoverage
CHECK_DEADLOCK FALSE
