SPECIFICATION Spec
CONSTANTS
  NumVar = 5
  Strength = 3
  Clause <- MCClause
  Group <- MCGroup
  Row <- MCRow
  Starts <- MCStarts
  AltLengths <- MCAltLengths
  CellLevel = 19
  ShrinkDivisor = 2
  KeepDivisor = 4
  MaxAltLength = 3
INVARIANTS
  StopIsOrderly
CHECK_DEADLOCK FALSE
