SPECIFICATION FairSpec
CONSTANTS
  NumVar = 5
  Strength = 3
  Clause <- MCClause
  Group <- MCGroup
  Row <- MCRow
  Starts <- MCStarts
  AltLengths <- MCAltLengths
  CellLevel = 19
  ShrinkDivisor = 2
  KeepDivisor = 4
  MaxAltLength = 3
INVARIANTS
  TypeOK
  UncoveredExact
PROPERTIES
  KeepsThePromise
  RestartKeepsRows
  StopEnds
  Recovers
\* the phase ends when it returns or the process dies
CHECK_DEADLOCK FALSE
