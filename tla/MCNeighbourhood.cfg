SPECIFICATION Spec
CONSTANTS
  NumVar = 4
  Strength = 2
  Clause <- MCClause
  Group <- MCGroup
  Starts <- MCStarts
  UseWeight = TRUE
  CellTabooPercent = 80
  TabooSize = 1
  MaxWeight = 2
INVARIANTS
  RowsValid
  OffersSound
  ScoresTrue
CHECK_DEADLOCK FALSE
