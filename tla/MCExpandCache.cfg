SPECIFICATION Spec
CONSTANTS
  NumVar = 6
  Strength = 4
  InitStrength = 2
  Clause <- MCClause
  SortedClause <- MCSortedClause
  Group <- MCGroup
  Arrays <- MCArrays
  CandidateSetSize = 2
  Sampled <- MCSampled
  Returned <- MCReturned
PROPERTIES
  BestIsSelected
\* the program ends
CHECK_DEADLOCK FALSE
