SPECIFICATION Spec
CONSTANTS
  Files <- MCFiles
  Strengths = {2, 3}
  UpperLimits = {0, 10}
  CandidateSetSize = 2
INVARIANTS
  CountsExact
  CompleteAtEnd
PROPERTIES
  RowsEarnTheirPlace
  Ends
CHECK_DEADLOCK FALSE
