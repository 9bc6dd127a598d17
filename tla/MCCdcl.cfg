SPECIFICATION Spec
CONSTANTS
  Files <- MCFiles
  Questions <- MCQuestions
  Chosen <- MCChosen
  RestartFirst = 1
  LearntFraction = 20
  AdjustStart = 2
  MaxSolves <- MCMaxSolves
INVARIANTS
  WatchesExact
  NothingMissed
  ConsequencesOnly
CHECK_DEADLOCK FALSE
PROPERTIES
  ImplementsOracle
