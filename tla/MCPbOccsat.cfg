SPECIFICATION Spec
CONSTANTS
  Files <- MCFiles
  WeightThreshold = 1
  PScale <- MCPScale
  LargeCountThreshold = 1
  Unit = 12
  Profiles <- MCProfiles
  InitSolns <- MCInitSolns
  Priorities <- MCPriorities
  DHscore = 2
  BetaHscore = 2
  GammaHscore = 2
  MaxTries = 1
  MaxFlips = 5
  MaxSolves = 2
INVARIANTS
  StacksExact
  ScoresExact
  GoodVarsExact
  SolvedSatisfiesFile
CHECK_DEADLOCK FALSE
