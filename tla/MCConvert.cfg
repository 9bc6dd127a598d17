SPECIFICATION Spec
CONSTANTS
  Params <- MCParams
  CtwFiles <- MCCtwFiles
  CasaFiles <- MCCasaFiles
  CnfFiles <- MCCnfFiles
INVARIANTS
  MeaningKept
  SameRows
CHECK_DEADLOCK FALSE
