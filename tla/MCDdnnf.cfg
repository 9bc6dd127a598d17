SPECIFICATION Spec
CONSTANT NnfFiles <- MCNnfFiles
INVARIANT ValidatorExact
CHECK_DEADLOCK FALSE
