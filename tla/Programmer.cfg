CONSTANTS
  Attempts = 4
  MaxBuilds = 3
  Old = Old
  Erased = Erased
  Partial = Partial
SPECIFICATION FairSpec
CHECK_DEADLOCK FALSE
INVARIANTS
  TypeOK
PROPERTIES
  RetriesOnlyUntouched
  KeepsContract
  EveryOperationEnds
