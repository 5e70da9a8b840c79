CONSTANTS
  p1 = p1
  p2 = p2
  h = h
  c1 = c1
  c2 = c2
  None = None
  Builders <- MCBuilders
  Headers <- MCHeaders
  Commands <- MCCommands
  Rank <- MCRank
  Sources = 1
  Derived = 1
  MaxEdits = 1
  MaxStarts = 3
  MaxStops = 1
SPECIFICATION Spec
SYMMETRY MCSymmetry
CHECK_DEADLOCK FALSE
INVARIANTS
  TypeOK
  PublishedIsInspected
  StagingIsOwned
  InitIsAllOrNothing
PROPERTIES
  ReuseIsSound
  SuccessIsRebuild
