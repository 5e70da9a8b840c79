CONSTANTS
  s1 = s1
  s2 = s2
  executable = executable
  library = library
  Old = Old
  NoTree = NoTree
  NoMarker = NoMarker
  OtherMarker = OtherMarker
  Setups <- MCSetups
  Files <- MCFiles
  Required <- MCRequired
SPECIFICATION FairSpec
INVARIANTS
  TypeOK
  AcceptedIsComplete
  NothingUnverified
  EndLeavesNothing
PROPERTIES
  SuccessIsInstalled
  EverySetupEnds
