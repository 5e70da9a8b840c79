CONSTANTS
  a = a
  b = b
  none = none
  Ids <- MCIds
  NoId <- MCNoId
  Capacity = 1
  MaxLines = 3
  Faults <- MCFaults
SPECIFICATION FairSpec
INVARIANTS
  TypeOK
  OneAnswerEach
  CarriedOutOnce
  StoriesAreComplete
PROPERTIES
  CtrlCEnds
  EndOfInputEnds
