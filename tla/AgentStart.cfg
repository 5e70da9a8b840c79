CONSTANTS
  a = a
  b = b
  none = none
  Ids <- MCIds
  NoId <- MCNoId
  Capacity = 1
  MaxLines = 2
  Faults = {"loss"}
SPECIFICATION Spec
PROPERTY StartAfterEnd
