CONSTANTS
  p1 = p1
  p2 = p2
  h = h
  c1 = c1
  c2 = c2
  None = None
  Builders = {p1}
  Headers <- MCHeaders
  Commands <- MCCommands
  Rank <- MCRank
  Sources = 1
  Derived = 1
  MaxEdits = 2
  MaxStarts = 3
  MaxStops = 0
SPECIFICATION Spec
CHECK_DEADLOCK FALSE
PROPERTIES
  ReusedHasCommand
