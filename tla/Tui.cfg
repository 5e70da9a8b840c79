CONSTANTS
  MaxStops = 4
  MaxPoints = 2
SPECIFICATION FairSpec
CHECK_DEADLOCK FALSE
INVARIANTS
  TypeOK
  ShowsTheSession
  TerminalIsRestored
PROPERTIES
  InterruptEnds
