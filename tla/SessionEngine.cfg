CONSTANTS
  p1 = p1
  p2 = p2
  none = none
  Probes <- MCProbes
  NoProbe <- MCNoProbe
  MaxGeneration = 2
  Faults <- MCFaults
SPECIFICATION FairSpec
INVARIANTS
  TypeOK
  HaltedTruth
  NoLostStop
  EventsTellState
  EndsOnce
PROPERTIES
  LifecycleSpec
  EveryCallReturns
