CONSTANTS
  p1 = p1
  p2 = p2
  none = none
  Probes <- MCProbes
  NoProbe <- MCNoProbe
  MaxGeneration = 2
  Faults = {"refuse"}
SPECIFICATION Spec
INVARIANT StopIsNeverLost
