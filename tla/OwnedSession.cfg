CONSTANT Faults <- MCFaults
SPECIFICATION FairCallsSpec
INVARIANTS
  TypeOK
  IdleOwnsNothing
PROPERTIES
  KeepsSession
  LossReaps
  EveryCallReturns
