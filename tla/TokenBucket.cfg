SPECIFICATION Spec
CONSTANTS
  Callers = {c1, c2}
  Capacity = 3
  Quantum = 2
  FillInterval = 2
  Counts <- MCCounts
  MaxWaits = {0, 3}
  MaxTime = 9
INVARIANTS
  TypeOK
  Conservation
  RateBound
  OverdrawnIffWaiting
  RefusalExact
PROPERTIES
  NoOvertaking
  ImplementsEager
