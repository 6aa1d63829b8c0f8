SPECIFICATION Spec
CONSTANTS
  Handlers = {h1}
  Keys = {k1, k2}
  MaxSizes = {1}
  Expiry = 1
  MaxTime = 3
  MaxBuckets = 3
  Capacity = 2
  Quantum = 1
  FillInterval = 1
PROPERTY EvictsOnlyUnused
CHECK_DEADLOCK FALSE
