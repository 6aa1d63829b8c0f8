SPECIFICATION Spec
CONSTANTS
  Handlers = {h1, h2}
  Keys = {k1}
  MaxSizes = {2}
  Expiry = 1
  MaxTime = 2
  MaxBuckets = 3
  Capacity = 1
  Quantum = 1
  FillInterval = 2
INVARIANT KeyRate
CHECK_DEADLOCK FALSE
