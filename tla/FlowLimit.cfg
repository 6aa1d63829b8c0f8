SPECIFICATION Spec
CONSTANTS
  Handlers = {h1, h2}
  Keys = {k1, k2}
  MaxSizes = {1, 3}
  Expiry = 1
  MaxTime = 2
  MaxBuckets = 3
  Capacity = 2
  Quantum = 2
  FillInterval = 1
SYMMETRY Symmetry
INVARIANTS
  ChargedToOwnKey
  CountCoversMap
  BucketsPerKey
  BucketRate
CHECK_DEADLOCK FALSE
