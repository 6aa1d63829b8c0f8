SPECIFICATION Spec
CONSTANTS
  Requests = {r1}
  MaxSignals = 1
INVARIANT HttpDrained
CHECK_DEADLOCK FALSE
