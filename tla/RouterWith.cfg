SPECIFICATION Spec
CONSTANTS
  Flags = {}
  Base = s
  Paths = {}
  MaxRouters = 3
  MaxEntries = 0
  MaxCalls = 6
INVARIANT WithOnItsOwn
\* The bound on the calls is reached.
CHECK_DEADLOCK FALSE
