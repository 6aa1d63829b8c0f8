SPECIFICATION BenchSpec
CONSTANTS
  Flags = {auth}
  Base = s
  Paths = {p, q}
  MaxRouters = 3
  MaxEntries = 2
  MaxCalls = 6
  MaxOps = 3
  MaxBinds = 2
SYMMETRY Symmetry
INVARIANTS
  RootKept
  FirstThreeKept
  CloneStands
  AllOrNothing
  BindsWhatWasAsked
\* Bounds are reached.
CHECK_DEADLOCK FALSE
