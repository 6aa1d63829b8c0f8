SPECIFICATION BenchSpec
CONSTANTS
  Packages <- BenchPackages
  Needs <- BenchNeeds
  Requests = {r1, r2}
  MaxSignals = 2
  Keys = {k1, k2}
  Values = {v1, v2}
  TTLs <- BenchTTLs
  DefaultTTL = 1
  Size = 1
  DaysPerMonth = 2
  MaxSize = 2
  MaxDay = 3
  MaxRecords = 4
  MaxFailures = 2
  AppNames = {"a", "example"}
  MaxRuns = 3
  Names = {n1, n2}
  Members = {1, 2, 3}
  DefaultPageSize = 2
  PageSizes = {0, 1, 2}
  Second = 2
  Intervals = {1, 2}
  Quanta = {2}
  MaxRows = 3
  MaxClock = 4
  MaxPages = 4
INVARIANTS
  GrpcDrained
  GetsConfigured
  BackendsAgree
  SectionsReady
  RegisteredIsWhole
  SetsAreTheirOwn
  EachRowOnce
  Paced
PROPERTIES
  StopsOnSignal
  NewestKept
\* Processes end, and bounds are reached.
CHECK_DEADLOCK FALSE
