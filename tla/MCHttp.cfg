SPECIFICATION BenchSpec
CONSTANTS
  Statuses = {200, 404}
  Codes = {403, 50014}
  MaxSize = 2
  MaxCalls = 5
  Clients = {c1, c2}
  MaxRequests = 2
  MaxGiven = 2
  MaxSends = 2
  MaxInto = 3
  Origins = {"a", "b"}
  Methods = {"GET", "PUT"}
  HeaderNames = {"Origin", "Accept", "X-A"}
  MaxHops = 3
  MaxEvents = 1
  MaxClosed = 2
  LoggerNames = {"a", "b"}
  MaxCores = 2
  MaxLoggers = 2
  MaxSets = 1
INVARIANTS
  SentIsRecorded
  PanicAnswered
  PrivateWithoutDefaults
  OwnCredentials
  IntoIsWhole
  AdmitsThePermitted
  PreflightPromises
  SpanPerHop
  WritesAsConfigured
\* Requests end, and bounds are reached.
CHECK_DEADLOCK FALSE
