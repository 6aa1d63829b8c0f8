SPECIFICATION Spec
CONSTANTS
  Statuses = {404}
  Codes = {403, 50014}
  MaxSize = 1
  MaxCalls = 2
INVARIANT StatusIsSent
CHECK_DEADLOCK FALSE
