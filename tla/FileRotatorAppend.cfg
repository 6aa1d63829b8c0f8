SPECIFICATION Spec
CONSTANTS
  MaxBackupsLimit = 4
  Configs <- AppendingConfigs
  DataLens = {1, 2}
  MaxWrites = 4
  MaxFaults = 1
INVARIANT FileWithinMaxSize
