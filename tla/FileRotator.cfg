SPECIFICATION FairSpec
CONSTANTS
  MaxBackupsLimit = 4
  Configs <- AllConfigs
  DataLens = {1, 2}
  MaxWrites = 5
  MaxFaults = 2
INVARIANTS
  SizeWithinLimit
  BackupsInOrder
PROPERTIES
  RotationPurges
  ImplementsLog
  RetrySucceeds
