SPECIFICATION Spec
CONSTANTS
  None = None
  Threshold = 3
  MaxPriority = 4
  MaxInfraRetries = 2
  Kinds <- AllFailures
  Requests <- Unblocks
  Priorities <- Lowest
  MaxAttempts = 9
  MaxRestarts = 1
  MaxStoreFailures = 1
CHECK_DEADLOCK FALSE
INVARIANTS
  TypeOK
  CountKeepsUp
