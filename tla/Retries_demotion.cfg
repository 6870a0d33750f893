SPECIFICATION Spec
CONSTANTS
  None = None
  Threshold = 3
  MaxPriority = 4
  MaxInfraRetries = 2
  Kinds <- NoInfra
  Requests <- Edits
  Priorities <- AnyPriority
  MaxAttempts = 12
  MaxRestarts = 0
  MaxStoreFailures = 1
CHECK_DEADLOCK FALSE
INVARIANTS
  FailuresDemote
