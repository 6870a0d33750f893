SPECIFICATION FairSpec
CONSTANTS
  None = None
  Threshold = 3
  MaxPriority = 4
  MaxInfraRetries = 2
  Kinds <- TaskFailures
  Requests <- Stops
  Priorities <- AnyPriority
  MaxAttempts = 24
  MaxRestarts = 0
  MaxStoreFailures = 1
CHECK_DEADLOCK FALSE
INVARIANTS
  RetriesAreBounded
PROPERTIES
  TaskIsSettled
