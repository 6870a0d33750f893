SPECIFICATION Spec
CONSTANTS
  None = None
  Threshold = 3
  MaxPriority = 4
  MaxInfraRetries = 2
  Kinds <- AllFailures
  Requests <- AllRequests
  Priorities <- Lowest
  MaxAttempts = 12
  MaxRestarts = 0
  MaxStoreFailures = 0
CHECK_DEADLOCK FALSE
\* Each is violated on its own.
INVARIANT FailuresDemote
\* PROPERTY DoneStaysDone
\* PROPERTY BlockedAtMaxPriority
\* INVARIANT MergeBlockIsAboutMerges
\* INVARIANT ResetRestartsCount
