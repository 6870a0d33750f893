SPECIFICATION FairSpec
CONSTANTS
  MaxRuns = 2
CHECK_DEADLOCK FALSE
\* Each is violated on its own.
PROPERTY FinishedRunIsReported
\* INVARIANT OneDetectorReports
\* INVARIANT OnDoneAtMostOnce
