SPECIFICATION FairSpec
CONSTANTS
  MaxRuns = 2
CHECK_DEADLOCK FALSE
INVARIANTS
  TypeOK
  MonitoredUntilHandled
  CurrentRunReportedOnce
PROPERTIES
  FinishedRunIsSettled
