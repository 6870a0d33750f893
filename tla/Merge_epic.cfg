SPECIFICATION MergeSpec
CONSTANTS
  t1 = t1  t2 = t2  b1 = b1  b2 = b2  pusher = pusher  prd = prd
  Tasks <- MCTasks
  Branches <- MCBranches
  BranchOf <- Shared
  Jobs <- MCJobs
  Branch <- SharedBranch
  NameIn <- Apart
  Callers <- MCCallers
  Epic <- MCTasks
  Pusher <- pusher
  MaxMerges <- Once
  MaxMergeFailures = 2
  MaxRetries = 2
  MaxRounds = 1
  MaxMain = 0
  HasOrigin = TRUE
  Users = {}
  StoreFails = FALSE
  NoJob = NoJob
CHECK_DEADLOCK FALSE
INVARIANTS
  EpicIsMerged
PROPERTIES
  DrainedIsIdle
  MergesEnd
