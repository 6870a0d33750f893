SPECIFICATION MergeSpec
CONSTANTS
  t1 = t1  t2 = t2  b1 = b1  b2 = b2  pusher = pusher  prd = prd
  Tasks <- MCTasks
  Branches <- MCBranches
  BranchOf <- Own
  Jobs <- Merges
  Branch <- OwnBranches
  NameIn <- Prefix
  Callers <- MCCallers
  Epic = {}
  Pusher <- pusher
  MaxMerges <- Once
  MaxMergeFailures = 2
  MaxRetries = 1
  MaxRounds = 1
  MaxMain = 0
  HasOrigin = TRUE
  Users = {}
  StoreFails = FALSE
  NoJob = NoJob
CHECK_DEADLOCK FALSE
PROPERTIES
  ClosedIsMerged
