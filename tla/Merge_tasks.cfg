SPECIFICATION MergeSpec
CONSTANTS
  t1 = t1  t2 = t2  b1 = b1  b2 = b2  pusher = pusher  prd = prd
  Tasks <- MCTasks
  Branches <- MCBranches
  BranchOf <- Own
  Jobs <- Merges
  Branch <- OwnBranches
  NameIn <- Apart
  Callers <- MCCallers
  Epic = {}
  Pusher <- pusher
  MaxMerges <- OneAgain
  MaxMergeFailures = 2
  MaxRetries = 1
  MaxRounds = 2
  MaxMain = 1
  HasOrigin = TRUE
  Users = {t1}
  StoreFails = TRUE
  NoJob = NoJob
CHECK_DEADLOCK FALSE
PROPERTIES
  BranchesLandAsValidated
  ResolvedIsOnMain
  ClosedIsMerged
  ImplementsSerialQueue
