SPECIFICATION FairSpec
CONSTANTS
  p1 = p1
  p2 = p2
  t1 = t1
  t2 = t2
  epic = epic
  Projects = {p1, p2}
  Tasks = {t1}
  ProjectOf <- OneTask
  Worktrees = {t1}
  WorktreeOf <- OneTree
  ReviewAngles = FALSE
  Overlap = TRUE
  MaxAttempts = 1
  MaxCrashes = 1
  MaxFailures = 0
  None = None
PROPERTY WorkIsTakenUp
PROPERTY SlotsAreGivenBack
PROPERTY ClosedIsPruned
CHECK_DEADLOCK FALSE
INVARIANT TypeOK
