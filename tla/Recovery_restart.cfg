SPECIFICATION FairSpec
CONSTANTS
  p1 = p1
  p2 = p2
  t1 = t1
  t2 = t2
  epic = epic
  Projects = {p1}
  Tasks = {t1, t2}
  ProjectOf <- OneProject
  Worktrees = {t1, t2}
  WorktreeOf <- OwnTrees
  ReviewAngles = FALSE
  Overlap = FALSE
  MaxAttempts = 2
  MaxCrashes = 1
  MaxFailures = 1
  None = None
INVARIANT AgentsKeepWorktrees
INVARIANT NoRivals
PROPERTY ClosedStaysClosed
INVARIANT OneHandler
PROPERTY WorkIsTakenUp
PROPERTY SlotsAreGivenBack
PROPERTY ClosedIsPruned
CHECK_DEADLOCK FALSE
