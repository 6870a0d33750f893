SPECIFICATION Spec
CONSTANTS
  p1 = p1
  p2 = p2
  t1 = t1
  t2 = t2
  epic = epic
  Projects = {p1, p2}
  Tasks = {t1, t2}
  ProjectOf <- TwoProjects
  Worktrees = {t1, t2}
  WorktreeOf <- OwnTrees
  ReviewAngles = FALSE
  Overlap = FALSE
  MaxAttempts = 1
  MaxCrashes = 1
  MaxFailures = 0
  None = None
INVARIANT AgentsKeepWorktrees
CHECK_DEADLOCK FALSE
