SPECIFICATION Spec
CONSTANTS
  p1 = p1
  p2 = p2
  t1 = t1
  t2 = t2
  epic = epic
  Projects = {p1}
  Tasks = {t1, t2}
  ProjectOf <- OneProject
  Worktrees = {epic}
  WorktreeOf <- EpicTree
  ReviewAngles = FALSE
  Overlap = FALSE
  MaxAttempts = 1
  MaxCrashes = 0
  MaxFailures = 0
  None = None
SYMMETRY Symmetric
INVARIANT AgentsKeepWorktrees
CHECK_DEADLOCK FALSE
