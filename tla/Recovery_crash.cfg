SPECIFICATION Spec
CONSTANTS
  p1 = p1
  p2 = p2
  t1 = t1
  t2 = t2
  epic = epic
  Projects = {p1}
  Tasks = {t1, t2}
  ProjectOf <- OneProject
  Worktrees = {t1, t2}
  WorktreeOf <- OwnTrees
  ReviewAngles = FALSE
  Overlap = FALSE
  MaxAttempts = 2
  MaxCrashes = 1
  MaxFailures = 0
  None = None
SYMMETRY Symmetric
CHECK_DEADLOCK FALSE
\* Each is violated on its own.
INVARIANT PausedMergeKeepsWorktree
\* PROPERTY RecoverySparesAgents
