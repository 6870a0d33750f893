SPECIFICATION Spec
CONSTANTS
  t1 = t1
  t2 = t2
  t3 = t3
  w1 = w1
  w2 = w2
  i1 = i1
  i2 = i2
  s1 = s1
  s2 = s2
  s3 = s3
  None = None
  Keys <- MCKeys
  Invocations <- MCInvocations
  Tasks <- EpicTasks
  WorktreeKey <- EpicWorktree
  SlotObjects <- TwoSlotObjects
  Requests <- NoRequests
  BaselineFailing = TRUE
  Remediation <- TwoTasks
  Exhausted <- OneTask
  MaxSlots = 2
  MaxStuck = 0
  MaxFailures = 1
CHECK_DEADLOCK FALSE
INVARIANTS
  AgentsHaveSlots
PROPERTIES
  ImplementsPool
