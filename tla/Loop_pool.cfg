SPECIFICATION Spec
CONSTANTS
  t1 = t1
  t2 = t2
  t3 = t3
  w1 = w1
  w2 = w2
  i1 = i1
  i2 = i2
  s1 = s1
  s2 = s2
  s3 = s3
  None = None
  Keys <- MCKeys
  Invocations <- MCInvocations
  Tasks <- MCTasks
  WorktreeKey <- OwnWorktrees
  SlotObjects <- TwoSlotObjects
  Requests <- Deletes
  BaselineFailing = FALSE
  Remediation <- Nobody
  Exhausted <- Nobody
  MaxSlots = 1
  MaxStuck = 0
  MaxFailures = 0
CHECK_DEADLOCK FALSE
INVARIANTS
  TypeOK
  SlotIsWorkedOn
