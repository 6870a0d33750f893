------------------------ MODULE MCOrchestratorLoop ------------------------
(* Two tasks with a worktree each, and three of which two share an epic's.   *)
EXTENDS OrchestratorLoop, TLC
CONSTANTS t1, t2, t3, w1, w2, i1, i2, s1, s2, s3
MCTasks == {t1, t2}
MCKeys == {w1, w2}
OwnWorktrees == (t1 :> w1) @@ (t2 :> w2)
EpicTasks == {t1, t2, t3}
EpicWorktree == (t1 :> w1) @@ (t2 :> w1) @@ (t3 :> w2)
MCInvocations == {i1, i2}
TwoSlotObjects == {s1, s2}
NoRequests == {}
Nobody == {}
OneTask == {t1}
TwoTasks == {t1, t3}
KillsAndDones == {"kill", "done"}
Deletes == {"delete"}
=============================================================================
