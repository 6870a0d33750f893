----------------------------- MODULE MCRecovery -----------------------------
(* Two tasks, of one project or of two, with worktrees of their own or the   *)
(* shared one of their epic.                                                 *)
EXTENDS Recovery, TLC

CONSTANTS p1, p2, t1, t2, epic

OneProject == [t \in {t1, t2} |-> p1]
OneTask == t1 :> p1
OneTree == t1 :> t1
TwoProjects == (t1 :> p1) @@ (t2 :> p2)
OwnTrees == (t1 :> t1) @@ (t2 :> t2)
EpicTree == [t \in {t1, t2} |-> epic]

Symmetric == Permutations({t1, t2})
=============================================================================
