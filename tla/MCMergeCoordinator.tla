-------------------------- MODULE MCMergeCoordinator --------------------------
(* Two tasks and their jobs, and an update of the PRD.                       *)
EXTENDS MergeCoordinator, TLC
CONSTANTS t1, t2, b1, b2, pusher, prd
MCTasks == {t1, t2}
MCBranches == {b1, b2}
Once == [t \in MCTasks |-> 1]
OneAgain == (t1 :> 2) @@ (t2 :> 1)
Merges == UNION {{t} \X (1..MaxMerges[t]) : t \in MCTasks}
MCJobs == Merges \cup {<<prd, 1>>}
MCCallers == MCTasks \cup {pusher}
Own == (t1 :> b1) @@ (t2 :> b2)
Shared == (t1 :> b1) @@ (t2 :> b1)
OwnBranches == [j \in Merges |-> Own[j[1]]]
SharedBranch == [j \in Merges |-> Shared[j[1]]]
Apart == {<<b, b>> : b \in MCBranches}
\* opensprint/os-1.1 and opensprint/os-1.10.
Prefix == Apart \cup {<<b1, b2>>}
=============================================================================
