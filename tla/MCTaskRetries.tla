--------------------------- MODULE MCTaskRetries ---------------------------
(* The thresholds of the code, for the ways runs fail and users interfere.   *)
EXTENDS TaskRetries
AnyPriority == 0..4
Lowest == {3, 4}
TaskFailures == {"coding", "setup", "merge", "mergeSetup"}
NoInfra == FailureKinds \ {"infra"}
AllFailures == FailureKinds
AllRequests == {"done", "kill", "unblock", "reset", "priority"}
Stops == {"done", "kill"}
Edits == {"unblock", "reset", "priority"}
Unblocks == {"unblock", "priority"}
=============================================================================
