----------------------------- MODULE SerialQueue -----------------------------
(* What a queue with a single worker promises its callers: jobs settle one   *)
(* at a time, in the order they were submitted, each of them once.           *)
EXTENDS Sequences

CONSTANTS Jobs

VARIABLES
  pending,  \* the jobs that have not settled, in the order of their submission
  promise   \* what the submitter of each job has been told

serialVars == <<pending, promise>>

Init ==
  /\ pending = <<>>
  /\ promise = [j \in Jobs |-> "none"]

Submit(j) ==
  /\ promise[j] = "none"
  /\ pending' = Append(pending, j)
  /\ promise' = [promise EXCEPT ![j] = "queued"]

Settle(verdict) ==
  /\ pending # <<>>
  /\ pending' = Tail(pending)
  /\ promise' = [promise EXCEPT ![Head(pending)] = verdict]

Next ==
  \/ \E j \in Jobs : Submit(j)
  \/ \E verdict \in {"resolved", "rejected"} : Settle(verdict)

Spec == Init /\ [][Next]_serialVars
=============================================================================
