----------------------------- MODULE OutcomeJoin -----------------------------
(* What a join of concurrent phase outcomes promises, whatever it does to    *)
(* reach its decision: outcomes are collected until one decision is taken,   *)
(* the decision is taken only when every expected outcome has been reported, *)
(* it carries the latest test outcome, and it is final.                      *)
CONSTANTS Tests, Reviews, Keys, Expected, Missing

VARIABLES
  test,      \* the latest test outcome, or Missing
  reported,  \* the review keys that have reported
  decision   \* <<>>, or <<the decision>>

joinVars == <<test, reported, decision>>

complete(t, ks) == t # Missing /\ Expected \subseteq ks

Decisions(t) == {<<[test |-> t, review |-> v]>> : v \in Reviews}

Init ==
  /\ test = Missing
  /\ reported = {}
  /\ decision = <<>>

\* An outcome comes in; the one that completes the set may decide at once.
Report ==
  /\ decision = <<>>
  /\ \/ test' \in Tests /\ reported' = reported
     \/ test' = test /\ \E k \in Keys : reported' = reported \cup {k}
  /\ \/ decision' = <<>>
     \/ complete(test', reported') /\ decision' \in Decisions(test')

Decide ==
  /\ decision = <<>>
  /\ complete(test, reported)
  /\ decision' \in Decisions(test)
  /\ UNCHANGED <<test, reported>>

Next == Report \/ Decide

Spec == Init /\ [][Next]_joinVars
=============================================================================
