----------------------------- MODULE MCFeedback -----------------------------
(* A feedback and a reply to it, with tasks of others and room for new ones. *)
EXTENDS Feedback, TLC

CONSTANTS f1, f2, given, s1, s2

Reply == (f1 :> None) @@ (f2 :> f1)
Alone == f1 :> None
=============================================================================
