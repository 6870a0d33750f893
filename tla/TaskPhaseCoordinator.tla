------------------------ MODULE TaskPhaseCoordinator ------------------------
(* The join point of a task's review phase: packages/backend/src/services/   *)
(* task-phase-coordinator.ts.  Tests and reviewers run concurrently; the     *)
(* coordinator collects one test outcome and one outcome per expected review *)
(* key and then calls the resolution handler.  An operation runs to its      *)
(* first await in one step, as on the JavaScript event loop; what happens    *)
(* after an await (the synthesizer settling, the handler settling) is an     *)
(* action of its own, so that outcomes can arrive in between.                *)
EXTENDS Naturals, Sequences, FiniteSets

CONSTANTS
  Angles,          \* options.reviewAngles
  ReportedAngles,  \* the angle arguments callers pass, NoAngle for none
  IncludeGeneral,  \* options.includeGeneralReview
  HasSynthesizer,  \* options.synthesizeReviewResults is a function
  General,         \* DEFAULT_REVIEW_KEY
  NoAngle,         \* setReviewOutcome called without an angle
  Missing          \* no outcome yet (null, or no entry in the map)

TestStatus == {"passed", "failed", "error"}

\* A rejection is told apart by what isPendingValidationOnlyRejection can see of
\* it.  "pending": every text only mentions the pending validation.  "summary":
\* the finding is in the summary alone and names no file and no line.
\* "issues": the finding is in the issues, or names a file or a line.
Rejections == {"rejected_pending", "rejected_summary", "rejected_issues"}
NoVerdict == {"no_result", "error"}
ReviewStatus == {"approved"} \cup Rejections \cup NoVerdict

ASSUME CoordinatorAssumption ==
  /\ IncludeGeneral \in BOOLEAN
  /\ HasSynthesizer \in BOOLEAN
  /\ Missing \notin TestStatus \cup ReviewStatus
  /\ General \notin Angles \cup {NoAngle}
  /\ General \notin ReportedAngles
  /\ NoAngle \notin Angles

includeGeneral == IncludeGeneral /\ Angles # {}

expectedReviewKeys ==
  IF includeGeneral THEN Angles \cup {General}
  ELSE IF Angles # {} THEN Angles ELSE {General}

ReviewKeys == (Angles \cup ReportedAngles \cup {General}) \ {NoAngle}

useSynthesis == Cardinality(Angles) > 1 /\ ~includeGeneral /\ HasSynthesizer

resolveReviewKey(angle) ==
  IF angle # NoAngle THEN angle
  ELSE IF Cardinality(expectedReviewKeys) = 1
       THEN CHOOSE k \in expectedReviewKeys : TRUE
       ELSE General

-----------------------------------------------------------------------------
VARIABLES
  testOutcome,      \* the last test outcome accepted
  reviewOutcomes,   \* the last outcome accepted for each review key
  resolved,
  synthesizing,
  resolutionPromise,
  snapshot,         \* the outcomes the resolution in progress was started with
  calls             \* the calls of the resolution handler, oldest first

vars == <<testOutcome, reviewOutcomes, resolved, synthesizing,
          resolutionPromise, snapshot, calls>>

\* "none" is null.  "synthesizing", "merged", "synthesized" and "fallback" are
\* a pending promise, by what it waits for: the synthesizer, or the handler
\* called with the merged, the synthesized or the fallback outcome.
PromiseStates == {"none", "synthesizing", "merged", "synthesized", "fallback",
                  "fulfilled", "rejected"}

\* Mutant: one expected outcome is enough.
anyReported(r) == \E k \in expectedReviewKeys : r[k] # Missing

allReported(r) == \A k \in expectedReviewKeys : r[k] # Missing

\* getAggregatedReviewOutcome, for a complete map.  Summaries and issues of
\* the rejections are merged, so the merged text mentions the pending
\* validation as soon as one of them does, and only its issues can tell.
aggregated(r) ==
  LET given == {r[k] : k \in expectedReviewKeys}
  IN  IF given \cap NoVerdict # {} THEN "no_result"
      ELSE IF "rejected_issues" \in given THEN "rejected_issues"
      ELSE IF "rejected_pending" \in given THEN "rejected_pending"
      ELSE IF "rejected_summary" \in given THEN "rejected_summary"
      ELSE "approved"

\* Mutant: the review's verdict is looked at before the tests'.
reviewFirstDisposition(test, review) ==
  IF review \in {"approved", "rejected_pending"} THEN "merge"
  ELSE IF test # "passed" THEN "test_failure"
  ELSE IF review \in Rejections THEN "review_rejection"
  ELSE "no_result"

\* resolveTestAndReview: what the handler does with the two outcomes.
disposition(test, review) ==
  IF test # "passed" THEN "test_failure"
  ELSE IF review \in {"approved", "rejected_pending"} THEN "merge"
  ELSE IF review \in Rejections THEN "review_rejection"
  ELSE "no_result"

\* Mutant: the two arguments of the handler are swapped.
SwappedCall(test, review, by) ==
  [test |-> review, review |-> test, by |-> by]

Call(test, review, by) ==
  [test |-> test, review |-> review, by |-> by]

Init ==
  /\ testOutcome = Missing
  /\ reviewOutcomes = [k \in ReviewKeys |-> Missing]
  /\ resolved = FALSE
  /\ synthesizing = FALSE
  /\ resolutionPromise = "none"
  /\ snapshot = [k \in ReviewKeys |-> Missing]
  /\ calls = <<>>

\* tryResolve up to its first await, for the outcomes t and r just stored.
ready(t, r) ==
  /\ t # Missing
  /\ resolutionPromise = "none"
  /\ ~resolved /\ ~synthesizing
  /\ allReported(r)

needsSynthesis(r) == useSynthesis /\ aggregated(r) \notin NoVerdict

startSynthesis(r) ==
  /\ synthesizing' = TRUE
  /\ resolutionPromise' = "synthesizing"
  /\ snapshot' = r
  /\ UNCHANGED <<resolved, calls>>

resolveMerged(t, r) ==
  /\ resolved' = TRUE
  /\ resolutionPromise' = "merged"
  /\ snapshot' = r
  /\ calls' = Append(calls, Call(t, aggregated(r), "merge"))
  /\ UNCHANGED synthesizing

tryResolve(t, r) ==
  \/ /\ ~ready(t, r)
     /\ UNCHANGED <<resolved, synthesizing, resolutionPromise, snapshot, calls>>
  \/ /\ ready(t, r)
     /\ needsSynthesis(r)
     /\ startSynthesis(r)
  \/ /\ ready(t, r)
     /\ ~needsSynthesis(r)
     /\ resolveMerged(t, r)

\* Mutant: a test outcome that arrives once resolved is stored.
lateTestOutcome(outcome) ==
  /\ testOutcome' = outcome
  /\ UNCHANGED reviewOutcomes
  /\ tryResolve(outcome, reviewOutcomes)

\* Mutant: a review outcome is stored without trying to resolve.
storedReviewOutcome(outcome, angle) ==
  /\ ~resolved
  /\ reviewOutcomes' = [reviewOutcomes EXCEPT ![resolveReviewKey(angle)] = outcome]
  /\ UNCHANGED <<testOutcome, resolved, synthesizing, resolutionPromise, snapshot, calls>>

\* An outcome that arrives once resolved is dropped: a stuttering step.
setTestOutcome(outcome) ==
  /\ ~resolved
  /\ testOutcome' = outcome
  /\ UNCHANGED reviewOutcomes
  /\ tryResolve(outcome, reviewOutcomes)

setReviewOutcome(outcome, angle) ==
  /\ ~resolved
  /\ reviewOutcomes' = [reviewOutcomes EXCEPT ![resolveReviewKey(angle)] = outcome]
  /\ UNCHANGED testOutcome
  /\ tryResolve(testOutcome, reviewOutcomes')

\* The .then of the synthesizer's promise: the handler gets the test outcome
\* of now, the synthesizer's verdict, and the outcomes of then.
SynthesisSucceeds(verdict) ==
  /\ resolutionPromise = "synthesizing"
  /\ resolved' = TRUE
  /\ resolutionPromise' = "synthesized"
  /\ calls' = Append(calls, Call(testOutcome, verdict, "synthesis"))
  /\ UNCHANGED <<testOutcome, reviewOutcomes, synthesizing, snapshot>>

\* The .catch of the same promise: it covers the synthesizer, and the handler
\* the .then has called.
fallBack ==
  /\ resolved' = TRUE
  /\ resolutionPromise' = "fallback"
  /\ calls' = Append(calls, Call(testOutcome, aggregated(snapshot), "fallback"))
  /\ UNCHANGED <<testOutcome, reviewOutcomes, synthesizing, snapshot>>

SynthesisFails ==
  /\ resolutionPromise = "synthesizing"
  /\ fallBack

HandlerFulfils ==
  /\ resolutionPromise \in {"merged", "synthesized", "fallback"}
  /\ resolutionPromise' = "fulfilled"
  /\ UNCHANGED <<testOutcome, reviewOutcomes, resolved, synthesizing, snapshot, calls>>

\* Mutant: a handler called with the merged outcome is called again when it
\* rejects.
retriedHandlerRejects ==
  \/ /\ resolutionPromise \in {"merged", "synthesized"}
     /\ fallBack
  \/ /\ resolutionPromise = "fallback"
     /\ resolutionPromise' = "rejected"
     /\ UNCHANGED <<testOutcome, reviewOutcomes, resolved, synthesizing, snapshot, calls>>

HandlerRejects ==
  \/ /\ resolutionPromise = "merged"        \* caught and logged
     /\ resolutionPromise' = "fulfilled"
     /\ UNCHANGED <<testOutcome, reviewOutcomes, resolved, synthesizing, snapshot, calls>>
  \/ /\ resolutionPromise = "synthesized"
     /\ fallBack
  \/ /\ resolutionPromise = "fallback"      \* nothing catches the fallback
     /\ resolutionPromise' = "rejected"
     /\ UNCHANGED <<testOutcome, reviewOutcomes, resolved, synthesizing, snapshot, calls>>

Report ==
  \/ \E outcome \in TestStatus : setTestOutcome(outcome)
  \/ \E outcome \in ReviewStatus, angle \in ReportedAngles :
       setReviewOutcome(outcome, angle)

\* The production synthesizer answers approved, or rejected with a text of its
\* own; the text may carry over the pending-validation wording.
Synthesis ==
  \/ \E verdict \in {"approved"} \cup Rejections : SynthesisSucceeds(verdict)
  \/ SynthesisFails

Handler == HandlerFulfils \/ HandlerRejects

Next == Report \/ Synthesis \/ Handler

\* A model call and a handler both settle: the agent call has a time limit and
\* the handler awaits only local operations and such calls.
Fairness == WF_vars(Synthesis) /\ WF_vars(Handler)

Spec == Init /\ [][Next]_vars
FairSpec == Spec /\ Fairness
-----------------------------------------------------------------------------
(* What is checked of it.                                                    *)

\* Every variable has its type and the handler is called at most twice.
TypeOK ==
  /\ testOutcome \in TestStatus \cup {Missing}
  /\ reviewOutcomes \in [ReviewKeys -> ReviewStatus \cup {Missing}]
  /\ resolved \in BOOLEAN
  /\ synthesizing \in BOOLEAN
  /\ resolutionPromise \in PromiseStates
  /\ snapshot \in [ReviewKeys -> ReviewStatus \cup {Missing}]
  /\ calls \in Seq([test : TestStatus, review : ReviewStatus,
                    by : {"merge", "synthesis", "fallback"}])

\* The handler is called a second time only by the catch that follows the
\* synthesizer, after a call with the synthesized outcome; a resolution
\* without synthesis calls it once (task-phase-coordinator.ts 139-178).
SecondCallOnlyAfterSynthesis ==
  /\ Len(calls) <= 2
  /\ Len(calls) = 2 => calls[1].by = "synthesis" /\ calls[2].by = "fallback"

\* A reviewer that gave no verdict is never outvoted: the handler is told
\* no_result exactly when one of the outcomes the resolution started with is
\* no_result or error, and then no synthesizer ran (122-145).
NoResultNeverOverridden ==
  \A i \in DOMAIN calls :
    calls[i].review = "no_result"
      <=> \E k \in expectedReviewKeys : snapshot[k] \in NoVerdict

\* Outcomes that arrive late cannot change what was decided on: once the
\* handler has been called, the test outcome it was called with is the one the
\* coordinator holds, in every call (84-86, 94-97).
DecidedOutcomeIsFinal ==
  \A i \in DOMAIN calls : calls[i].test = testOutcome

\* A task is merged by this join only when its tests passed, and, unless the
\* lead synthesizer decided, only when every expected reviewer gave a verdict
\* and none listed an issue (resolveTestAndReview, 3042-3176).
MergeIsEarned ==
  \A i \in DOMAIN calls :
    disposition(calls[i].test, calls[i].review) = "merge" =>
      /\ testOutcome = "passed"
      /\ calls[i].by # "synthesis" =>
           \A k \in expectedReviewKeys :
             snapshot[k] \notin NoVerdict \cup {"rejected_issues", Missing}

\* Once all outcomes are in, the handler is called and settles, in whichever
\* order the outcomes arrived and whatever arrives meanwhile.
CompleteJoinSettles ==
  (testOutcome # Missing /\ allReported(reviewOutcomes))
    ~> resolutionPromise \in {"fulfilled", "rejected"}

\* The coordinator is a once-only join, the first handler call being the
\* decision.
Join == INSTANCE OutcomeJoin WITH
  Tests <- TestStatus, Reviews <- ReviewStatus, Keys <- ReviewKeys,
  Expected <- expectedReviewKeys,
  test <- testOutcome,
  reported <- {k \in ReviewKeys : reviewOutcomes[k] # Missing},
  decision <- IF calls = <<>> THEN <<>>
              ELSE <<[test |-> calls[1].test, review |-> calls[1].review]>>

ImplementsJoin == Join!Spec

\* task-phase-coordinator.ts:5 says of the class that it "calls a single
\* resolution handler when both are complete", and its test
\* "resolves only once even if outcomes are set multiple times".
ResolvesOnlyOnce == Len(calls) <= 1

\* task-phase-coordinator.test.ts:72, "does not throw when resolve rejects":
\* the promise every caller of setTestOutcome and setReviewOutcome awaits does
\* not reject.
DoesNotThrow == resolutionPromise # "rejected"

\* orchestrator.service.ts:2405, "Do not treat concrete code findings as
\* pending-only": a reviewer's finding is not dropped by being merged with
\* another reviewer's remark about pending validation.
FindingsBlockMerge ==
  \A i \in DOMAIN calls :
    /\ calls[i].by # "synthesis"
    /\ \E k \in expectedReviewKeys :
         snapshot[k] \in {"rejected_summary", "rejected_issues"}
    => disposition(calls[i].test, calls[i].review) # "merge"
=============================================================================
