-------------------- MODULE TaskPhaseCoordinator_proofs --------------------
(* Proofs about TaskPhaseCoordinator, for every set of review angles.        *)
EXTENDS TaskPhaseCoordinator, TLAPS

CallRecords == [test : TestStatus, review : ReviewStatus,
                by : {"merge", "synthesis", "fallback"}]

\* How far the resolution has come determines the calls that were made.
CallsMatchPromise ==
  /\ resolutionPromise = "none" => ~resolved /\ ~synthesizing /\ Len(calls) = 0
  /\ resolutionPromise = "synthesizing" => ~resolved /\ synthesizing /\ Len(calls) = 0
  /\ resolutionPromise \notin {"none", "synthesizing"} => resolved /\ Len(calls) \in 1..2
  /\ resolutionPromise = "merged" => Len(calls) = 1
  /\ resolutionPromise = "synthesized" => Len(calls) = 1 /\ calls[1].by = "synthesis"

\* What each call was made with.
CallsAreJustified ==
  /\ resolutionPromise # "none" =>
       testOutcome # Missing /\ allReported(snapshot) /\ allReported(reviewOutcomes)
  /\ synthesizing => aggregated(snapshot) \notin NoVerdict
  /\ \A i \in DOMAIN calls :
       /\ calls[i].test = testOutcome
       /\ calls[i].by = "synthesis" => synthesizing /\ calls[i].review \notin NoVerdict
       /\ calls[i].by # "synthesis" => calls[i].review = aggregated(snapshot)

Inv ==
  /\ TypeOK
  /\ CallsMatchPromise
  /\ SecondCallOnlyAfterSynthesis
  /\ CallsAreJustified

-----------------------------------------------------------------------------
\* The merged outcome of a complete set of outcomes is no_result exactly when
\* one of them is no verdict, and otherwise a verdict.
LEMMA AggregatedNoResult ==
  ASSUME NEW r \in [ReviewKeys -> ReviewStatus \cup {Missing}]
  PROVE  /\ aggregated(r) = "no_result"
              <=> \E k \in expectedReviewKeys : r[k] \in NoVerdict
         /\ aggregated(r) \in ReviewStatus \ {"error"}
BY DEF aggregated, NoVerdict, ReviewStatus, Rejections

\* Every key a decision waits for is a key of the map.
LEMMA ExpectedAreReviewKeys == expectedReviewKeys \subseteq ReviewKeys
BY CoordinatorAssumption DEF expectedReviewKeys, includeGeneral, ReviewKeys

\* Every angle a caller passes is filed under a key of the map.
LEMMA KeyIsReviewKey ==
  ASSUME NEW angle \in ReportedAngles
  PROVE  resolveReviewKey(angle) \in ReviewKeys
<1>1. expectedReviewKeys # {} /\ expectedReviewKeys \subseteq ReviewKeys
  BY CoordinatorAssumption DEF expectedReviewKeys, includeGeneral, ReviewKeys
<1>2. (CHOOSE k \in expectedReviewKeys : TRUE) \in expectedReviewKeys
  BY <1>1
<1> QED  BY <1>1, <1>2, CoordinatorAssumption DEF resolveReviewKey, ReviewKeys

LEMMA InitInv == Init => Inv
<1> SUFFICES ASSUME Init PROVE Inv
  OBVIOUS
<1>0. <<>> \in Seq(CallRecords)
  OBVIOUS
<1>1. TypeOK
  BY <1>0 DEF Init, TypeOK, PromiseStates, CallRecords
<1>2. CallsMatchPromise /\ SecondCallOnlyAfterSynthesis /\ CallsAreJustified
  BY DEF Init, CallsMatchPromise, SecondCallOnlyAfterSynthesis, CallsAreJustified
<1> QED  BY <1>1, <1>2 DEF Inv

\* Appending a call to at most one call leaves the first one as it was.
LEMMA AppendCall ==
  ASSUME NEW cs \in Seq(CallRecords), NEW c \in CallRecords, Len(cs) <= 1
  PROVE  /\ Append(cs, c) \in Seq(CallRecords)
         /\ Len(Append(cs, c)) = Len(cs) + 1
         /\ DOMAIN Append(cs, c) = 1..(Len(cs) + 1)
         /\ Append(cs, c)[Len(cs) + 1] = c
         /\ \A i \in DOMAIN cs : Append(cs, c)[i] = cs[i]
OBVIOUS

\* tryResolve keeps the invariant, whichever outcome has just been stored.
LEMMA TryResolveInv ==
  ASSUME Inv, ~resolved,
         testOutcome' \in TestStatus \cup {Missing},
         reviewOutcomes' \in [ReviewKeys -> ReviewStatus \cup {Missing}],
         testOutcome # Missing => testOutcome' # Missing,
         allReported(reviewOutcomes) => allReported(reviewOutcomes'),
         tryResolve(testOutcome', reviewOutcomes')
  PROVE  Inv'
<1> USE DEF Inv
<1>0. Len(calls) = 0 /\ DOMAIN calls = {} /\ calls \in Seq(CallRecords)
  BY DEF CallsMatchPromise, TypeOK, CallRecords
<1>1. CASE UNCHANGED <<resolved, synthesizing, resolutionPromise, snapshot, calls>>
  BY <1>0, <1>1 DEF TypeOK, CallsMatchPromise, SecondCallOnlyAfterSynthesis,
     CallsAreJustified, allReported, aggregated
<1>2. CASE ready(testOutcome', reviewOutcomes') /\ needsSynthesis(reviewOutcomes')
           /\ startSynthesis(reviewOutcomes')
  BY <1>0, <1>2 DEF TypeOK, CallsMatchPromise, SecondCallOnlyAfterSynthesis,
     CallsAreJustified, allReported, aggregated, startSynthesis, ready,
     needsSynthesis, PromiseStates
<1>3. CASE ready(testOutcome', reviewOutcomes') /\ resolveMerged(testOutcome', reviewOutcomes')
  <2> DEFINE c == Call(testOutcome', aggregated(reviewOutcomes'), "merge")
  <2>1. c \in CallRecords /\ c.test = testOutcome' /\ c.by = "merge"
        /\ c.review = aggregated(reviewOutcomes')
    BY <1>3, AggregatedNoResult DEF ready, Call, CallRecords
  <2>2. /\ calls' \in Seq(CallRecords) /\ Len(calls') = 1
        /\ DOMAIN calls' = {1} /\ calls'[1] = c
    BY <1>0, <1>3, <2>1, AppendCall DEF resolveMerged
  <2> HIDE DEF c
  <2>3. TypeOK'
    BY <1>3, <2>2 DEF TypeOK, resolveMerged, CallRecords, PromiseStates
  <2>4. CallsMatchPromise' /\ SecondCallOnlyAfterSynthesis'
    BY <1>3, <2>2 DEF resolveMerged, CallsMatchPromise, SecondCallOnlyAfterSynthesis
  <2>5. ~synthesizing'
    BY <1>3 DEF resolveMerged, ready
  <2>6. CallsAreJustified'
    BY <1>3, <2>1, <2>2, <2>5 DEF resolveMerged, ready, CallsAreJustified,
       allReported, aggregated
  <2> QED  BY <2>3, <2>4, <2>6
<1> QED  BY <1>1, <1>2, <1>3 DEF tryResolve

\* The .catch that follows the synthesizer keeps the invariant: its call is
\* the first one, or the second after the one with the synthesized outcome.
LEMMA FallBackInv ==
  ASSUME Inv, resolutionPromise \in {"synthesizing", "synthesized"}, fallBack
  PROVE  Inv'
<1> USE DEF Inv
<1> DEFINE c == Call(testOutcome, aggregated(snapshot), "fallback")
<1>0. /\ calls \in Seq(CallRecords) /\ Len(calls) \in {0, 1}
      /\ testOutcome \in TestStatus /\ synthesizing
      /\ Len(calls) = 1 => calls[1].by = "synthesis"
  <2>1. resolutionPromise = "synthesized" => synthesizing
    BY DEF CallsMatchPromise, CallsAreJustified, TypeOK
  <2> QED  BY <2>1 DEF TypeOK, CallRecords, CallsMatchPromise, CallsAreJustified
<1>1. c \in CallRecords /\ c.test = testOutcome /\ c.by = "fallback"
      /\ c.review = aggregated(snapshot)
  BY <1>0, AggregatedNoResult DEF Call, CallRecords, TypeOK
<1>2. /\ calls' \in Seq(CallRecords) /\ Len(calls') = Len(calls) + 1
      /\ DOMAIN calls' = 1..(Len(calls) + 1) /\ calls'[Len(calls) + 1] = c
      /\ \A i \in DOMAIN calls : calls'[i] = calls[i]
  BY <1>0, <1>1, AppendCall DEF fallBack
<1> HIDE DEF c
<1>3. TypeOK'
  BY <1>2 DEF TypeOK, fallBack, CallRecords, PromiseStates
<1>4. CallsMatchPromise'
  BY <1>0, <1>2 DEF fallBack, CallsMatchPromise
<1>5. SecondCallOnlyAfterSynthesis'
  <2>1. CASE Len(calls) = 0
    BY <2>1, <1>2 DEF SecondCallOnlyAfterSynthesis
  <2>2. CASE Len(calls) = 1
    <3>1. 1 \in DOMAIN calls /\ Len(calls') = 2 /\ calls'[2] = c
      BY <1>0, <1>2, <2>2
    <3>2. calls'[1].by = "synthesis"
      BY <1>0, <1>2, <2>2, <3>1
    <3> QED  BY <1>1, <3>1, <3>2 DEF SecondCallOnlyAfterSynthesis
  <2> QED  BY <1>0, <2>1, <2>2
<1>6. CallsAreJustified'
  <2>1. \A i \in DOMAIN calls' : i \in DOMAIN calls \/ i = Len(calls) + 1
    BY <1>0, <1>2
  <2> QED  BY <1>0, <1>1, <1>2, <2>1 DEF fallBack, CallsAreJustified, allReported, aggregated
<1> QED  BY <1>3, <1>4, <1>5, <1>6

LEMMA StepInv == Inv /\ [Next]_vars => Inv'
<1> SUFFICES ASSUME Inv, [Next]_vars PROVE Inv'
  OBVIOUS
<1>1. ASSUME NEW outcome \in TestStatus, setTestOutcome(outcome)
      PROVE  Inv'
  BY <1>1, TryResolveInv, CoordinatorAssumption DEF setTestOutcome, Inv, TypeOK, allReported
<1>2. ASSUME NEW outcome \in ReviewStatus, NEW angle \in ReportedAngles,
             setReviewOutcome(outcome, angle)
      PROVE  Inv'
  <2>1. reviewOutcomes' \in [ReviewKeys -> ReviewStatus \cup {Missing}]
    BY <1>2, KeyIsReviewKey DEF setReviewOutcome, Inv, TypeOK
  <2>2. allReported(reviewOutcomes) => allReported(reviewOutcomes')
    BY <1>2, KeyIsReviewKey, ExpectedAreReviewKeys, CoordinatorAssumption
       DEF setReviewOutcome, allReported, Inv, TypeOK
  <2> QED  BY <1>2, <2>1, <2>2, TryResolveInv DEF setReviewOutcome, Inv, TypeOK
<1>3. ASSUME NEW verdict \in {"approved"} \cup Rejections, SynthesisSucceeds(verdict)
      PROVE  Inv'
  <2> USE DEF Inv
  <2> DEFINE c == Call(testOutcome, verdict, "synthesis")
  <2>0. Len(calls) = 0 /\ DOMAIN calls = {} /\ calls \in Seq(CallRecords)
        /\ testOutcome \in TestStatus /\ synthesizing
    BY <1>3 DEF SynthesisSucceeds, CallsMatchPromise, CallsAreJustified, TypeOK, CallRecords
  <2>1. c \in CallRecords /\ c.test = testOutcome /\ c.by = "synthesis"
        /\ c.review \notin NoVerdict
    BY <2>0 DEF Call, CallRecords, ReviewStatus, Rejections, NoVerdict
  <2>2. calls' \in Seq(CallRecords) /\ Len(calls') = 1 /\ DOMAIN calls' = {1} /\ calls'[1] = c
    BY <1>3, <2>0, <2>1, AppendCall DEF SynthesisSucceeds
  <2> HIDE DEF c
  <2>3. TypeOK'
    BY <1>3, <2>2 DEF TypeOK, SynthesisSucceeds, CallRecords, PromiseStates
  <2>4. CallsMatchPromise' /\ SecondCallOnlyAfterSynthesis'
    BY <1>3, <2>1, <2>2 DEF SynthesisSucceeds, CallsMatchPromise, SecondCallOnlyAfterSynthesis
  <2>5. CallsAreJustified'
    BY <1>3, <2>0, <2>1, <2>2 DEF SynthesisSucceeds, CallsAreJustified, allReported, aggregated
  <2> QED  BY <2>3, <2>4, <2>5
<1>4. CASE SynthesisFails
  BY <1>4, FallBackInv DEF SynthesisFails
<1>5. CASE HandlerFulfils
  BY <1>5 DEF HandlerFulfils, Inv, TypeOK, CallsMatchPromise, SecondCallOnlyAfterSynthesis,
     CallsAreJustified, allReported, aggregated, PromiseStates
<1>6. CASE HandlerRejects
  <2>1. CASE resolutionPromise = "synthesized" /\ fallBack
    BY <2>1, FallBackInv
  <2>2. CASE /\ resolutionPromise \in {"merged", "fallback"}
             /\ resolutionPromise' \in {"fulfilled", "rejected"}
             /\ UNCHANGED <<testOutcome, reviewOutcomes, resolved, synthesizing, snapshot, calls>>
    BY <2>2 DEF Inv, TypeOK, CallsMatchPromise, SecondCallOnlyAfterSynthesis,
       CallsAreJustified, allReported, aggregated, PromiseStates
  <2> QED  BY <1>6, <2>1, <2>2 DEF HandlerRejects
<1>7. CASE UNCHANGED vars
  BY <1>7 DEF vars, Inv, TypeOK, CallsMatchPromise, SecondCallOnlyAfterSynthesis,
     CallsAreJustified, allReported, aggregated
<1> QED  BY <1>1, <1>2, <1>3, <1>4, <1>5, <1>6, <1>7
        DEF Next, Report, Synthesis, Handler

THEOREM Invariance == Spec => []Inv
BY InitInv, StepInv, PTL DEF Spec

\* Type correctness of every behaviour.
THEOREM TypeCorrect == Spec => []TypeOK
<1>1. Inv => TypeOK
  BY DEF Inv
<1> QED  BY Invariance, <1>1, PTL

\* The handler of a join without synthesis is called once, and a second call
\* can only be the synthesizer's fallback.
THEOREM SecondCallSafe == Spec => []SecondCallOnlyAfterSynthesis
<1>1. Inv => SecondCallOnlyAfterSynthesis
  BY DEF Inv
<1> QED  BY Invariance, <1>1, PTL

\* No reviewer without a verdict is outvoted, by merging or by synthesis.
THEOREM NoResultSafe == Spec => []NoResultNeverOverridden
<1>1. ASSUME Inv PROVE NoResultNeverOverridden
  <2>1. /\ aggregated(snapshot) = "no_result"
            <=> \E k \in expectedReviewKeys : snapshot[k] \in NoVerdict
        /\ aggregated(snapshot) \in ReviewStatus \ {"error"}
    BY <1>1, AggregatedNoResult DEF Inv, TypeOK
  <2>2. \A i \in DOMAIN calls : calls[i].review = "no_result" <=> aggregated(snapshot) = "no_result"
    BY <1>1, <2>1 DEF Inv, CallsAreJustified, NoVerdict
  <2> QED  BY <2>1, <2>2 DEF NoResultNeverOverridden
<1> QED  BY Invariance, <1>1, PTL

\* No outcome reported late changes what a decision was taken on.
THEOREM DecisionSafe == Spec => []DecidedOutcomeIsFinal
<1>1. Inv => DecidedOutcomeIsFinal
  BY DEF Inv, CallsAreJustified, DecidedOutcomeIsFinal
<1> QED  BY Invariance, <1>1, PTL

\* A merge that no synthesizer decided has passed tests and no reviewer
\* without a verdict or with a listed issue.
THEOREM MergeSafe == Spec => []MergeIsEarned
<1>1. ASSUME Inv, NEW i \in DOMAIN calls,
             disposition(calls[i].test, calls[i].review) = "merge"
      PROVE  /\ testOutcome = "passed"
             /\ calls[i].by # "synthesis" =>
                  \A k \in expectedReviewKeys :
                    snapshot[k] \notin NoVerdict \cup {"rejected_issues", Missing}
  <2>1. calls[i].test = testOutcome /\ testOutcome = "passed"
        /\ calls[i].review \in {"approved", "rejected_pending"}
    BY <1>1 DEF disposition, Inv, CallsAreJustified
  <2>2. calls[i].by # "synthesis" => aggregated(snapshot) \in {"approved", "rejected_pending"}
    BY <1>1, <2>1 DEF Inv, CallsAreJustified
  <2>3. allReported(snapshot)
    BY <1>1 DEF Inv, CallsMatchPromise, CallsAreJustified
  <2>4. ASSUME aggregated(snapshot) \in {"approved", "rejected_pending"},
               NEW k \in expectedReviewKeys
        PROVE  snapshot[k] \notin NoVerdict \cup {"rejected_issues", Missing}
    BY <2>3, <2>4 DEF aggregated, allReported
  <2> QED  BY <2>1, <2>2, <2>4
<1>2. Inv => MergeIsEarned
  BY <1>1 DEF MergeIsEarned
<1> QED  BY Invariance, <1>2, PTL

-----------------------------------------------------------------------------
(* The coordinator implements the once-only join.                            *)

firstCall == IF calls = <<>> THEN <<>>
             ELSE <<[test |-> calls[1].test, review |-> calls[1].review]>>

reportedKeys == {k \in ReviewKeys : reviewOutcomes[k] # Missing}

\* tryResolve, with the outcome just stored, is the join's Report.
LEMMA TryResolveDecides ==
  ASSUME Inv, Inv', ~resolved, tryResolve(testOutcome', reviewOutcomes')
  PROVE  /\ firstCall = <<>>
         /\ \/ firstCall' = <<>>
            \/ /\ Join!complete(testOutcome', reportedKeys')
               /\ firstCall' \in Join!Decisions(testOutcome')
<1>1. Len(calls) = 0 /\ calls \in Seq(CallRecords)
  BY DEF Inv, CallsMatchPromise, TypeOK, CallRecords
<1>2. calls = <<>> /\ firstCall = <<>>
  BY <1>1 DEF firstCall
<1>3. CASE UNCHANGED calls
  BY <1>2, <1>3 DEF firstCall
<1>4. CASE /\ ready(testOutcome', reviewOutcomes')
           /\ resolveMerged(testOutcome', reviewOutcomes')
  <2> DEFINE v == aggregated(reviewOutcomes')
  <2>1. v \in ReviewStatus
    BY AggregatedNoResult DEF Inv, TypeOK
  <2>2. calls' = <<Call(testOutcome', v, "merge")>>
    BY <1>2, <1>4 DEF resolveMerged
  <2>3. calls' # <<>> /\ calls'[1].test = testOutcome' /\ calls'[1].review = v
    BY <2>2 DEF Call
  <2>4. firstCall' = <<[test |-> testOutcome', review |-> v]>>
    BY <2>3 DEF firstCall
  <2>5. firstCall' \in Join!Decisions(testOutcome')
    BY <2>1, <2>4 DEF Join!Decisions
  <2>6. Join!complete(testOutcome', reportedKeys')
    BY <1>4, ExpectedAreReviewKeys DEF ready, allReported, Join!complete, reportedKeys
  <2> QED  BY <1>2, <2>5, <2>6
<1> QED  BY <1>2, <1>3, <1>4 DEF tryResolve, startSynthesis

\* The .then and the .catch after the synthesizer are the join's Decide, or a
\* stutter when the first call has been made.
LEMMA SettleDecides ==
  ASSUME Inv, NEW v \in ReviewStatus, NEW by,
         resolutionPromise \in {"synthesizing", "synthesized"},
         calls' = Append(calls, Call(testOutcome, v, by)),
         UNCHANGED <<testOutcome, reviewOutcomes>>
  PROVE  Join!Decide \/ UNCHANGED Join!joinVars
<1>0. UNCHANGED reportedKeys /\ Join!complete(testOutcome, reportedKeys)
  BY ExpectedAreReviewKeys DEF Inv, CallsAreJustified, allReported, Join!complete, reportedKeys
<1>1. calls \in Seq(CallRecords) /\ Len(calls) \in {0, 1}
  BY DEF Inv, CallsMatchPromise, TypeOK, CallRecords
<1>2. CASE Len(calls) = 0
  <2>1. calls = <<>> /\ calls' = <<Call(testOutcome, v, by)>>
    BY <1>1, <1>2
  <2>2. firstCall = <<>> /\ firstCall' = <<[test |-> testOutcome, review |-> v]>>
    BY <2>1 DEF firstCall, Call
  <2>3. firstCall' \in Join!Decisions(testOutcome)
    BY <2>2 DEF Join!Decisions
  <2> QED  BY <1>0, <2>2, <2>3 DEF Join!Decide, firstCall, reportedKeys
<1>3. CASE Len(calls) = 1
  <2>1. calls # <<>> /\ calls' # <<>> /\ calls'[1] = calls[1]
    BY <1>1, <1>3
  <2>2. UNCHANGED <<testOutcome, reportedKeys, firstCall>>
    BY <1>0, <2>1 DEF firstCall
  <2> QED  BY <2>2 DEF Join!joinVars, firstCall, reportedKeys
<1> QED  BY <1>1, <1>2, <1>3

LEMMA InitJoin == Init => Join!Init
<1> SUFFICES ASSUME Init PROVE Join!Init
  OBVIOUS
<1>1. testOutcome = Missing /\ firstCall = <<>> /\ reportedKeys = {}
  BY DEF Init, firstCall, reportedKeys
<1> QED  BY <1>1 DEF Join!Init, firstCall, reportedKeys

LEMMA StepJoin == Inv /\ Inv' /\ [Next]_vars => [Join!Next]_Join!joinVars
<1> SUFFICES ASSUME Inv, Inv', [Next]_vars PROVE [Join!Next]_Join!joinVars
  OBVIOUS
<1>1. ASSUME NEW outcome \in TestStatus, setTestOutcome(outcome)
      PROVE  Join!Next
  <2>1. /\ firstCall = <<>>
        /\ \/ firstCall' = <<>>
           \/ /\ Join!complete(testOutcome', reportedKeys')
              /\ firstCall' \in Join!Decisions(testOutcome')
    BY <1>1, TryResolveDecides DEF setTestOutcome
  <2>2. testOutcome' \in TestStatus /\ reportedKeys' = reportedKeys
    BY <1>1 DEF setTestOutcome, reportedKeys
  <2>3. Join!Report
    BY <2>1, <2>2 DEF Join!Report, firstCall, reportedKeys
  <2> QED  BY <2>3 DEF Join!Next
<1>2. ASSUME NEW outcome \in ReviewStatus, NEW angle \in ReportedAngles,
             setReviewOutcome(outcome, angle)
      PROVE  Join!Next
  <2> DEFINE k == resolveReviewKey(angle)
  <2>1. /\ firstCall = <<>>
        /\ \/ firstCall' = <<>>
           \/ /\ Join!complete(testOutcome', reportedKeys')
              /\ firstCall' \in Join!Decisions(testOutcome')
    BY <1>2, TryResolveDecides DEF setReviewOutcome
  <2>2. k \in ReviewKeys
    BY KeyIsReviewKey
  <2>3. testOutcome' = testOutcome /\ reviewOutcomes' = [reviewOutcomes EXCEPT ![k] = outcome]
    BY <1>2 DEF setReviewOutcome
  <2> HIDE DEF k
  <2>4. reportedKeys' = reportedKeys \cup {k}
    BY <2>2, <2>3, CoordinatorAssumption DEF reportedKeys, Inv, TypeOK
  <2>5. Join!Report
    BY <2>1, <2>2, <2>3, <2>4 DEF Join!Report, firstCall, reportedKeys
  <2> QED  BY <2>5 DEF Join!Next
<1>3. ASSUME NEW verdict \in {"approved"} \cup Rejections, SynthesisSucceeds(verdict)
      PROVE  [Join!Next]_Join!joinVars
  BY <1>3, SettleDecides DEF SynthesisSucceeds, ReviewStatus, Join!Next
<1>4. ASSUME fallBack, resolutionPromise \in {"synthesizing", "synthesized"}
      PROVE  [Join!Next]_Join!joinVars
  <2>1. aggregated(snapshot) \in ReviewStatus
    BY AggregatedNoResult DEF Inv, TypeOK
  <2> QED  BY <1>4, <2>1, SettleDecides DEF fallBack, Join!Next
<1>5. CASE UNCHANGED <<testOutcome, reviewOutcomes, calls>>
  <2>1. UNCHANGED <<testOutcome, reportedKeys, firstCall>>
    BY <1>5 DEF reportedKeys, firstCall
  <2> QED  BY <2>1 DEF Join!joinVars, reportedKeys, firstCall
<1> QED  BY <1>1, <1>2, <1>3, <1>4, <1>5 DEF Next, Report, Synthesis, Handler,
         SynthesisFails, HandlerFulfils, HandlerRejects, vars

\* Every behaviour of the coordinator is one of the once-only join.
THEOREM Refinement == Spec => ImplementsJoin
<1>1. Spec => []Inv
  BY Invariance
<1> QED  BY <1>1, InitJoin, StepJoin, PTL DEF Spec, ImplementsJoin, Join!Spec
=============================================================================
