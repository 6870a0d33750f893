----------------------- MODULE OrchestratorLoop_proofs -----------------------
(* Proofs about OrchestratorLoop, for any tasks, worktrees, slots, users'    *)
(* requests, invocations, overrun guards and failures.                       *)
EXTENDS OrchestratorLoop, FiniteSetTheorems, SequenceTheorems, TLAPS

-----------------------------------------------------------------------------
(* The types of a loop record and of an invocation's locals; an invocation   *)
(* in executeCodingPhase has created its slot.                               *)
LoopRec == [active : BOOLEAN, run : Invocations \cup {None},
            guard : Invocations \cup {None}, timer : BOOLEAN]

PassRec == [at : Working \cup {"idle", "closing"}, ready : SUBSET Tasks,
            available : 0..MaxSlots, batch : Seq(Tasks), slot : SlotObjects \cup {None}]

LoopTyped(l, p) ==
  /\ l \in LoopRec
  /\ p \in [Invocations -> PassRec]
  /\ \A r \in Invocations :
       /\ p[r].at \in Dispatching => p[r].batch # <<>>
       /\ p[r].at = "preparing" => p[r].slot \in SlotObjects

\* LoopHeldByItsRun of the loop record l and the invocations p.
Held(l, p) ==
  /\ l.active <=> (l.run # None /\ p[l.run].at \in Working)
  /\ l.timer => ~l.active

Good(l, p) == LoopTyped(l, p) /\ Held(l, p)

RestTyped ==
  /\ feedbackCheck \in BOOLEAN /\ feedback \in BOOLEAN
  /\ status \in [Tasks -> TaskStatus]
  /\ slots \in [Tasks -> SlotObjects \cup {None}]
  /\ agents \subseteq Tasks \X SlotObjects
  /\ retrying \subseteq Tasks \X SlotObjects
  /\ outcome \in [Tasks -> {"none", "deciding", "branchInUse", "merging", "releasing"}]
  /\ stopping \subseteq Tasks \X Requests
  /\ ending \subseteq Tasks \X (Requests \cup {"block"})
  /\ stuckLeft \in 0..MaxStuck /\ failuresLeft \in 0..MaxFailures

Inv == Good(loop, pass) /\ RestTyped

LEMMA InvMeaning == Inv => TypeOK /\ LoopHeldByItsRun
BY DEF Inv, Good, LoopTyped, LoopRec, PassRec, Held, RestTyped, TypeOK, LoopHeldByItsRun, atWork

LEMMA NoPassTyped ==
  /\ NoPass \in PassRec /\ NoPass.at = "idle" /\ "idle" \notin Working
  /\ \A x \in PassRec : x.at = "idle" => x.at \notin Dispatching
BY LoopAssumption DEF NoPass, PassRec, Working, Selecting, Dispatching

\* The locals the invocations are given.
LEMMA FreshPasses ==
  /\ [NoPass EXCEPT !.at = "claiming"] \in PassRec
  /\ [NoPass EXCEPT !.at = "claiming"].at = "claiming"
  /\ [NoPass EXCEPT !.at = "closing"] \in PassRec
  /\ [NoPass EXCEPT !.at = "closing"].at = "closing"
  /\ \A b \in Seq(Tasks) :
       /\ [NoPass EXCEPT !.at = "updating", !.batch = b] \in PassRec
       /\ [NoPass EXCEPT !.at = "updating", !.batch = b].at = "updating"
       /\ [NoPass EXCEPT !.at = "updating", !.batch = b].batch = b
<1>1. NoPass \in PassRec
  BY NoPassTyped
<1>2. \A w \in {"claiming", "closing", "updating"} : w \in Working \cup {"idle", "closing"}
  BY DEF Working, Selecting, Dispatching
<1>3. \A w \in {"claiming", "closing"} :
        [NoPass EXCEPT !.at = w] \in PassRec /\ [NoPass EXCEPT !.at = w].at = w
  BY <1>1, <1>2 DEF PassRec
<1>4. \A b \in Seq(Tasks) :
        /\ [NoPass EXCEPT !.at = "updating", !.batch = b] \in PassRec
        /\ [NoPass EXCEPT !.at = "updating", !.batch = b].at = "updating"
        /\ [NoPass EXCEPT !.at = "updating", !.batch = b].batch = b
  BY <1>1, <1>2 DEF PassRec
<1> QED  BY <1>3, <1>4

\* The number of slots in use.
LEMMA SlottedFinite ==
  ASSUME NEW s
  PROVE  IsFiniteSet(slotted(s)) /\ Cardinality(slotted(s)) \in Nat
<1>1. slotted(s) \in SUBSET Tasks
  BY DEF slotted
<1> QED  BY <1>1, LoopAssumption, FS_Subset, FS_CardinalityType

-----------------------------------------------------------------------------
(* Starting an invocation, and the steps of one.                             *)

LEMMA StartGood ==
  ASSUME NEW l \in LoopRec, NEW p, LoopTyped(l, p), idle(p) # {}
  PROVE  /\ (CHOOSE r \in idle(p) : TRUE) \in Invocations
         /\ Good(started(l, CHOOSE r \in idle(p) : TRUE), begun(p))
<1> DEFINE n == CHOOSE r \in idle(p) : TRUE
<1>1. n \in Invocations
  BY DEF idle
<1>2. started(l, n) \in LoopRec
  BY <1>1 DEF started, LoopRec
<1>3. [NoPass EXCEPT !.at = "claiming"] \in PassRec
  BY FreshPasses
<1>4. begun(p) \in [Invocations -> PassRec] /\ begun(p)[n].at = "claiming"
  BY <1>1, FreshPasses DEF begun, LoopTyped
<1>5. \A r \in Invocations :
        /\ begun(p)[r].at \in Dispatching => begun(p)[r].batch # <<>>
        /\ begun(p)[r].at = "preparing" => begun(p)[r].slot \in SlotObjects
  BY <1>1, <1>4 DEF begun, LoopTyped, Dispatching
<1>6. Held(started(l, n), begun(p))
  BY <1>1, <1>4, LoopAssumption DEF Held, started, Working, Selecting
<1> QED  BY <1>1, <1>2, <1>4, <1>5, <1>6 DEF Good, LoopTyped

LEMMA NudgedGood ==
  ASSUME NEW l \in LoopRec, NEW p, NEW s, Good(l, p), idle(p) # {}
  PROVE  Good(nudgedLoop(l, p, s), IF canStart(l, s) THEN begun(p) ELSE p)
BY StartGood DEF nudgedLoop, Good

LEMMA UnguardedGood ==
  ASSUME NEW l, NEW p, Good(l, p)
  PROVE  Good(unguarded(l), p)
BY DEF unguarded, Good, LoopTyped, LoopRec, Held

\* An invocation that gives the loop up leaves it free, or to the run it belongs
\* to by now.
LEMMA RelinquishedGood ==
  ASSUME Good(loop, pass), NEW r \in Invocations,
         NEW x \in PassRec, x.at \in {"idle", "closing"}
  PROVE  Good(relinquished(r), [pass EXCEPT ![r] = x])
BY LoopAssumption
   DEF relinquished, Good, LoopTyped, LoopRec, Held, Working, Selecting, Dispatching

\* An invocation that goes on stays at work.
LEMMA GoesOnGood ==
  ASSUME Good(loop, pass), NEW r \in Invocations, pass[r].at \in Working,
         NEW x \in PassRec, x.at \in Working, x.at \in Dispatching => x.batch # <<>>,
         x.at = "preparing" => x.slot \in SlotObjects
  PROVE  Good(loop, [pass EXCEPT ![r] = x])
BY LoopAssumption DEF Good, LoopTyped, LoopRec, Held

LEMMA EndPassGood ==
  ASSUME Good(loop, pass), NEW r \in Invocations, endPass(r)
  PROVE  Good(loop, pass)'
<1>1. Good(relinquished(r), [pass EXCEPT ![r] = NoPass])
  BY NoPassTyped, RelinquishedGood
<1> QED  BY <1>1, UnguardedGood DEF endPass, ends

LEMMA GiveUpGood ==
  ASSUME Good(loop, pass), NEW r \in Invocations, giveUpLoop(r)
  PROVE  Good(loop, pass)'
BY FreshPasses, RelinquishedGood DEF giveUpLoop

LEMMA NextDispatchGood ==
  ASSUME Good(loop, pass), NEW r \in Invocations, pass[r].at \in Dispatching, nextDispatch(r)
  PROVE  Good(loop, pass)'
<1>1. CASE endPass(r)
  BY <1>1, EndPassGood
<1>2. CASE /\ Len(pass[r].batch) > 1
           /\ pass' = [pass EXCEPT ![r] = [NoPass EXCEPT !.at = "updating",
                                                         !.batch = Tail(pass[r].batch)]]
           /\ UNCHANGED loop
  <2> DEFINE x == [NoPass EXCEPT !.at = "updating", !.batch = Tail(pass[r].batch)]
  <2>1. pass[r].batch \in Seq(Tasks) /\ pass[r].batch # <<>>
    BY DEF Good, LoopTyped, PassRec
  <2>2. Tail(pass[r].batch) \in Seq(Tasks) /\ Len(Tail(pass[r].batch)) > 0
    BY <1>2, <2>1, HeadTailProperties, LenProperties
  <2>3. x \in PassRec /\ x.at = "updating" /\ x.batch # <<>>
    <3>1. x \in PassRec /\ x.at = "updating" /\ x.batch = Tail(pass[r].batch)
      BY <2>2, NoPassTyped DEF PassRec, Working, Dispatching
    <3>2. Tail(pass[r].batch) # <<>>
      BY <2>2
    <3> HIDE DEF x
    <3> QED  BY <3>1, <3>2
  <2> QED  BY <1>2, <2>3, GoesOnGood DEF Working, Dispatching
<1> QED  BY <1>1, <1>2 DEF nextDispatch

\* Moving on to another await of a dispatch, or of a selection.
LEMMA GoToGood ==
  ASSUME Good(loop, pass), NEW r \in Invocations, NEW at \in Working,
         pass[r].at \in Working, at \in Dispatching => pass[r].at \in Dispatching,
         at # "preparing", goTo(r, at)
  PROVE  Good(loop, pass')
<1> DEFINE x == [pass[r] EXCEPT !.at = at]
<1>1. pass[r] \in PassRec
  BY DEF Good, LoopTyped
<1>2. x \in PassRec /\ x.at = at /\ x.batch = pass[r].batch
  BY <1>1 DEF PassRec
<1>3. pass' = [pass EXCEPT ![r] = x]
  BY DEF goTo
<1>4. x.at \in Dispatching => x.batch # <<>>
  BY <1>2 DEF Good, LoopTyped
<1> QED  BY <1>2, <1>3, <1>4, GoesOnGood

-----------------------------------------------------------------------------
(* Each action keeps the invariant.                                          *)

LEMMA InitInv == Init => Inv
<1> SUFFICES ASSUME Init PROVE Inv
  OBVIOUS
<1>1. Good(loop, pass)
  BY NoPassTyped, LoopAssumption DEF Init, Good, LoopTyped, LoopRec, Held
<1>2. MaxStuck \in 0..MaxStuck /\ MaxFailures \in 0..MaxFailures
  BY LoopAssumption
<1>3. RestTyped
  BY <1>2 DEF Init, RestTyped, TaskStatus
<1> QED  BY <1>1, <1>3 DEF Inv

LEMMA NudgeGood ==
  ASSUME NEW l \in LoopRec, NEW s, Good(l, pass), nudge(l, pass, s), feedbackCheck \in BOOLEAN
  PROVE  Good(loop, pass)' /\ feedbackCheck' \in BOOLEAN
<1>1. l.active \in BOOLEAN /\ l.timer \in BOOLEAN
  BY DEF LoopRec
<1>2. feedbackCheck' \in BOOLEAN
  BY <1>1 DEF nudge
<1>3. idle(pass) # {} => Good(nudgedLoop(l, pass, s), IF canStart(l, s) THEN begun(pass) ELSE pass)
  BY NudgedGood
<1> QED  BY <1>2, <1>3 DEF nudge

LEMMA PassInv ==
  ASSUME Inv, NEW r \in Invocations, Pass(r)
  PROVE  Inv'
<1> USE DEF Inv
<1>1. CASE ClaimFeedback(r) \/ ClaimNothing(r)
  <2>1. Good(loop, pass')
    BY <1>1, GoToGood DEF ClaimFeedback, ClaimNothing, Working, Selecting, Dispatching
  <2> QED  BY <1>1, <2>1 DEF ClaimFeedback, ClaimNothing, RestTyped, taskVars, userVars, envVars
<1>2. CASE FeedbackProcessed(r)
  <2> DEFINE l == relinquished(r)
             p == [pass EXCEPT ![r] = NoPass]
  <2>1. Good(l, p) /\ l \in LoopRec
    BY NoPassTyped, RelinquishedGood DEF Good, LoopTyped
  <2>2. r \in idle(p)
    BY DEF idle, Good, LoopTyped
  <2>3. Good(nudgedLoop(l, p, slots), IF canStart(l, slots) THEN begun(p) ELSE p)
    <3> HIDE DEF l, p
    <3> QED  BY <2>1, <2>2, NudgedGood
  <2>4. Good(loop, pass)'
    BY <1>2, <2>3, UnguardedGood DEF FeedbackProcessed
  <2>5. feedbackCheck' \in BOOLEAN
    BY <1>2, <2>1 DEF FeedbackProcessed, RestTyped, LoopRec
  <2> QED  BY <1>2, <2>4, <2>5 DEF FeedbackProcessed, RestTyped, taskVars, userVars, envVars
<1>3. CASE ReadReadyTasks(r) \/ CheckPasses(r)
  <2>1. MaxSlots - Cardinality(slotted(slots)) \in 0..MaxSlots \/ slotsFull(slots)
    BY SlottedFinite, LoopAssumption DEF slotsFull
  <2>2. Good(loop, pass')
    <3>1. pass[r] \in PassRec
      BY DEF Good, LoopTyped
    <3>2. CASE ReadReadyTasks(r)
      <4> DEFINE x == [pass[r] EXCEPT !.at = "checking",
                                      !.ready = readyTasks]
      <4>0. readyTasks \subseteq Tasks
        BY DEF readyTasks
      <4>1. x \in PassRec /\ x.at = "checking"
        BY <3>1, <4>0 DEF PassRec, Working, Selecting
      <4>2. pass' = [pass EXCEPT ![r] = x]
        BY <3>2 DEF ReadReadyTasks
      <4>3. pass[r].at \in Working /\ x.at \in Working
            /\ x.at \notin Dispatching /\ x.at # "preparing"
        BY <3>2, <4>1 DEF ReadReadyTasks, Working, Selecting, Dispatching
      <4> HIDE DEF x
      <4> QED  BY <4>1, <4>2, <4>3, GoesOnGood
    <3>3. CASE CheckPasses(r)
      <4> DEFINE n == MaxSlots - Cardinality(slotted(slots))
                 x == [pass[r] EXCEPT !.at = "selecting", !.ready = @ \ slotted(slots),
                                      !.available = n]
      <4>1. n \in 0..MaxSlots
        BY <3>3, <2>1 DEF CheckPasses
      <4>2. x \in PassRec /\ x.at = "selecting"
        <5> HIDE DEF n
        <5> QED  BY <3>1, <4>1 DEF PassRec, Working, Selecting
      <4>3. pass' = [pass EXCEPT ![r] = x]
        BY <3>3 DEF CheckPasses
      <4>4. pass[r].at \in Working /\ x.at \in Working
            /\ x.at \notin Dispatching /\ x.at # "preparing"
        BY <3>3, <4>2 DEF CheckPasses, Working, Selecting, Dispatching
      <4> HIDE DEF x
      <4> QED  BY <4>2, <4>3, <4>4, GoesOnGood
    <3> QED  BY <1>3, <3>2, <3>3
  <2>3. {<<t, "block">> : t \in exhaustedTasks} \subseteq Tasks \X (Requests \cup {"block"})
    BY LoopAssumption DEF exhaustedTasks
  <2> QED
    BY <1>3, <2>2, <2>3 DEF ReadReadyTasks, CheckPasses, RestTyped, taskVars, userVars, envVars
<1>4. CASE CheckBlocked(r) \/ SelectNone(r)
  <2>1. Good(loop, pass)'
    BY <1>4, GiveUpGood DEF CheckBlocked, SelectNone
  <2> QED  BY <1>4, <2>1 DEF CheckBlocked, SelectNone, RestTyped, taskVars, userVars, envVars
<1>5. CASE SelectSome(r)
  <2>1. PICK b \in batches(r) :
          b # <<>> /\ pass' = [pass EXCEPT ![r] = [NoPass EXCEPT !.at = "updating", !.batch = b]]
    BY <1>5 DEF SelectSome
  <2>2. b \in Seq(Tasks)
    <3>1. PICK n \in 0..pass[r].available : b \in [1..n -> pass[r].ready]
      BY DEF batches
    <3>2. n \in Nat /\ pass[r].ready \subseteq Tasks
      BY <3>1 DEF Good, LoopTyped, PassRec
    <3> QED  BY <3>1, <3>2
  <2>3. [NoPass EXCEPT !.at = "updating", !.batch = b] \in PassRec
          /\ [NoPass EXCEPT !.at = "updating", !.batch = b].at = "updating"
          /\ [NoPass EXCEPT !.at = "updating", !.batch = b].batch = b
    BY <2>2, FreshPasses
  <2>4. Good(loop, pass')
    BY <1>5, <2>1, <2>3, GoesOnGood DEF SelectSome, Working, Selecting, Dispatching
  <2> QED  BY <1>5, <2>4 DEF SelectSome, RestTyped, taskVars, userVars, envVars
<1>6. CASE FinishPass(r)
  <2>1. Good(loop, [pass EXCEPT ![r] = NoPass])
    BY <1>6, NoPassTyped DEF FinishPass, Good, LoopTyped, Held, Working, Selecting, Dispatching
  <2>2. Good(loop, pass)'
    BY <1>6, <2>1, UnguardedGood DEF FinishPass, ends
  <2> QED  BY <1>6, <2>2 DEF FinishPass, RestTyped, taskVars, userVars, envVars
<1>7. CASE UpdateTask(r)
  <2>1. Good(loop, pass)'
    BY <1>7, GoToGood, EndPassGood DEF UpdateTask, Working, Dispatching
  <2> QED  BY <1>7, <2>1 DEF UpdateTask, RestTyped, TaskStatus, userVars, envVars
<1>8. CASE StartTask(r)
  <2>1. PICK o \in SlotObjects :
          /\ slots' = [slots EXCEPT ![task(r)] = o]
          /\ pass' = [pass EXCEPT ![r].at = "preparing", ![r].slot = o]
    BY <1>8 DEF StartTask
  <2>2. Good(loop, pass')
    <3> DEFINE x == [pass[r] EXCEPT !.at = "preparing", !.slot = o]
    <3>1. pass[r] \in PassRec /\ pass[r].batch # <<>>
      BY <1>8 DEF StartTask, Good, LoopTyped, Dispatching
    <3>2. x \in PassRec /\ x.at = "preparing" /\ x.batch = pass[r].batch /\ x.slot = o
      BY <3>1 DEF PassRec, Working, Dispatching
    <3>3. pass' = [pass EXCEPT ![r] = x]
      BY <2>1
    <3> QED  BY <1>8, <3>1, <3>2, <3>3, GoesOnGood DEF StartTask, Working, Dispatching
  <2> QED  BY <1>8, <2>1, <2>2 DEF StartTask, RestTyped, userVars, envVars
<1>9. CASE SpawnCoder(r) \/ OutcomeHandled(r)
  <2>1. Good(loop, pass)'
    BY <1>9, NextDispatchGood DEF SpawnCoder, OutcomeHandled, Dispatching
  <2>2. pass[r].at = "preparing" => pass[r].slot \in SlotObjects /\ task(r) \in Tasks
    BY HeadTailProperties DEF Good, LoopTyped, PassRec, task, Dispatching
  <2> QED  BY <1>9, <2>1, <2>2
           DEF SpawnCoder, OutcomeHandled, RestTyped, taskVars, userVars, envVars
<1>10. CASE ResumeMerge(r)
  <2>1. Good(loop, pass)'
    BY <1>10, NextDispatchGood, GoToGood DEF ResumeMerge, Working, Dispatching
  <2>2. task(r) \in Tasks
    BY <1>10, HeadTailProperties DEF ResumeMerge, Good, LoopTyped, PassRec, task, Dispatching
  <2> QED  BY <1>10, <2>1, <2>2 DEF ResumeMerge, RestTyped, TaskStatus, userVars, envVars
<1> QED  BY <1>1, <1>2, <1>3, <1>4, <1>5, <1>6, <1>7, <1>8, <1>9, <1>10 DEF Pass, Select

LEMMA FaultsInv ==
  ASSUME Inv, NEW r \in Invocations, Faults(r)
  PROVE  Inv'
<1> USE DEF Inv
<1>1. failuresLeft > 0 => failuresLeft - 1 \in 0..MaxFailures
  BY LoopAssumption DEF RestTyped
<1>2. stuckLeft > 0 => stuckLeft - 1 \in 0..MaxStuck
  BY LoopAssumption DEF RestTyped
<1>3. CASE PassFails(r)
  <2> DEFINE l == IF loop.run = r THEN [loop EXCEPT !.active = FALSE, !.timer = TRUE] ELSE loop
  <2>1. Good(l, [pass EXCEPT ![r] = NoPass])
    BY NoPassTyped, LoopAssumption
       DEF Good, LoopTyped, LoopRec, Held, Working, Selecting, Dispatching
  <2>2. Good(loop, pass)'
    BY <1>3, <2>1, UnguardedGood DEF PassFails, ends
  <2> QED  BY <1>1, <1>3, <2>2 DEF PassFails, RestTyped, taskVars, userVars
<1>4. CASE PreparationFails(r)
  <2>1. Good(loop, pass)'
    BY <1>4, GoToGood DEF PreparationFails, Working, Dispatching
  <2> QED  BY <1>1, <1>4, <2>1 DEF PreparationFails, RestTyped, userVars
<1>5. CASE StuckGuard(r)
  <2> DEFINE l == [loop EXCEPT !.active = FALSE, !.run = None, !.guard = None]
  <2>1. Good(l, pass) /\ l \in LoopRec
    BY LoopAssumption DEF Good, LoopTyped, LoopRec, Held
  <2>2. Good(loop, pass)' /\ feedbackCheck' \in BOOLEAN
    <3>1. nudge(l, pass, slots)
      BY <1>5 DEF StuckGuard
    <3> HIDE DEF l
    <3> QED  BY <2>1, <3>1, NudgeGood DEF RestTyped
  <2> QED  BY <1>2, <1>5, <2>2 DEF StuckGuard, RestTyped, taskVars, userVars
<1> QED  BY <1>3, <1>4, <1>5 DEF Faults

LEMMA WakeupsInv ==
  ASSUME Inv, Wakeups
  PROVE  Inv'
<1> USE DEF Inv
<1>1. loop \in LoopRec
  BY DEF Good, LoopTyped
<1>2. CASE Nudge
  <2>1. Good(loop, pass)' /\ feedbackCheck' \in BOOLEAN
    BY <1>1, <1>2, NudgeGood DEF Nudge, RestTyped
  <2> QED  BY <1>2, <2>1 DEF Nudge, RestTyped, taskVars, userVars, envVars
<1>3. CASE FeedbackCheckAnswered \/ DeferredRun
  <2>1. Good(loop, pass)'
    BY <1>1, <1>3, StartGood DEF FeedbackCheckAnswered, DeferredRun, Good
  <2> QED  BY <1>3, <2>1 DEF FeedbackCheckAnswered, DeferredRun, RestTyped, taskVars, userVars,
                             envVars
<1>4. CASE FeedbackArrives
  BY <1>4 DEF FeedbackArrives, RestTyped, Good, loopVars, taskVars, userVars
<1> QED  BY <1>2, <1>3, <1>4 DEF Wakeups

\* Taking a slot away, and its agent.
LEMMA RemovedTyped ==
  ASSUME RestTyped, NEW t \in Tasks
  PROVE  /\ removed(t) \in [Tasks -> SlotObjects \cup {None}]
         /\ killed(t) \subseteq Tasks \X SlotObjects
BY DEF RestTyped, removed, killed

LEMMA OutcomesInv ==
  ASSUME Inv, NEW t \in Tasks, Outcomes(t)
  PROVE  Inv'
<1> USE DEF Inv
<1>1. CASE Decide(t)
  BY <1>1 DEF Decide, RestTyped, TaskStatus, Good, loopVars, userVars, envVars
<1>2. CASE Continue(t)
  BY <1>2 DEF Continue, RestTyped, Good, loopVars, userVars, envVars
<1>3. CASE Release(t)
  <2>1. Good(loop, pass)' /\ feedbackCheck' \in BOOLEAN
    BY <1>3, NudgeGood DEF Release, RestTyped, Good, LoopTyped
  <2> QED  BY <1>3, <2>1, RemovedTyped DEF Release, RestTyped, userVars, envVars
<1> QED  BY <1>1, <1>2, <1>3 DEF Outcomes

LEMMA UsersInv ==
  ASSUME Inv, NEW t \in Tasks, Users(t)
  PROVE  Inv'
<1> USE DEF Inv
<1>1. ASSUME NEW request \in Requests, StopTask(t, request) PROVE Inv'
  BY <1>1, RemovedTyped DEF StopTask, RestTyped, Good, loopVars, envVars
<1>2. ASSUME NEW request \in Requests, FreeSlot(t, request) PROVE Inv'
  <2>1. Good(loop, pass)' /\ feedbackCheck' \in BOOLEAN
    BY <1>2, NudgeGood DEF FreeSlot, RestTyped, Good, LoopTyped
  <2> QED  BY <1>2, <2>1, RemovedTyped DEF FreeSlot, RestTyped, envVars
<1>3. ASSUME NEW request \in Requests \cup {"block"}, EndTask(t, request) PROVE Inv'
  BY <1>3 DEF EndTask, RestTyped, TaskStatus, Good, loopVars, envVars
<1>4. CASE Reopen(t)
  BY <1>4 DEF Reopen, RestTyped, TaskStatus, Good, loopVars, userVars, envVars
<1> QED  BY <1>1, <1>2, <1>3, <1>4 DEF Users

LEMMA SlotAgentsInv ==
  ASSUME Inv, NEW t \in Tasks, NEW o \in SlotObjects, SlotAgents(t, o)
  PROVE  Inv'
BY DEF SlotAgents, AgentDone, RetrySpawns, Inv, RestTyped, Good, loopVars, userVars, envVars

LEMMA NextInv == Inv /\ [Next]_vars => Inv'
<1> SUFFICES ASSUME Inv, [Next]_vars PROVE Inv'
  OBVIOUS
<1>1. CASE Next
  BY <1>1, PassInv, FaultsInv, WakeupsInv, OutcomesInv, UsersInv, SlotAgentsInv DEF Next
<1>2. CASE UNCHANGED vars
  BY <1>2 DEF vars, loopVars, taskVars, userVars, envVars, Inv, Good, RestTyped
<1> QED  BY <1>1, <1>2

-----------------------------------------------------------------------------
\* The inductive invariant holds in every reachable state.
THEOREM Invariance == Spec => []Inv
BY InitInv, NextInv, PTL DEF Spec

\* Every variable of the loop has its type, whatever runLoop, the agents, the
\* handlers and the users do between its awaits, and no batch is dispatched that
\* is empty.
THEOREM TypeCorrect == Spec => []TypeOK
BY InvMeaning, Invariance, PTL

\* For any number of overrun guards and failures: loopActive is set exactly while
\* the run of loopRunId is at work, and no deferred run is due meanwhile.
THEOREM LoopHeld == Spec => []LoopHeldByItsRun
BY InvMeaning, Invariance, PTL

-----------------------------------------------------------------------------
(* The slots are a bounded pool as long as no invocation outlasts the stuck  *)
(* guard.  Then one invocation at most is at work, and what it read of the   *)
(* slots before its awaits still bounds what it adds to them.                *)

\* The tasks of b can all be given a slot when s are the slots.
Fits(b, s) ==
  /\ Len(b) + Cardinality(slotted(s)) <= MaxSlots
  /\ \A i, j \in 1..Len(b) : i # j => WorktreeKey[b[i]] # WorktreeKey[b[j]]
  /\ \A i \in 1..Len(b), u \in slotted(s) : WorktreeKey[b[i]] # WorktreeKey[u]

\* The tasks of a batch without a slot yet.
todo(x) == IF x.at \in {"updating", "starting"} THEN x.batch ELSE Tail(x.batch)

AtMostOneAtWork == \A r \in Invocations : pass[r].at \in Working => loop.run = r

RoomLeft(x, s) ==
  /\ x.at = "selecting" => x.available + Cardinality(slotted(s)) <= MaxSlots
  /\ x.at \in Dispatching => Fits(todo(x), s)

PoolInv == AtMostOneAtWork /\ \A r \in Invocations : RoomLeft(pass[r], slots)

\* Taking a slot away makes room.
LEMMA RemovedFits ==
  ASSUME RestTyped, NEW t \in Tasks
  PROVE  /\ Cardinality(slotted(removed(t))) <= Cardinality(slotted(slots))
         /\ \A b : Len(b) \in Nat /\ Fits(b, slots) => Fits(b, removed(t))
<1>1. slotted(removed(t)) \in SUBSET slotted(slots)
  BY DEF slotted, removed, RestTyped
<1>2. Cardinality(slotted(removed(t))) <= Cardinality(slotted(slots))
  BY <1>1, SlottedFinite, FS_Subset
<1> QED  BY <1>1, <1>2, SlottedFinite, LoopAssumption DEF Fits

\* The first task of a batch that fits can be given a slot, and the others fit
\* afterwards.
LEMMA StartFits ==
  ASSUME RestTyped, NEW b \in Seq(Tasks), b # <<>>, Fits(b, slots), NEW o \in SlotObjects
  PROVE  /\ slots[Head(b)] = None
         /\ Cardinality(slotted(slots)) < MaxSlots
         /\ \A u \in slotted(slots) : WorktreeKey[u] # WorktreeKey[Head(b)]
         /\ Fits(Tail(b), [slots EXCEPT ![Head(b)] = o])
<1> DEFINE t == Head(b)
           s == [slots EXCEPT ![t] = o]
<1>1. /\ t \in Tasks /\ t = b[1] /\ Tail(b) \in Seq(Tasks) /\ Len(Tail(b)) = Len(b) - 1
      /\ \A i \in 1..Len(Tail(b)) : Tail(b)[i] = b[i + 1]
  BY HeadTailProperties
<1>2. Len(b) \in Nat /\ Len(b) > 0 /\ 1 \in 1..Len(b)
  BY LenProperties
<1>3. \A u \in slotted(slots) : WorktreeKey[u] # WorktreeKey[t]
  BY <1>1, <1>2 DEF Fits
<1>4. slots[t] = None
  BY <1>1, <1>3 DEF slotted
<1>5. Cardinality(slotted(slots)) < MaxSlots
  BY <1>2, SlottedFinite, LoopAssumption DEF Fits
<1>6. slotted(s) = slotted(slots) \cup {t} /\ t \notin slotted(slots)
  BY <1>1, <1>4, LoopAssumption DEF slotted, RestTyped
<1>7. Cardinality(slotted(s)) = Cardinality(slotted(slots)) + 1
  BY <1>6, SlottedFinite, FS_AddElement
<1>8. Len(Tail(b)) + Cardinality(slotted(s)) <= MaxSlots
  BY <1>1, <1>2, <1>7, SlottedFinite, LoopAssumption DEF Fits
<1>9. \A i \in 1..Len(Tail(b)) : i + 1 \in 1..Len(b) /\ i + 1 # 1 /\ Tail(b)[i] = b[i + 1]
  BY <1>1, <1>2
<1>10. \A i, j \in 1..Len(Tail(b)) : i # j => WorktreeKey[Tail(b)[i]] # WorktreeKey[Tail(b)[j]]
  BY <1>1, <1>2, <1>9 DEF Fits
<1>11. \A i \in 1..Len(Tail(b)), u \in slotted(s) : WorktreeKey[Tail(b)[i]] # WorktreeKey[u]
  BY <1>1, <1>2, <1>6, <1>9 DEF Fits
<1> QED  BY <1>3, <1>4, <1>5, <1>8, <1>10, <1>11 DEF Fits

\* Both modules count with the same operator.
LEMMA SameCardinality == \A S : Pool!Cardinality(S) = Cardinality(S)
BY DEF Pool!Cardinality, Cardinality

LEMMA InitPool == Init => PoolInv
BY DEF Init, PoolInv, AtMostOneAtWork, RoomLeft, NoPass, Working, Selecting, Dispatching

\* An invocation begins only when none is at work.
LEMMA StartPool ==
  ASSUME NEW l \in LoopRec, NEW p, Good(l, p), ~l.active, idle(p) # {}, NEW s,
         \A r \in Invocations : p[r].at \in Working => l.run = r,
         \A r \in Invocations : RoomLeft(p[r], s)
  PROVE  /\ \A r \in Invocations :
              begun(p)[r].at \in Working
                => started(l, CHOOSE i \in idle(p) : TRUE).run = r
         /\ \A r \in Invocations : RoomLeft(begun(p)[r], s)
<1> DEFINE n == CHOOSE i \in idle(p) : TRUE
<1>1. n \in Invocations
  BY DEF idle
<1>2. p \in [Invocations -> PassRec]
  BY DEF Good, LoopTyped
<1>3. \A r \in Invocations : p[r].at \notin Working
  BY LoopAssumption DEF Good, Held
<1>4. \A r \in Invocations : r # n => begun(p)[r] = p[r]
  BY <1>2 DEF begun
<1>5. begun(p)[n].at = "claiming"
  BY <1>1, <1>2, FreshPasses DEF begun
<1> QED  BY <1>1, <1>3, <1>4, <1>5 DEF started, RoomLeft, Dispatching

\* A step of invocation r that does not put it to work and leaves the others.
LEMMA StepPool ==
  ASSUME Inv, PoolInv, NEW r \in Invocations, loop'.run = loop.run, slots' = slots,
         \A i \in Invocations : i # r => pass'[i] = pass[i],
         pass'[r].at \in Working => pass[r].at \in Working,
         RoomLeft(pass'[r], slots)
  PROVE  PoolInv'
BY DEF PoolInv, AtMostOneAtWork

\* A nudge, when the slots have become s.
LEMMA NudgePool ==
  ASSUME Inv, PoolInv, NEW s, slots' = s, nudge(loop, pass, s),
         \A r \in Invocations : RoomLeft(pass[r], s)
  PROVE  PoolInv'
<1>1. loop \in LoopRec /\ Good(loop, pass) /\ idle(pass) # {}
  BY DEF Inv, Good, LoopTyped, nudge
<1>2. CASE ~canStart(loop, s)
  BY <1>2 DEF nudge, nudgedLoop, PoolInv, AtMostOneAtWork
<1>3. CASE canStart(loop, s)
  <2>1. ~loop.active
    BY <1>3 DEF canStart
  <2>2. /\ \A r \in Invocations :
              begun(pass)[r].at \in Working
                => started(loop, CHOOSE i \in idle(pass) : TRUE).run = r
        /\ \A r \in Invocations : RoomLeft(begun(pass)[r], s)
    BY <1>1, <2>1, StartPool DEF PoolInv, AtMostOneAtWork
  <2> QED  BY <1>3, <2>2 DEF nudge, nudgedLoop, PoolInv, AtMostOneAtWork
<1> QED  BY <1>2, <1>3

\* A slot is taken away and the loop nudged.
LEMMA ReleasePool ==
  ASSUME Inv, PoolInv, NEW t \in Tasks, slots' = removed(t), nudge(loop, pass, removed(t))
  PROVE  PoolInv' /\ [Pool!Next]_slots
<1>1. \A r \in Invocations : RoomLeft(pass[r], removed(t))
  <2> TAKE r \in Invocations
  <2>1. pass[r] \in PassRec /\ RoomLeft(pass[r], slots)
    BY DEF Inv, Good, LoopTyped, PoolInv
  <2>2. pass[r].at \in Dispatching => Len(todo(pass[r])) \in Nat
    BY <2>1, HeadTailProperties, LenProperties DEF todo, Inv, Good, LoopTyped, PassRec
  <2>3. pass[r].available \in Int /\ MaxSlots \in Int
    BY <2>1, LoopAssumption DEF PassRec
  <2>4. CASE pass[r].at = "selecting"
    <3>1. "selecting" \notin Dispatching
      BY DEF Dispatching
    <3> QED  BY <2>1, <2>3, <2>4, <3>1, RemovedFits, SlottedFinite DEF RoomLeft, Inv
  <2>5. CASE pass[r].at # "selecting"
    BY <2>1, <2>2, <2>5, RemovedFits DEF RoomLeft, Inv
  <2> QED  BY <2>4, <2>5
<1>2. PoolInv'
  BY <1>1, NudgePool
<1>3. slots[t] # None => Pool!Release(t)
  BY DEF removed, Pool!Release
<1>4. slots[t] = None => slots' = slots
  BY DEF removed, Inv, RestTyped
<1> QED  BY <1>2, <1>3, <1>4 DEF Pool!Next

LEMMA EndPassPool ==
  ASSUME Inv, PoolInv, NEW r \in Invocations, endPass(r) \/ giveUpLoop(r), slots' = slots
  PROVE  PoolInv'
<1>1. loop \in LoopRec /\ pass \in [Invocations -> PassRec]
  BY DEF Inv, Good, LoopTyped
<1>2. loop'.run = loop.run
  BY <1>1 DEF endPass, giveUpLoop, unguarded, relinquished, LoopRec
<1>3. pass'[r].at \in {"idle", "closing"} /\ \A i \in Invocations : i # r => pass'[i] = pass[i]
  BY <1>1, NoPassTyped, FreshPasses DEF endPass, giveUpLoop, ends
<1>4. pass'[r].at \notin Working /\ RoomLeft(pass'[r], slots)
  BY <1>3 DEF RoomLeft, Working, Selecting, Dispatching
<1> QED  BY <1>2, <1>3, <1>4, StepPool

\* The next task of the batch is dispatched, or the pass ends.
LEMMA NextDispatchPool ==
  ASSUME Inv, PoolInv, NEW r \in Invocations, pass[r].at \in {"preparing", "awaiting"},
         nextDispatch(r), slots' = slots
  PROVE  PoolInv'
<1>1. CASE endPass(r)
  BY <1>1, EndPassPool
<1>2. CASE /\ Len(pass[r].batch) > 1
           /\ pass' = [pass EXCEPT ![r] = [NoPass EXCEPT !.at = "updating",
                                                         !.batch = Tail(pass[r].batch)]]
           /\ UNCHANGED loop
  <2>1. pass \in [Invocations -> PassRec] /\ pass[r].batch # <<>> /\ pass[r].batch \in Seq(Tasks)
    BY DEF Inv, Good, LoopTyped, PassRec, Dispatching
  <2>2. Tail(pass[r].batch) \in Seq(Tasks)
    BY <2>1, HeadTailProperties
  <2>3. /\ pass'[r].at = "updating" /\ pass'[r].batch = Tail(pass[r].batch)
        /\ \A i \in Invocations : i # r => pass'[i] = pass[i]
    BY <1>2, <2>1, <2>2, FreshPasses
  <2>4. Fits(Tail(pass[r].batch), slots)
    BY DEF PoolInv, RoomLeft, todo, Dispatching
  <2>5. RoomLeft(pass'[r], slots)
    BY <2>3, <2>4 DEF RoomLeft, todo
  <2>6. pass[r].at \in Working
    BY DEF Working, Dispatching
  <2> QED  BY <1>2, <2>3, <2>5, <2>6, StepPool
<1> QED  BY <1>1, <1>2 DEF nextDispatch

\* The pass waits for a handler instead of preparing its task.
LEMMA AwaitPool ==
  ASSUME Inv, PoolInv, NEW r \in Invocations, pass[r].at = "preparing", goTo(r, "awaiting"),
         UNCHANGED <<loop, slots>>
  PROVE  PoolInv'
<1>1. /\ pass'[r].at = "awaiting" /\ pass'[r].batch = pass[r].batch
      /\ \A i \in Invocations : i # r => pass'[i] = pass[i]
  BY DEF Inv, Good, LoopTyped, goTo, PassRec
<1>2. RoomLeft(pass'[r], slots) /\ pass[r].at \in Working
  BY <1>1 DEF RoomLeft, todo, PoolInv, Working, Dispatching
<1> QED  BY <1>1, <1>2, StepPool

\* A batch the selection can leave fits.
LEMMA BatchFits ==
  ASSUME Inv, PoolInv, NEW r \in Invocations, pass[r].at = "selecting", NEW b \in batches(r)
  PROVE  b \in Seq(Tasks) /\ Fits(b, slots)
<1>1. PICK n \in 0..pass[r].available : b \in [1..n -> pass[r].ready]
  BY DEF batches
<1>2. n \in Nat /\ pass[r].ready \subseteq Tasks /\ pass[r].available \in Nat
  BY <1>1, LoopAssumption DEF Inv, Good, LoopTyped, PassRec
<1>3. b \in Seq(Tasks) /\ Len(b) = n /\ DOMAIN b = 1..n
  BY <1>1, <1>2
<1>4. pass[r].available + Cardinality(slotted(slots)) <= MaxSlots
  BY DEF PoolInv, RoomLeft
<1>5. Len(b) + Cardinality(slotted(slots)) <= MaxSlots
  BY <1>1, <1>2, <1>3, <1>4, SlottedFinite, LoopAssumption
<1>6. /\ \A i, j \in DOMAIN b : i # j => WorktreeKey[b[i]] # WorktreeKey[b[j]]
      /\ \A i \in DOMAIN b, u \in slotted(slots) : WorktreeKey[b[i]] # WorktreeKey[u]
  BY DEF batches
<1> QED  BY <1>3, <1>5, <1>6 DEF Fits

LEMMA PassPool ==
  ASSUME Inv, PoolInv, NEW r \in Invocations, Pass(r)
  PROVE  PoolInv' /\ [Pool!Next]_slots
<1> USE DEF Working, Selecting, Dispatching
<1>1. pass \in [Invocations -> PassRec] /\ loop \in LoopRec /\ Good(loop, pass)
  BY DEF Inv, Good, LoopTyped
<1>2. CASE ClaimFeedback(r) \/ ClaimNothing(r) \/ ReadReadyTasks(r)
  <2>1. /\ pass'[r].at \in {"analyst", "reading", "checking"} /\ pass[r].at \in Working
        /\ \A i \in Invocations : i # r => pass'[i] = pass[i]
        /\ loop' = loop /\ slots' = slots
    BY <1>1, <1>2 DEF ClaimFeedback, ClaimNothing, ReadReadyTasks, goTo, taskVars, PassRec
  <2>2. RoomLeft(pass'[r], slots)
    BY <2>1 DEF RoomLeft
  <2> QED  BY <2>1, <2>2, StepPool
<1>3. CASE FeedbackProcessed(r)
  <2> DEFINE l == relinquished(r)
             p == [pass EXCEPT ![r] = NoPass]
  <2>1. Good(l, p) /\ l \in LoopRec /\ l.run = loop.run
    BY <1>1, NoPassTyped, RelinquishedGood DEF Good, LoopTyped, relinquished, LoopRec
  <2>2. r \in idle(p)
    BY <1>1 DEF idle
  <2>3. /\ \A i \in Invocations : p[i].at \in Working => l.run = i
        /\ \A i \in Invocations : RoomLeft(p[i], slots)
    BY <1>1, <2>1, NoPassTyped DEF PoolInv, AtMostOneAtWork, RoomLeft
  <2>4. slots' = slots /\ unguarded(nudgedLoop(l, p, slots)) = loop'
          /\ pass' = IF canStart(l, slots) THEN begun(p) ELSE p
    BY <1>3 DEF FeedbackProcessed, taskVars
  <2>5. CASE canStart(l, slots)
    <3>1. /\ ~l.active
          /\ nudgedLoop(l, p, slots) = started(l, CHOOSE i \in idle(p) : TRUE)
          /\ pass' = begun(p)
      BY <2>4, <2>5 DEF canStart, nudgedLoop
    <3>2. loop'.run = started(l, CHOOSE i \in idle(p) : TRUE).run
      BY <2>4, <3>1 DEF unguarded, started
    <3>3. /\ \A i \in Invocations :
                begun(p)[i].at \in Working
                  => started(l, CHOOSE j \in idle(p) : TRUE).run = i
          /\ \A i \in Invocations : RoomLeft(begun(p)[i], slots)
      <4> HIDE DEF l, p
      <4> QED  BY <2>1, <2>2, <2>3, <3>1, StartPool
    <3> HIDE DEF l, p
    <3> QED  BY <2>4, <3>1, <3>2, <3>3 DEF PoolInv, AtMostOneAtWork
  <2>6. CASE ~canStart(l, slots)
    <3>1. nudgedLoop(l, p, slots) = l /\ pass' = p
      BY <2>4, <2>6 DEF nudgedLoop
    <3>2. loop'.run = loop.run
      BY <2>1, <2>4, <3>1 DEF unguarded, LoopRec
    <3> HIDE DEF l, p
    <3> QED  BY <2>1, <2>3, <2>4, <3>1, <3>2 DEF PoolInv, AtMostOneAtWork
  <2> QED  BY <2>4, <2>5, <2>6
<1>4. CASE CheckBlocked(r) \/ SelectNone(r)
  BY <1>4, EndPassPool DEF CheckBlocked, SelectNone, taskVars
<1>5. CASE CheckPasses(r)
  <2>1. /\ pass'[r].at = "selecting"
        /\ pass'[r].available = MaxSlots - Cardinality(slotted(slots))
        /\ \A i \in Invocations : i # r => pass'[i] = pass[i]
        /\ pass[r].at \in Working /\ loop' = loop /\ slots' = slots
    BY <1>1, <1>5 DEF CheckPasses, taskVars, PassRec
  <2>2. RoomLeft(pass'[r], slots)
    BY <2>1, SlottedFinite, LoopAssumption DEF RoomLeft
  <2> QED  BY <2>1, <2>2, StepPool
<1>6. CASE SelectSome(r)
  <2>1. PICK b \in batches(r) :
          pass' = [pass EXCEPT ![r] = [NoPass EXCEPT !.at = "updating", !.batch = b]]
    BY <1>6 DEF SelectSome
  <2>2. b \in Seq(Tasks) /\ Fits(b, slots)
    BY <1>6, BatchFits DEF SelectSome
  <2>3. /\ pass'[r].at = "updating" /\ pass'[r].batch = b
        /\ \A i \in Invocations : i # r => pass'[i] = pass[i]
        /\ pass[r].at \in Working /\ loop' = loop /\ slots' = slots
    BY <1>1, <1>6, <2>1, <2>2, FreshPasses DEF SelectSome, taskVars
  <2>4. RoomLeft(pass'[r], slots)
    BY <2>2, <2>3 DEF RoomLeft, todo
  <2> QED  BY <2>3, <2>4, StepPool
<1>7. CASE FinishPass(r)
  <2>1. /\ pass'[r] = NoPass /\ \A i \in Invocations : i # r => pass'[i] = pass[i]
        /\ loop'.run = loop.run /\ slots' = slots
    BY <1>1, <1>7 DEF FinishPass, ends, unguarded, taskVars, LoopRec
  <2>2. RoomLeft(pass'[r], slots) /\ pass'[r].at \notin Working
    BY <2>1, NoPassTyped DEF RoomLeft
  <2> QED  BY <2>1, <2>2, StepPool
<1>8. CASE UpdateTask(r)
  <2>1. CASE endPass(r)
    BY <1>8, <2>1, EndPassPool DEF UpdateTask
  <2>2. CASE goTo(r, "starting") /\ UNCHANGED loop
    <3>1. /\ pass'[r].at = "starting" /\ pass'[r].batch = pass[r].batch
          /\ \A i \in Invocations : i # r => pass'[i] = pass[i]
      BY <1>1, <2>2 DEF goTo, PassRec
    <3>2. pass[r].at = "updating" /\ slots' = slots
      BY <1>8 DEF UpdateTask
    <3>3. RoomLeft(pass'[r], slots)
      BY <3>1, <3>2 DEF RoomLeft, todo, PoolInv
    <3> QED  BY <2>2, <3>1, <3>2, <3>3, StepPool
  <2> QED  BY <1>8, <2>1, <2>2 DEF UpdateTask
<1>9. CASE StartTask(r)
  <2>1. PICK o \in SlotObjects :
          /\ slots' = [slots EXCEPT ![task(r)] = o]
          /\ pass' = [pass EXCEPT ![r].at = "preparing", ![r].slot = o]
    BY <1>9 DEF StartTask
  <2>2. pass[r].at = "starting" /\ pass[r].batch \in Seq(Tasks) /\ pass[r].batch # <<>>
    BY <1>1, <1>9 DEF StartTask, Good, LoopTyped, PassRec
  <2>3. Fits(pass[r].batch, slots)
    BY <2>2 DEF PoolInv, RoomLeft, todo
  <2>4. /\ slots[task(r)] = None /\ Cardinality(slotted(slots)) < MaxSlots
        /\ \A u \in slotted(slots) : WorktreeKey[u] # WorktreeKey[task(r)]
        /\ Fits(Tail(pass[r].batch), slots')
    BY <2>1, <2>2, <2>3, StartFits DEF task, Inv
  <2>5. task(r) \in Tasks
    BY <2>2, HeadTailProperties DEF task
  <2>6. Pool!Acquire(task(r), o)
    <3>1. Pool!occupied(slots) = slotted(slots)
      BY DEF Pool!occupied, slotted
    <3> QED  BY <2>1, <2>4, <3>1, SameCardinality DEF Pool!Acquire
  <2>7. /\ pass'[r].at = "preparing" /\ pass'[r].batch = pass[r].batch
        /\ \A i \in Invocations : i # r => pass'[i] = pass[i]
    BY <1>1, <2>1 DEF PassRec
  <2>8. RoomLeft(pass'[r], slots')
    BY <2>4, <2>7 DEF RoomLeft, todo
  <2>9. \A i \in Invocations : i # r => pass[i].at \notin Working
    BY <2>2 DEF PoolInv, AtMostOneAtWork
  <2>10. \A i \in Invocations : i # r => RoomLeft(pass'[i], slots')
    BY <2>7, <2>9 DEF RoomLeft
  <2>11. loop' = loop
    BY <1>9 DEF StartTask
  <2>12. PoolInv'
    BY <2>2, <2>7, <2>8, <2>9, <2>10, <2>11 DEF PoolInv, AtMostOneAtWork
  <2> QED  BY <2>5, <2>6, <2>12 DEF Pool!Next
<1>10. CASE SpawnCoder(r) \/ OutcomeHandled(r)
  BY <1>10, NextDispatchPool DEF SpawnCoder, OutcomeHandled, taskVars
<1>11. CASE ResumeMerge(r)
  <2>1. CASE nextDispatch(r)
    BY <1>11, <2>1, NextDispatchPool DEF ResumeMerge
  <2>2. CASE goTo(r, "awaiting") /\ loop' = loop
    BY <1>11, <2>2, AwaitPool DEF ResumeMerge
  <2> QED  BY <1>11, <2>1, <2>2 DEF ResumeMerge
<1> QED  BY <1>2, <1>3, <1>4, <1>5, <1>6, <1>7, <1>8, <1>9, <1>10, <1>11 DEF Pass, Select

\* With MaxStuck = 0 no stuck guard goes off.
LEMMA FaultsPool ==
  ASSUME Inv, PoolInv, MaxStuck = 0, NEW r \in Invocations, Faults(r)
  PROVE  PoolInv' /\ [Pool!Next]_slots
<1>1. pass \in [Invocations -> PassRec] /\ loop \in LoopRec
  BY DEF Inv, Good, LoopTyped
<1>2. ~StuckGuard(r)
  BY DEF StuckGuard, Inv, RestTyped
<1>3. CASE PassFails(r)
  <2>1. /\ pass'[r] = NoPass /\ \A i \in Invocations : i # r => pass'[i] = pass[i]
        /\ loop'.run = loop.run /\ slots' = slots
    BY <1>1, <1>3 DEF PassFails, ends, unguarded, taskVars, LoopRec
  <2>2. RoomLeft(pass'[r], slots) /\ pass'[r].at \notin Working
    BY <2>1, NoPassTyped DEF RoomLeft, Working, Dispatching
  <2> QED  BY <2>1, <2>2, StepPool
<1>4. CASE PreparationFails(r)
  <2>1. pass[r].at = "preparing" /\ goTo(r, "awaiting") /\ UNCHANGED <<loop, slots>>
    BY <1>4 DEF PreparationFails
  <2> QED  BY <2>1, AwaitPool
<1> QED  BY <1>2, <1>3, <1>4 DEF Faults

LEMMA WakeupsPool ==
  ASSUME Inv, PoolInv, Wakeups
  PROVE  PoolInv' /\ [Pool!Next]_slots
<1>1. loop \in LoopRec /\ Good(loop, pass)
  BY DEF Inv, Good, LoopTyped
<1>2. slots' = slots
  BY DEF Wakeups, Nudge, FeedbackCheckAnswered, DeferredRun, FeedbackArrives, taskVars
<1>3. CASE Nudge
  BY <1>2, <1>3, NudgePool DEF Nudge, PoolInv
<1>4. CASE FeedbackCheckAnswered \/ DeferredRun
  <2>1. CASE UNCHANGED <<loop, pass>>
    BY <1>2, <2>1 DEF PoolInv, AtMostOneAtWork
  <2>2. CASE /\ ~loop.active /\ idle(pass) # {}
             /\ loop' = started(loop, CHOOSE i \in idle(pass) : TRUE) /\ pass' = begun(pass)
    BY <1>1, <1>2, <2>2, StartPool DEF PoolInv, AtMostOneAtWork
  <2> QED  BY <1>1, <1>2, <1>4, <2>1, <2>2 DEF FeedbackCheckAnswered, DeferredRun, Good, Held
<1>5. CASE FeedbackArrives
  BY <1>2, <1>5 DEF FeedbackArrives, loopVars, PoolInv, AtMostOneAtWork
<1> QED  BY <1>2, <1>3, <1>4, <1>5 DEF Wakeups

LEMMA UnchangedPool ==
  ASSUME PoolInv, UNCHANGED <<loopVars, slots>>
  PROVE  PoolInv' /\ [Pool!Next]_slots
BY DEF loopVars, PoolInv, AtMostOneAtWork

LEMMA PoolStep ==
  ASSUME Inv, PoolInv, MaxStuck = 0, [Next]_vars
  PROVE  PoolInv' /\ [Pool!Next]_slots
<1>1. ASSUME NEW r \in Invocations, Pass(r) \/ Faults(r) PROVE PoolInv' /\ [Pool!Next]_slots
  BY <1>1, PassPool, FaultsPool
<1>2. CASE Wakeups
  BY <1>2, WakeupsPool
<1>3. ASSUME NEW t \in Tasks, Outcomes(t) PROVE PoolInv' /\ [Pool!Next]_slots
  BY <1>3, ReleasePool, UnchangedPool DEF Outcomes, Decide, Continue, Release
<1>4. ASSUME NEW t \in Tasks, Users(t) PROVE PoolInv' /\ [Pool!Next]_slots
  BY <1>4, ReleasePool, UnchangedPool DEF Users, StopTask, FreeSlot, EndTask, Reopen
<1>5. ASSUME NEW t \in Tasks, NEW o \in SlotObjects, SlotAgents(t, o)
      PROVE  PoolInv' /\ [Pool!Next]_slots
  BY <1>5, UnchangedPool DEF SlotAgents, AgentDone, RetrySpawns
<1>6. CASE UNCHANGED vars
  BY <1>6, UnchangedPool DEF vars, taskVars
<1> QED  BY <1>1, <1>2, <1>3, <1>4, <1>5, <1>6 DEF Next

\* Without an overrun guard the slots implement the abstract pool, for every
\* limit, assignment of worktrees, set of tasks and set of requests: runLoop
\* never exceeds maxSlots nor gives two tasks one worktree, although it counts
\* the free slots once and dispatches many awaits later.
THEOREM PoolRefinement ==
  ASSUME MaxStuck = 0
  PROVE  Spec => ImplementsPool
<1>1. Init => Pool!Init
  BY DEF Init, Pool!Init
<1>2. Inv /\ PoolInv /\ [Next]_vars => PoolInv' /\ [Pool!Next]_slots
  BY PoolStep
<1> QED  BY <1>1, <1>2, InitPool, Invariance, PTL DEF Spec, ImplementsPool, Pool!Spec

-----------------------------------------------------------------------------
(* Who works on a slot.  A step of the loop that is not about the coding     *)
(* phase leaves the invocations alone that are in it.                        *)
inPhase(x) == x.at = "preparing"

SamePhases(p, q) ==
  \A r \in Invocations : inPhase(p[r]) \/ inPhase(q[r]) => q[r] = p[r]

\* One invocation moves, neither from nor to the coding phase.
LEMMA MovesOutside ==
  ASSUME NEW p \in [Invocations -> PassRec], NEW q, NEW r \in Invocations,
         ~inPhase(p[r]), ~inPhase(q[r]), \A i \in Invocations : i # r => q[i] = p[i]
  PROVE  SamePhases(p, q)
BY DEF SamePhases

\* What an invocation is given by a step.
LEMMA Given ==
  ASSUME NEW p \in [Invocations -> PassRec], NEW r \in Invocations, NEW x, ~inPhase(x)
  PROVE  /\ ~inPhase([p EXCEPT ![r] = x][r])
         /\ \A i \in Invocations : i # r => [p EXCEPT ![r] = x][i] = p[i]
OBVIOUS

\* The locals an invocation starts, closes, dispatches and ends with.
LEMMA FreshOutside ==
  /\ ~inPhase(NoPass)
  /\ ~inPhase([NoPass EXCEPT !.at = "claiming"])
  /\ ~inPhase([NoPass EXCEPT !.at = "closing"])
  /\ \A b \in Seq(Tasks) : ~inPhase([NoPass EXCEPT !.at = "updating", !.batch = b])
BY DEF inPhase, NoPass

LEMMA BegunOutside ==
  ASSUME NEW p \in [Invocations -> PassRec], idle(p) # {}
  PROVE  SamePhases(p, begun(p))
<1> DEFINE n == CHOOSE i \in idle(p) : TRUE
<1>1. n \in Invocations /\ p[n] = NoPass
  BY DEF idle
<1> DEFINE x == [NoPass EXCEPT !.at = "claiming"]
<1>2. begun(p) = [p EXCEPT ![n] = x] /\ ~inPhase(x) /\ ~inPhase(p[n])
  BY <1>1, FreshOutside, Zenon DEF begun
<1> HIDE DEF x
<1>3. ~inPhase(begun(p)[n]) /\ \A i \in Invocations : i # n => begun(p)[i] = p[i]
  BY <1>1, <1>2, Given
<1> QED  BY <1>1, <1>2, <1>3, MovesOutside

LEMMA NudgeOutside ==
  ASSUME pass \in [Invocations -> PassRec], NEW l, NEW s, nudge(l, pass, s)
  PROVE  SamePhases(pass, pass')
<1>1. SamePhases(pass, pass)
  BY DEF SamePhases
<1> QED  BY <1>1, BegunOutside DEF nudge

\* The pass ends, or goes on with the next task.
LEMMA EndPassLeaves ==
  ASSUME pass \in [Invocations -> PassRec], NEW r \in Invocations, endPass(r) \/ giveUpLoop(r)
  PROVE  ~inPhase(pass'[r]) /\ \A i \in Invocations : i # r => pass'[i] = pass[i]
<1> DEFINE closing == [NoPass EXCEPT !.at = "closing"]
<1>1. ~inPhase(NoPass) /\ ~inPhase(closing)
  BY FreshOutside, Zenon
<1>2. pass' = [pass EXCEPT ![r] = NoPass] \/ pass' = [pass EXCEPT ![r] = closing]
  BY DEF endPass, giveUpLoop, ends
<1> HIDE DEF closing
<1> QED  BY <1>1, <1>2, Given

LEMMA NextDispatchLeaves ==
  ASSUME pass \in [Invocations -> PassRec], NEW r \in Invocations, nextDispatch(r),
         pass[r].batch # <<>>
  PROVE  ~inPhase(pass'[r]) /\ \A i \in Invocations : i # r => pass'[i] = pass[i]
<1>1. CASE endPass(r)
  BY <1>1, EndPassLeaves
<1>2. CASE pass' = [pass EXCEPT ![r] = [NoPass EXCEPT !.at = "updating",
                                                      !.batch = Tail(pass[r].batch)]]
  <2> DEFINE x == [NoPass EXCEPT !.at = "updating", !.batch = Tail(pass[r].batch)]
  <2>1. Tail(pass[r].batch) \in Seq(Tasks)
    BY HeadTailProperties DEF PassRec
  <2>2. ~inPhase(x) /\ pass' = [pass EXCEPT ![r] = x]
    BY <1>2, <2>1, FreshOutside, Zenon
  <2> HIDE DEF x
  <2> QED  BY <2>2, Given
<1> QED  BY <1>1, <1>2 DEF nextDispatch

\* The steps of an invocation outside the coding phase.
LEMMA PassOutside ==
  ASSUME Inv, NEW r \in Invocations, Pass(r),
         ~StartTask(r), ~SpawnCoder(r), ~ResumeMerge(r)
  PROVE  /\ SamePhases(pass, pass')
         /\ UNCHANGED <<slots, agents, retrying, outcome, stopping, failuresLeft>>
<1> USE DEF Working, Selecting, Dispatching
<1>1. pass \in [Invocations -> PassRec]
  BY DEF Inv, Good, LoopTyped
<1>2. CASE \/ ClaimFeedback(r) \/ ClaimNothing(r) \/ ReadReadyTasks(r) \/ CheckPasses(r)
           \/ (UpdateTask(r) /\ goTo(r, "starting"))
  <2>1. /\ ~inPhase(pass[r]) /\ ~inPhase(pass'[r])
        /\ \A i \in Invocations : i # r => pass'[i] = pass[i]
    BY <1>1, <1>2 DEF ClaimFeedback, ClaimNothing, ReadReadyTasks, CheckPasses, UpdateTask, goTo,
                      PassRec, inPhase
  <2> QED  BY <1>1, <1>2, <2>1, MovesOutside
              DEF ClaimFeedback, ClaimNothing, ReadReadyTasks, CheckPasses, UpdateTask,
                  taskVars, userVars, envVars
<1>3. CASE CheckBlocked(r) \/ SelectNone(r) \/ (UpdateTask(r) /\ endPass(r))
  <2>1. ~inPhase(pass[r]) /\ (endPass(r) \/ giveUpLoop(r))
    BY <1>3 DEF CheckBlocked, SelectNone, UpdateTask, inPhase
  <2> QED  BY <1>1, <1>3, <2>1, EndPassLeaves, MovesOutside
              DEF CheckBlocked, SelectNone, UpdateTask, taskVars, userVars, envVars
<1>4. CASE FinishPass(r)
  <2>1. /\ ~inPhase(pass[r]) /\ ~inPhase(pass'[r])
        /\ \A i \in Invocations : i # r => pass'[i] = pass[i]
    BY <1>1, <1>4, FreshOutside, Given DEF FinishPass, ends, inPhase
  <2> QED  BY <1>1, <1>4, <2>1, MovesOutside DEF FinishPass, taskVars, userVars, envVars
<1>5. CASE SelectSome(r)
  <2>1. PICK b \in batches(r) :
          pass' = [pass EXCEPT ![r] = [NoPass EXCEPT !.at = "updating", !.batch = b]]
    BY <1>5, Zenon DEF SelectSome
  <2>2. b \in Seq(Tasks)
    <3>1. PICK n \in 0..pass[r].available : b \in [1..n -> pass[r].ready]
      BY DEF batches
    <3> QED  BY <1>1, <3>1 DEF PassRec
  <2>3. /\ ~inPhase(pass[r]) /\ ~inPhase(pass'[r])
        /\ \A i \in Invocations : i # r => pass'[i] = pass[i]
    <3> DEFINE x == [NoPass EXCEPT !.at = "updating", !.batch = b]
    <3>1. ~inPhase(x) /\ pass' = [pass EXCEPT ![r] = x]
      BY <2>1, <2>2, FreshOutside, Zenon
    <3>2. ~inPhase(pass[r])
      BY <1>5 DEF SelectSome, inPhase
    <3> HIDE DEF x
    <3> QED  BY <1>1, <3>1, <3>2, Given
  <2> QED  BY <1>1, <1>5, <2>3, MovesOutside DEF SelectSome, taskVars, userVars, envVars
<1>6. CASE FeedbackProcessed(r)
  <2> DEFINE p == [pass EXCEPT ![r] = NoPass]
  <2>1. /\ ~inPhase(pass[r]) /\ ~inPhase(p[r]) /\ \A i \in Invocations : i # r => p[i] = pass[i]
        /\ p \in [Invocations -> PassRec] /\ r \in idle(p)
    BY <1>1, <1>6, NoPassTyped DEF FeedbackProcessed, inPhase, idle
  <2>2. pass' = p \/ pass' = begun(p)
    BY <1>6 DEF FeedbackProcessed
  <2> HIDE DEF p
  <2>3. SamePhases(pass, p) /\ SamePhases(p, begun(p))
    BY <1>1, <2>1, MovesOutside, BegunOutside
  <2>4. SamePhases(pass, pass')
    BY <2>2, <2>3 DEF SamePhases
  <2> QED  BY <1>6, <2>4 DEF FeedbackProcessed, taskVars, userVars, envVars
<1>7. UpdateTask(r) => UpdateTask(r) /\ (goTo(r, "starting") \/ endPass(r))
  BY DEF UpdateTask
<1>8. CASE OutcomeHandled(r)
  <2>1. ~inPhase(pass[r]) /\ pass[r].batch # <<>>
    BY <1>8 DEF OutcomeHandled, inPhase, Inv, Good, LoopTyped
  <2> QED  BY <1>1, <1>8, <2>1, NextDispatchLeaves, MovesOutside
              DEF OutcomeHandled, taskVars, userVars, envVars
<1> QED  BY <1>2, <1>3, <1>4, <1>5, <1>6, <1>7, <1>8 DEF Pass, Select

\* What wakes the loop starts an invocation, if anything.
LEMMA WakeupsOutside ==
  ASSUME Inv, Wakeups \/ \E r \in Invocations : StuckGuard(r)
  PROVE  /\ SamePhases(pass, pass')
         /\ UNCHANGED <<slots, agents, retrying, outcome, stopping, failuresLeft>>
<1>1. pass \in [Invocations -> PassRec] /\ SamePhases(pass, pass)
  BY DEF Inv, Good, LoopTyped, SamePhases
<1>2. CASE Nudge \/ \E r \in Invocations : StuckGuard(r)
  BY <1>1, <1>2, NudgeOutside DEF Nudge, StuckGuard, taskVars, userVars, envVars
<1>3. CASE FeedbackCheckAnswered \/ DeferredRun
  BY <1>1, <1>3, BegunOutside DEF FeedbackCheckAnswered, DeferredRun, taskVars, userVars, envVars
<1>4. CASE FeedbackArrives
  BY <1>1, <1>4 DEF FeedbackArrives, loopVars, taskVars, userVars
<1> QED  BY <1>2, <1>3, <1>4 DEF Wakeups

-----------------------------------------------------------------------------
(* Without failures there is somebody for every slot, until it is released.  *)
NothingFails == failuresLeft = 0

\* SlotIsWorkedOn of one task.
workedOn(t) ==
  \/ \E o \in SlotObjects : <<t, o>> \in agents \cup retrying
  \/ outcome[t] # "none"
  \/ \E request \in Requests : <<t, request>> \in stopping
  \/ \E r \in Invocations : inPhase(pass[r]) /\ task(r) = t

WorkInv == NothingFails /\ \A t \in Tasks : slots[t] # None => workedOn(t)

LEMMA WorkInvMeaning == WorkInv <=> NothingFails /\ SlotIsWorkedOn
BY DEF WorkInv, SlotIsWorkedOn, workedOn, inPhase

\* A step leaves the coding phases alone, takes slots at most, and what it takes
\* from a task is nothing its slot depends on.
LEMMA StillWorked ==
  ASSUME Inv, WorkInv, SamePhases(pass, pass'), failuresLeft' = failuresLeft,
         \A t \in Tasks : slots'[t] # None =>
           /\ slots[t] # None
           /\ \/ /\ \A o \in SlotObjects :
                      <<t, o>> \in agents \cup retrying => <<t, o>> \in agents' \cup retrying'
                 /\ outcome[t] # "none" => outcome'[t] # "none"
                 /\ \A request \in Requests :
                      <<t, request>> \in stopping => <<t, request>> \in stopping'
              \/ \E o \in SlotObjects : <<t, o>> \in agents' \cup retrying'
              \/ outcome'[t] # "none"
              \/ \E request \in Requests : <<t, request>> \in stopping'
  PROVE  WorkInv'
<1>1. NothingFails'
  BY DEF WorkInv, NothingFails
<1>2. ASSUME NEW t \in Tasks, slots'[t] # None PROVE workedOn(t)'
  <2>1. workedOn(t)
    BY <1>2 DEF WorkInv
  <2>2. ASSUME NEW r \in Invocations, inPhase(pass[r]), task(r) = t PROVE workedOn(t)'
    BY <2>2 DEF SamePhases, task, workedOn
  <2> QED  BY <1>2, <2>1, <2>2 DEF workedOn
<1> QED  BY <1>1, <1>2 DEF WorkInv

\* A step that touches no phase and nothing of a slot.
LEMMA UntouchedWork ==
  ASSUME Inv, WorkInv, SamePhases(pass, pass'),
         UNCHANGED <<slots, agents, retrying, outcome, stopping, failuresLeft>>
  PROVE  WorkInv'
BY StillWorked

\* start_task makes the slot for the phase that prepares its task.
LEMMA StartTaskWork ==
  ASSUME Inv, WorkInv, NEW r \in Invocations, StartTask(r)
  PROVE  WorkInv'
<1>1. pass \in [Invocations -> PassRec]
  BY DEF Inv, Good, LoopTyped
<1>2. PICK o \in SlotObjects :
        /\ slots' = [slots EXCEPT ![task(r)] = o]
        /\ pass' = [pass EXCEPT ![r].at = "preparing", ![r].slot = o]
  BY DEF StartTask
<1>3. /\ pass'[r].at = "preparing" /\ pass'[r].batch = pass[r].batch
      /\ \A i \in Invocations : i # r => pass'[i] = pass[i]
  BY <1>1, <1>2 DEF PassRec
<1>4. NothingFails'
  BY DEF WorkInv, NothingFails, StartTask, envVars
<1>5. ASSUME NEW t \in Tasks, slots'[t] # None PROVE workedOn(t)'
  <2>1. CASE t = task(r)
    BY <1>3, <2>1 DEF workedOn, task, inPhase
  <2>2. CASE t # task(r)
    <3>1. slots[t] # None
      BY <1>2, <1>5, <2>2 DEF Inv, RestTyped
    <3>2. workedOn(t)
      BY <3>1 DEF WorkInv
    <3>3. ASSUME NEW i \in Invocations, inPhase(pass[i]), task(i) = t PROVE workedOn(t)'
      <4>1. i # r
        BY <3>3, <2>2
      <4>2. pass'[i] = pass[i]
        BY <1>3, <4>1
      <4> QED  BY <3>3, <4>2 DEF task, workedOn
    <3> QED  BY <3>2, <3>3 DEF workedOn, StartTask, userVars
  <2> QED  BY <2>1, <2>2
<1> QED  BY <1>4, <1>5 DEF WorkInv

\* The phase hands its slot over to the agent.
LEMMA SpawnCoderWork ==
  ASSUME Inv, WorkInv, NEW r \in Invocations, SpawnCoder(r)
  PROVE  WorkInv'
<1>1. pass \in [Invocations -> PassRec] /\ pass[r].at = "preparing" /\ nextDispatch(r)
  BY DEF Inv, Good, LoopTyped, SpawnCoder
<1>2. pass[r].batch # <<>> /\ pass[r].slot \in SlotObjects
  BY <1>1 DEF Inv, Good, LoopTyped, Dispatching
<1>3. ~inPhase(pass'[r]) /\ \A i \in Invocations : i # r => pass'[i] = pass[i]
  BY <1>1, <1>2, NextDispatchLeaves
<1>4. NothingFails'
  BY DEF WorkInv, NothingFails, SpawnCoder, envVars
<1>5. ASSUME NEW t \in Tasks, slots'[t] # None PROVE workedOn(t)'
  <2>1. slots[t] # None /\ workedOn(t)
    BY <1>5 DEF WorkInv, SpawnCoder
  <2>2. CASE t = task(r)
    BY <1>2, <2>1, <2>2 DEF SpawnCoder, workedOn
  <2>3. CASE t # task(r)
    <3>1. ASSUME NEW i \in Invocations, inPhase(pass[i]), task(i) = t PROVE workedOn(t)'
      <4>1. i # r
        BY <3>1, <2>3
      <4>2. pass'[i] = pass[i]
        BY <1>3, <4>1
      <4> QED  BY <3>1, <4>2 DEF task, workedOn
    <3> QED  BY <2>1, <3>1 DEF workedOn, SpawnCoder, userVars
  <2> QED  BY <2>2, <2>3
<1> QED  BY <1>4, <1>5 DEF WorkInv

\* ... or to the handler of its merge.
LEMMA ResumeMergeWork ==
  ASSUME Inv, WorkInv, NEW r \in Invocations, ResumeMerge(r)
  PROVE  WorkInv'
<1>1. /\ pass \in [Invocations -> PassRec] /\ pass[r].at = "preparing"
      /\ outcome \in [Tasks -> {"none", "deciding", "branchInUse", "merging", "releasing"}]
  BY DEF Inv, Good, LoopTyped, RestTyped, ResumeMerge
<1>2. task(r) \in Tasks /\ pass[r].batch # <<>>
  BY <1>1, HeadTailProperties DEF Inv, Good, LoopTyped, PassRec, task, Dispatching
<1>3. \A i \in Invocations : i # r => pass'[i] = pass[i]
  BY <1>1, <1>2, NextDispatchLeaves DEF ResumeMerge, goTo
<1>4. slots[task(r)] # None => outcome'[task(r)] # "none"
  BY <1>1, <1>2 DEF ResumeMerge
<1>5. \A t \in Tasks : outcome[t] # "none" => outcome'[t] # "none"
  BY <1>1, <1>2 DEF ResumeMerge
<1>6. ASSUME NEW t \in Tasks, slots'[t] # None PROVE workedOn(t)'
  <2>1. slots[t] # None /\ workedOn(t)
    BY <1>6 DEF WorkInv, ResumeMerge
  <2>2. CASE t = task(r)
    BY <1>4, <2>1, <2>2 DEF workedOn
  <2>3. CASE t # task(r)
    <3>1. ASSUME NEW i \in Invocations, inPhase(pass[i]), task(i) = t PROVE workedOn(t)'
      <4>1. pass'[i] = pass[i]
        BY <1>3, <2>3, <3>1
      <4> QED  BY <3>1, <4>1 DEF task, workedOn
    <3> QED  BY <1>5, <2>1, <3>1 DEF workedOn, ResumeMerge, userVars
  <2> QED  BY <2>2, <2>3
<1> QED  BY <1>6 DEF WorkInv, NothingFails, ResumeMerge, envVars

LEMMA PassWork ==
  ASSUME Inv, WorkInv, NEW r \in Invocations, Pass(r) \/ Faults(r)
  PROVE  WorkInv'
<1>1. ~PassFails(r) /\ ~PreparationFails(r)
  BY DEF WorkInv, NothingFails, PassFails, PreparationFails
<1>2. CASE Pass(r)
  BY <1>2, PassOutside, UntouchedWork, StartTaskWork, SpawnCoderWork, ResumeMergeWork
<1>3. CASE StuckGuard(r)
  BY <1>3, WakeupsOutside, UntouchedWork
<1> QED  BY <1>1, <1>2, <1>3 DEF Faults

\* What becomes of a slot.
LEMMA SlotWork ==
  ASSUME Inv, WorkInv, NEW t \in Tasks,
         Outcomes(t) \/ Users(t) \/ \E o \in SlotObjects : SlotAgents(t, o)
  PROVE  WorkInv'
<1>1. pass \in [Invocations -> PassRec] /\ slots \in [Tasks -> SlotObjects \cup {None}]
        /\ outcome \in [Tasks -> {"none", "deciding", "branchInUse", "merging", "releasing"}]
  BY DEF Inv, Good, LoopTyped, RestTyped
<1>2. SamePhases(pass, pass)
  BY DEF SamePhases
<1>3. CASE Decide(t)
  BY <1>1, <1>2, <1>3, StillWorked DEF Decide, loopVars, userVars, envVars
<1>4. CASE Continue(t)
  <2>1. slots[t] # None => slots[t] \in SlotObjects /\ <<t, slots[t]>> \in retrying'
    BY <1>1, <1>4 DEF Continue
  <2>2. \A u \in Tasks : u # t => outcome'[u] = outcome[u]
    BY <1>1, <1>4 DEF Continue
  <2>3. retrying \subseteq retrying'
    BY <1>4 DEF Continue
  <2> QED  BY <1>2, <1>4, <2>1, <2>2, <2>3, StillWorked DEF Continue, loopVars, userVars, envVars
<1>5. ASSUME slots' = removed(t), agents' = killed(t), nudge(loop, pass, removed(t)),
             \A u \in Tasks : u # t => outcome'[u] = outcome[u],
             \A u \in Tasks, request \in Requests :
               u # t /\ <<u, request>> \in stopping => <<u, request>> \in stopping',
             UNCHANGED <<retrying, failuresLeft>>
      PROVE  WorkInv'
  <2>1. SamePhases(pass, pass')
    BY <1>1, <1>5, NudgeOutside
  <2>2. \A u \in Tasks : slots'[u] # None => u # t /\ slots'[u] = slots[u]
    BY <1>1, <1>5 DEF removed
  <2>3. \A u \in Tasks, o \in SlotObjects : u # t /\ <<u, o>> \in agents => <<u, o>> \in agents'
    BY <1>5 DEF killed
  <2> QED  BY <1>5, <2>1, <2>2, <2>3, StillWorked
<1>6. CASE Release(t)
  BY <1>1, <1>5, <1>6 DEF Release, userVars, envVars
<1>7. ASSUME NEW request \in Requests, StopTask(t, request) PROVE WorkInv'
  <2>1. slots[t] # None => <<t, request>> \in stopping'
    BY <1>7 DEF StopTask
  <2>2. stopping \subseteq stopping'
    BY <1>7 DEF StopTask
  <2>3. \A u \in Tasks, o \in SlotObjects : u # t /\ <<u, o>> \in agents => <<u, o>> \in agents'
    BY <1>7 DEF StopTask, killed
  <2> QED  BY <1>2, <1>7, <2>1, <2>2, <2>3, StillWorked DEF StopTask, loopVars, envVars
<1>8. ASSUME NEW request \in Requests, FreeSlot(t, request) PROVE WorkInv'
  BY <1>5, <1>8 DEF FreeSlot, envVars
<1>9. ASSUME NEW request \in Requests \cup {"block"}, EndTask(t, request) PROVE WorkInv'
  BY <1>2, <1>9, UntouchedWork DEF EndTask, loopVars, envVars
<1>10. CASE Reopen(t)
  BY <1>2, <1>10, UntouchedWork DEF Reopen, loopVars, userVars, envVars
<1>11. ASSUME NEW o \in SlotObjects, AgentDone(t, o) PROVE WorkInv'
  <2>1. \A u \in Tasks, i \in SlotObjects : u # t /\ <<u, i>> \in agents => <<u, i>> \in agents'
    BY <1>11 DEF AgentDone
  <2>2. slots[t] # None => outcome'[t] # "none"
    BY <1>1, <1>11 DEF AgentDone
  <2>3. \A u \in Tasks : u # t => outcome'[u] = outcome[u]
    BY <1>1, <1>11 DEF AgentDone
  <2> QED  BY <1>2, <1>11, <2>1, <2>2, <2>3, StillWorked DEF AgentDone, loopVars, userVars, envVars
<1>12. ASSUME NEW o \in SlotObjects, RetrySpawns(t, o) PROVE WorkInv'
  <2>1. \A u \in Tasks, i \in SlotObjects :
          slots[u] # None /\ <<u, i>> \in agents \cup retrying
             => <<u, i>> \in agents' \cup retrying'
    BY <1>12 DEF RetrySpawns
  <2> QED  BY <1>2, <1>12, <2>1, StillWorked DEF RetrySpawns, loopVars, userVars, envVars
<1> QED  BY <1>3, <1>4, <1>6, <1>7, <1>8, <1>9, <1>10, <1>11, <1>12
            DEF Outcomes, Users, SlotAgents

LEMMA WorkStep == Inv /\ WorkInv /\ [Next]_vars => WorkInv'
<1> SUFFICES ASSUME Inv, WorkInv, [Next]_vars PROVE WorkInv'
  OBVIOUS
<1>1. CASE Wakeups
  BY <1>1, WakeupsOutside, UntouchedWork
<1>2. CASE UNCHANGED vars
  <2>1. SamePhases(pass, pass')
    BY <1>2 DEF SamePhases, vars, loopVars
  <2> QED  BY <1>2, <2>1, UntouchedWork DEF vars, taskVars, userVars, envVars
<1> QED  BY <1>1, <1>2, PassWork, SlotWork DEF Next

\* For any number of overrun guards and whatever users do meanwhile: as long as
\* nothing fails, no slot is left that nobody would release - an agent or a
\* retry is at work on its task, its outcome is handled, a user's request is
\* stopping it, or an invocation prepares it.
THEOREM WorkedOn ==
  ASSUME MaxFailures = 0
  PROVE  Spec => []SlotIsWorkedOn
<1>1. Init => WorkInv
  BY DEF Init, WorkInv, NothingFails
<1>2. WorkInv => SlotIsWorkedOn
  BY WorkInvMeaning
<1> QED  BY <1>1, <1>2, WorkStep, Invariance, PTL DEF Spec

-----------------------------------------------------------------------------
(* One at a time works on a slot.  Without users' requests the coding phase  *)
(* that is prepared, the agent, the retry and the handler of a task exclude  *)
(* each other, and each has the slot that was made for it.                   *)
unattended(t) == \A o \in SlotObjects : <<t, o>> \notin agents \cup retrying

OneWorker ==
  /\ \A t \in Tasks, o \in SlotObjects : <<t, o>> \in agents =>
       slots[t] = o /\ outcome[t] = "none" /\ <<t, o>> \notin retrying
  /\ \A t \in Tasks, o \in SlotObjects : <<t, o>> \in retrying =>
       slots[t] = o /\ outcome[t] = "none"
  /\ \A t \in Tasks : outcome[t] # "none" => slots[t] # None
  /\ \A r \in Invocations : pass[r].at = "preparing" =>
       /\ slots[task(r)] = pass[r].slot /\ outcome[task(r)] = "none"
       /\ unattended(task(r))

\* The task an invocation dispatches.
LEMMA Dispatched ==
  ASSUME Inv, NEW r \in Invocations, pass[r].at \in Dispatching
  PROVE  task(r) \in Tasks /\ pass[r].batch # <<>>
BY HeadTailProperties DEF Inv, Good, LoopTyped, PassRec, task

LEMMA UntouchedWorker ==
  ASSUME Inv, OneWorker, SamePhases(pass, pass'),
         UNCHANGED <<slots, agents, retrying, outcome>>
  PROVE  OneWorker'
BY DEF OneWorker, SamePhases, inPhase, unattended, task

\* The invocation that prepares a coding phase is the only one at work.
LEMMA NoOtherPhase ==
  ASSUME PoolInv, NEW r \in Invocations, pass[r].at \in Dispatching
  PROVE  \A i \in Invocations : i # r => pass[i].at \notin Working
BY DEF PoolInv, AtMostOneAtWork, Working

\* A step of the invocation that dispatches.
LEMMA DispatchWorker ==
  ASSUME Inv, PoolInv, OneWorker, NEW r \in Invocations,
         StartTask(r) \/ SpawnCoder(r) \/ ResumeMerge(r) \/ PreparationFails(r)
  PROVE  OneWorker'
<1> USE DEF Dispatching
<1>1. pass \in [Invocations -> PassRec] /\ pass[r].at \in Dispatching
  BY DEF Inv, Good, LoopTyped, StartTask, SpawnCoder, ResumeMerge, PreparationFails
<1>2. task(r) \in Tasks /\ pass[r].batch # <<>> /\ pass[r].batch \in Seq(Tasks)
  BY <1>1, Dispatched DEF PassRec
<1>3. \A i \in Invocations : i # r => pass[i].at # "preparing"
  BY <1>1, NoOtherPhase DEF Working
<1>4. /\ slots \in [Tasks -> SlotObjects \cup {None}] /\ None \notin SlotObjects
      /\ outcome \in [Tasks -> {"none", "deciding", "branchInUse", "merging", "releasing"}]
      /\ agents \subseteq Tasks \X SlotObjects /\ retrying \subseteq Tasks \X SlotObjects
  BY LoopAssumption DEF Inv, RestTyped
<1>5. CASE StartTask(r)
  <2>1. PICK o \in SlotObjects :
          /\ slots' = [slots EXCEPT ![task(r)] = o]
          /\ pass' = [pass EXCEPT ![r].at = "preparing", ![r].slot = o]
    BY <1>5 DEF StartTask
  <2>2. /\ pass'[r].at = "preparing" /\ pass'[r].batch = pass[r].batch /\ pass'[r].slot = o
        /\ \A i \in Invocations : i # r => pass'[i] = pass[i]
    BY <1>1, <2>1 DEF PassRec
  <2>3. Fits(pass[r].batch, slots)
    BY <1>5 DEF StartTask, PoolInv, RoomLeft, todo
  <2>4. slots[task(r)] = None
    BY <1>2, <2>1, <2>3, StartFits DEF Inv, task
  <2>5. unattended(task(r)) /\ outcome[task(r)] = "none"
    BY <1>2, <1>4, <2>4 DEF OneWorker, unattended
  <2>6. /\ slots'[task(r)] = o
        /\ \A t \in Tasks : t # task(r) => slots'[t] = slots[t]
    BY <1>2, <1>4, <2>1
  <2>7. UNCHANGED <<agents, retrying, outcome>>
    BY <1>5 DEF StartTask
  <2>8. \A t \in Tasks, i \in SlotObjects : <<t, i>> \in agents \cup retrying => t # task(r)
    BY <2>5 DEF unattended
  <2>9. task(r)' = task(r)
    BY <2>2 DEF task
  <2>10. /\ \A t \in Tasks, i \in SlotObjects : <<t, i>> \in agents' =>
              slots'[t] = i /\ outcome'[t] = "none" /\ <<t, i>> \notin retrying'
         /\ \A t \in Tasks, i \in SlotObjects : <<t, i>> \in retrying' =>
              slots'[t] = i /\ outcome'[t] = "none"
    BY <2>6, <2>7, <2>8 DEF OneWorker
  <2>11. \A t \in Tasks : outcome'[t] # "none" => slots'[t] # None
    BY <1>4, <2>5, <2>6, <2>7 DEF OneWorker
  <2>12. /\ slots'[task(r)'] = pass'[r].slot /\ outcome'[task(r)'] = "none"
         /\ unattended(task(r))'
    BY <2>2, <2>5, <2>6, <2>7, <2>9 DEF unattended
  <2>13. \A i \in Invocations : pass'[i].at = "preparing" => i = r
    BY <1>3, <2>2
  <2> QED  BY <2>10, <2>11, <2>12, <2>13 DEF OneWorker
<1>6. CASE SpawnCoder(r)
  <2>1. pass[r].at = "preparing" /\ pass[r].slot \in SlotObjects
    BY <1>6 DEF SpawnCoder, Inv, Good, LoopTyped
  <2>2. slots[task(r)] = pass[r].slot /\ outcome[task(r)] = "none" /\ unattended(task(r))
    BY <2>1 DEF OneWorker
  <2>3. agents' = agents \cup {<<task(r), pass[r].slot>>}
          /\ UNCHANGED <<slots, retrying, outcome>>
    BY <1>4, <1>6, <2>1, <2>2 DEF SpawnCoder
  <2>4. \A i \in Invocations : pass'[i].at # "preparing"
    BY <1>1, <1>2, <1>3, <1>6, NextDispatchLeaves DEF SpawnCoder, inPhase
  <2> QED  BY <1>2, <2>1, <2>2, <2>3, <2>4 DEF OneWorker, unattended
<1>7. CASE ResumeMerge(r)
  <2>1. /\ pass[r].at = "preparing" /\ pass[r].slot \in SlotObjects
        /\ slots[task(r)] = pass[r].slot /\ unattended(task(r))
    BY <1>7 DEF ResumeMerge, OneWorker, Inv, Good, LoopTyped
  <2>2. goTo(r, "awaiting")
    BY <1>4, <1>7, <2>1 DEF ResumeMerge
  <2>3. \A i \in Invocations : pass'[i].at # "preparing"
    BY <1>1, <1>3, <2>2 DEF goTo, PassRec
  <2>4. /\ \A t \in Tasks : t # task(r) => outcome'[t] = outcome[t]
        /\ UNCHANGED <<slots, agents, retrying>>
    BY <1>2, <1>4, <1>7 DEF ResumeMerge
  <2> QED  BY <1>4, <2>1, <2>3, <2>4 DEF OneWorker, unattended
<1>8. CASE PreparationFails(r)
  <2>1. pass[r].at = "preparing" /\ slots[task(r)] # None /\ unattended(task(r))
    BY <1>8 DEF PreparationFails, OneWorker
  <2>2. \A i \in Invocations : pass'[i].at # "preparing"
    BY <1>1, <1>3, <1>8 DEF PreparationFails, goTo, PassRec
  <2>3. /\ \A t \in Tasks : t # task(r) => outcome'[t] = outcome[t]
        /\ UNCHANGED <<slots, agents, retrying>>
    BY <1>2, <1>4, <1>8 DEF PreparationFails
  <2> QED  BY <2>1, <2>2, <2>3 DEF OneWorker, unattended
<1> QED  BY <1>5, <1>6, <1>7, <1>8

LEMMA PassWorker ==
  ASSUME Inv, PoolInv, OneWorker, NEW r \in Invocations, Pass(r) \/ Faults(r)
  PROVE  OneWorker'
<1>1. pass \in [Invocations -> PassRec]
  BY DEF Inv, Good, LoopTyped
<1>2. CASE Pass(r)
  BY <1>2, PassOutside, UntouchedWorker, DispatchWorker
<1>3. CASE StuckGuard(r)
  BY <1>3, WakeupsOutside, UntouchedWorker
<1>4. CASE PassFails(r)
  <2>1. /\ pass'[r].at = "idle" /\ \A i \in Invocations : i # r => pass'[i] = pass[i]
        /\ UNCHANGED <<slots, agents, retrying, outcome>>
    BY <1>1, <1>4, NoPassTyped DEF PassFails, ends, taskVars
  <2> QED  BY <2>1 DEF OneWorker, unattended, task
<1>5. CASE PreparationFails(r)
  BY <1>5, DispatchWorker
<1> QED  BY <1>2, <1>3, <1>4, <1>5 DEF Faults

\* What becomes of a slot without users' requests.
LEMMA SlotWorker ==
  ASSUME Inv, OneWorker, Requests = {}, NEW t \in Tasks,
         Outcomes(t) \/ Users(t) \/ \E o \in SlotObjects : SlotAgents(t, o)
  PROVE  OneWorker'
<1>1. pass \in [Invocations -> PassRec] /\ SamePhases(pass, pass)
  BY DEF Inv, Good, LoopTyped, SamePhases
<1>2. /\ slots \in [Tasks -> SlotObjects \cup {None}] /\ None \notin SlotObjects
      /\ outcome \in [Tasks -> {"none", "deciding", "branchInUse", "merging", "releasing"}]
      /\ agents \subseteq Tasks \X SlotObjects /\ retrying \subseteq Tasks \X SlotObjects
  BY LoopAssumption DEF Inv, RestTyped
\* The task is being handled: nobody else works on it.
<1>3. outcome[t] # "none" =>
        /\ slots[t] \in SlotObjects /\ unattended(t)
        /\ \A r \in Invocations : pass[r].at = "preparing" => task(r) # t
  BY <1>2 DEF OneWorker, unattended
<1>4. CASE Decide(t)
  <2>1. /\ outcome[t] # "none" /\ outcome'[t] = "releasing"
        /\ \A u \in Tasks : u # t => outcome'[u] = outcome[u]
        /\ UNCHANGED <<pass, slots, agents, retrying>>
    BY <1>2, <1>4 DEF Decide, loopVars
  <2>2. /\ \A u \in Tasks, o \in SlotObjects : <<u, o>> \in agents \cup retrying => u # t
        /\ \A r \in Invocations : pass[r].at = "preparing" => task(r) \in Tasks \ {t}
    BY <1>3, <2>1, Dispatched DEF unattended, Dispatching
  <2>3. \A r \in Invocations : pass'[r].at = "preparing" =>
          /\ slots'[task(r)'] = pass'[r].slot /\ outcome'[task(r)'] = "none"
          /\ unattended(task(r))'
    BY <2>1, <2>2 DEF OneWorker, unattended, task
  <2> QED  BY <1>3, <2>1, <2>2, <2>3 DEF OneWorker
<1>5. CASE Continue(t)
  <2>1. /\ outcome[t] # "none" /\ outcome'[t] = "none"
        /\ \A u \in Tasks : u # t => outcome'[u] = outcome[u]
        /\ UNCHANGED <<pass, slots, agents>>
    BY <1>2, <1>5 DEF Continue, loopVars
  <2>2. retrying' = retrying \cup {<<t, slots[t]>>}
    BY <1>2, <1>3, <1>5, <2>1 DEF Continue
  <2>3. /\ \A u \in Tasks, o \in SlotObjects : <<u, o>> \in agents \cup retrying => u # t
        /\ \A r \in Invocations : pass[r].at = "preparing" => task(r) \in Tasks \ {t}
    BY <1>3, <2>1, Dispatched DEF unattended, Dispatching
  <2>4. \A r \in Invocations : pass'[r].at = "preparing" =>
          /\ slots'[task(r)'] = pass'[r].slot /\ outcome'[task(r)'] = "none"
          /\ unattended(task(r))'
    BY <2>1, <2>2, <2>3 DEF OneWorker, unattended, task
  <2>5. /\ \A u \in Tasks, o \in SlotObjects : <<u, o>> \in agents' =>
             slots'[u] = o /\ outcome'[u] = "none" /\ <<u, o>> \notin retrying'
        /\ \A u \in Tasks, o \in SlotObjects : <<u, o>> \in retrying' =>
             slots'[u] = o /\ outcome'[u] = "none"
    BY <2>1, <2>2, <2>3 DEF OneWorker
  <2> QED  BY <2>1, <2>4, <2>5 DEF OneWorker
<1>6. CASE Release(t)
  <2>1. /\ outcome[t] # "none" /\ outcome'[t] = "none"
        /\ \A u \in Tasks : u # t => outcome'[u] = outcome[u] /\ slots'[u] = slots[u]
        /\ agents' \subseteq agents /\ retrying' = retrying
    BY <1>2, <1>6 DEF Release, removed, killed
  <2>2. SamePhases(pass, pass')
    BY <1>1, <1>6, NudgeOutside DEF Release
  <2>3. \A u \in Tasks, o \in SlotObjects : <<u, o>> \in agents' \cup retrying' => u # t
    BY <1>3, <2>1 DEF unattended
  <2>4. \A r \in Invocations : pass'[r].at = "preparing" =>
          /\ pass'[r] = pass[r] /\ pass[r].at = "preparing"
          /\ task(r)' = task(r) /\ task(r) \in Tasks \ {t}
    BY <1>3, <2>1, <2>2, Dispatched DEF SamePhases, inPhase, task, Dispatching
  <2> QED  BY <2>1, <2>3, <2>4 DEF OneWorker, unattended
<1>7. CASE Users(t)
  <2>1. EndTask(t, "block") \/ Reopen(t)
    BY <1>7 DEF Users
  <2>2. UNCHANGED <<pass, slots, agents, retrying, outcome>>
    BY <2>1 DEF EndTask, Reopen, loopVars
  <2> QED  BY <1>1, <2>2, UntouchedWorker
<1>8. ASSUME NEW o \in SlotObjects, AgentDone(t, o) PROVE OneWorker'
  <2>1. /\ <<t, o>> \in agents /\ slots[t] = o /\ outcome[t] = "none"
        /\ \A i \in SlotObjects : <<t, i>> \in agents \cup retrying => i = o
        /\ <<t, o>> \notin retrying
        /\ \A r \in Invocations : pass[r].at = "preparing" => task(r) # t
    BY <1>8 DEF AgentDone, OneWorker, unattended
  <2>2. /\ agents' = agents \ {<<t, o>>} /\ outcome'[t] = "deciding"
        /\ \A u \in Tasks : u # t => outcome'[u] = outcome[u]
        /\ UNCHANGED <<pass, slots, retrying>>
    BY <1>2, <1>8, <2>1 DEF AgentDone, loopVars
  <2>3. unattended(t)'
    BY <2>1, <2>2 DEF unattended
  <2>4. \A u \in Tasks, i \in SlotObjects : <<u, i>> \in agents' \cup retrying' => u # t
    BY <2>3 DEF unattended
  <2>5. \A r \in Invocations : pass'[r].at = "preparing" =>
          /\ slots'[task(r)'] = pass'[r].slot /\ outcome'[task(r)'] = "none"
          /\ unattended(task(r))'
    <3>1. \A r \in Invocations : pass[r].at = "preparing" => task(r) \in Tasks \ {t}
      BY <2>1, Dispatched DEF Dispatching
    <3> QED  BY <2>2, <3>1 DEF OneWorker, unattended, task
  <2>6. /\ \A u \in Tasks, i \in SlotObjects : <<u, i>> \in agents' =>
             slots'[u] = i /\ outcome'[u] = "none" /\ <<u, i>> \notin retrying'
        /\ \A u \in Tasks, i \in SlotObjects : <<u, i>> \in retrying' =>
             slots'[u] = i /\ outcome'[u] = "none"
    BY <2>2, <2>4 DEF OneWorker
  <2>7. \A u \in Tasks : outcome'[u] # "none" => slots'[u] # None
    BY <1>2, <2>1, <2>2 DEF OneWorker
  <2> QED  BY <2>5, <2>6, <2>7 DEF OneWorker
<1>9. ASSUME NEW o \in SlotObjects, RetrySpawns(t, o) PROVE OneWorker'
  <2>1. /\ <<t, o>> \in retrying /\ slots[t] = o /\ outcome[t] = "none"
        /\ \A r \in Invocations : pass[r].at = "preparing" => task(r) # t
    BY <1>9 DEF RetrySpawns, OneWorker, unattended
  <2>2. /\ retrying' = retrying \ {<<t, o>>} /\ agents' = agents \cup {<<t, o>>}
        /\ UNCHANGED <<pass, slots, outcome>>
    BY <1>2, <1>9, <2>1 DEF RetrySpawns, loopVars
  <2>3. \A r \in Invocations : pass'[r].at = "preparing" =>
          /\ slots'[task(r)'] = pass'[r].slot /\ outcome'[task(r)'] = "none"
          /\ unattended(task(r))'
    BY <2>1, <2>2 DEF OneWorker, unattended, task
  <2>4. /\ \A u \in Tasks, i \in SlotObjects : <<u, i>> \in agents' =>
             slots'[u] = i /\ outcome'[u] = "none" /\ <<u, i>> \notin retrying'
        /\ \A u \in Tasks, i \in SlotObjects : <<u, i>> \in retrying' =>
             slots'[u] = i /\ outcome'[u] = "none"
    BY <2>1, <2>2 DEF OneWorker
  <2>5. \A u \in Tasks : outcome'[u] # "none" => slots'[u] # None
    BY <2>2 DEF OneWorker
  <2> QED  BY <2>3, <2>4, <2>5 DEF OneWorker
<1> QED  BY <1>4, <1>5, <1>6, <1>7, <1>8, <1>9 DEF Outcomes, SlotAgents

LEMMA WorkerStep ==
  ASSUME Inv, PoolInv, OneWorker, Requests = {}, [Next]_vars
  PROVE  OneWorker'
<1>1. CASE Wakeups
  BY <1>1, WakeupsOutside, UntouchedWorker
<1>2. CASE UNCHANGED vars
  <2>1. SamePhases(pass, pass')
    BY <1>2 DEF SamePhases, vars, loopVars
  <2> QED  BY <1>2, <2>1, UntouchedWorker DEF vars, taskVars
<1> QED  BY <1>1, <1>2, PassWorker, SlotWorker DEF Next

\* For any number of failures: while no invocation outlasts the stuck guard and
\* no user takes a slot away, every agent is the one its task's slot was made
\* for, so the end of an agent is never put down to another slot.
THEOREM AgentsInSlots ==
  ASSUME MaxStuck = 0, Requests = {}
  PROVE  Spec => []AgentsHaveSlots
<1>1. Init => OneWorker
  BY NoPassTyped DEF Init, OneWorker, NoPass, unattended
<1>2. Inv /\ PoolInv /\ [Next]_vars => PoolInv'
  BY PoolStep
<1>3. Inv /\ PoolInv /\ OneWorker /\ [Next]_vars => OneWorker'
  BY WorkerStep
<1>4. Inv /\ OneWorker => AgentsHaveSlots
  BY DEF Inv, RestTyped, OneWorker, AgentsHaveSlots
<1> QED  BY <1>1, <1>2, <1>3, <1>4, InitPool, Invariance, PTL DEF Spec
=============================================================================
