-------------------------- MODULE OrchestratorLoop --------------------------
(* The dispatch loop of one project: runLoop of packages/backend/src/        *)
(* services/orchestrator-loop.service.ts, dispatchTask of orchestrator-      *)
(* dispatch.service.ts, and the parts of orchestrator.service.ts that start  *)
(* the loop and fill and free slots.  Several invocations of runLoop can be  *)
(* alive at once: one that has given the loop up and still awaits something, *)
(* and one that outlasted the stuck guard.  A step reaches from one await to *)
(* the next; what the rest of the system does to a slot and its task - the   *)
(* agent, the outcome handlers, the user, the watchdog - interleaves.        *)
EXTENDS Integers, Sequences, FiniteSets

CONSTANTS
  Tasks, MaxSlots,
  Keys, WorktreeKey,  \* the worktree each task is worked on in
  BaselineFailing,    \* state.status.baselineStatus is "failing"
  Remediation,        \* the tasks that are to repair the baseline
  Exhausted,          \* those with MAX_BASELINE_REMEDIATION_ATTEMPTS attempts
  Requests,           \* what users ask for: "kill", "done", "delete"
  Invocations,        \* bound: invocations of runLoop alive at once
  SlotObjects,        \* bound: AgentSlot objects in use at once
  MaxStuck,           \* bound: passes that outlast the stuck guard
  MaxFailures,        \* bound: failures of what a pass awaits
  None                \* no invocation, no slot

ASSUME LoopAssumption ==
  /\ MaxSlots \in Nat \ {0} /\ MaxStuck \in Nat /\ MaxFailures \in Nat
  /\ IsFiniteSet(Tasks) /\ BaselineFailing \in BOOLEAN
  /\ Remediation \subseteq Tasks /\ Exhausted \subseteq Remediation
  /\ WorktreeKey \in [Tasks -> Keys]
  /\ None \notin Invocations \cup SlotObjects
  /\ Requests \subseteq {"kill", "done", "delete"}

\* What an invocation is awaiting.  While it is "closing" only a broadcast and
\* the finally block are left.
Selecting == {"claiming", "analyst", "reading", "checking", "selecting"}
Dispatching == {"updating", "starting", "preparing", "awaiting"}
Working == Selecting \cup Dispatching

TaskStatus == {"open", "in_progress", "blocked", "closed", "deleted"}

VARIABLES
  loop,           \* [active, run, guard, timer]: loopActive, the invocation
                  \* whose id loopRunId is, whose stuck guard is armed, and
                  \* whether the "loop" timer is set
  pass,           \* each invocation's locals: [at, ready, available, batch,
                  \* slot], what it awaits, readyTasks, slotsAvailable, what is
                  \* left of its dispatchBatch, and the slot it created last
  feedbackCheck,  \* a nudge on full slots awaits getNextPendingFeedbackId
  feedback,       \* feedback is pending
  status,         \* each task's status in the task store
  slots,          \* state.slots
  agents,         \* <<task, slot object>>: a coder or reviewer runs
  retrying,       \* <<task, slot object>>: executeCodingPhase for a retry
  outcome,        \* what the outcome handlers are doing for each task
  stopping,       \* <<task, request>>: stopTaskAndFreeSlot is cleaning up
  ending,         \* <<task, request>>: the write of its status follows
  stuckLeft, failuresLeft

loopVars == <<loop, pass, feedbackCheck>>
taskVars == <<status, slots, agents, retrying, outcome>>
userVars == <<stopping, ending>>
envVars == <<feedback, stuckLeft, failuresLeft>>
vars == <<loopVars, taskVars, userVars, envVars>>

-----------------------------------------------------------------------------
slotted(s) == {t \in Tasks : s[t] # None}

slotsFull(s) == Cardinality(slotted(s)) >= MaxSlots

\* removeSlot: the slot's agent is killed with it.
removed(t) == [slots EXCEPT ![t] = None]
killed(t) == agents \ {<<t, slots[t]>>}

\* An invocation that has ended; locals that are not used any more are reset.
NoPass == [at |-> "idle", ready |-> {}, available |-> 0, batch |-> <<>>, slot |-> None]

idle(p) == {r \in Invocations : p[r] = NoPass}

begun(p) == [p EXCEPT ![CHOOSE r \in idle(p) : TRUE] = [NoPass EXCEPT !.at = "claiming"]]

\* runLoop up to its first await, after the caller has left l and p.
started(l, r) == [active |-> TRUE, run |-> r, guard |-> r, timer |-> FALSE]

\* Mutant: a nudge does not look at loopActive.
inattentiveStart(l, s) == ~l.timer /\ ~slotsFull(s)

canStart(l, s) == ~l.active /\ ~l.timer /\ ~slotsFull(s)

\* nudge, called when the loop record is l, the invocations p, the slots s.
nudgedLoop(l, p, s) == IF canStart(l, s) THEN started(l, CHOOSE r \in idle(p) : TRUE) ELSE l

nudge(l, p, s) ==
  /\ idle(p) # {}
  /\ loop' = nudgedLoop(l, p, s)
  /\ pass' = IF canStart(l, s) THEN begun(p) ELSE p
  /\ feedbackCheck' = (feedbackCheck \/ (~l.active /\ ~l.timer /\ slotsFull(s)))

\* Mutant: a stale invocation clears loopActive as well.
relinquishedByAnyone(r) == [loop EXCEPT !.active = FALSE]

\* Mutant: a pass that ends leaves loopActive set.
neverRelinquished(r) == loop

\* if (state.loopRunId === myRunId) state.loopActive = false
relinquished(r) == IF loop.run = r THEN [loop EXCEPT !.active = FALSE] ELSE loop

\* The finally block: whoever's guard is armed, it is cleared.
unguarded(l) == [l EXCEPT !.guard = None]

goTo(r, at) == pass' = [pass EXCEPT ![r].at = at]

ends(r) == pass' = [pass EXCEPT ![r] = NoPass]

\* The pass ends without another await.
endPass(r) ==
  /\ loop' = unguarded(relinquished(r))
  /\ ends(r)

\* The pass ends with the loop given up before a last broadcast.
giveUpLoop(r) ==
  /\ loop' = relinquished(r)
  /\ pass' = [pass EXCEPT ![r] = [NoPass EXCEPT !.at = "closing"]]

Init ==
  /\ loop = [active |-> FALSE, run |-> None, guard |-> None, timer |-> FALSE]
  /\ pass = [r \in Invocations |-> NoPass]
  /\ feedbackCheck = FALSE
  /\ feedback = FALSE
  /\ status = [t \in Tasks |-> "open"]
  /\ slots = [t \in Tasks |-> None]
  /\ agents = {}
  /\ retrying = {}
  /\ outcome = [t \in Tasks |-> "none"]
  /\ stopping = {}
  /\ ending = {}
  /\ stuckLeft = MaxStuck
  /\ failuresLeft = MaxFailures

-----------------------------------------------------------------------------
(* runLoop, from await to await.                                             *)

ClaimFeedback(r) ==
  /\ pass[r].at = "claiming" /\ feedback
  /\ feedback' = FALSE
  /\ goTo(r, "analyst")
  /\ UNCHANGED <<loop, feedbackCheck, taskVars, userVars, stuckLeft, failuresLeft>>

ClaimNothing(r) ==
  /\ pass[r].at = "claiming" /\ ~feedback
  /\ goTo(r, "reading")
  /\ UNCHANGED <<loop, feedbackCheck, taskVars, userVars, envVars>>

\* The analyst has answered or failed; the pass gives the loop up and nudges it,
\* which may start the next pass before the finally block of this one.
FeedbackProcessed(r) ==
  /\ pass[r].at = "analyst"
  /\ LET l == relinquished(r)
         p == [pass EXCEPT ![r] = NoPass]
     IN  /\ loop' = unguarded(nudgedLoop(l, p, slots))
         /\ pass' = IF canStart(l, slots) THEN begun(p) ELSE p
         /\ feedbackCheck' = (feedbackCheck \/ (~l.active /\ ~l.timer /\ slotsFull(slots)))
  /\ UNCHANGED <<taskVars, userVars, envVars>>

\* readyWithStatusMap has answered; tasks in a slot are filtered out.  With a
\* failing baseline, exhausted remediation tasks are left out too, if there is
\* another one that is ready; in any case the writes that block them are under way.
readyTasks ==
  LET ready == {t \in Tasks : status[t] = "open"} \ slotted(slots)
  IN  IF BaselineFailing /\ ready \cap (Remediation \ Exhausted) # {}
      THEN ready \ Exhausted ELSE ready

exhaustedTasks ==
  {t \in Exhausted : BaselineFailing /\ status[t] = "open" /\ slots[t] = None}

ReadReadyTasks(r) ==
  /\ pass[r].at = "reading"
  /\ pass' = [pass EXCEPT ![r].at = "checking", ![r].ready = readyTasks]
  /\ ending' = ending \cup {<<t, "block">> : t \in exhaustedTasks}
  /\ UNCHANGED <<loop, feedbackCheck, taskVars, stopping, envVars>>

\* hasOpenPrdSpecHilApproval has answered: an open approval, no ready task and
\* no free slot all end the pass.
CheckBlocked(r) ==
  /\ pass[r].at = "checking"
  /\ giveUpLoop(r)
  /\ UNCHANGED <<feedbackCheck, taskVars, userVars, envVars>>

\* slotsAvailable is read here, and selectTasks drops the tasks in a slot by now.
CheckPasses(r) ==
  /\ pass[r].at = "checking"
  /\ pass[r].ready # {} /\ ~slotsFull(slots)
  /\ pass' = [pass EXCEPT ![r].at = "selecting",
                          ![r].ready = @ \ slotted(slots),
                          ![r].available = MaxSlots - Cardinality(slotted(slots))]
  /\ UNCHANGED <<loop, feedbackCheck, taskVars, userVars, envVars>>

\* The batches the scheduler, the provider checks and the worktree filter can
\* leave: no longer than the free slots, one task for a worktree, and no
\* worktree of a slot.
batches(r) ==
  {b \in UNION {[1..n -> pass[r].ready] : n \in 0..pass[r].available} :
     /\ \A i, j \in DOMAIN b : i # j => WorktreeKey[b[i]] # WorktreeKey[b[j]]
     /\ \A i \in DOMAIN b, u \in slotted(slots) : WorktreeKey[b[i]] # WorktreeKey[u]}

SelectSome(r) ==
  /\ pass[r].at = "selecting"
  /\ \E b \in batches(r) :
       /\ b # <<>>
       /\ pass' = [pass EXCEPT ![r] = [NoPass EXCEPT !.at = "updating", !.batch = b]]
  /\ UNCHANGED <<loop, feedbackCheck, taskVars, userVars, envVars>>

\* Mutant: an empty selection is dispatched.
dispatchNothing(r) ==
  /\ pass[r].at = "selecting"
  /\ pass' = [pass EXCEPT ![r] = [NoPass EXCEPT !.at = "updating"]]
  /\ UNCHANGED <<loop, feedbackCheck, taskVars, userVars, envVars>>

SelectNone(r) ==
  /\ pass[r].at = "selecting"
  /\ giveUpLoop(r)
  /\ UNCHANGED <<feedbackCheck, taskVars, userVars, envVars>>

FinishPass(r) ==
  /\ pass[r].at = "closing"
  /\ loop' = unguarded(loop)
  /\ ends(r)
  /\ UNCHANGED <<feedbackCheck, taskVars, userVars, envVars>>

\* An await throws outside executeCodingPhase: the deferred run is scheduled,
\* by the invocation the loop belongs to.
PassFails(r) ==
  /\ pass[r].at \in (Working \cup {"closing"}) \ {"analyst"}
  /\ failuresLeft > 0
  /\ failuresLeft' = failuresLeft - 1
  /\ loop' = unguarded(IF loop.run = r THEN [loop EXCEPT !.active = FALSE, !.timer = TRUE]
                                       ELSE loop)
  /\ ends(r)
  /\ UNCHANGED <<feedbackCheck, taskVars, userVars, feedback, stuckLeft>>

-----------------------------------------------------------------------------
(* dispatchTask for the first task of the batch.                             *)

task(r) == Head(pass[r].batch)

\* The task is dispatched; the next of the batch follows, or the pass ends.
nextDispatch(r) ==
  \/ /\ Len(pass[r].batch) > 1
     /\ pass' = [pass EXCEPT ![r] = [NoPass EXCEPT !.at = "updating",
                                                   !.batch = Tail(pass[r].batch)]]
     /\ UNCHANGED loop
  \/ /\ Len(pass[r].batch) = 1
     /\ endPass(r)

\* taskStore.update sets in_progress whatever the status has become, and throws
\* for a task that is gone, which ends the pass without a deferred run.
UpdateTask(r) ==
  /\ pass[r].at = "updating"
  /\ \/ /\ status[task(r)] # "deleted"
        /\ status' = [status EXCEPT ![task(r)] = "in_progress"]
        /\ goTo(r, "starting")
        /\ UNCHANGED loop
     \/ /\ status[task(r)] = "deleted"
        /\ endPass(r)
        /\ UNCHANGED status
  /\ UNCHANGED <<feedbackCheck, slots, agents, retrying, outcome, userVars,
                 envVars>>

\* createSlot, predict, and the transition start_task: state.slots.set.
usedObjects == {slots[t] : t \in Tasks} \cup {a[2] : a \in agents \cup retrying}
                 \cup {pass[r].slot : r \in {i \in Invocations : pass[i].at = "preparing"}}

StartTask(r) ==
  /\ pass[r].at = "starting"
  /\ \E o \in SlotObjects \ usedObjects :
       /\ slots' = [slots EXCEPT ![task(r)] = o]
       /\ pass' = [pass EXCEPT ![r].at = "preparing", ![r].slot = o]
  /\ UNCHANGED <<loop, feedbackCheck, status, agents, retrying, outcome, userVars,
                 envVars>>

\* executeCodingPhase spawns the coder, unless the task has no slot any more.
SpawnCoder(r) ==
  /\ pass[r].at = "preparing"
  /\ agents' = IF slots[task(r)] # None THEN agents \cup {<<task(r), pass[r].slot>>}
                                        ELSE agents
  /\ nextDispatch(r)
  /\ UNCHANGED <<feedbackCheck, status, slots, retrying, outcome, userVars,
                 envVars>>

\* executeCodingPhase catches every error, WorktreeBranchInUseError of
\* createTaskWorktree included, and awaits handleTaskFailure.
PreparationFails(r) ==
  /\ pass[r].at = "preparing"
  /\ slots[task(r)] # None
  /\ outcome[task(r)] = "none"
  /\ failuresLeft > 0
  /\ failuresLeft' = failuresLeft - 1
  /\ \E reason \in {"deciding", "branchInUse"} :
       outcome' = [outcome EXCEPT ![task(r)] = reason]
  /\ goTo(r, "awaiting")
  /\ UNCHANGED <<loop, feedbackCheck, status, slots, agents, retrying, userVars,
                 feedback, stuckLeft>>

\* A task whose merge was put off is merged again, if it still has its slot.
ResumeMerge(r) ==
  /\ pass[r].at = "preparing"
  /\ \/ /\ slots[task(r)] = None
        /\ status' = IF status[task(r)] = "deleted" THEN status
                                                  ELSE [status EXCEPT ![task(r)] = "open"]
        /\ nextDispatch(r)
        /\ UNCHANGED outcome
     \/ /\ slots[task(r)] # None /\ outcome[task(r)] = "none"
        /\ outcome' = [outcome EXCEPT ![task(r)] = "merging"]
        /\ goTo(r, "awaiting")
        /\ UNCHANGED <<loop, status>>
  /\ UNCHANGED <<feedbackCheck, slots, agents, retrying, userVars, envVars>>

\* The failure or the merge is handled.
OutcomeHandled(r) ==
  /\ pass[r].at = "awaiting"
  /\ outcome[task(r)] = "none"
  /\ nextDispatch(r)
  /\ UNCHANGED <<feedbackCheck, taskVars, userVars, envVars>>

-----------------------------------------------------------------------------
(* What starts the loop.                                                     *)

\* Every external caller of nudge, the 60 s loop kicker among them.
Nudge ==
  /\ nudge(loop, pass, slots)
  /\ UNCHANGED <<taskVars, userVars, envVars>>

FeedbackCheckAnswered ==
  /\ feedbackCheck
  /\ idle(pass) # {}
  /\ feedbackCheck' = FALSE
  /\ LET starts == feedback /\ ~loop.active /\ ~loop.timer
     IN  /\ loop' = IF starts THEN started(loop, CHOOSE r \in idle(pass) : TRUE) ELSE loop
         /\ pass' = IF starts THEN begun(pass) ELSE pass
  /\ UNCHANGED <<taskVars, userVars, envVars>>

\* The "loop" timer runs the loop without asking loopActive.
DeferredRun ==
  /\ loop.timer
  /\ idle(pass) # {}
  /\ loop' = started(loop, CHOOSE r \in idle(pass) : TRUE)
  /\ pass' = begun(pass)
  /\ UNCHANGED <<feedbackCheck, taskVars, userVars, envVars>>

\* Five minutes after the start of invocation r: loopRunId becomes the id of no
\* invocation, and the loop is nudged.
StuckGuard(r) ==
  /\ loop.guard = r /\ loop.run = r
  /\ stuckLeft > 0
  /\ stuckLeft' = stuckLeft - 1
  /\ nudge([loop EXCEPT !.active = FALSE, !.run = None, !.guard = None], pass, slots)
  /\ UNCHANGED <<taskVars, userVars, feedback, failuresLeft>>

FeedbackArrives ==
  /\ ~feedback
  /\ feedback' = TRUE
  /\ UNCHANGED <<loopVars, taskVars, userVars, stuckLeft, failuresLeft>>

-----------------------------------------------------------------------------
(* What becomes of a slot, seen from here.                                   *)

\* Mutant: the callback of an agent that ends returns early.
unhandledEnd(t, o) ==
  /\ <<t, o>> \in agents
  /\ agents' = agents \ {<<t, o>>}
  /\ UNCHANGED <<loopVars, status, slots, retrying, outcome, userVars, envVars>>

\* The end of an agent is handled on the slot its task has now.
AgentDone(t, o) ==
  /\ <<t, o>> \in agents
  /\ agents' = agents \ {<<t, o>>}
  /\ \/ slots[t] = None /\ UNCHANGED outcome
     \/ slots[t] # None /\ outcome[t] = "none"
        /\ outcome' = [outcome EXCEPT ![t] = "deciding"]
  /\ UNCHANGED <<loopVars, status, slots, retrying, userVars, envVars>>

\* Merged and closed, requeued, or blocked: the status is written first, and
\* the slot is released once the handler is done.
Decide(t) ==
  /\ outcome[t] \in {"deciding", "branchInUse", "merging"}
  /\ \E s \in {"closed", "open", "blocked"} :
       status' = IF status[t] = "deleted" THEN status ELSE [status EXCEPT ![t] = s]
  /\ outcome' = [outcome EXCEPT ![t] = "releasing"]
  /\ UNCHANGED <<loopVars, slots, agents, retrying, userVars, envVars>>

\* Mutant: the handler that has started a retry goes on.
fallThrough(t) ==
  /\ outcome[t] \in {"deciding", "branchInUse"}
  /\ retrying' = IF slots[t] = None THEN retrying ELSE retrying \cup {<<t, slots[t]>>}
  /\ UNCHANGED <<loopVars, status, slots, agents, outcome, userVars, envVars>>

\* A retry, or the review that follows the coding phase, in the same slot.
Continue(t) ==
  /\ outcome[t] \in {"deciding", "branchInUse"}
  /\ outcome' = [outcome EXCEPT ![t] = "none"]
  /\ retrying' = IF slots[t] = None THEN retrying ELSE retrying \cup {<<t, slots[t]>>}
  /\ UNCHANGED <<loopVars, status, slots, agents, userVars, envVars>>

RetrySpawns(t, o) ==
  /\ <<t, o>> \in retrying
  /\ retrying' = retrying \ {<<t, o>>}
  /\ agents' = IF slots[t] # None THEN agents \cup {<<t, o>>} ELSE agents
  /\ UNCHANGED <<loopVars, status, slots, outcome, userVars, envVars>>

\* transition "complete" or "fail", then the nudge.
Release(t) ==
  /\ outcome[t] = "releasing"
  /\ outcome' = [outcome EXCEPT ![t] = "none"]
  /\ slots' = removed(t)
  /\ agents' = killed(t)
  /\ nudge(loop, pass, removed(t))
  /\ UNCHANGED <<status, retrying, userVars, envVars>>

\* stopTaskAndFreeSlot up to its first await; without a slot there is nothing
\* to stop, and the close or the delete follows.
StopTask(t, request) ==
  /\ request \in Requests
  /\ status[t] \notin {"closed", "deleted"}
  /\ <<t, request>> \notin stopping \cup ending
  /\ \/ /\ slots[t] # None
        /\ agents' = killed(t)
        /\ stopping' = stopping \cup {<<t, request>>}
        /\ UNCHANGED ending
     \/ /\ slots[t] = None /\ request # "kill"
        /\ ending' = ending \cup {<<t, request>>}
        /\ UNCHANGED <<agents, stopping>>
  /\ UNCHANGED <<loopVars, status, slots, retrying, outcome, envVars>>

FreeSlot(t, request) ==
  /\ <<t, request>> \in stopping
  /\ stopping' = stopping \ {<<t, request>>}
  /\ ending' = IF request = "kill" THEN ending ELSE ending \cup {<<t, request>>}
  /\ slots' = removed(t)
  /\ agents' = killed(t)
  /\ nudge(loop, pass, removed(t))
  /\ UNCHANGED <<status, retrying, outcome, envVars>>

EndTask(t, request) ==
  /\ <<t, request>> \in ending
  /\ ending' = ending \ {<<t, request>>}
  /\ status' = [status EXCEPT ![t] =
                  IF request = "delete" \/ @ = "deleted" THEN "deleted"
                  ELSE IF request = "block" THEN "blocked" ELSE "closed"]
  /\ UNCHANGED <<loopVars, slots, agents, retrying, outcome, stopping, envVars>>

\* The watchdog resets an in_progress task without a slot; a user unblocks one.
Reopen(t) ==
  /\ slots[t] = None
  /\ status[t] \in {"in_progress", "blocked"}
  /\ status' = [status EXCEPT ![t] = "open"]
  /\ UNCHANGED <<loopVars, slots, agents, retrying, outcome, userVars, envVars>>

-----------------------------------------------------------------------------
Select(r) == SelectSome(r) \/ SelectNone(r)

Pass(r) ==
  \/ ClaimFeedback(r) \/ ClaimNothing(r) \/ FeedbackProcessed(r)
  \/ ReadReadyTasks(r) \/ CheckBlocked(r) \/ CheckPasses(r)
  \/ Select(r) \/ FinishPass(r)
  \/ UpdateTask(r) \/ StartTask(r) \/ SpawnCoder(r) \/ ResumeMerge(r) \/ OutcomeHandled(r)

Faults(r) == PassFails(r) \/ PreparationFails(r) \/ StuckGuard(r)

Wakeups == Nudge \/ FeedbackCheckAnswered \/ DeferredRun \/ FeedbackArrives

Outcomes(t) == Decide(t) \/ Continue(t) \/ Release(t)

SlotAgents(t, o) == AgentDone(t, o) \/ RetrySpawns(t, o)

Users(t) ==
  \/ \E request \in Requests :
       StopTask(t, request) \/ FreeSlot(t, request) \/ EndTask(t, request)
  \/ EndTask(t, "block")
  \/ Reopen(t)

Next ==
  \/ \E r \in Invocations : Pass(r) \/ Faults(r)
  \/ Wakeups
  \/ \E t \in Tasks : Outcomes(t) \/ Users(t)
  \/ \E t \in Tasks, o \in SlotObjects : SlotAgents(t, o)

\* What a pass awaits settles, timers fire and handlers finish.  A check that
\* comes back again and again finds nothing in its way, and a selection made
\* again and again is not empty each time: approvals, provider pauses and
\* overlaps end.
Fairness ==
  /\ \A r \in Invocations :
       /\ WF_vars(Pass(r))
       /\ SF_vars(CheckPasses(r))
       /\ SF_vars(SelectSome(r))
  /\ WF_vars(Nudge) /\ WF_vars(DeferredRun)
  /\ \A t \in Tasks : WF_vars(Outcomes(t))

Spec == Init /\ [][Next]_vars
FairSpec == Spec /\ Fairness

-----------------------------------------------------------------------------
(* What is checked of it.                                                    *)

\* Every variable has its type, and an invocation dispatches from a non-empty
\* batch.
TypeOK ==
  /\ loop \in [active : BOOLEAN, run : Invocations \cup {None},
               guard : Invocations \cup {None}, timer : BOOLEAN]
  /\ pass \in [Invocations -> [at : Working \cup {"idle", "closing"},
                               ready : SUBSET Tasks,
                               available : 0..MaxSlots,
                               batch : Seq(Tasks),
                               slot : SlotObjects \cup {None}]]
  /\ \A r \in Invocations : pass[r].at \in Dispatching => pass[r].batch # <<>>
  /\ feedbackCheck \in BOOLEAN /\ feedback \in BOOLEAN
  /\ status \in [Tasks -> TaskStatus]
  /\ slots \in [Tasks -> SlotObjects \cup {None}]
  /\ agents \subseteq Tasks \X SlotObjects
  /\ retrying \subseteq Tasks \X SlotObjects
  /\ outcome \in [Tasks -> {"none", "deciding", "branchInUse", "merging", "releasing"}]
  /\ stopping \subseteq Tasks \X Requests
  /\ ending \subseteq Tasks \X (Requests \cup {"block"})
  /\ stuckLeft \in 0..MaxStuck /\ failuresLeft \in 0..MaxFailures

\* loopActive is TRUE exactly while the invocation loopRunId stands for is at
\* work: a stale invocation that ends or fails does not open the loop under a
\* recovered one, no path leaves the loop marked active with nobody in it, and
\* no deferred run is due meanwhile (the loopRunId checks of runLoop).
atWork == loop.run # None /\ pass[loop.run].at \in Working

LoopHeldByItsRun ==
  /\ loop.active <=> atWork
  /\ loop.timer => ~loop.active

\* As long as no pass outlasts the stuck guard, the slots are a bounded pool:
\* never more than maxSlots of them, at most one for a worktree, and none given
\* away while it is held, whatever agents, handlers and users do between the
\* awaits of a pass that read the count once at its start.
Pool == INSTANCE SlotPool WITH Holders <- SlotObjects, Free <- None, pool <- slots

ImplementsPool == Pool!Spec

\* The loop does not go to sleep on work: with a task open and every slot free,
\* a slot is taken, unless the last open task is taken back or feedback keeps
\* coming (the kicker, the guard and the deferred run).
openTasks == {t \in Tasks : status[t] = "open"}

WorkIsPickedUp ==
  <>[]~feedback =>
    ((openTasks # {} /\ slotted(slots) = {}) ~> (slotted(slots) # {} \/ openTasks = {}))

\* orchestrator-loop.service.ts:30, "If runLoop is blocked in an await longer
\* than this, force recovery so nudge can start a fresh loop": an invocation
\* that holds the loop has its guard armed.
LoopIsGuarded == loop.active => loop.guard = loop.run

\* docs/design/parallel-coders-v2.md:191, maxConcurrentCoders is "Max concurrent
\* Coder agents": the slots in use never exceed it.
SlotsWithinLimit == Cardinality(slotted(slots)) <= MaxSlots

\* docs/design/parallel-coders-v2.md:243, "Each running agent gets its own
\* AgentSlot": an agent that nobody killed is the one of its task's slot.  True
\* of retries and failures; false when a user kills a task that is prepared.
AgentsHaveSlots == \A a \in agents : slots[a[1]] = a[2]

\* orchestrator.service.ts:814, stopTaskAndFreeSlot is "Used when the user marks
\* a task done so the slot is freed for other work": while a user's request is
\* not being carried out, and no outcome is, a closed task holds no slot.
ClosedTaskHoldsNoSlot ==
  \A t \in Tasks :
    status[t] = "closed" /\ outcome[t] = "none" => slots[t] = None

\* docs/design/parallel-coders-v2.md:326, "Each slot's onDone callback" removes
\* the slot from the pool: a slot has somebody left to release it.  True unless
\* something fails between start_task and the coding phase.
SlotIsWorkedOn ==
  \A t \in Tasks : slots[t] # None =>
    \/ \E o \in SlotObjects : <<t, o>> \in agents \cup retrying
    \/ outcome[t] # "none"
    \/ \E request \in Requests : <<t, request>> \in stopping
    \/ \E r \in Invocations : pass[r].at = "preparing" /\ task(r) = t

\* orchestrator-loop.service.ts:33, "Baseline remediation tasks are auto-blocked
\* after this many cumulative attempts": while the baseline fails, such a task is
\* not worked on.
ExhaustedIsNotDispatched ==
  BaselineFailing => \A t \in Exhausted : slots[t] = None

\* orchestrator-loop.service.ts:417, "Worktree branch in use by active agent;
\* deferring dispatch (not a task failure)": the error never reaches
\* handleTaskFailure.
BranchInUseIsNoFailure == \A t \in Tasks : outcome[t] # "branchInUse"
=============================================================================
