---------------------------- MODULE TaskRetries ----------------------------
(* The retry accounting of one task: handleTaskFailure and blockTask of      *)
(* packages/backend/src/services/failure-handler.service.ts, the failure     *)
(* path of merge-coordinator.service.ts, and the users' operations of        *)
(* task.service.ts that race with them.  What a failure costs is kept in     *)
(* three places - the attempts:N label and the priority in the task store,   *)
(* and the attempt number of the slot - that are written between awaits.     *)
EXTENDS Integers

CONSTANTS
  Threshold,         \* BACKOFF_FAILURE_THRESHOLD
  MaxPriority,       \* MAX_PRIORITY_BEFORE_BLOCK
  MaxInfraRetries,   \* MAX_INFRA_RETRIES
  Kinds,             \* how runs fail: "coding", "infra", "api", "setup",
                     \* "merge", "mergeSetup"
  Requests,          \* what users do: "done", "kill", "unblock", "reset",
                     \* "priority"
  Priorities,        \* the priorities the task can be created with
  MaxAttempts,       \* bound: attempts after which no run is started
  MaxRestarts,       \* bound: restarts of the server
  MaxStoreFailures,  \* bound: task store writes that fail and are swallowed
  None               \* no slot

FailureKinds == {"coding", "infra", "api", "setup", "merge", "mergeSetup"}

ASSUME RetriesAssumption ==
  /\ Threshold \in Nat \ {0} /\ MaxPriority \in Nat /\ MaxInfraRetries \in Nat
  /\ Kinds \subseteq FailureKinds
  /\ Requests \subseteq {"done", "kill", "unblock", "reset", "priority"}
  /\ Priorities \subseteq 0..MaxPriority
  /\ MaxAttempts \in Nat /\ MaxRestarts \in Nat /\ MaxStoreFailures \in Nat

\* A slot, with the priority of the task object its run has closed over.
Slot == [attempt : Nat, infraRetries : 0..MaxInfraRetries, priority : 0..MaxPriority]

ASSUME NoneAssumption == None \notin Slot

VARIABLES
  status, priority, attempts,  \* the task's row; 0 attempts: there is no label
  firstPriority,               \* the priority it was created with
  slot,
  handler,    \* the failure being handled: [at, kind, slot, count, live], what
              \* it does next, the slot it found, the number of attempts it
              \* records, and whether the task still has that slot
  user,       \* the user's request: [at, label], what it does next, and the
              \* attempts label it has read
  streak,     \* history: [counted, merge] failures in a row, of the kinds that
              \* are to be counted and of merges
  restartsLeft, storeFailuresLeft

taskVars == <<status, priority, attempts, firstPriority>>
boundVars == <<restartsLeft, storeFailuresLeft>>
vars == <<taskVars, slot, handler, user, streak, boundVars>>

Stages == {"idle", "failed", "counting", "retrying", "reopening", "demoting",
           "blocking", "releasing"}

NoSlot == [attempt |-> 0, infraRetries |-> 0, priority |-> 0]
NoHandler == [at |-> "idle", kind |-> "coding", slot |-> NoSlot, count |-> 0, live |-> FALSE]

NoRequest == [at |-> "idle", label |-> 0]
NoStreak == [counted |-> 0, merge |-> 0]

Init ==
  /\ status = "open" /\ priority \in Priorities /\ attempts = 0
  /\ firstPriority = priority
  /\ slot = None
  /\ handler = NoHandler
  /\ user = NoRequest
  /\ streak = NoStreak
  /\ restartsLeft = MaxRestarts /\ storeFailuresLeft = MaxStoreFailures

-----------------------------------------------------------------------------
(* The runs of the task.                                                     *)

\* dispatchTask numbers the run from the label of the task it was given.
Dispatch ==
  /\ status = "open" /\ slot = None
  /\ attempts < MaxAttempts
  /\ status' = "in_progress"
  /\ slot' = [attempt |-> attempts + 1, infraRetries |-> 0, priority |-> priority]
  /\ UNCHANGED <<priority, attempts, firstPriority, handler, user, streak, boundVars>>

RunSucceeds ==
  /\ slot # None /\ handler = NoHandler
  /\ status' = "closed"
  /\ slot' = None
  /\ streak' = NoStreak
  /\ UNCHANGED <<priority, attempts, firstPriority, handler, user, boundVars>>

\* How a failure prolongs the streaks, which are followed up to the bound on
\* attempts; "merge" and "mergeSetup" are failures to merge, and an infrastructure
\* or provider failure is no failure of the task.
longer(n) == IF n < MaxAttempts THEN n + 1 ELSE n

prolonged(kind) ==
  [counted |-> CASE kind \in {"coding", "setup"} -> longer(streak.counted)
                 [] kind \in {"infra", "api"} -> streak.counted
                 [] OTHER -> 0,
   merge |-> IF kind \in {"merge", "mergeSetup"} THEN longer(streak.merge) ELSE 0]

\* One failure of the task is handled at a time: the next takes another run.
RunFails(kind) ==
  /\ slot # None /\ handler = NoHandler
  /\ handler' = [at |-> "failed", kind |-> kind, slot |-> slot, count |-> 0, live |-> TRUE]
  /\ streak' = prolonged(kind)
  /\ UNCHANGED <<taskVars, slot, user, boundVars>>

-----------------------------------------------------------------------------
(* handleTaskFailure and requeueTaskAfterMergeFailure, from write to write.  *)

isMerge == handler.kind \in {"merge", "mergeSetup"}

infraRetry == handler.kind = "infra" /\ handler.slot.infraRetries < MaxInfraRetries

\* no_result of a provider that is down, limited or offline.
AwaitProvider ==
  /\ handler.at = "failed" /\ handler.kind = "api"
  /\ handler' = [handler EXCEPT !.at = "reopening"]
  /\ UNCHANGED <<taskVars, slot, user, streak, boundVars>>

\* Mutant: the retries of a slot are not counted.
unlimitedInfraRetry ==
  /\ handler.at = "failed" /\ infraRetry
  /\ handler' = [handler EXCEPT !.at = "retrying"]
  /\ UNCHANGED <<taskVars, slot, user, streak, boundVars>>

\* The slot is retried, and the attempts label is not touched.
RetryInfrastructure ==
  /\ handler.at = "failed" /\ infraRetry
  /\ handler' = [handler EXCEPT !.at = "retrying", !.slot.infraRetries = @ + 1]
  /\ UNCHANGED <<taskVars, slot, user, streak, boundVars>>

\* setCumulativeAttempts removes the label there is; a merge failure is counted
\* from it, any other from the slot's number.
RemoveLabel ==
  /\ handler.at = "failed" /\ ~infraRetry /\ handler.kind # "api"
  /\ attempts' = 0
  /\ handler' = [handler EXCEPT
       !.at = "counting",
       !.count = IF isMerge THEN attempts + 1 ELSE handler.slot.attempt,
       !.slot.infraRetries = IF handler.kind = "infra" \/ isMerge THEN @ ELSE 0]
  /\ UNCHANGED <<status, priority, firstPriority, slot, user, streak, boundVars>>

\* Mutant: one failure too many before the demotion.
lateVerdict(count) ==
  CASE handler.kind \in {"setup", "mergeSetup"} -> "blocking"
    [] handler.kind = "merge" -> IF count >= 2 * Threshold THEN "blocking" ELSE "reopening"
    [] OTHER -> IF count % (Threshold + 1) # 0 THEN "retrying"
                ELSE IF handler.slot.priority >= MaxPriority THEN "blocking" ELSE "demoting"

\* Mutant: the lowest priority is no reason to block.
indulgentVerdict(count) ==
  CASE handler.kind \in {"setup", "mergeSetup"} -> "blocking"
    [] handler.kind = "merge" -> IF count >= 2 * Threshold THEN "blocking" ELSE "reopening"
    [] OTHER -> IF count % Threshold # 0 THEN "retrying"
                ELSE IF handler.slot.priority > MaxPriority THEN "blocking" ELSE "demoting"

\* What is done after count attempts: isDemotionPoint and maxMergeFailures.
verdict(count) ==
  CASE handler.kind \in {"setup", "mergeSetup"} -> "blocking"
    [] handler.kind = "merge" -> IF count >= 2 * Threshold THEN "blocking" ELSE "reopening"
    [] OTHER -> IF count % Threshold # 0 THEN "retrying"
                ELSE IF handler.slot.priority >= MaxPriority THEN "blocking" ELSE "demoting"

AddLabel ==
  /\ handler.at = "counting"
  /\ attempts' = handler.count
  /\ handler' = [handler EXCEPT !.at = verdict(handler.count)]
  /\ UNCHANGED <<status, priority, firstPriority, slot, user, streak, boundVars>>

\* executeCodingPhase in the same slot, unless the task has lost it.
Retry ==
  /\ handler.at = "retrying"
  /\ handler.slot.attempt < MaxAttempts
  /\ slot' = IF handler.live THEN [handler.slot EXCEPT !.attempt = @ + 1] ELSE slot
  /\ handler' = NoHandler
  /\ UNCHANGED <<taskVars, user, streak, boundVars>>

\* The task's row is written, or the error is swallowed; the release follows.
write(newStatus, newPriority, newStreak) ==
  /\ \/ /\ status' = newStatus /\ priority' = newPriority /\ streak' = newStreak
        /\ UNCHANGED storeFailuresLeft
     \/ /\ storeFailuresLeft > 0
        /\ storeFailuresLeft' = storeFailuresLeft - 1
        /\ UNCHANGED <<status, priority, streak>>
  /\ handler' = [handler EXCEPT !.at = "releasing"]
  /\ UNCHANGED <<attempts, firstPriority, slot, user, restartsLeft>>

Reopen ==
  /\ handler.at = "reopening"
  /\ write("open", priority, streak)

Demote ==
  /\ handler.at = "demoting"
  /\ write("open", handler.slot.priority + 1, NoStreak)

Block ==
  /\ handler.at = "blocking"
  /\ write("blocked", priority, NoStreak)

\* transition "fail" takes away the slot the task has now.
Release ==
  /\ handler.at = "releasing"
  /\ slot' = None
  /\ handler' = NoHandler
  /\ UNCHANGED <<taskVars, user, streak, boundVars>>

-----------------------------------------------------------------------------
(* Users, the watchdog and restarts.                                         *)

\* stopTaskAndFreeSlot
stopped == [handler EXCEPT !.live = FALSE]

freeSlot ==
  /\ slot' = None
  /\ handler' = IF handler = NoHandler THEN handler ELSE stopped

StartMarkDone ==
  /\ "done" \in Requests /\ user = NoRequest /\ status # "closed"
  /\ freeSlot
  /\ user' = [at |-> "closing", label |-> 0]
  /\ UNCHANGED <<taskVars, streak, boundVars>>

FinishMarkDone ==
  /\ user.at = "closing"
  /\ status' = "closed"
  /\ user' = NoRequest
  /\ streak' = NoStreak
  /\ UNCHANGED <<priority, attempts, firstPriority, slot, handler, boundVars>>

KillAgent ==
  /\ "kill" \in Requests /\ slot # None
  /\ freeSlot
  /\ UNCHANGED <<taskVars, user, streak, boundVars>>

\* unblock, with or without resetAttempts: the status first, then the label there
\* was at the start, if it is still there.
StartUnblock ==
  /\ {"unblock", "reset"} \cap Requests # {} /\ user = NoRequest /\ status = "blocked"
  /\ freeSlot
  /\ user' = [at |-> "unblocking", label |-> attempts]
  /\ UNCHANGED <<taskVars, streak, boundVars>>

Unblock ==
  /\ user.at = "unblocking"
  /\ status' = "open"
  /\ \/ "unblock" \in Requests /\ user' = NoRequest
     \/ "reset" \in Requests /\ user' = [user EXCEPT !.at = "resetting"]
  /\ streak' = NoStreak
  /\ UNCHANGED <<priority, attempts, firstPriority, slot, handler, boundVars>>

ResetAttempts ==
  /\ user.at = "resetting"
  /\ attempts' = IF attempts = user.label THEN 0 ELSE attempts
  /\ user' = NoRequest
  /\ UNCHANGED <<status, priority, firstPriority, slot, handler, streak, boundVars>>

SetPriority ==
  /\ "priority" \in Requests
  /\ priority' \in 0..MaxPriority
  /\ UNCHANGED <<status, attempts, firstPriority, slot, handler, user, streak, boundVars>>

\* Mutant: only a task that has failed before is recovered.
RecoverFailed ==
  /\ status = "in_progress" /\ slot = None /\ attempts > 0
  /\ status' = "open"
  /\ UNCHANGED <<priority, attempts, firstPriority, slot, handler, user, streak, boundVars>>

\* The orphan recovery of the watchdog and of the start of the server.
Recover ==
  /\ status = "in_progress" /\ slot = None
  /\ status' = "open"
  /\ UNCHANGED <<priority, attempts, firstPriority, slot, handler, user, streak, boundVars>>

Restart ==
  /\ restartsLeft > 0
  /\ restartsLeft' = restartsLeft - 1
  /\ slot' = None
  /\ handler' = NoHandler
  /\ user' = NoRequest
  /\ UNCHANGED <<taskVars, streak, storeFailuresLeft>>

-----------------------------------------------------------------------------
Handle == \/ AwaitProvider \/ RetryInfrastructure \/ RemoveLabel \/ AddLabel
          \/ Retry \/ Reopen \/ Demote \/ Block \/ Release

Runs == RunSucceeds \/ \E kind \in Kinds : RunFails(kind)

Users == \/ StartMarkDone \/ FinishMarkDone \/ KillAgent
         \/ StartUnblock \/ Unblock \/ ResetAttempts \/ SetPriority

Next == Dispatch \/ Runs \/ Handle \/ Users \/ Recover \/ Restart

\* Runs end, handlers finish, and the loop and the watchdog get to the task.
Fairness == WF_vars(Dispatch) /\ WF_vars(Runs) /\ WF_vars(Handle) /\ WF_vars(Recover)

Spec == Init /\ [][Next]_vars
FairSpec == Spec /\ Fairness

-----------------------------------------------------------------------------
(* What is checked of it.                                                    *)

\* Every variable has its type; the priority stays in its range however often
\* the task is demoted.
TypeOK ==
  /\ status \in {"open", "in_progress", "blocked", "closed"}
  /\ priority \in 0..MaxPriority /\ attempts \in Nat
  /\ firstPriority \in 0..MaxPriority
  /\ slot \in Slot \cup {None}
  /\ handler \in [at : Stages, kind : FailureKinds, slot : Slot, count : Nat, live : BOOLEAN]
  /\ user \in [at : {"idle", "closing", "unblocking", "resetting"}, label : Nat]
  /\ streak \in [counted : Nat, merge : Nat]
  /\ restartsLeft \in 0..MaxRestarts /\ storeFailuresLeft \in 0..MaxStoreFailures

\* The slot and the label agree on how often the task has failed, up to the
\* infrastructure retries of the slot: no failure is counted twice, and no more
\* than MaxInfraRetries in a row go unrecorded.
CountKeepsUp ==
  slot # None /\ handler = NoHandler =>
    /\ attempts < slot.attempt
    /\ slot.attempt <= attempts + 1 + MaxInfraRetries

\* A task that keeps failing, to code or to merge, is not worked on for ever: the
\* demotions from its first priority, the merge failures that can skip one, and
\* the demotions and blocks that are lost, bound its attempts, even if users kill
\* its agents, or mark it done, while failures are handled.
RetriesAreBounded ==
  attempts <= Threshold * (MaxPriority - firstPriority + 2 + MaxStoreFailures)

\* shared/src/constants/index.ts:40, "Number of consecutive failures before
\* priority demotion": the task does not fail more often in a row than that
\* before it is demoted or blocked, and once more for each of those writes that is
\* lost, infrastructure and provider failures not even counted.
FailuresDemote ==
  streak.counted <= Threshold * (1 + MaxStoreFailures - storeFailuresLeft)

\* Every task is done or blocked in the end, however its runs fail, unless its
\* agents are killed again and again.
TaskIsSettled == <>[][~KillAgent]_vars => <>(status \in {"closed", "blocked"})

\* task.service.ts:732, "if this throws (e.g. cleanup), we still close the task
\* below": what the user marked done, no failure reopens.
DoneStaysDone == [][status = "closed" => status' = "closed"]_vars

\* shared/src/constants/index.ts:43, "tasks at this level get blocked on next
\* demotion": a failure to code blocks a task at the lowest priority only.
BlockedAtMaxPriority ==
  [][Block /\ handler.kind = "coding" /\ status' = "blocked" => priority = MaxPriority]_vars

\* merge-coordinator.service.ts:1886, "Blocked after ${cumulativeAttempts}
\* consecutive merge failures": that many failures to merge came in a row.
MergeBlockIsAboutMerges ==
  handler.at = "blocking" /\ handler.kind = "merge" => streak.merge >= handler.count

\* task.service.ts:554, unblock "Optionally resets attempts label": a run started
\* after the reset starts counting anew.
ResetRestartsCount ==
  slot # None /\ handler = NoHandler /\ attempts = 0 => slot.attempt <= 1 + MaxInfraRetries
=============================================================================
