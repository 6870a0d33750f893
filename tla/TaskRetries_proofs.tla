------------------------ MODULE TaskRetries_proofs ------------------------
(* Proofs about TaskRetries, for all thresholds and all ways runs fail: its  *)
(* type invariant; while users do not take a task away from a failure that   *)
(* is being handled, that the slot and the label agree on its attempts; and, *)
(* without infrastructure failures and restarts, how many attempts there can *)
(* be, and how many failures in a row before a demotion.                     *)
EXTENDS TaskRetries, TLAPS

Handler == [at : Stages, kind : FailureKinds, slot : Slot, count : Nat, live : BOOLEAN]

Request == [at : {"idle", "closing", "unblocking", "resetting"}, label : Nat]

\* A task is demoted from above the lowest priority only.
DemotesAbove == handler.at = "demoting" => handler.slot.priority < MaxPriority

TypeInv == TypeOK /\ DemotesAbove

\* A handler that goes on to another stage.
LEMMA StageTyped ==
  ASSUME NEW h \in Handler, NEW at \in Stages, NEW r, r = [h EXCEPT !.at = at]
  PROVE  /\ r \in Handler /\ r.at = at /\ r.live = h.live /\ r.kind = h.kind
         /\ r.slot = h.slot /\ r.count = h.count
BY DEF Handler

\* The handler of a failure of kind in slot s.
LEMMA FailedTyped ==
  ASSUME NEW kind \in FailureKinds, NEW s \in Slot,
         NEW r, r = [at |-> "failed", kind |-> kind, slot |-> s, count |-> 0, live |-> TRUE]
  PROVE  r \in Handler /\ r.at = "failed" /\ r.live /\ r.slot = s
BY DEF Handler, Stages

\* What RetryInfrastructure makes of a handler.
LEMMA RetryTyped ==
  ASSUME NEW h \in Handler, h.slot.infraRetries < MaxInfraRetries,
         NEW r, r = [h EXCEPT !.at = "retrying", !.slot.infraRetries = @ + 1]
  PROVE  /\ r \in Handler /\ r.at = "retrying" /\ r.live = h.live
         /\ r.slot.attempt = h.slot.attempt /\ r.slot.infraRetries = h.slot.infraRetries + 1
<1>1. [h.slot EXCEPT !.infraRetries = @ + 1] \in Slot
  BY RetriesAssumption DEF Handler, Slot
<1> QED BY <1>1 DEF Handler, Slot, Stages

\* What RemoveLabel makes of a handler.
LEMMA RemoveTyped ==
  ASSUME TypeOK, RemoveLabel
  PROVE  /\ handler' \in Handler /\ handler'.at = "counting" /\ handler'.live = handler.live
         /\ handler'.kind = handler.kind /\ handler'.slot.attempt = handler.slot.attempt
         /\ ~isMerge => handler'.count = handler.slot.attempt
<1> DEFINE n == IF isMerge THEN attempts + 1 ELSE handler.slot.attempt
           i == IF handler.kind = "infra" \/ isMerge THEN handler.slot.infraRetries ELSE 0
<1>1. handler \in Handler /\ handler.slot \in Slot /\ attempts \in Nat
  BY DEF TypeOK, Handler
<1>2. n \in Nat /\ i \in 0..MaxInfraRetries /\ (~isMerge => n = handler.slot.attempt)
  BY <1>1, RetriesAssumption DEF Slot
<1>3. handler' = [handler EXCEPT !.at = "counting", !.count = n, !.slot.infraRetries = i]
  BY DEF RemoveLabel
<1> HIDE DEF n, i
<1>4. [handler.slot EXCEPT !.infraRetries = i] \in Slot
  BY <1>1, <1>2 DEF Slot
<1> QED BY <1>1, <1>2, <1>3, <1>4 DEF Handler, Slot, Stages

\* What a verdict says of the handler it is a verdict on.
LEMMA VerdictFacts ==
  ASSUME NEW n \in Nat
  PROVE  /\ verdict(n) \in {"retrying", "reopening", "demoting", "blocking"}
         /\ verdict(n) = "retrying" => ~isMerge
         /\ verdict(n) = "demoting" => ~(handler.slot.priority >= MaxPriority)
<1> DEFINE due == n % Threshold = 0
           last == handler.slot.priority >= MaxPriority
<1>1. verdict(n) = CASE handler.kind \in {"setup", "mergeSetup"} -> "blocking"
                     [] handler.kind = "merge" ->
                          IF n >= 2 * Threshold THEN "blocking" ELSE "reopening"
                     [] OTHER -> IF ~due THEN "retrying"
                                 ELSE IF last THEN "blocking" ELSE "demoting"
  BY DEF verdict
<1> HIDE DEF due, last
<1> QED BY <1>1 DEF isMerge, last

-----------------------------------------------------------------------------
(* The type invariant.                                                       *)

USE DEF taskVars, boundVars, Request, NoRequest

LEMMA InitTyped == Init => TypeInv
<1> SUFFICES ASSUME Init PROVE TypeInv
  OBVIOUS
<1>1. NoHandler \in Handler
  BY RetriesAssumption DEF NoHandler, NoSlot, Handler, Slot, Stages, FailureKinds
<1> QED
  BY <1>1, RetriesAssumption DEF Init, TypeInv, TypeOK, DemotesAbove, NoStreak, NoHandler,
                                      NoRequest, Handler

\* A write of the row by a handler of the task.
LEMMA WriteTyped ==
  ASSUME TypeOK, NEW s \in {"open", "blocked"}, NEW p \in 0..MaxPriority,
         NEW k \in [counted : Nat, merge : Nat], write(s, p, k)
  PROVE  TypeInv'
<1>1. handler \in Handler /\ "releasing" \in Stages
  BY DEF TypeOK, Handler, Stages
<1>2. handler' \in Handler /\ handler'.at = "releasing"
  BY <1>1, StageTyped DEF write
<1>3. storeFailuresLeft' \in 0..MaxStoreFailures
  BY RetriesAssumption DEF write, TypeOK
<1> QED BY <1>2, <1>3 DEF write, TypeOK, TypeInv, DemotesAbove, Handler

LEMMA NextTyped == TypeInv /\ [Next]_vars => TypeInv'
<1> SUFFICES ASSUME TypeInv, [Next]_vars PROVE TypeInv'
  OBVIOUS
<1>1. TypeOK /\ DemotesAbove
  BY DEF TypeInv
<1>2. handler \in Handler /\ handler.slot \in Slot /\ handler.count \in Nat
  BY <1>1 DEF TypeOK, Handler
<1>3. NoHandler \in Handler /\ NoHandler.at = "idle" /\ NoStreak \in [counted : Nat, merge : Nat]
  BY RetriesAssumption DEF NoHandler, NoSlot, NoStreak, Handler, Slot, Stages, FailureKinds
<1>4. ASSUME handler' \in Handler, handler'.at # "demoting",
             UNCHANGED <<taskVars, streak, boundVars>>,
             slot' \in Slot \cup {None}, user' \in Request
      PROVE  TypeInv'
  BY <1>1, <1>4 DEF TypeOK, TypeInv, DemotesAbove, Handler
<1>5. CASE Dispatch
  <2>1. [attempt |-> attempts + 1, infraRetries |-> 0, priority |-> priority] \in Slot
    BY <1>1, RetriesAssumption DEF Slot, TypeOK
  <2> QED BY <2>1, <1>1, <1>5 DEF Dispatch, TypeOK, TypeInv, DemotesAbove
<1>6. CASE RunSucceeds
  BY <1>1, <1>3, <1>6 DEF RunSucceeds, TypeOK, TypeInv, DemotesAbove
<1>7. ASSUME NEW kind \in Kinds, RunFails(kind) PROVE TypeInv'
  <2>1. kind \in FailureKinds /\ slot \in Slot
    BY <1>1, <1>7, RetriesAssumption DEF RunFails, TypeOK
  <2>2. handler' \in Handler /\ handler'.at = "failed"
    BY <2>1, <1>7, FailedTyped DEF RunFails
  <2>3. prolonged(kind) \in [counted : Nat, merge : Nat]
    <3>1. streak.counted \in Nat /\ streak.merge \in Nat
      BY <1>1 DEF TypeOK
    <3>2. longer(streak.counted) \in Nat /\ longer(streak.merge) \in Nat
      BY <3>1, RetriesAssumption DEF longer
    <3> QED BY <3>1, <3>2 DEF prolonged
  <2> QED BY <2>2, <2>3, <1>1, <1>7 DEF RunFails, TypeOK, TypeInv, DemotesAbove, Handler
<1>8. CASE AwaitProvider
  <2>1. "reopening" \in Stages
    BY DEF Stages
  <2>2. handler' \in Handler /\ handler'.at = "reopening"
    BY <2>1, <1>2, <1>8, StageTyped DEF AwaitProvider
  <2> QED BY <2>2, <1>1, <1>4, <1>8 DEF AwaitProvider, TypeOK
<1>9. CASE RetryInfrastructure
  <2>1. handler.slot.infraRetries < MaxInfraRetries
    BY <1>9 DEF RetryInfrastructure, infraRetry
  <2>2. handler' \in Handler /\ handler'.at = "retrying"
    BY <2>1, <1>2, <1>9, RetryTyped DEF RetryInfrastructure
  <2> QED BY <2>2, <1>1, <1>4, <1>9 DEF RetryInfrastructure, TypeOK
<1>10. CASE RemoveLabel
  BY <1>1, <1>10, RemoveTyped DEF RemoveLabel, TypeOK, TypeInv, DemotesAbove, Handler
<1>11. CASE AddLabel
  <2> DEFINE v == verdict(handler.count)
  <2>1. v \in Stages /\ (v = "demoting" => ~(handler.slot.priority >= MaxPriority))
    BY <1>2, VerdictFacts DEF Stages
  <2>2. handler' = [handler EXCEPT !.at = v]
    BY <1>11 DEF AddLabel
  <2> HIDE DEF v
  <2>3. handler' \in Handler /\ handler'.at = v /\ handler'.slot = handler.slot
    BY <2>1, <2>2, <1>2, StageTyped
  <2>4. handler.slot.priority \in 0..MaxPriority
    BY <1>2 DEF Slot
  <2> QED
    BY <2>1, <2>3, <2>4, <1>1, <1>2, <1>11, RetriesAssumption
    DEF AddLabel, TypeOK, TypeInv, DemotesAbove, Handler
<1>12. CASE Retry
  <2>1. [handler.slot EXCEPT !.attempt = @ + 1] \in Slot
    BY <1>2 DEF Slot
  <2> QED BY <2>1, <1>1, <1>3, <1>4, <1>12 DEF Retry, TypeOK
<1>13. CASE Reopen
  BY <1>1, <1>13, WriteTyped DEF Reopen, TypeOK
<1>14. CASE Demote
  <2>1. handler.slot.priority + 1 \in 0..MaxPriority
    BY <1>1, <1>2, <1>14, RetriesAssumption DEF Demote, DemotesAbove, Slot
  <2> QED BY <2>1, <1>1, <1>3, <1>14, WriteTyped DEF Demote
<1>15. CASE Block
  BY <1>1, <1>3, <1>15, WriteTyped DEF Block, TypeOK
<1>16. CASE Release
  BY <1>1, <1>3, <1>4, <1>16 DEF Release, TypeOK
<1>17. ASSUME freeSlot
       PROVE  /\ handler' \in Handler /\ handler'.at = handler.at /\ handler'.slot = handler.slot
              /\ slot' = None
  <2>1. stopped \in Handler /\ stopped.at = handler.at /\ stopped.slot = handler.slot
    BY <1>2 DEF stopped, Handler
  <2> QED BY <2>1, <1>2, <1>17 DEF freeSlot
<1>18. CASE StartMarkDone \/ KillAgent \/ StartUnblock
  BY <1>1, <1>17, <1>18
  DEF StartMarkDone, KillAgent, StartUnblock, TypeOK, TypeInv, DemotesAbove, Handler
<1>19. CASE FinishMarkDone \/ Unblock
  BY <1>1, <1>3, <1>19 DEF FinishMarkDone, Unblock, TypeOK, TypeInv, DemotesAbove
<1>20. CASE ResetAttempts \/ SetPriority \/ Recover
  BY <1>1, <1>20 DEF ResetAttempts, SetPriority, Recover, TypeOK, TypeInv, DemotesAbove
<1>21. CASE Restart
  <2>1. restartsLeft' \in 0..MaxRestarts
    BY <1>1, <1>21, RetriesAssumption DEF Restart, TypeOK
  <2> QED BY <2>1, <1>1, <1>3, <1>21 DEF Restart, TypeOK, TypeInv, DemotesAbove, Handler
<1>22. CASE UNCHANGED vars
  BY <1>1, <1>22 DEF vars, TypeOK, TypeInv, DemotesAbove
<1> QED
  BY <1>5, <1>6, <1>7, <1>8, <1>9, <1>10, <1>11, <1>12, <1>13, <1>14, <1>15, <1>16, <1>18,
     <1>19, <1>20, <1>21, <1>22 DEF Next, Runs, Handle, Users

THEOREM TypeInvariance == Spec => []TypeInv
<1> QED BY InitTyped, NextTyped, PTL DEF Spec

\* Every variable keeps its type, and a demotion never leaves the priorities.
THEOREM TypeCorrect == Spec => []TypeOK
<1>1. TypeInv => TypeOK
  BY DEF TypeInv
<1> QED BY <1>1, TypeInvariance, PTL

-----------------------------------------------------------------------------
(* The slot's number and the label.                                          *)

Handling == handler.at \notin {"idle", "releasing"}

\* A task that is worked on is in progress, and a slot runs ahead of the label by
\* no more than the infrastructure retries it has had.
SlotAhead ==
  slot # None /\ handler.at = "idle" =>
    /\ status = "in_progress"
    /\ attempts < slot.attempt /\ slot.attempt <= attempts + 1 + slot.infraRetries

\* A failure is handled while the task has its slot.
HandlerHolds == Handling => status = "in_progress" /\ slot # None /\ handler.live

FailedAhead ==
  handler.at = "failed" =>
    /\ attempts < handler.slot.attempt
    /\ handler.slot.attempt <= attempts + 1 + handler.slot.infraRetries

CountingSlot ==
  handler.at = "counting" => isMerge \/ handler.count = handler.slot.attempt

RetryingAhead ==
  handler.at = "retrying" =>
    /\ attempts <= handler.slot.attempt
    /\ handler.slot.attempt <= attempts + handler.slot.infraRetries

\* Users only unblock tasks, and only tasks that nobody works on.
OnlyUnblocks ==
  /\ user.at \in {"idle", "unblocking"}
  /\ user.at = "unblocking" => status = "blocked" /\ slot = None

IdleHandler == handler.at = "idle" => handler = NoHandler

CountInv == /\ SlotAhead /\ HandlerHolds /\ FailedAhead /\ CountingSlot
            /\ RetryingAhead /\ OnlyUnblocks /\ IdleHandler

USE DEF SlotAhead, HandlerHolds, FailedAhead, CountingSlot, RetryingAhead, OnlyUnblocks,
        IdleHandler, Handling

LEMMA InitCounts == Init => CountInv
BY DEF Init, CountInv, NoHandler, NoSlot, NoRequest

\* Rows are written at the end of the handling of a failure.
LEMMA WriteCounts ==
  ASSUME TypeOK, CountInv, Handling, NEW s, NEW p, NEW k, write(s, p, k)
  PROVE  CountInv'
<1>1. handler \in Handler /\ "releasing" \in Stages
  BY DEF TypeOK, Handler, Stages
<1>2. handler'.at = "releasing"
  BY <1>1, StageTyped DEF write
<1> QED BY <1>2 DEF write, CountInv

LEMMA NextCounts ==
  ASSUME Requests \subseteq {"unblock", "priority"}, TypeInv, CountInv, [Next]_vars
  PROVE  CountInv'
<1>1. TypeOK /\ handler \in Handler /\ handler.slot \in Slot /\ handler.count \in Nat
      /\ attempts \in Nat
  BY DEF TypeInv, TypeOK, Handler
<1>2. NoHandler.at = "idle"
  BY DEF NoHandler
<1>3. CASE Dispatch
  <2>1. slot'.attempt = attempts + 1 /\ slot'.infraRetries = 0
    BY <1>3 DEF Dispatch
  <2> QED BY <2>1, <1>1, <1>3 DEF Dispatch, CountInv, isMerge
<1>4. CASE RunSucceeds
  BY <1>2, <1>4 DEF RunSucceeds, CountInv, isMerge
<1>5. ASSUME NEW kind \in Kinds, RunFails(kind) PROVE CountInv'
  <2>1. kind \in FailureKinds /\ slot \in Slot /\ handler.at = "idle"
    BY <1>1, <1>2, <1>5, RetriesAssumption DEF RunFails, TypeOK
  <2>2. handler'.at = "failed" /\ handler'.live /\ handler'.slot = slot
    BY <2>1, <1>5, FailedTyped DEF RunFails
  <2> QED BY <2>1, <2>2, <1>5 DEF RunFails, CountInv
<1>6. CASE AwaitProvider
  <2>1. "reopening" \in Stages
    BY DEF Stages
  <2>2. handler'.at = "reopening" /\ handler'.live = handler.live
    BY <2>1, <1>1, <1>6, StageTyped DEF AwaitProvider
  <2> QED BY <2>2, <1>6 DEF AwaitProvider, CountInv
<1>7. CASE RetryInfrastructure
  <2>1. handler.slot.infraRetries < MaxInfraRetries
    BY <1>7 DEF RetryInfrastructure, infraRetry
  <2>2. /\ handler'.at = "retrying" /\ handler'.live = handler.live
        /\ handler'.slot.attempt = handler.slot.attempt
        /\ handler'.slot.infraRetries = handler.slot.infraRetries + 1
    BY <2>1, <1>1, <1>7, RetryTyped DEF RetryInfrastructure
  <2>3. handler.slot.attempt \in Nat /\ handler.slot.infraRetries \in Nat
    BY <1>1, RetriesAssumption DEF Slot
  <2> QED BY <2>2, <2>3, <1>1, <1>7 DEF RetryInfrastructure, CountInv
<1>8. CASE RemoveLabel
  <2>1. handler'.at = "counting" /\ handler'.live = handler.live /\ (isMerge' <=> isMerge)
        /\ (~isMerge => handler'.count = handler'.slot.attempt)
    BY <1>1, <1>8, RemoveTyped DEF isMerge
  <2> QED BY <2>1, <1>8 DEF RemoveLabel, CountInv
<1>9. CASE AddLabel
  <2> DEFINE v == verdict(handler.count)
  <2>1. v \in {"retrying", "reopening", "demoting", "blocking"} /\ (v = "retrying" => ~isMerge)
    BY <1>1, VerdictFacts
  <2>2. handler' = [handler EXCEPT !.at = v] /\ attempts' = handler.count
    BY <1>9 DEF AddLabel
  <2> HIDE DEF v
  <2>3. handler'.at = v /\ handler'.slot = handler.slot /\ handler'.live = handler.live
    BY <2>1, <2>2, <1>1, StageTyped DEF Stages
  <2>4. handler.slot.attempt \in Nat /\ handler.slot.infraRetries \in Nat
    BY <1>1, RetriesAssumption DEF Slot
  <2> QED BY <2>1, <2>2, <2>3, <2>4, <1>9 DEF AddLabel, CountInv
<1>10. CASE Retry
  <2> DEFINE s == [handler.slot EXCEPT !.attempt = @ + 1]
  <2>1. s.attempt = handler.slot.attempt + 1 /\ s.infraRetries = handler.slot.infraRetries
        /\ handler.slot.attempt \in Nat /\ handler.slot.infraRetries \in Nat
    BY <1>1, RetriesAssumption DEF Slot
  <2>2. handler.live => slot' = s
    BY <1>10 DEF Retry
  <2> HIDE DEF s
  <2> QED BY <2>1, <2>2, <1>1, <1>2, <1>10 DEF Retry, CountInv, isMerge
<1>11. CASE Reopen \/ Demote \/ Block
  BY <1>1, <1>11, WriteCounts DEF Reopen, Demote, Block
<1>12. CASE Release
  BY <1>2, <1>12 DEF Release, CountInv, isMerge
<1>13. CASE StartUnblock
  <2>1. handler'.at = handler.at /\ (handler.at = "idle" => handler' = handler) /\ ~Handling
        /\ slot' = None
    BY <1>1, <1>13 DEF StartUnblock, freeSlot, stopped, CountInv, Handler
  <2> QED BY <2>1, <1>13 DEF StartUnblock, CountInv
<1>14. CASE Unblock
  BY <1>14 DEF Unblock, CountInv, isMerge
<1>15. CASE SetPriority \/ Recover
  BY <1>15 DEF SetPriority, Recover, CountInv, isMerge
<1>16. CASE Restart
  BY <1>2, <1>16 DEF Restart, CountInv, isMerge
<1>17. ~(StartMarkDone \/ FinishMarkDone \/ KillAgent \/ ResetAttempts)
  BY DEF StartMarkDone, FinishMarkDone, KillAgent, ResetAttempts, CountInv
<1>18. CASE UNCHANGED vars
  BY <1>18 DEF vars, CountInv, isMerge
<1> QED
  BY <1>3, <1>4, <1>5, <1>6, <1>7, <1>8, <1>9, <1>10, <1>11, <1>12, <1>13, <1>14, <1>15,
     <1>16, <1>17, <1>18 DEF Next, Runs, Handle, Users

\* While users do no more than unblock tasks and set priorities, the slot of a
\* running task and the label agree up to the infrastructure retries of the slot,
\* through restarts, failed writes and failures of every kind.
THEOREM CountSafe ==
  ASSUME Requests \subseteq {"unblock", "priority"}
  PROVE  Spec => []CountKeepsUp
<1>1. TypeInv /\ CountInv => CountKeepsUp
  <2> SUFFICES ASSUME TypeInv, CountInv, slot # None, handler = NoHandler
               PROVE  attempts < slot.attempt /\ slot.attempt <= attempts + 1 + MaxInfraRetries
    BY DEF CountKeepsUp
  <2>1. slot \in Slot /\ attempts \in Nat /\ handler.at = "idle"
    BY DEF TypeInv, TypeOK, NoHandler
  <2> QED BY <2>1, RetriesAssumption DEF CountInv, Slot
<1>2. TypeInv /\ CountInv /\ [Next]_vars => CountInv'
  BY NextCounts
<1> QED BY <1>1, <1>2, InitCounts, TypeInvariance, PTL DEF Spec


-----------------------------------------------------------------------------
(* Remainders.                                                               *)
LEMMA Division ==
  ASSUME NEW T \in Nat \ {0}, NEW n \in Nat
  PROVE  n \div T \in Nat /\ n % T \in 0..(T - 1) /\ n = (T * (n \div T)) + (n % T)
OBVIOUS

LEMMA Remainder ==
  ASSUME NEW T \in Nat \ {0}, NEW q \in Nat, NEW r \in 0..(T - 1)
  PROVE  (T * q + r) % T = r
OBVIOUS

LEMMA Products ==
  ASSUME NEW T \in Nat, NEW m \in Nat, NEW n \in Nat, m <= n
  PROVE  T * m \in Nat /\ T * n \in Nat /\ T * m <= T * n /\ T * (m + 1) = T * m + T
OBVIOUS

\* A number that is no multiple has a remainder one more than the one before.
LEMMA NextRemainder ==
  ASSUME NEW T \in Nat \ {0}, NEW n \in Nat, (n + 1) % T # 0
  PROVE  (n + 1) % T = (n % T) + 1
<1> DEFINE q == n \div T
           r == n % T
<1>1. q \in Nat /\ r \in 0..(T - 1) /\ n = (T * q) + r
  BY Division
<1> HIDE DEF q, r
<1>2. T * (q + 1) = (T * q) + T /\ T * q \in Nat
  BY <1>1
<1>3. CASE r = T - 1
  <2>1. n + 1 = T * (q + 1)
    BY <1>1, <1>2, <1>3
  <2>2. (T * (q + 1)) % T = 0
    BY <1>1
  <2> QED  BY <2>1, <2>2
<1>4. CASE r # T - 1
  <2>1. n + 1 = T * q + (r + 1) /\ r + 1 \in 0..(T - 1)
    BY <1>1, <1>2, <1>4
  <2>2. (T * q + (r + 1)) % T = r + 1
    BY <1>1, <2>1, Remainder
  <2> QED  BY <2>1, <2>2 DEF r
<1> QED  BY <1>3, <1>4

-----------------------------------------------------------------------------
(* The bound on the attempts.  It grows with the demotions and with the      *)
(* writes that are lost, and only a task that is over has reached it.        *)
spent == (priority - firstPriority) + (MaxStoreFailures - storeFailuresLeft)

limit == Threshold * (spent + 2)

Over == status \in {"blocked", "closed"}

\* Between a failure and the verdict on it.
Undecided == handler.at \in {"failed", "counting", "retrying"}

\* A run has closed over the priority the task still has.
SamePriority ==
  /\ firstPriority <= priority
  /\ slot # None /\ handler.at # "releasing" => slot.priority = priority
  /\ Handling => handler.slot.priority = priority

LabelBelow ==
  /\ attempts <= limit
  /\ Undecided \/ handler.at = "reopening" => attempts < limit
  /\ handler.at = "idle" => attempts < limit \/ (Over /\ slot = None)
  /\ handler.at = "releasing" => attempts < limit \/ Over

SlotBelow ==
  /\ slot # None /\ (Undecided \/ handler.at = "idle") => slot.attempt <= limit
  /\ Undecided => handler.slot.attempt <= limit

CountBelow ==
  /\ handler.at = "counting" =>
       handler.count <= limit /\ (isMerge \/ handler.count = handler.slot.attempt)
  /\ handler.at = "retrying" => attempts = handler.slot.attempt

\* Nothing of an infrastructure failure, of an unblocking or of a restart.
Stopped ==
  /\ handler.kind # "infra"
  /\ user.at \in {"idle", "closing"}

BoundInv == SamePriority /\ LabelBelow /\ SlotBelow /\ CountBelow /\ Stopped /\ IdleHandler

\* The bound of one state, and what raises it.
LEMMA LimitFacts ==
  ASSUME TypeOK, firstPriority <= priority
  PROVE  /\ limit \in Nat /\ 2 * Threshold <= limit
         /\ \A n \in Nat : n <= limit /\ n % Threshold # 0 => n < limit
         /\ limit <= Threshold * (MaxPriority - firstPriority + 2 + MaxStoreFailures)
<1>1. spent \in Nat /\ spent <= MaxPriority - firstPriority + MaxStoreFailures
  BY RetriesAssumption DEF TypeOK, spent
<1>2. limit = Threshold * (spent + 2) /\ Threshold \in Nat \ {0}
  BY RetriesAssumption DEF limit
<1> HIDE DEF spent
<1>3. limit \in Nat /\ Threshold * 2 <= limit
  BY <1>1, <1>2, Products
<1>4. limit % Threshold = 0
  <2>1. (Threshold * (spent + 2)) % Threshold = 0
    BY <1>1, <1>2
  <2> QED  BY <1>2, <2>1
<1>5. limit <= Threshold * (MaxPriority - firstPriority + 2 + MaxStoreFailures)
  <2> DEFINE n == MaxPriority - firstPriority + 2 + MaxStoreFailures
  <2>1. n \in Nat /\ spent + 2 <= n /\ spent + 2 \in Nat
    BY <1>1, RetriesAssumption DEF TypeOK
  <2> HIDE DEF n
  <2>2. Threshold * (spent + 2) <= Threshold * n
    BY <2>1, <1>2, Products
  <2> QED  BY <1>2, <2>2 DEF n
<1> QED  BY <1>2, <1>3, <1>4, <1>5

LEMMA LimitRises ==
  ASSUME TypeOK, TypeOK', firstPriority <= priority, firstPriority' = firstPriority,
         spent' > spent
  PROVE  limit' > limit /\ limit' \in Nat
<1>1. spent \in Nat /\ spent' \in Nat
  <2>1. spent \in Nat
    BY RetriesAssumption DEF TypeOK, spent
  <2>2. spent' \in Int
    BY RetriesAssumption DEF TypeOK, spent
  <2> QED  BY <2>1, <2>2
<1>2. Threshold \in Nat \ {0} /\ limit = Threshold * (spent + 2)
        /\ limit' = Threshold * (spent' + 2)
  BY RetriesAssumption DEF limit
<1> DEFINE m == spent
           n == spent'
<1>3. m \in Nat /\ n \in Nat /\ m < n /\ limit = Threshold * (m + 2) /\ limit' = Threshold * (n + 2)
  BY <1>1, <1>2
<1> HIDE DEF m, n
<1>4. Threshold * (m + 3) <= Threshold * (n + 2)
        /\ Threshold * (m + 3) = Threshold * (m + 2) + Threshold
  BY <1>2, <1>3, Products
<1>5. Threshold * (m + 2) \in Nat /\ Threshold * (n + 2) \in Nat
  BY <1>2, <1>3, Products
<1> QED  BY <1>2, <1>3, <1>4, <1>5

LEMMA InitBound == Init => BoundInv
<1> SUFFICES ASSUME Init PROVE BoundInv
  OBVIOUS
<1>1. TypeOK /\ firstPriority <= priority
  BY InitTyped, RetriesAssumption DEF TypeInv, Init
<1>2. limit \in Nat /\ 2 * Threshold <= limit
  BY <1>1, LimitFacts
<1>3. 0 < limit /\ 0 <= limit
  BY <1>2, RetriesAssumption
<1>4. handler.at = "idle" /\ handler.kind = "coding" /\ handler = NoHandler
  BY DEF Init, NoHandler
<1>5. user.at = "idle" /\ attempts = 0 /\ slot = None
  BY DEF Init
<1> QED
  BY <1>1, <1>3, <1>4, <1>5 DEF BoundInv, SamePriority, LabelBelow, SlotBelow, CountBelow,
                                Stopped, Undecided

\* What a verdict of a failure to merge is, and of one to code.
LEMMA VerdictCounts ==
  ASSUME NEW n \in Nat
  PROVE  /\ verdict(n) = "reopening" => isMerge /\ n < 2 * Threshold
         /\ verdict(n) = "retrying" => n % Threshold # 0
<1> DEFINE multiple == n % Threshold = 0
           late == n >= 2 * Threshold
           last == handler.slot.priority >= MaxPriority
<1>1. verdict(n) = CASE handler.kind \in {"setup", "mergeSetup"} -> "blocking"
                     [] handler.kind = "merge" -> IF late THEN "blocking" ELSE "reopening"
                     [] OTHER -> IF ~multiple THEN "retrying"
                                 ELSE IF last THEN "blocking" ELSE "demoting"
  BY DEF verdict
<1>2. ~late => n < 2 * Threshold
  BY RetriesAssumption
<1> HIDE DEF multiple, late, last
<1>3. verdict(n) = "reopening" => isMerge /\ ~late
  BY <1>1 DEF isMerge
<1>4. verdict(n) = "retrying" => ~multiple
  BY <1>1
<1> QED  BY <1>2, <1>3, <1>4 DEF multiple

\* A row is written, or the write is lost.
LEMMA WriteBound ==
  ASSUME TypeInv, TypeInv', BoundInv, Handling, NEW s, NEW p, NEW k, write(s, p, k),
         \/ p = priority /\ (s = "blocked" \/ attempts < limit)
         \/ p = priority + 1
  PROVE  BoundInv'
<1>1. TypeOK /\ TypeOK' /\ handler \in Handler /\ "releasing" \in Stages
  BY DEF TypeInv, TypeOK, Handler, Stages
<1>2. handler'.at = "releasing" /\ handler'.kind = handler.kind
  BY <1>1, StageTyped DEF write
<1>3. /\ firstPriority <= priority /\ attempts <= limit /\ limit \in Nat
      /\ attempts \in Nat /\ attempts' = attempts /\ firstPriority' = firstPriority
  BY <1>1, LimitFacts DEF BoundInv, SamePriority, LabelBelow, write, TypeOK
<1>4. SamePriority'
  BY <1>1, <1>2, <1>3 DEF write, SamePriority, TypeOK
<1>5. LabelBelow'
  <2>1. CASE storeFailuresLeft' = storeFailuresLeft - 1 /\ UNCHANGED <<status, priority>>
    <3>1. spent' > spent
      BY <1>1, <1>3, <2>1, RetriesAssumption DEF spent, TypeOK
    <3>2. limit' > limit /\ limit' \in Nat
      BY <1>1, <1>3, <3>1, LimitRises
    <3>3. attempts' < limit'
      BY <1>3, <3>2
    <3> QED  BY <1>2, <1>3, <3>2, <3>3 DEF LabelBelow, Undecided
  <2>2. CASE status' = s /\ priority' = p /\ storeFailuresLeft' = storeFailuresLeft
    <3>1. CASE p = priority + 1
      <4>1. spent' > spent
        BY <1>1, <1>3, <2>2, <3>1, RetriesAssumption DEF spent, TypeOK
      <4>2. limit' > limit /\ limit' \in Nat
        BY <1>1, <1>3, <4>1, LimitRises
      <4>3. attempts' < limit'
        BY <1>3, <4>2
      <4> QED  BY <1>2, <1>3, <4>2, <4>3 DEF LabelBelow, Undecided
    <3>2. CASE p = priority /\ (s = "blocked" \/ attempts < limit)
      <4>1. limit' = limit
        BY <1>3, <2>2, <3>2 DEF limit, spent
      <4> QED  BY <1>2, <1>3, <2>2, <3>2, <4>1 DEF LabelBelow, Undecided, Over
    <3> QED  BY <3>1, <3>2
  <2> QED  BY <2>1, <2>2 DEF write
<1>6. SlotBelow' /\ CountBelow' /\ Stopped' /\ IdleHandler'
  BY <1>2 DEF SlotBelow, CountBelow, Stopped, Undecided, BoundInv, write
<1> QED  BY <1>4, <1>5, <1>6 DEF BoundInv

\* Steps that leave the limit where it is.
LEMMA NextBound ==
  ASSUME "infra" \notin Kinds, Requests \subseteq {"done", "kill"}, MaxRestarts = 0,
         TypeInv, BoundInv, [Next]_vars
  PROVE  BoundInv'
<1> USE DEF SamePriority, LabelBelow, SlotBelow, CountBelow, Stopped, Undecided
<1>1. TypeInv' /\ TypeOK /\ TypeOK' /\ handler \in Handler /\ handler.slot \in Slot
        /\ handler.count \in Nat /\ attempts \in Nat /\ handler.slot.attempt \in Nat
  BY NextTyped DEF TypeInv, TypeOK, Handler, Slot
<1>2. NoHandler.at = "idle" /\ NoHandler.kind = "coding"
  BY DEF NoHandler
<1>3. limit \in Nat /\ 2 * Threshold <= limit /\ Threshold \in Nat \ {0}
        /\ \A n \in Nat : n <= limit /\ n % Threshold # 0 => n < limit
  BY <1>1, LimitFacts, RetriesAssumption DEF BoundInv
<1>4. UNCHANGED <<priority, firstPriority, storeFailuresLeft>> => limit' = limit
  BY DEF limit, spent
<1>5. CASE Dispatch
  <2>1. slot'.attempt = attempts + 1 /\ slot'.priority = priority
    BY <1>5 DEF Dispatch
  <2>2. handler.at \notin {"failed", "counting", "retrying"} \/ attempts + 1 <= limit
    BY <1>1, <1>3 DEF BoundInv
  <2>3. handler.at = "idle" => attempts + 1 <= limit
    BY <1>1, <1>3, <1>5 DEF BoundInv, Dispatch, Over
  <2> QED  BY <2>1, <2>2, <2>3, <1>4, <1>5 DEF Dispatch, BoundInv, Over, isMerge
<1>6. CASE RunSucceeds
  BY <1>2, <1>4, <1>6 DEF RunSucceeds, BoundInv, Over
<1>7. ASSUME NEW kind \in Kinds, RunFails(kind) PROVE BoundInv'
  <2>1. kind \in FailureKinds /\ slot \in Slot /\ handler.at = "idle" /\ kind # "infra"
    BY <1>1, <1>2, <1>7, RetriesAssumption DEF RunFails, TypeOK
  <2>2. handler'.at = "failed" /\ handler'.slot = slot /\ handler'.kind = kind
    BY <2>1, <1>7, FailedTyped DEF RunFails
  <2> QED  BY <2>1, <2>2, <1>4, <1>7 DEF RunFails, BoundInv
<1>8. CASE AwaitProvider
  <2>1. "reopening" \in Stages
    BY DEF Stages
  <2>2. handler'.at = "reopening" /\ handler'.kind = handler.kind /\ handler'.slot = handler.slot
    BY <2>1, <1>1, <1>8, StageTyped DEF AwaitProvider
  <2> QED  BY <2>2, <1>4, <1>8 DEF AwaitProvider, BoundInv
<1>9. CASE RemoveLabel
  <2>1. /\ handler'.at = "counting" /\ handler'.kind = handler.kind /\ (isMerge' <=> isMerge)
        /\ handler'.slot.attempt = handler.slot.attempt
        /\ (~isMerge => handler'.count = handler.slot.attempt)
    BY <1>1, <1>9, RemoveTyped DEF isMerge
  <2>2. isMerge => handler'.count = attempts + 1
    BY <1>1, <1>9 DEF RemoveLabel, Handler
  <2>3. handler'.slot.priority = handler.slot.priority
    BY <1>1, <1>9 DEF RemoveLabel, Handler, Slot
  <2>4. handler'.count <= limit /\ 0 < limit
    BY <2>1, <2>2, <1>1, <1>3, <1>9 DEF RemoveLabel, BoundInv
  <2>5. /\ limit' = limit /\ attempts' = 0 /\ UNCHANGED <<priority, firstPriority, slot, user>>
        /\ handler.at = "failed"
    BY <1>4, <1>9 DEF RemoveLabel
  <2>6. SamePriority' /\ LabelBelow' /\ SlotBelow'
    BY <2>1, <2>3, <2>4, <2>5, <1>3 DEF BoundInv
  <2>7. CountBelow' /\ Stopped' /\ IdleHandler'
    BY <2>1, <2>4, <2>5 DEF BoundInv
  <2> QED  BY <2>6, <2>7 DEF BoundInv
<1>10. CASE AddLabel
  <2> DEFINE v == verdict(handler.count)
  <2>1. /\ v \in {"retrying", "reopening", "demoting", "blocking"}
        /\ v = "retrying" => ~isMerge /\ handler.count % Threshold # 0
        /\ v = "reopening" => handler.count < 2 * Threshold
    BY <1>1, VerdictFacts, VerdictCounts
  <2>2. handler' = [handler EXCEPT !.at = v] /\ attempts' = handler.count /\ handler.at = "counting"
    BY <1>10 DEF AddLabel
  <2> HIDE DEF v
  <2>3. handler'.at = v /\ handler'.slot = handler.slot /\ handler'.kind = handler.kind
    BY <2>1, <2>2, <1>1, StageTyped DEF Stages
  <2>4. v \in {"retrying", "reopening"} => attempts' < limit
    BY <2>1, <2>2, <1>1, <1>3 DEF BoundInv
  <2> QED  BY <2>1, <2>2, <2>3, <2>4, <1>4, <1>10 DEF AddLabel, BoundInv
<1>11. CASE Retry
  <2> DEFINE s == [handler.slot EXCEPT !.attempt = @ + 1]
  <2>1. s.attempt = attempts + 1 /\ s.priority = handler.slot.priority
    BY <1>1, <1>11 DEF Retry, BoundInv, Slot
  <2>2. slot' = s \/ slot' = slot
    BY <1>11 DEF Retry
  <2> HIDE DEF s
  <2>3. attempts < limit /\ attempts + 1 <= limit
    BY <1>1, <1>3, <1>11 DEF Retry, BoundInv
  <2> QED  BY <2>1, <2>2, <2>3, <1>2, <1>4, <1>11 DEF Retry, BoundInv
<1>12. CASE Reopen \/ Block
  <2>1. Handling
    BY <1>12 DEF Reopen, Block
  <2>2. Reopen => attempts < limit
    BY DEF Reopen, BoundInv
  <2> QED  BY <2>1, <2>2, <1>1, <1>12, WriteBound DEF Reopen, Block
<1>13. CASE Demote
  <2>1. Handling /\ handler.slot.priority = priority
    BY <1>13 DEF Demote, BoundInv
  <2> QED  BY <2>1, <1>1, <1>13, WriteBound DEF Demote
<1>14. CASE Release
  BY <1>2, <1>4, <1>14 DEF Release, BoundInv, Over
<1>15. CASE StartMarkDone \/ KillAgent
  <2>1. /\ handler'.at = handler.at /\ handler'.kind = handler.kind /\ handler'.slot = handler.slot
        /\ handler'.count = handler.count /\ (handler = NoHandler => handler' = handler)
        /\ slot' = None
    BY <1>1, <1>15 DEF StartMarkDone, KillAgent, freeSlot, stopped, Handler
  <2>2. UNCHANGED <<taskVars, boundVars>> /\ user'.at \in {"idle", "closing"}
    BY <1>15 DEF StartMarkDone, KillAgent, BoundInv
  <2> QED  BY <2>1, <2>2, <1>4 DEF BoundInv, Over, isMerge
<1>16. CASE FinishMarkDone
  BY <1>4, <1>16 DEF FinishMarkDone, BoundInv, Over, isMerge
<1>17. CASE Recover
  BY <1>4, <1>17 DEF Recover, BoundInv, Over, isMerge
<1>18. ~(RetryInfrastructure \/ StartUnblock \/ Unblock \/ ResetAttempts \/ SetPriority \/ Restart)
  BY <1>1 DEF RetryInfrastructure, infraRetry, StartUnblock, Unblock, ResetAttempts, SetPriority,
              Restart, BoundInv, TypeOK
<1>19. CASE UNCHANGED vars
  BY <1>4, <1>19 DEF vars, BoundInv, Over, isMerge
<1> QED
  BY <1>5, <1>6, <1>7, <1>8, <1>9, <1>10, <1>11, <1>12, <1>13, <1>14, <1>15, <1>16, <1>17,
     <1>18, <1>19 DEF Next, Runs, Handle, Users

\* Without infrastructure failures and restarts, and whenever users kill the task
\* or mark it done: each demotion, and each row that could not be written, lets it
\* fail Threshold times more, and a failure to merge can skip one demotion; after
\* that it is over.
THEOREM AttemptsBounded ==
  ASSUME "infra" \notin Kinds, Requests \subseteq {"done", "kill"}, MaxRestarts = 0
  PROVE  Spec => []RetriesAreBounded
<1>1. TypeInv /\ BoundInv => RetriesAreBounded
  <2> SUFFICES ASSUME TypeInv, BoundInv PROVE RetriesAreBounded
    OBVIOUS
  <2>1. TypeOK /\ firstPriority <= priority /\ attempts <= limit /\ attempts \in Nat
    BY DEF TypeInv, TypeOK, BoundInv, SamePriority, LabelBelow
  <2> DEFINE bound == Threshold * (MaxPriority - firstPriority + 2 + MaxStoreFailures)
  <2>2. limit \in Nat /\ limit <= bound
    BY <2>1, LimitFacts
  <2>3. bound \in Int
    BY <2>1, RetriesAssumption DEF TypeOK
  <2> HIDE DEF bound
  <2>4. attempts <= bound
    BY <2>1, <2>2, <2>3
  <2> QED  BY <2>4 DEF bound, RetriesAreBounded
<1>2. TypeInv /\ BoundInv /\ [Next]_vars => BoundInv'
  BY NextBound
<1> QED BY <1>1, <1>2, InitBound, TypeInvariance, PTL DEF Spec

-----------------------------------------------------------------------------
(* The failures in a row before a demotion: as many as the label says since  *)
(* the last one, and Threshold more for each that was lost.                  *)
grace == Threshold * (MaxStoreFailures - storeFailuresLeft)

\* Whether the failure that is handled was counted in the row.
counts == handler.kind \in {"coding", "setup"}

\* A failure is handled while the task has its slot, and a user unblocks a task
\* only while nobody works on it.
Undisturbed ==
  /\ Handling => status = "in_progress" /\ slot # None /\ handler.live
  /\ handler.at = "idle" /\ slot # None => status = "in_progress"
  /\ user.at # "closing"
  /\ user.at = "unblocking" => status = "blocked" /\ slot = None /\ attempts = user.label
  /\ handler.kind # "infra"

StreakBelow ==
  /\ handler.at = "idle" => streak.counted <= (attempts % Threshold) + grace
  /\ handler.at = "idle" /\ slot # None =>
       slot.attempt # 0 /\ streak.counted <= ((slot.attempt - 1) % Threshold) + grace
  /\ handler.at = "failed" =>
       /\ handler.slot.attempt # 0
       /\ counts => streak.counted <= ((handler.slot.attempt - 1) % Threshold) + 1 + grace
       /\ ~counts => streak.counted <= (attempts % Threshold) + grace
       /\ isMerge => streak.counted = 0
  /\ handler.at = "counting" =>
       /\ handler.count # 0 /\ (counts \/ isMerge)
       /\ ~isMerge => handler.count = handler.slot.attempt
       /\ counts => streak.counted <= ((handler.count - 1) % Threshold) + 1 + grace
       /\ isMerge => streak.counted = 0
  /\ handler.at = "retrying" => attempts = handler.slot.attempt
  /\ handler.at \in {"retrying", "reopening", "releasing"} =>
       streak.counted <= (attempts % Threshold) + grace
  /\ handler.at \in {"demoting", "blocking"} => streak.counted <= Threshold + grace

\* A label a user is about to take away has not been counted up since it was
\* read, or is not the one that was read any more.
ResetIsFresh ==
  user.at = "resetting" =>
    /\ handler.at # "counting" => attempts >= user.label
    /\ attempts = user.label /\ handler.at # "counting" =>
         (handler.at = "failed" /\ counts) \/ streak.counted = 0
    /\ handler.at = "idle" /\ slot # None => slot.attempt > user.label
    /\ handler.at = "failed" => handler.slot.attempt > user.label
    /\ handler.at = "counting" => handler.count > user.label
    /\ handler.at \in {"retrying", "demoting", "blocking"} => attempts > user.label

StreakInv == Undisturbed /\ StreakBelow /\ ResetIsFresh /\ IdleHandler

LEMMA GraceFacts ==
  ASSUME TypeOK
  PROVE  /\ grace \in Nat /\ grace <= Threshold * MaxStoreFailures
         /\ \A n \in Nat : /\ n % Threshold \in 0..(Threshold - 1)
                           /\ (n + 1) % Threshold # 0 =>
                                (n + 1) % Threshold = (n % Threshold) + 1
         /\ storeFailuresLeft' = storeFailuresLeft - 1 /\ storeFailuresLeft > 0 =>
              grace' = Threshold + grace
         /\ storeFailuresLeft' = storeFailuresLeft => grace' = grace
<1> DEFINE n == MaxStoreFailures - storeFailuresLeft
<1>1. n \in Nat /\ n <= MaxStoreFailures /\ MaxStoreFailures \in Nat /\ storeFailuresLeft \in Nat
  BY RetriesAssumption DEF TypeOK
<1>2. grace = Threshold * n /\ Threshold \in Nat \ {0}
  BY RetriesAssumption DEF grace
<1>3. storeFailuresLeft' = storeFailuresLeft - 1 => grace' = Threshold * (n + 1)
  <2>1. storeFailuresLeft' = storeFailuresLeft - 1 => MaxStoreFailures - storeFailuresLeft' = n + 1
    BY <1>1
  <2> HIDE DEF n
  <2> QED  BY <2>1 DEF grace
<1>4. storeFailuresLeft' = storeFailuresLeft => grace' = grace
  BY DEF grace
<1> HIDE DEF n
<1>5. grace \in Nat /\ grace <= Threshold * MaxStoreFailures
        /\ Threshold * (n + 1) = Threshold * n + Threshold
  BY <1>1, <1>2, Products
<1>6. \A i \in Nat : /\ i % Threshold \in 0..(Threshold - 1)
                     /\ (i + 1) % Threshold # 0 =>
                          (i + 1) % Threshold = (i % Threshold) + 1
  BY <1>2, Division, NextRemainder
<1>7. storeFailuresLeft' = storeFailuresLeft - 1 => grace' = Threshold + grace
  <2>1. Threshold * n + Threshold = Threshold + Threshold * n
    BY <1>1, <1>2
  <2> QED  BY <1>2, <1>3, <1>5, <2>1
<1> QED  BY <1>4, <1>5, <1>6, <1>7

LEMMA InitStreak == Init => StreakInv
<1> SUFFICES ASSUME Init PROVE StreakInv
  OBVIOUS
<1>1. TypeOK /\ grace \in Nat /\ 0 % Threshold \in Nat
  BY InitTyped, GraceFacts, RetriesAssumption DEF TypeInv
<1>2. handler.at = "idle" /\ handler.kind = "coding" /\ handler = NoHandler
  BY DEF Init, NoHandler
<1>3. user.at = "idle" /\ attempts = 0 /\ slot = None /\ streak.counted = 0
  BY DEF Init, NoStreak
<1> QED  BY <1>1, <1>2, <1>3 DEF StreakInv, Undisturbed, StreakBelow, ResetIsFresh

\* A row is written with the streak k, or the write is lost.
LEMMA WriteStreak ==
  ASSUME TypeOK, TypeOK', StreakInv, Handling, NEW s, NEW p, NEW k, write(s, p, k),
         streak.counted <= Threshold + grace,
         k = NoStreak \/ (k = streak /\ streak.counted <= (attempts % Threshold) + grace),
         user.at = "resetting" =>
           attempts >= user.label /\ (attempts = user.label => streak.counted = 0)
  PROVE  StreakInv'
<1>1. handler \in Handler /\ "releasing" \in Stages /\ attempts \in Nat /\ streak.counted \in Nat
  BY DEF TypeOK, Handler, Stages
<1>2. handler'.at = "releasing" /\ handler'.kind = handler.kind
  BY <1>1, StageTyped DEF write
<1>3. UNCHANGED <<attempts, user, slot>>
  BY DEF write
<1>4. streak'.counted <= (attempts % Threshold) + grace' /\ streak'.counted \in {0, streak.counted}
  <2>1. attempts % Threshold \in Nat /\ grace \in Nat /\ Threshold \in Nat
    BY <1>1, GraceFacts, RetriesAssumption
  <2>2. NoStreak.counted = 0
    BY DEF NoStreak
  <2>3. CASE /\ storeFailuresLeft > 0 /\ storeFailuresLeft' = storeFailuresLeft - 1
             /\ UNCHANGED <<status, priority, streak>>
    <3>1. grace' = Threshold + grace
      BY <2>3, GraceFacts
    <3> QED  BY <1>1, <2>1, <2>3, <3>1
  <2>4. CASE status' = s /\ priority' = p /\ streak' = k /\ UNCHANGED storeFailuresLeft
    <3>1. grace' = grace
      BY <2>4, GraceFacts
    <3> QED  BY <1>1, <2>1, <2>2, <2>4, <3>1
  <2> QED  BY <2>3, <2>4 DEF write
<1>5. user.at # "unblocking" /\ user.at # "closing" /\ handler.kind # "infra"
  BY DEF StreakInv, Undisturbed
<1> QED  BY <1>2, <1>3, <1>4, <1>5 DEF StreakInv, Undisturbed, StreakBelow, ResetIsFresh

LEMMA NextStreak ==
  ASSUME "infra" \notin Kinds, Requests \subseteq {"unblock", "reset", "priority"},
         MaxRestarts = 0, TypeInv, StreakInv, [Next]_vars
  PROVE  StreakInv'
<1> USE DEF Undisturbed, StreakBelow, ResetIsFresh
<1>1. TypeOK /\ TypeOK' /\ handler \in Handler /\ handler.slot \in Slot
        /\ handler.count \in Nat /\ attempts \in Nat /\ handler.slot.attempt \in Nat
        /\ streak.counted \in Nat /\ user.label \in Nat
  BY NextTyped DEF TypeInv, TypeOK, Handler, Slot
<1>2. NoHandler.at = "idle" /\ NoHandler.kind = "coding" /\ NoStreak.counted = 0
  BY DEF NoHandler, NoStreak
<1>3. grace \in Nat /\ Threshold \in Nat \ {0} /\ 0 % Threshold = 0
        /\ \A n \in Nat : n % Threshold \in 0..(Threshold - 1)
  BY <1>1, GraceFacts, RetriesAssumption
<1>4. storeFailuresLeft' = storeFailuresLeft => grace' = grace
  BY <1>1, GraceFacts
<1>5. CASE Dispatch
  <2>1. slot'.attempt = attempts + 1 /\ attempts + 1 - 1 = attempts /\ attempts + 1 # 0
    BY <1>1, <1>5 DEF Dispatch
  <2>2. /\ slot = None /\ status' = "in_progress" /\ handler.at \in {"idle", "releasing"}
        /\ UNCHANGED <<attempts, handler, user, streak>> /\ user.at # "unblocking" /\ grace' = grace
    BY <1>1, <1>4, <1>5 DEF Dispatch, StreakInv
  <2>3. slot'.attempt > user.label \/ user.at # "resetting"
    BY <2>1, <2>2, <1>1 DEF StreakInv
  <2>4. streak.counted <= (attempts % Threshold) + grace
    BY <2>2 DEF StreakInv
  <2>5. slot'.attempt # 0 /\ (slot'.attempt - 1) % Threshold = attempts % Threshold
    <3>1. slot'.attempt - 1 = attempts /\ slot'.attempt # 0
      BY <2>1, <1>1
    <3> QED  BY <3>1
  <2>6. (isMerge' <=> isMerge) /\ (counts' <=> counts)
    BY <2>2 DEF isMerge, counts
  <2>7. StreakBelow'
    BY <2>2, <2>4, <2>5
  <2>8. ResetIsFresh'
    BY <2>2, <2>3, <2>6 DEF StreakInv
  <2> QED  BY <2>2, <2>7, <2>8 DEF StreakInv
<1>6. CASE RunSucceeds
  <2>1. /\ slot # None /\ slot' = None /\ streak'.counted = 0 /\ handler' = handler
        /\ handler.at = "idle" /\ status = "in_progress" /\ UNCHANGED <<attempts, user>>
        /\ grace' = grace
    BY <1>2, <1>4, <1>6 DEF RunSucceeds, StreakInv
  <2> QED  BY <2>1, <1>1, <1>3 DEF StreakInv
<1>7. ASSUME NEW kind \in Kinds, RunFails(kind) PROVE StreakInv'
  <2>1. kind \in FailureKinds /\ slot \in Slot /\ handler.at = "idle" /\ kind # "infra"
    BY <1>1, <1>2, <1>7, RetriesAssumption DEF RunFails, TypeOK
  <2>2. handler'.at = "failed" /\ handler'.slot = slot /\ handler'.kind = kind /\ handler'.live
    BY <2>1, <1>7, FailedTyped DEF RunFails
  <2>3. /\ counts' => streak'.counted <= streak.counted + 1
        /\ kind = "api" => streak'.counted = streak.counted
        /\ isMerge' => streak'.counted = 0
        /\ counts' \/ kind = "api" \/ isMerge'
        /\ ~(counts' /\ (kind = "api" \/ isMerge')) /\ streak'.counted \in Nat
    <3>1. longer(streak.counted) \in {streak.counted, streak.counted + 1}
      BY DEF longer
    <3>2. /\ kind \in {"coding", "setup"} => streak'.counted = longer(streak.counted)
          /\ kind = "api" => streak'.counted = streak.counted
          /\ kind \in {"merge", "mergeSetup"} => streak'.counted = 0
      BY <1>7 DEF RunFails, prolonged
    <3>3. kind \in {"coding", "setup", "api", "merge", "mergeSetup"}
      BY <2>1 DEF FailureKinds
    <3> HIDE DEF longer
    <3> QED  BY <1>1, <2>2, <3>1, <3>2, <3>3 DEF counts, isMerge
  <2>4. /\ UNCHANGED <<status, attempts, slot, user>> /\ grace' = grace /\ slot # None
        /\ user.at # "unblocking" /\ status = "in_progress"
    BY <1>4, <1>7, <2>1 DEF RunFails, StreakInv
  <2>5. /\ slot.attempt \in Nat /\ (slot.attempt - 1) % Threshold \in Nat
        /\ attempts % Threshold \in Nat
    <3>1. slot.attempt \in Nat /\ slot.attempt # 0
      BY <2>1, <2>4 DEF Slot, StreakInv
    <3>2. slot.attempt - 1 \in Nat
      BY <3>1
    <3> QED  BY <3>1, <3>2, <1>1, <1>3
  <2>6. /\ counts' => streak'.counted <= ((handler'.slot.attempt - 1) % Threshold) + 1 + grace'
        /\ ~counts' => streak'.counted <= (attempts' % Threshold) + grace'
    <3> DEFINE m == (slot.attempt - 1) % Threshold
               k == attempts % Threshold
    <3>1. /\ streak.counted <= m + grace /\ streak.counted <= k + grace
          /\ m \in Nat /\ k \in Nat
      BY <2>1, <2>4, <2>5 DEF StreakInv
    <3>2. /\ (handler'.slot.attempt - 1) % Threshold = m /\ attempts' % Threshold = k
          /\ grace' = grace
      BY <2>2, <2>4
    <3> HIDE DEF m, k
    <3>3. counts' => streak'.counted <= m + 1 + grace
      BY <2>3, <3>1, <1>1, <1>3
    <3>4. ~counts' => streak'.counted <= k + grace
      BY <2>3, <3>1, <1>1, <1>3
    <3> QED  BY <3>2, <3>3, <3>4
  <2> QED  BY <2>1, <2>2, <2>3, <2>4, <2>6, <1>1 DEF StreakInv
<1>8. CASE AwaitProvider
  <2>1. "reopening" \in Stages
    BY DEF Stages
  <2>2. /\ handler'.at = "reopening" /\ handler'.kind = "api" /\ handler'.live = handler.live
        /\ ~counts /\ handler.at = "failed"
    BY <2>1, <1>1, <1>8, StageTyped DEF AwaitProvider, counts
  <2>3. UNCHANGED <<status, attempts, slot, user, streak>> /\ grace' = grace
    BY <1>4, <1>8 DEF AwaitProvider
  <2> QED  BY <2>2, <2>3 DEF StreakInv
<1>9. CASE RemoveLabel
  <2>1. /\ handler'.at = "counting" /\ handler'.kind = handler.kind /\ (isMerge' <=> isMerge)
        /\ handler'.slot.attempt = handler.slot.attempt /\ (counts' <=> counts)
        /\ (~isMerge => handler'.count = handler.slot.attempt) /\ handler'.live = handler.live
    BY <1>1, <1>9, RemoveTyped DEF isMerge, counts
  <2>2. isMerge => handler'.count = attempts + 1
    BY <1>1, <1>9 DEF RemoveLabel, Handler
  <2>3. /\ UNCHANGED <<status, slot, user, streak>> /\ grace' = grace /\ handler.at = "failed"
        /\ handler.kind # "api" /\ handler.kind \in FailureKinds
    BY <1>1, <1>4, <1>9 DEF RemoveLabel, Handler
  <2>4. counts \/ isMerge
    BY <2>3 DEF counts, isMerge, FailureKinds, StreakInv
  <2>5. counts => ~isMerge
    BY DEF counts, isMerge
  <2>6. handler'.count # 0 /\ (user.at = "resetting" => handler'.count > user.label)
    BY <2>1, <2>2, <2>3, <1>1 DEF StreakInv
  <2>7. /\ counts => streak.counted <= ((handler'.count - 1) % Threshold) + 1 + grace
        /\ isMerge => streak.counted = 0
    BY <2>1, <2>3, <2>5 DEF StreakInv
  <2> QED  BY <2>1, <2>3, <2>4, <2>6, <2>7 DEF StreakInv
<1>10. CASE AddLabel
  <2> DEFINE v == verdict(handler.count)
             n == handler.count - 1
  <2>1. /\ v \in {"retrying", "reopening", "demoting", "blocking"}
        /\ v = "retrying" => ~isMerge /\ handler.count % Threshold # 0
        /\ v = "reopening" => isMerge
    BY <1>1, VerdictFacts, VerdictCounts
  <2>2. /\ handler' = [handler EXCEPT !.at = v] /\ attempts' = handler.count
        /\ handler.at = "counting"
        /\ UNCHANGED <<status, slot, user, streak>> /\ grace' = grace
    BY <1>4, <1>10 DEF AddLabel
  <2> HIDE DEF v
  <2>3. handler'.at = v /\ handler'.slot = handler.slot /\ handler'.kind = handler.kind
          /\ handler'.live = handler.live
    BY <2>1, <2>2, <1>1, StageTyped DEF Stages
  <2> DEFINE k == n % Threshold
             m == handler.count % Threshold
  <2>4. /\ k \in Nat /\ m \in Nat /\ k + 1 <= Threshold
        /\ m # 0 => m = k + 1
    <3>1. n \in Nat /\ handler.count = n + 1
      BY <2>2, <1>1 DEF StreakInv
    <3> HIDE DEF n
    <3>2. k \in 0..(Threshold - 1) /\ m \in 0..(Threshold - 1)
      BY <3>1, <1>1, <1>3
    <3>3. (n + 1) % Threshold # 0 => (n + 1) % Threshold = (n % Threshold) + 1
      BY <3>1, <1>3, NextRemainder
    <3>4. k + 1 <= Threshold
      BY <3>2, <1>3
    <3> QED  BY <3>1, <3>2, <3>3, <3>4
  <2>5. /\ counts => streak.counted <= k + 1 + grace
        /\ isMerge => streak.counted = 0
        /\ counts \/ isMerge
    BY <2>2 DEF StreakInv
  <2>9. handler.count % Threshold = m
    OBVIOUS
  <2> HIDE DEF n, k, m
  <2>6. streak.counted <= Threshold + grace
    <3>1. streak.counted \in Nat /\ grace \in Nat /\ Threshold \in Nat
      BY <1>1, <1>3
    <3> QED  BY <2>4, <2>5, <3>1
  <2>7. v \in {"retrying", "reopening"} => streak.counted <= m + grace
    BY <2>1, <2>4, <2>5, <2>9, <1>1, <1>3
  <2>8. v = "retrying" => handler.count = handler.slot.attempt
    BY <2>1, <2>2 DEF StreakInv
  <2>10. v \in {"retrying", "reopening"} => streak'.counted <= (attempts' % Threshold) + grace'
    BY <2>2, <2>7, <2>9
  <2> QED  BY <2>1, <2>2, <2>3, <2>6, <2>8, <2>10, <1>1 DEF StreakInv
<1>11. CASE Retry
  <2> DEFINE s == [handler.slot EXCEPT !.attempt = @ + 1]
  <2>1. s.attempt = attempts + 1 /\ attempts + 1 - 1 = attempts /\ attempts + 1 # 0
    BY <1>1, <1>11 DEF Retry, StreakInv, Slot
  <2>2. slot' = s /\ handler.at = "retrying" /\ status = "in_progress"
    BY <1>11 DEF Retry, StreakInv
  <2>3. UNCHANGED <<status, attempts, user, streak>> /\ grace' = grace /\ handler' = NoHandler
    BY <1>4, <1>11 DEF Retry
  <2> HIDE DEF s
  <2>4. user.at = "resetting" => attempts > user.label /\ s.attempt > user.label
    BY <2>1, <2>2, <1>1 DEF StreakInv
  <2> QED  BY <2>1, <2>2, <2>3, <2>4, <1>1, <1>2 DEF StreakInv
<1>12. CASE Reopen \/ Block \/ Demote
  <2>1. handler.at \in {"reopening", "blocking", "demoting"} /\ Handling
    BY <1>12 DEF Reopen, Block, Demote
  <2>2. streak.counted <= Threshold + grace
    <3> DEFINE m == attempts % Threshold
    <3>1. m \in Nat /\ m <= Threshold
      BY <1>1, <1>3
    <3>2. streak.counted <= Threshold + grace \/ streak.counted <= m + grace
      BY <2>1 DEF StreakInv
    <3> HIDE DEF m
    <3>3. streak.counted \in Nat /\ grace \in Nat /\ Threshold \in Nat
      BY <1>1, <1>3
    <3> QED  BY <3>1, <3>2, <3>3
  <2>3. user.at = "resetting" =>
          attempts >= user.label /\ (attempts = user.label => streak.counted = 0)
    BY <2>1, <1>1 DEF StreakInv
  <2>4. Reopen => streak.counted <= (attempts % Threshold) + grace
    BY DEF Reopen, StreakInv
  <2> QED  BY <2>1, <2>2, <2>3, <2>4, <1>1, <1>12, WriteStreak DEF Reopen, Block, Demote
<1>13. CASE Release
  <2>1. /\ handler.at = "releasing" /\ handler' = NoHandler /\ slot' = None
        /\ UNCHANGED <<status, attempts, user, streak>> /\ grace' = grace
    BY <1>4, <1>13 DEF Release
  <2> QED  BY <2>1, <1>2 DEF StreakInv
<1>14. CASE StartUnblock
  <2>1. handler.at \in {"idle", "releasing"}
    BY <1>14 DEF StartUnblock, StreakInv
  <2>2. /\ handler'.at = handler.at /\ handler'.kind = handler.kind
        /\ (handler = NoHandler => handler' = handler) /\ slot' = None
    BY <1>1, <1>14 DEF StartUnblock, freeSlot, stopped, Handler
  <2>3. /\ UNCHANGED <<status, attempts, streak>> /\ grace' = grace /\ status = "blocked"
        /\ user'.at = "unblocking" /\ user'.label = attempts
    BY <1>4, <1>14 DEF StartUnblock
  <2> QED  BY <2>1, <2>2, <2>3 DEF StreakInv
<1>15. CASE Unblock
  <2>1. /\ user.at = "unblocking" /\ streak'.counted = 0 /\ grace' = grace
        /\ UNCHANGED <<attempts, slot, handler>>
        /\ user'.at \in {"idle", "resetting"}
        /\ (user'.at = "resetting" => user'.label = user.label)
    BY <1>1, <1>2, <1>4, <1>15 DEF Unblock, TypeOK
  <2>2. slot = None /\ attempts = user.label /\ handler.at \in {"idle", "releasing"}
    BY <2>1 DEF StreakInv
  <2>3. attempts % Threshold \in Nat
    BY <1>1, <1>3
  <2> QED  BY <2>1, <2>2, <2>3, <1>1, <1>3 DEF StreakInv
<1>16. CASE ResetAttempts
  <2>1. /\ user.at = "resetting" /\ user'.at = "idle" /\ grace' = grace
        /\ UNCHANGED <<status, slot, handler, streak>>
        /\ attempts' = IF attempts = user.label THEN 0 ELSE attempts
    BY <1>4, <1>16 DEF ResetAttempts
  <2>2. CASE attempts' = attempts
    BY <2>1, <2>2 DEF StreakInv, isMerge, counts
  <2>3. CASE attempts = user.label /\ attempts' = 0 /\ attempts # 0
    <3>1. handler.at \notin {"retrying", "demoting", "blocking"}
      BY <2>1, <2>3, <1>1 DEF StreakInv
    <3>2. handler.at # "counting" => (handler.at = "failed" /\ counts) \/ streak.counted = 0
      BY <2>1, <2>3 DEF StreakInv
    <3> QED  BY <2>1, <2>3, <3>1, <3>2, <1>1, <1>3 DEF StreakInv, isMerge, counts
  <2> QED  BY <2>1, <2>2, <2>3
<1>17. CASE SetPriority \/ Recover
  <2>1. /\ UNCHANGED <<attempts, slot, handler, user, streak>> /\ grace' = grace
        /\ status' = status \/ (slot = None /\ status = "in_progress")
    BY <1>4, <1>17 DEF SetPriority, Recover
  <2> QED  BY <2>1 DEF StreakInv, isMerge, counts
<1>18. ~(RetryInfrastructure \/ StartMarkDone \/ FinishMarkDone \/ KillAgent \/ Restart)
  BY <1>1 DEF RetryInfrastructure, infraRetry, StartMarkDone, FinishMarkDone, KillAgent,
              Restart, StreakInv, TypeOK
<1>19. CASE UNCHANGED vars
  BY <1>4, <1>19 DEF vars, StreakInv, isMerge, counts
<1> QED
  BY <1>5, <1>6, <1>7, <1>8, <1>9, <1>10, <1>11, <1>12, <1>13, <1>14, <1>15, <1>16, <1>17,
     <1>18, <1>19 DEF Next, Runs, Handle, Users

\* While users do no more than unblock tasks, reset their attempts and set
\* priorities, and without infrastructure failures and restarts: a task never
\* fails more than Threshold times in a row before it is demoted or blocked, and
\* Threshold times more for each of those writes that was lost.
THEOREM Demotes ==
  ASSUME "infra" \notin Kinds, Requests \subseteq {"unblock", "reset", "priority"},
         MaxRestarts = 0
  PROVE  Spec => []FailuresDemote
<1>1. TypeInv /\ StreakInv => FailuresDemote
  <2> SUFFICES ASSUME TypeInv, StreakInv PROVE FailuresDemote
    OBVIOUS
  <2>1. /\ TypeOK /\ handler.at \in Stages /\ attempts \in Nat /\ streak.counted \in Nat
        /\ handler.slot.attempt \in Nat /\ handler.count \in Nat
    BY DEF TypeInv, TypeOK, Slot
  <2>2. grace \in Nat /\ Threshold \in Nat \ {0}
          /\ \A n \in Nat : n % Threshold \in 0..(Threshold - 1)
    BY <2>1, GraceFacts, RetriesAssumption
  <2>3. streak.counted <= Threshold + grace
    <3> DEFINE i == (handler.slot.attempt - 1) % Threshold
               j == (handler.count - 1) % Threshold
               k == attempts % Threshold
    <3>1. handler.slot.attempt # 0 => i \in Nat /\ i + 1 <= Threshold
      BY <2>1, <2>2
    <3>2. handler.count # 0 => j \in Nat /\ j + 1 <= Threshold
      BY <2>1, <2>2
    <3>3. k \in Nat /\ k <= Threshold
      BY <2>1, <2>2
    <3>4. \/ handler.slot.attempt # 0 /\ streak.counted <= i + 1 + grace
          \/ handler.count # 0 /\ streak.counted <= j + 1 + grace
          \/ streak.counted <= k + grace
          \/ streak.counted <= Threshold + grace
          \/ streak.counted = 0
      BY <2>1 DEF StreakInv, StreakBelow, Stages
    <3> HIDE DEF i, j, k
    <3>5. streak.counted \in Nat /\ grace \in Nat /\ Threshold \in Nat
      BY <2>1, <2>2
    <3> QED  BY <3>1, <3>2, <3>3, <3>4, <3>5
  <2>4. Threshold * (1 + MaxStoreFailures - storeFailuresLeft) = Threshold + grace
    <3> DEFINE n == MaxStoreFailures - storeFailuresLeft
    <3>1. n \in Nat /\ 1 + MaxStoreFailures - storeFailuresLeft = n + 1
      BY <2>1, RetriesAssumption DEF TypeOK
    <3>2. grace = Threshold * n
      BY DEF grace
    <3> HIDE DEF n
    <3>3. Threshold * (n + 1) = Threshold * n + Threshold /\ Threshold * n \in Nat
      BY <2>2, <3>1, Products
    <3> QED  BY <2>2, <3>1, <3>2, <3>3
  <2> QED  BY <2>3, <2>4 DEF FailuresDemote
<1>2. TypeInv /\ StreakInv /\ [Next]_vars => StreakInv'
  BY NextStreak
<1> QED BY <1>1, <1>2, InitStreak, TypeInvariance, PTL DEF Spec
=============================================================================
