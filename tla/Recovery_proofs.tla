--------------------------- MODULE Recovery_proofs ---------------------------
(* Proofs about Recovery.  Where worktrees are the tasks' own, of one        *)
(* project, reviews have a general reviewer and passes do not meet the work  *)
(* of the orchestrator, a recovery takes no worktree from a process at work, *)
(* starts none beside another, handles each outcome once and reopens nothing *)
(* that is closed, however often the backend crashes and however often the   *)
(* task store fails, as long as a whole pass goes through between two errors.*)
(* The runs show that without these assumptions it does.                     *)
EXTENDS Recovery, TLAPS

\* What the theorems assume.
Regular ==
  /\ ~Overlap /\ ~ReviewAngles /\ MaxFailures <= 1
  /\ \A t \in Tasks : WorktreeOf[t] = t
  /\ \A p, q \in Projects : p = q

-----------------------------------------------------------------------------
(* The inductive invariant. *)

Marks == Phases \cup {"none"}

Disks ==
  [trees : SUBSET Worktrees, inTree : [Tasks -> Marks], inRepo : [Tasks -> Marks],
   beats : SUBSET Tasks, results : SUBSET Tasks]

Passes ==
  [at : {"idle", "prune", "orphans", "stranded"} \cup Lists, project : Projects \cup {None},
   exclude : SUBSET Tasks, todo : SUBSET Tasks, awaits : Tasks \cup {None},
   before : 0..MaxFailures]

\* The types, with records for what has fields.
Typed ==
  /\ status \in [Tasks -> {"open", "in_progress", "closed"}]
  /\ assignee \in [Tasks -> BOOLEAN] /\ resumes \in [Tasks -> BOOLEAN]
  /\ disk \in Disks
  /\ live \in [Tasks -> Marks]
  /\ slots \subseteq Tasks /\ monitored \subseteq slots
  /\ work \in [Tasks -> {"none", "selected", "starting", "prepared"}]
  /\ handlers \subseteq Tasks \X ({"loop", "monitor"} \cup Lists) \X Phases
  /\ up \in BOOLEAN /\ started \subseteq Projects
  /\ pass \in Passes
  /\ attempts \in 0..MaxAttempts /\ failures \in 0..MaxFailures

handlersOf(t) == {h \in handlers : h[1] = t}

\* Nothing is in memory before the first pass.
FreshOK(t) ==
  started = {} /\ pass.at = "idle" => t \notin slots /\ handlersOf(t) = {} /\ work[t] = "none"

\* What is dispatched is in progress and has neither agent nor handler yet.
WorkOK(t) ==
  work[t] # "none" =>
    /\ status[t] = "in_progress" /\ live[t] = "none"
    /\ t \notin monitored /\ handlersOf(t) = {}
    /\ work[t] # "selected" => t \in slots

\* Nothing is at work for the task and nothing of it is left to be taken up.
Bare(t) ==
  /\ live[t] = "none" /\ t \notin monitored /\ handlersOf(t) = {} /\ work[t] = "none"
  /\ ~hasTree(t)

\* A crash has left the process behind.
Lost(t) == live[t] # "none" /\ t \notin monitored

\* What holds a slot is in progress, or an error has kept a recovery from giving
\* the slot back with the task; what is watched has its assignment.
SlotOK(t) ==
  /\ t \in slots => status[t] = "in_progress" \/ (status[t] = "open" /\ Bare(t))
  /\ t \in monitored => disk.inTree[t] # "none"

\* An agent has its worktree and in it its assignment; one that a crash has
\* left behind has no slot, and a heartbeat by which a pass finds it.
LiveOK(t) ==
  live[t] # "none" =>
    /\ hasTree(t) /\ disk.inTree[t] = live[t] /\ status[t] = "in_progress"
    /\ t \notin monitored => t \notin slots /\ t \in disk.beats

\* The one handler of a task works for its slot, and not beside an agent; a
\* pass waits for the one it has started.
HandlerOK(t) ==
  \A h \in handlersOf(t) :
    /\ t \in slots /\ handlersOf(t) = {h}
    /\ pass.at = "idle" => t \notin monitored
    /\ h[3] = "coding" \/ pass.at = "idle" => live[t] = "none"
    /\ pass.at # "idle" => /\ pass.awaits = t /\ t \notin pass.todo
                           /\ h[2] = pass.at /\ h[2] \in Lists
    /\ pass.at = "idle" => h[2] \notin Lists
    /\ pass.at = "stale" => live[t] = "none" /\ t \notin monitored

\* A pass meets no dispatch, and no coder without a heartbeat.  What a crash has
\* left behind is found by the pass at start, or, after an error of that one, by
\* the next, which then has none: before the orphans are read.
PassOK(t) ==
  /\ pass.at # "idle" =>
       /\ work[t] = "none"
       /\ live[t] = "coding" => t \in disk.beats
       /\ Lost(t) => /\ t \notin pass.exclude /\ t \in pass.todo
                     /\ pass.at = "gupp" \/ (pass.at = "stale" /\ failures = 1)
  /\ pass.at = "idle" /\ Lost(t) => started = {} \/ failures = 1

\* What the lists of a pass hold.
TodoOK(t) ==
  /\ t \in pass.todo =>
       /\ pass.at = "gupp" =>
            t \notin slots /\ (status[t] = "in_progress" => assignment(t) # "none")
       /\ pass.at \in {"orphans", "stranded"} => t \notin pass.exclude /\ status[t] = "in_progress"
       /\ pass.at = "slots" => t \in slots
  /\ pass.at \in {"stale", "orphans", "stranded"} /\ t \in slots =>
       t \in pass.exclude \/ Bare(t)

TaskOK(t) ==
  /\ FreshOK(t) /\ WorkOK(t) /\ SlotOK(t) /\ LiveOK(t)
  /\ HandlerOK(t) /\ PassOK(t) /\ TodoOK(t)

Inv ==
  /\ Typed /\ NoRivals
  /\ pass.at # "idle" => pass.project \in Projects
  /\ \A t \in Tasks : TaskOK(t)

-----------------------------------------------------------------------------
(* The operators of the model. *)

\* Nothing on the disk has changed but what is one task's.
DiskElsewhere(d, e, t) ==
  /\ e \in Disks
  /\ \A u \in Tasks \ {t} : /\ u \in e.trees <=> u \in d.trees
                            /\ u \in e.beats <=> u \in d.beats
                            /\ e.inTree[u] = d.inTree[u] /\ e.inRepo[u] = d.inRepo[u]

\* What a removed worktree takes along, with its files, is its task's.
LEMMA RemovedDisk ==
  ASSUME RecoveryAssumption, Regular, NEW d \in Disks, NEW t \in Tasks
  PROVE  DiskElsewhere(d, removed(d, t), t)
<1> DEFINE outside(S) == {u \in S : WorktreeOf[u] # t}
           e == removed(d, t)
<1>1. \A u \in Tasks : WorktreeOf[u] = u
  BY DEF Regular
<1>2. /\ e.trees = d.trees \ {t} /\ e.beats = outside(d.beats)
      /\ e.results = outside(d.results) /\ e.inRepo = d.inRepo
      /\ e.inTree = [u \in Tasks |-> IF WorktreeOf[u] = t THEN "none" ELSE d.inTree[u]]
  BY DEF removed, Disks
<1>3. e \in Disks
  <2>1. /\ d.trees \ {t} \in SUBSET Worktrees
        /\ outside(d.beats) \in SUBSET Tasks /\ outside(d.results) \in SUBSET Tasks
        /\ [u \in Tasks |-> IF WorktreeOf[u] = t THEN "none" ELSE d.inTree[u]] \in [Tasks -> Marks]
    BY DEF Disks, Marks
  <2> QED BY <2>1 DEF removed, Disks
<1> QED BY <1>1, <1>2, <1>3 DEF DiskElsewhere

LEMMA RecoveredDisk ==
  ASSUME RecoveryAssumption, Regular, NEW d \in Disks, NEW t \in Tasks
  PROVE  /\ DiskElsewhere(d, recovered(d, t), t) /\ t \notin recovered(d, t).trees
         /\ recovered(d, t) = removed(d, t)
<1>1. recovered(d, t) = removed(d, t)
  BY DEF recovered, hasOwnTree, Regular
<1>2. t \notin removed(d, t).trees
  BY DEF removed, Disks
<1> QED BY <1>1, <1>2, RemovedDisk

\* The copies of an assignment are its task's.
LEMMA UnassignedDisk ==
  ASSUME NEW d \in Disks, NEW t \in Tasks
  PROVE  DiskElsewhere(d, unassigned(d, t), t)
  BY DEF unassigned, Disks, Marks, DiskElsewhere

LEMMA AssignedDisk ==
  ASSUME NEW d \in Disks, NEW t \in Tasks, NEW phase \in Phases
  PROVE  /\ DiskElsewhere(d, assigned(d, t, phase), t)
         /\ assigned(d, t, phase).trees = d.trees
         /\ assigned(d, t, phase).inTree[t] = phase
  BY DEF assigned, Disks, Marks, DiskElsewhere

LEMMA SilentDisk ==
  ASSUME NEW d \in Disks, NEW t \in Tasks
  PROVE  /\ DiskElsewhere(d, silent(d, t), t)
         /\ silent(d, t).inTree = d.inTree
  BY DEF silent, Disks, DiskElsewhere

LEMMA ArchivedDisk ==
  ASSUME NEW d \in Disks, NEW t \in Tasks
  PROVE  DiskElsewhere(d, archived(d, t), t)
<1> DEFINE e == silent(unassigned(d, t), t)
<1>1. DiskElsewhere(d, unassigned(d, t), t)
  BY UnassignedDisk
<1>2. DiskElsewhere(unassigned(d, t), e, t)
  BY <1>1, SilentDisk DEF DiskElsewhere
<1>3. archived(d, t) = [e EXCEPT !.results = @ \ {t}] /\ e \in Disks
  BY <1>2 DEF archived, DiskElsewhere
<1> HIDE DEF e
<1>4. DiskElsewhere(e, [e EXCEPT !.results = @ \ {t}], t)
  BY <1>3 DEF Disks, DiskElsewhere
<1> QED BY <1>1, <1>2, <1>3, <1>4 DEF DiskElsewhere, e

\* handleTaskFailure and discardAssignment take both.
LEMMA ClearedDisk ==
  ASSUME RecoveryAssumption, Regular, NEW d \in Disks, NEW t \in Tasks
  PROVE  /\ DiskElsewhere(d, unassigned(removed(d, WorktreeOf[t]), t), t)
         /\ \A m \in Marks :
              DiskElsewhere(d, [removed(d, WorktreeOf[t]) EXCEPT !.inRepo[t] = m], t)
<1> DEFINE e == removed(d, t)
<1>1. WorktreeOf[t] = t
  BY DEF Regular
<1>2. DiskElsewhere(d, e, t)
  BY RemovedDisk
<1> HIDE DEF e
<1>3. e \in Disks
  BY <1>2 DEF DiskElsewhere
<1>4. DiskElsewhere(e, unassigned(e, t), t)
  BY <1>3, UnassignedDisk
<1>5. ASSUME NEW m \in Marks
      PROVE  DiskElsewhere(e, [e EXCEPT !.inRepo[t] = m], t)
  BY <1>3 DEF Disks, DiskElsewhere
<1>6. ASSUME NEW x, DiskElsewhere(e, x, t)
      PROVE  DiskElsewhere(d, x, t)
  BY <1>2, <1>6 DEF DiskElsewhere
<1>7. \A m \in Marks : DiskElsewhere(d, [e EXCEPT !.inRepo[t] = m], t)
  BY <1>5, <1>6
<1> QED BY <1>1, <1>4, <1>6, <1>7 DEF e

-----------------------------------------------------------------------------
(* What the steps on one task have in common. *)

\* What belongs to other tasks stays as it is, and the pass at its list.
StepOf(t) ==
  /\ DiskElsewhere(disk, disk', t)
  /\ \A u \in Tasks \ {t} :
       /\ status'[u] = status[u] /\ live'[u] = live[u] /\ work'[u] = work[u]
       /\ u \in slots' <=> u \in slots
       /\ u \in monitored' <=> u \in monitored
       /\ handlersOf(u)' = handlersOf(u)
       /\ u \in pass'.todo <=> u \in pass.todo
       /\ u \in pass'.exclude <=> u \in pass.exclude
  /\ pass'.at = pass.at /\ pass'.project = pass.project /\ started' = started
  /\ pass'.awaits = pass.awaits \/ handlers = {}
  /\ failures' = failures \/ failures' = 1

LEMMA Elsewhere ==
  ASSUME Regular, NEW t \in Tasks, StepOf(t), NEW u \in Tasks \ {t}, TaskOK(u)
  PROVE  TaskOK(u)'
<1> USE DEF TaskOK, StepOf, DiskElsewhere, Bare, Lost, hasTree, Regular
<1>1. FreshOK(u)'
  BY DEF FreshOK
<1>2. WorkOK(u)' /\ SlotOK(u)'
  BY DEF WorkOK, SlotOK
<1>3. LiveOK(u)'
  BY DEF LiveOK
<1>4. HandlerOK(u)'
  BY DEF HandlerOK, handlersOf
<1>5. PassOK(u)'
  BY DEF PassOK
<1>6. TodoOK(u)'
  BY DEF TodoOK, assignment, hasOwnTree
<1> QED BY <1>1, <1>2, <1>3, <1>4, <1>5, <1>6

\* So that it is enough to look at the task itself.
LEMMA Settles ==
  ASSUME Regular, Inv, NEW t \in Tasks, StepOf(t), Typed', NoRivals', TaskOK(t)'
  PROVE  Inv'
<1>1. \A u \in Tasks \ {t} : TaskOK(u)'
  BY Elsewhere DEF Inv
<1> QED BY <1>1 DEF Inv, StepOf

\* A pass goes on when no handler is at work.
LEMMA NoneAtWork ==
  ASSUME Inv, pass.at # "idle", awaited
  PROVE  handlers = {}
<1> SUFFICES ASSUME NEW h \in handlers
             PROVE  FALSE
  OBVIOUS
<1>1. h[1] \in Tasks
  BY DEF Inv, Typed
<1>2. HandlerOK(h[1]) /\ h \in handlersOf(h[1])
  BY <1>1 DEF Inv, TaskOK, handlersOf
<1> QED BY <1>2 DEF HandlerOK, awaited

\* A process with a slot is watched, and goes with it.
LEMMA Released ==
  ASSUME Inv, NEW t \in slots, released(t)
  PROVE  live' = [live EXCEPT ![t] = "none"] /\ rivals' = rivals
<1>1. t \in Tasks /\ LiveOK(t) /\ live \in [Tasks -> Marks]
  BY DEF Inv, Typed, TaskOK
<1>2. t \notin monitored => live[t] = "none"
  BY <1>1 DEF LiveOK
<1>3. live[t] = "none" => live = [live EXCEPT ![t] = "none"]
  BY <1>1
<1> QED BY <1>2, <1>3 DEF released

-----------------------------------------------------------------------------
(* The steps of the orchestrator. *)

\* What is dispatched has no slot yet.
LEMMA DispatchKeeps ==
  ASSUME RecoveryAssumption, Regular, Inv, NEW t \in Tasks, Dispatch(t)
  PROVE  Inv'
<1>1. StepOf(t)
  BY DEF StepOf, DiskElsewhere, handlersOf, Inv, Typed, Dispatch, calm, Regular, agents, system
<1>2. Typed' /\ NoRivals'
  BY DEF Inv, Typed, NoRivals, Dispatch, calm, Regular, agents, system
<1>3. TaskOK(t)'
  BY
  DEF Inv, Typed, TaskOK, FreshOK, WorkOK, SlotOK, LiveOK, HandlerOK, PassOK, TodoOK, Bare, Lost,
      handlersOf, Dispatch, calm, Regular, agents, system
<1> QED BY <1>1, <1>2, <1>3, Settles

\* The slot is taken, and for a resumed merge the handler started.
LEMMA TakeSlotKeeps ==
  ASSUME RecoveryAssumption, Regular, Inv, NEW t \in Tasks, TakeSlot(t)
  PROVE  Inv'
<1>1. StepOf(t)
  BY
  DEF StepOf, DiskElsewhere, handlersOf, Inv, Typed, TakeSlot, Regular, agents, system, bounds,
      Phases
<1>2. Typed' /\ NoRivals'
  <2>1. handlers' \subseteq Tasks \X ({"loop", "monitor"} \cup Lists) \X Phases
    BY DEF TakeSlot, Inv, Typed, Phases
  <2>2. slots' \subseteq Tasks /\ monitored' \subseteq slots'
    BY DEF TakeSlot, Inv, Typed
  <2>3. work' \in [Tasks -> {"none", "selected", "starting", "prepared"}]
    BY DEF TakeSlot, Inv, Typed
  <2>4. resumes' \in [Tasks -> BOOLEAN]
    BY DEF TakeSlot, Inv, Typed
  <2> QED BY <2>1, <2>2, <2>3, <2>4 DEF TakeSlot, Inv, Typed, NoRivals, agents, system, bounds
<1>3. TaskOK(t)'
  BY
  DEF Inv, Typed, TaskOK, FreshOK, WorkOK, SlotOK, LiveOK, HandlerOK, PassOK, TodoOK, Bare, Lost,
      handlersOf, Lists, TakeSlot, Regular, agents, system, bounds, Phases
<1> QED BY <1>1, <1>2, <1>3, Settles

\* The worktree is prepared.
LEMMA CreateTaskWorktreeKeeps ==
  ASSUME RecoveryAssumption, Regular, Inv, NEW t \in Tasks, CreateTaskWorktree(t)
  PROVE  Inv'
<1>1. StepOf(t)
  BY
  DEF StepOf, DiskElsewhere, handlersOf, Inv, Typed, CreateTaskWorktree, Disks, Regular,
      RecoveryAssumption, storeVars, agents, system, bounds
<1>2. Typed' /\ NoRivals'
  BY
  DEF Inv, Typed, NoRivals, CreateTaskWorktree, Disks, Regular, RecoveryAssumption, storeVars,
      agents, system, bounds
<1>3. TaskOK(t)'
  BY
  DEF Inv, Typed, TaskOK, FreshOK, WorkOK, SlotOK, LiveOK, HandlerOK, PassOK, TodoOK, Bare, Lost,
      handlersOf, CreateTaskWorktree, Disks, Regular, RecoveryAssumption, storeVars, agents,
      system, bounds
<1> QED BY <1>1, <1>2, <1>3, Settles

\* A heartbeat is the agent's own.
LEMMA HeartbeatKeeps ==
  ASSUME RecoveryAssumption, Regular, Inv, NEW t \in Tasks, Heartbeat(t)
  PROVE  Inv'
<1>1. StepOf(t)
  BY
  DEF StepOf, DiskElsewhere, handlersOf, Inv, Typed, Heartbeat, Disks, hasTree, assignment,
      storeVars, agents, memory, system, bounds
<1>2. Typed' /\ NoRivals'
  BY
  DEF Inv, Typed, NoRivals, Heartbeat, Disks, hasTree, assignment, storeVars, agents, memory,
      system, bounds
<1>3. TaskOK(t)'
  BY
  DEF Inv, Typed, TaskOK, FreshOK, WorkOK, SlotOK, LiveOK, HandlerOK, PassOK, TodoOK, Bare, Lost,
      handlersOf, Heartbeat, Disks, hasTree, assignment, storeVars, agents, memory, system,
      bounds
<1> QED BY <1>1, <1>2, <1>3, Settles

\* A result changes nothing yet.
LEMMA WriteResultKeeps ==
  ASSUME RecoveryAssumption, Regular, Inv, NEW t \in Tasks, WriteResult(t)
  PROVE  Inv'
<1>1. StepOf(t)
  BY
  DEF StepOf, DiskElsewhere, handlersOf, Inv, Typed, WriteResult, Disks, hasTree, assignment,
      storeVars, agents, memory, system, bounds
<1>2. Typed' /\ NoRivals'
  BY
  DEF Inv, Typed, NoRivals, WriteResult, Disks, hasTree, assignment, storeVars, agents, memory,
      system, bounds
<1>3. TaskOK(t)'
  BY
  DEF Inv, Typed, TaskOK, FreshOK, WorkOK, SlotOK, LiveOK, HandlerOK, PassOK, TodoOK, Bare, Lost,
      handlersOf, WriteResult, Disks, hasTree, assignment, storeVars, agents, memory, system,
      bounds
<1> QED BY <1>1, <1>2, <1>3, Settles

\* An agent that has ended needs nothing.
LEMMA ExitKeeps ==
  ASSUME RecoveryAssumption, Regular, Inv, NEW t \in Tasks, Exit(t)
  PROVE  Inv'
<1>1. StepOf(t)
  BY
  DEF StepOf, DiskElsewhere, handlersOf, Inv, Typed, Exit, calm, Marks, hasTree, assignment,
      storeVars, memory, system, bounds
<1>2. Typed' /\ NoRivals'
  BY
  DEF Inv, Typed, NoRivals, Exit, calm, Marks, hasTree, assignment, storeVars, memory, system,
      bounds
<1>3. TaskOK(t)'
  BY
  DEF Inv, Typed, TaskOK, FreshOK, WorkOK, SlotOK, LiveOK, HandlerOK, PassOK, TodoOK, Bare, Lost,
      handlersOf, Exit, calm, Marks, hasTree, assignment, storeVars, memory, system, bounds
<1> QED BY <1>1, <1>2, <1>3, Settles

\* Only what is closed is cleaned up, and no agent is at work on that.
LEMMA CleanUpAfterPushKeeps ==
  ASSUME RecoveryAssumption, Regular, Inv, NEW t \in Tasks, CleanUpAfterPush(t)
  PROVE  Inv'
<1>0. DiskElsewhere(disk, disk', t)
  BY RemovedDisk DEF CleanUpAfterPush, Inv, Typed
<1>1. StepOf(t)
  BY <1>0
  DEF StepOf, DiskElsewhere, handlersOf, Inv, Typed, CleanUpAfterPush, assignment, storeVars,
      agents, memory, system, bounds
<1>2. Typed' /\ NoRivals'
  BY <1>0
  DEF CleanUpAfterPush, DiskElsewhere, Inv, Typed, NoRivals, storeVars, agents, memory, system,
      bounds
<1>3. TaskOK(t)'
  BY <1>0
  DEF Inv, Typed, TaskOK, FreshOK, WorkOK, SlotOK, LiveOK, HandlerOK, PassOK, TodoOK, Bare, Lost,
      handlersOf, CleanUpAfterPush, assignment, storeVars, agents, memory, system, bounds
<1> QED BY <1>1, <1>2, <1>3, Settles

\* handleTaskFailure of a task with a slot.
LEMMA FailedEffect ==
  ASSUME RecoveryAssumption, Regular, Inv, NEW t \in slots, failed(t)
  PROVE  /\ DiskElsewhere(disk, disk', t)
         /\ status' = [status EXCEPT ![t] = "open"] /\ assignee' = [assignee EXCEPT ![t] = FALSE]
         /\ live' = [live EXCEPT ![t] = "none"] /\ rivals' = rivals
         /\ slots' = slots \ {t} /\ monitored' = monitored \ {t}
<1>1. t \in Tasks /\ disk \in Disks
  BY DEF Inv, Typed
<1>2. /\ disk' = unassigned(removed(disk, WorktreeOf[t]), t) /\ released(t)
      /\ status' = [status EXCEPT ![t] = "open"] /\ assignee' = [assignee EXCEPT ![t] = FALSE]
  BY DEF failed
<1>3. DiskElsewhere(disk, disk', t)
  BY <1>1, <1>2, ClearedDisk
<1>4. slots' = slots \ {t} /\ monitored' = monitored \ {t}
  BY <1>2 DEF released
<1> QED BY <1>2, <1>3, <1>4, Released

\* An agent where there was none.
LEMMA SpawnedEffect ==
  ASSUME Inv, NEW t \in Tasks, NEW phase \in Phases, spawned(t, phase), live[t] = "none"
  PROVE  /\ DiskElsewhere(disk, disk', t)
         /\ disk'.trees = disk.trees /\ disk'.inTree[t] = phase
         /\ live' = [live EXCEPT ![t] = phase] /\ rivals' = rivals
         /\ slots' = slots \cup {t} /\ monitored' = monitored \cup {t}
<1>1. disk \in Disks
  BY DEF Inv, Typed
<1> QED BY <1>1, AssignedDisk DEF spawned

\* The one handler of a task, and what goes without saying when it ends.
LEMMA Ending ==
  ASSUME Inv, NEW h \in handlers, handlers' = handlers \ {h}
  PROVE  /\ h[1] \in slots /\ h[1] \in Tasks /\ status[h[1]] = "in_progress"
         /\ h[3] = "coding" => live[h[1]] = "none"
         /\ work[h[1]] = "none" /\ (pass.at # "idle" => h[1] \notin pass.todo)
         /\ started # {} \/ pass.at # "idle"
         /\ pass.at \notin {"orphans", "stranded", "prune"}
         /\ handlersOf(h[1])' = {}
         /\ \A u \in Tasks \ {h[1]} : handlersOf(u)' = handlersOf(u)
<1>1. h[1] \in Tasks /\ h \in handlersOf(h[1])
  BY DEF Inv, Typed, handlersOf
<1>2. TaskOK(h[1])
  BY <1>1 DEF Inv
<1>3. handlersOf(h[1]) = {h} /\ h[1] \in slots
  BY <1>1, <1>2 DEF TaskOK, HandlerOK
<1>4. handlersOf(h[1])' = {} /\ \A u \in Tasks \ {h[1]} : handlersOf(u)' = handlersOf(u)
  BY <1>3 DEF handlersOf
<1>5. /\ h[3] = "coding" => live[h[1]] = "none"
      /\ pass.at # "idle" => h[1] \notin pass.todo
      /\ pass.at \notin {"orphans", "stranded", "prune"}
  BY <1>1, <1>2 DEF TaskOK, HandlerOK, Lists
<1>6. work[h[1]] = "none" /\ (started # {} \/ pass.at # "idle") /\ status[h[1]] = "in_progress"
  BY <1>1, <1>2, <1>3 DEF TaskOK, WorkOK, FreshOK, SlotOK, Bare
<1> QED BY <1>1, <1>3, <1>4, <1>5, <1>6

\* A handler beside a pass is the one that the pass waits for.
LEMMA OfThePass ==
  ASSUME Inv, NEW h \in handlers
  PROVE  /\ pass.at # "idle" => /\ handlers = {h} /\ h[2] = pass.at /\ h[2] \in Lists
                                /\ pass.project \in Projects
         /\ pass.at = "idle" => h[2] \notin Lists
         /\ pass.at = "stale" => live[h[1]] = "none" /\ h[1] \notin monitored
<1>1. \A g \in handlers : g[1] \in Tasks /\ g \in handlersOf(g[1]) /\ HandlerOK(g[1])
  BY DEF Inv, Typed, TaskOK, handlersOf
<1>2. ASSUME pass.at # "idle", NEW g \in handlers
      PROVE  g = h
  BY <1>1, <1>2 DEF HandlerOK
<1> QED BY <1>1, <1>2 DEF HandlerOK, Inv

\* An agent is spawned into its worktree, or the task is given up.
LEMMA SpawnKeeps ==
  ASSUME RecoveryAssumption, Regular, Inv, NEW t \in Tasks, Spawn(t)
  PROVE  Inv'
<1>0. /\ t \in slots /\ live[t] = "none" /\ handlersOf(t) = {} /\ pass.at = "idle"
      /\ status[t] = "in_progress" /\ started # {}
  BY DEF Spawn, Inv, TaskOK, WorkOK, PassOK, FreshOK
<1>a. /\ work' = [work EXCEPT ![t] = "none"]
      /\ UNCHANGED <<resumes, handlers, system, pass, bounds>>
  BY DEF Spawn
<1>b. CASE spawned(t, "coding") /\ hasTree(t) /\ UNCHANGED <<status, assignee>>
  <2>0. /\ DiskElsewhere(disk, disk', t)
        /\ disk'.trees = disk.trees /\ disk'.inTree[t] = "coding"
        /\ live' = [live EXCEPT ![t] = "coding"] /\ rivals' = rivals
        /\ slots' = slots \cup {t} /\ monitored' = monitored \cup {t}
    BY <1>0, <1>b, SpawnedEffect DEF Phases
  <2>1. StepOf(t)
    BY <1>a, <1>b, <2>0 DEF StepOf, handlersOf, Inv, Typed, system, bounds
  <2>2. Typed' /\ NoRivals'
    BY <1>a, <1>b, <2>0 DEF DiskElsewhere, Inv, Typed, NoRivals, Marks, Phases, system, bounds
  <2>3. TaskOK(t)'
    BY <1>0, <1>a, <1>b, <2>0
    DEF Inv, Typed, TaskOK, FreshOK, WorkOK, SlotOK, LiveOK, HandlerOK, PassOK, TodoOK, Bare, Lost,
        handlersOf, hasTree, system
  <2> QED BY <2>1, <2>2, <2>3, Settles
<1>c. CASE failed(t)
  <2>0. /\ DiskElsewhere(disk, disk', t)
        /\ status' = [status EXCEPT ![t] = "open"] /\ assignee' = [assignee EXCEPT ![t] = FALSE]
        /\ live' = [live EXCEPT ![t] = "none"] /\ rivals' = rivals
        /\ slots' = slots \ {t} /\ monitored' = monitored \ {t}
    BY <1>0, <1>c, FailedEffect
  <2>1. StepOf(t)
    BY <1>a, <2>0 DEF StepOf, handlersOf, Inv, Typed, system, bounds
  <2>2. Typed' /\ NoRivals'
    BY <1>a, <2>0 DEF DiskElsewhere, Inv, Typed, NoRivals, Marks, system, bounds
  <2>3. TaskOK(t)'
    BY <1>0, <1>a, <2>0
    DEF Inv, Typed, TaskOK, FreshOK, WorkOK, SlotOK, LiveOK, HandlerOK, PassOK, TodoOK, Bare, Lost,
        handlersOf, system
  <2> QED BY <2>1, <2>2, <2>3, Settles
<1> QED BY <1>b, <1>c DEF Spawn

\* The outcome is handled when the agent is gone.
LEMMA NoticeKeeps ==
  ASSUME RecoveryAssumption, Regular, Inv, NEW t \in Tasks, Notice(t)
  PROVE  Inv'
<1>0. /\ DiskElsewhere(disk, disk', t) /\ disk'.inTree = disk.inTree
      /\ assignment(t) \in Phases
  <2>1. disk \in Disks /\ t \in monitored /\ SlotOK(t)
    BY DEF Notice, Inv, Typed, TaskOK
  <2>2. disk.inTree[t] \in Phases /\ WorktreeOf[t] = t
    BY <2>1 DEF SlotOK, Disks, Marks, Regular
  <2> QED BY <2>1, <2>2, SilentDisk DEF Notice, assignment, hasOwnTree, Phases
<1>a. t \in slots /\ pass.at = "idle" /\ handlersOf(t) = {} /\ work[t] = "none" /\ started # {}
  BY DEF Notice, calm, Regular, Inv, Typed, TaskOK, HandlerOK, WorkOK, FreshOK
<1>b. /\ handlersOf(t)' = {<<t, "monitor", assignment(t)>>}
      /\ \A u \in Tasks \ {t} : handlersOf(u)' = handlersOf(u)
  BY <1>a DEF Notice, handlersOf
<1>1. StepOf(t)
  <2>1. /\ live' = [live EXCEPT ![t] = "none"] /\ monitored' = monitored \ {t}
        /\ UNCHANGED <<status, slots, work, pass, started, failures>>
    BY DEF Notice, storeVars, system, bounds
  <2> QED BY <1>0, <1>b, <2>1 DEF StepOf, Inv, Typed
<1>2. Typed' /\ NoRivals'
  <2>1. handlers' \subseteq Tasks \X ({"loop", "monitor"} \cup Lists) \X Phases
    BY <1>0, <1>a DEF Notice, Inv, Typed
  <2>2. live' \in [Tasks -> Marks] /\ monitored' \subseteq slots'
    BY DEF Notice, Inv, Typed, Marks
  <2> QED BY <1>0, <2>1, <2>2
          DEF Notice, DiskElsewhere, Inv, Typed, NoRivals, storeVars, system, bounds
<1>3. TaskOK(t)'
  BY <1>0, <1>a, <1>b
  DEF Notice, Inv, Typed, TaskOK, FreshOK, WorkOK, SlotOK, LiveOK, HandlerOK, PassOK, TodoOK,
      Bare, Lost, Lists, bounds, storeVars, system
<1> QED BY <1>1, <1>2, <1>3, Settles

\* A reviewer follows the coder.
LEMMA EnterReviewKeeps ==
  ASSUME RecoveryAssumption, Regular, Inv, NEW h \in handlers, EnterReview(h)
  PROVE  Inv'
<1> DEFINE t == h[1]
<1>0. /\ t \in slots /\ t \in Tasks /\ status[t] = "in_progress"
      /\ h[3] = "coding" => live[t] = "none"
      /\ work[t] = "none" /\ (pass.at # "idle" => t \notin pass.todo)
      /\ started # {} \/ pass.at # "idle"
      /\ pass.at \notin {"orphans", "stranded", "prune"}
      /\ handlersOf(t)' = {}
      /\ \A u \in Tasks \ {t} : handlersOf(u)' = handlersOf(u)
  BY Ending DEF EnterReview, outcome
<1>a. handlers' \subseteq handlers
  BY DEF EnterReview, outcome
<1> HIDE DEF t
<1>b. UNCHANGED <<resumes, work, system, pass, bounds>>
  BY DEF EnterReview
<1>c. CASE spawned(t, "review") /\ hasTree(t) /\ UNCHANGED <<status, assignee>>
  <2>0. /\ DiskElsewhere(disk, disk', t)
        /\ disk'.trees = disk.trees /\ disk'.inTree[t] = "review"
        /\ live' = [live EXCEPT ![t] = "review"] /\ rivals' = rivals
        /\ slots' = slots \cup {t} /\ monitored' = monitored \cup {t}
    BY <1>0, <1>c, SpawnedEffect DEF Phases, EnterReview
  <2>1. StepOf(t)
    BY <1>0, <1>b, <1>c, <2>0 DEF StepOf, Inv, Typed, hasTree, system, bounds
  <2>2. Typed' /\ NoRivals'
    BY <1>0, <1>a, <1>b, <1>c, <2>0
    DEF DiskElsewhere, Inv, Typed, NoRivals, Marks, Phases, hasTree, system, bounds
  <2>3. TaskOK(t)'
    BY <1>0, <1>b, <1>c, <2>0
    DEF Inv, Typed, TaskOK, FreshOK, WorkOK, SlotOK, LiveOK, HandlerOK, PassOK, TodoOK, Bare,
        Lost, hasTree, system, bounds
  <2> QED BY <1>0, <2>1, <2>2, <2>3, Settles
<1>d. CASE failed(t)
  <2>0. /\ DiskElsewhere(disk, disk', t)
        /\ status' = [status EXCEPT ![t] = "open"] /\ assignee' = [assignee EXCEPT ![t] = FALSE]
        /\ live' = [live EXCEPT ![t] = "none"] /\ rivals' = rivals
        /\ slots' = slots \ {t} /\ monitored' = monitored \ {t}
    BY <1>0, <1>d, FailedEffect
  <2>1. StepOf(t)
    BY <1>0, <1>b, <1>d, <2>0 DEF StepOf, Inv, Typed, system, bounds
  <2>2. Typed' /\ NoRivals'
    BY <1>0, <1>a, <1>b, <1>d, <2>0
    DEF DiskElsewhere, Inv, Typed, NoRivals, Marks, Phases, system, bounds
  <2>3. TaskOK(t)'
    BY <1>0, <1>b, <1>d, <2>0
    DEF Inv, Typed, TaskOK, FreshOK, WorkOK, SlotOK, LiveOK, HandlerOK, PassOK, TodoOK, Bare,
        Lost, system, bounds
  <2> QED BY <1>0, <2>1, <2>2, <2>3, Settles
<1> QED BY <1>c, <1>d DEF EnterReview, t

\* The task is put back.
LEMMA FailKeeps ==
  ASSUME RecoveryAssumption, Regular, Inv, NEW h \in handlers, Fail(h)
  PROVE  Inv'
<1> DEFINE t == h[1]
<1>0. /\ t \in slots /\ t \in Tasks /\ status[t] = "in_progress"
      /\ h[3] = "coding" => live[t] = "none"
      /\ work[t] = "none" /\ (pass.at # "idle" => t \notin pass.todo)
      /\ started # {} \/ pass.at # "idle"
      /\ pass.at \notin {"orphans", "stranded", "prune"}
      /\ handlersOf(t)' = {}
      /\ \A u \in Tasks \ {t} : handlersOf(u)' = handlersOf(u)
  BY Ending DEF Fail, outcome
<1>a. handlers' \subseteq handlers
  BY DEF Fail, outcome
<1> HIDE DEF t
<1>b. UNCHANGED <<resumes, work, system, pass, bounds>>
  BY DEF Fail
<1>c. CASE failed(t)
  <2>0. /\ DiskElsewhere(disk, disk', t)
        /\ status' = [status EXCEPT ![t] = "open"] /\ assignee' = [assignee EXCEPT ![t] = FALSE]
        /\ live' = [live EXCEPT ![t] = "none"] /\ rivals' = rivals
        /\ slots' = slots \ {t} /\ monitored' = monitored \ {t}
    BY <1>0, <1>c, FailedEffect
  <2>1. StepOf(t)
    BY <1>0, <1>b, <1>c, <2>0 DEF StepOf, Inv, Typed, system, bounds
  <2>2. Typed' /\ NoRivals'
    BY <1>0, <1>a, <1>b, <1>c, <2>0
    DEF DiskElsewhere, Inv, Typed, NoRivals, Marks, Phases, system, bounds
  <2>3. TaskOK(t)'
    BY <1>0, <1>b, <1>c, <2>0
    DEF Inv, Typed, TaskOK, FreshOK, WorkOK, SlotOK, LiveOK, HandlerOK, PassOK, TodoOK, Bare,
        Lost, system, bounds
  <2> QED BY <1>0, <2>1, <2>2, <2>3, Settles
<1> QED BY <1>c DEF Fail, t

\* The task is merged and closed; its handler has the slot.
LEMMA MergeAndCloseKeeps ==
  ASSUME RecoveryAssumption, Regular, Inv, NEW h \in handlers, MergeAndClose(h)
  PROVE  Inv'
<1> DEFINE t == h[1]
<1>0. /\ t \in slots /\ t \in Tasks /\ status[t] = "in_progress"
      /\ h[3] = "coding" => live[t] = "none"
      /\ work[t] = "none" /\ (pass.at # "idle" => t \notin pass.todo)
      /\ started # {} \/ pass.at # "idle"
      /\ pass.at \notin {"orphans", "stranded", "prune"}
      /\ handlersOf(t)' = {}
      /\ \A u \in Tasks \ {t} : handlersOf(u)' = handlersOf(u)
  BY Ending DEF MergeAndClose, outcome
<1>a. handlers' \subseteq handlers
  BY DEF MergeAndClose, outcome
<1> HIDE DEF t
<1>b. /\ released(t) /\ disk' = archived(disk, t) /\ status' = [status EXCEPT ![t] = "closed"]
      /\ assignee' = [assignee EXCEPT ![t] = FALSE]
      /\ UNCHANGED <<resumes, work, system, pass, bounds>>
  BY <1>0 DEF MergeAndClose, t
<1>c. /\ DiskElsewhere(disk, disk', t)
      /\ live' = [live EXCEPT ![t] = "none"] /\ rivals' = rivals
      /\ slots' = slots \ {t} /\ monitored' = monitored \ {t}
  BY <1>0, <1>b, Released, ArchivedDisk DEF released, Inv, Typed
<1>1. StepOf(t)
  BY <1>0, <1>b, <1>c DEF StepOf, Inv, Typed, system, bounds
<1>2. Typed' /\ NoRivals'
  BY <1>0, <1>a, <1>b, <1>c DEF DiskElsewhere, Inv, Typed, NoRivals, Marks, system, bounds
<1>3. TaskOK(t)'
  BY <1>0, <1>b, <1>c
  DEF Inv, Typed, TaskOK, FreshOK, WorkOK, SlotOK, LiveOK, HandlerOK, PassOK, TodoOK, Bare, Lost,
      system
<1> QED BY <1>0, <1>1, <1>2, <1>3, Settles

\* The merge is put back; its worktree stays.
LEMMA RequeueMergeKeeps ==
  ASSUME RecoveryAssumption, Regular, Inv, NEW h \in handlers, RequeueMerge(h)
  PROVE  Inv'
<1> DEFINE t == h[1]
<1>0. /\ t \in slots /\ t \in Tasks /\ status[t] = "in_progress"
      /\ h[3] = "coding" => live[t] = "none"
      /\ work[t] = "none" /\ (pass.at # "idle" => t \notin pass.todo)
      /\ started # {} \/ pass.at # "idle"
      /\ pass.at \notin {"orphans", "stranded", "prune"}
      /\ handlersOf(t)' = {}
      /\ \A u \in Tasks \ {t} : handlersOf(u)' = handlersOf(u)
  BY Ending DEF RequeueMerge, outcome
<1>a. handlers' \subseteq handlers
  BY DEF RequeueMerge, outcome
<1> HIDE DEF t
<1>b. /\ released(t) /\ status' = [status EXCEPT ![t] = "open"]
      /\ assignee' = [assignee EXCEPT ![t] = FALSE]
      /\ UNCHANGED <<work, system, pass, bounds>>
      /\ disk' = disk \/ disk' = archived(disk, t)
      /\ resumes' \in [Tasks -> BOOLEAN]
  BY DEF RequeueMerge, t, Inv, Typed
<1>c. /\ DiskElsewhere(disk, disk', t)
      /\ live' = [live EXCEPT ![t] = "none"] /\ rivals' = rivals
      /\ slots' = slots \ {t} /\ monitored' = monitored \ {t}
  <2>1. disk \in Disks
    BY DEF Inv, Typed
  <2>2. DiskElsewhere(disk, disk', t)
    BY <1>0, <1>b, <2>1, ArchivedDisk DEF DiskElsewhere
  <2> QED BY <1>0, <1>b, <2>2, Released DEF released
<1>1. StepOf(t)
  BY <1>0, <1>b, <1>c DEF StepOf, Inv, Typed, system, bounds
<1>2. Typed' /\ NoRivals'
  BY <1>0, <1>a, <1>b, <1>c DEF DiskElsewhere, Inv, Typed, NoRivals, Marks, system, bounds
<1>3. TaskOK(t)'
  BY <1>0, <1>b, <1>c
  DEF Inv, Typed, TaskOK, FreshOK, WorkOK, SlotOK, LiveOK, HandlerOK, PassOK, TodoOK, Bare, Lost,
      system
<1> QED BY <1>0, <1>1, <1>2, <1>3, Settles

-----------------------------------------------------------------------------
(* The steps of a pass on one task. *)

LEMMA GoesOn ==
  ASSUME Inv, NEW at \in {"idle", "prune", "orphans", "stranded"} \cup Lists,
         NEW exclude \in SUBSET Tasks, NEW todo \in SUBSET Tasks, goOn(at, exclude, todo)
  PROVE  /\ pass' \in Passes /\ pass'.at = at /\ pass'.exclude = exclude /\ pass'.todo = todo
         /\ pass'.awaits = pass.awaits /\ pass'.project = pass.project
  BY DEF goOn, Passes, Inv, Typed

\* What is known of the task whose turn it is.
LEMMA Turn ==
  ASSUME Inv, NEW t \in pass.todo, NEW at \in Lists \cup {"orphans", "stranded"}, turn(at, t)
  PROVE  /\ t \in Tasks /\ pass.at = at /\ pass.at # "idle" /\ handlers = {}
         /\ pass.project \in Projects /\ work[t] = "none"
         /\ \A u \in Tasks : handlersOf(u) = {}
<1>1. t \in Tasks /\ pass.at = at /\ pass.at # "idle" /\ awaited
  BY DEF Inv, Typed, Passes, turn, Lists
<1>2. handlers = {}
  BY <1>1, NoneAtWork
<1>3. work[t] = "none" /\ pass.project \in Projects
  BY <1>1 DEF Inv, TaskOK, PassOK
<1> QED BY <1>1, <1>2, <1>3 DEF handlersOf

LEMMA TakenOn ==
  ASSUME Inv, NEW t \in Tasks, takenOn(t)
  PROVE  /\ pass' \in Passes /\ pass'.at = pass.at /\ pass'.exclude = pass.exclude \cup {t}
         /\ pass'.todo = pass.todo \ {t}
         /\ pass'.awaits = pass.awaits /\ pass'.project = pass.project
<1>1. /\ pass.at \in {"idle", "prune", "orphans", "stranded"} \cup Lists
      /\ pass.exclude \cup {t} \in SUBSET Tasks /\ pass.todo \ {t} \in SUBSET Tasks
  BY DEF Inv, Typed, Passes
<1> QED BY <1>1, GoesOn DEF takenOn

LEMMA PassedOver ==
  ASSUME Inv, NEW t \in Tasks, passedOver(t)
  PROVE  /\ pass' \in Passes /\ pass'.at = pass.at /\ pass'.exclude = pass.exclude
         /\ pass'.todo = pass.todo \ {t}
         /\ pass'.awaits = pass.awaits /\ pass'.project = pass.project
<1>1. /\ pass.at \in {"idle", "prune", "orphans", "stranded"} \cup Lists
      /\ pass.exclude \in SUBSET Tasks /\ pass.todo \ {t} \in SUBSET Tasks
  BY DEF Inv, Typed, Passes
<1> QED BY <1>1, GoesOn DEF passedOver

\* A handler for what has ended gets its slot.
LEMMA CompleteKeeps ==
  ASSUME RecoveryAssumption, Regular, Inv, NEW t \in pass.todo, NEW at \in Lists, turn(at, t),
         status[t] = "in_progress", assignment(t) \in Phases, ~pidAlive(t),
         at # "slots" => live[t] = "none" /\ t \notin monitored,
         complete(t), UNCHANGED <<resumes, work, system, bounds>>
  PROVE  Inv'
<1>0. /\ t \in Tasks /\ pass.at = at /\ pass.at # "idle" /\ handlers = {}
      /\ pass.project \in Projects /\ work[t] = "none"
      /\ \A u \in Tasks : handlersOf(u) = {}
  BY Turn
<1>a. /\ handlers' = {<<t, at, assignment(t)>>} /\ slots' = slots \cup {t}
      /\ UNCHANGED <<status, assignee, disk, live, rivals, monitored, resumes, work,
                      up, started, attempts, failures>>
  BY <1>0 DEF complete, agents, system, bounds
<1>b. /\ pass' \in Passes /\ pass'.at = at /\ pass'.exclude = pass.exclude \cup {t}
      /\ pass'.todo = pass.todo \ {t} /\ pass'.awaits = t /\ pass'.project = pass.project
  BY <1>0 DEF complete, Passes, Inv, Typed
<1>c. /\ handlersOf(t)' = {<<t, at, assignment(t)>>}
      /\ \A u \in Tasks \ {t} : handlersOf(u)' = handlersOf(u)
  BY <1>0, <1>a DEF handlersOf
<1>d. assignment(t) = "coding" => live[t] = "none"
  <2>1. live[t] # "none" => disk.inTree[t] = live[t]
    BY <1>0 DEF Inv, TaskOK, LiveOK
  <2>2. live[t] # "none" => assignment(t) = live[t]
    BY <1>0, <2>1 DEF assignment, hasOwnTree, Regular
  <2>3. live[t] = "coding" => t \in disk.beats
    BY <1>0 DEF Inv, TaskOK, PassOK
  <2> QED BY <2>2, <2>3 DEF pidAlive
<1>e. at = "slots" => t \in slots
  BY <1>0 DEF Inv, TaskOK, TodoOK
<1>1. StepOf(t)
  BY <1>0, <1>a, <1>b, <1>c DEF StepOf, DiskElsewhere, Inv, Typed
<1>2. Typed' /\ NoRivals'
  <2>1. handlers' \subseteq Tasks \X ({"loop", "monitor"} \cup Lists) \X Phases
    BY <1>0, <1>a
  <2> QED BY <1>0, <1>a, <1>b, <2>1 DEF Inv, Typed, NoRivals
<1>3. TaskOK(t)'
  <2>1. /\ FreshOK(t)' /\ WorkOK(t)' /\ SlotOK(t)'
    BY <1>0, <1>a, <1>b DEF Inv, TaskOK, FreshOK, WorkOK, SlotOK, Bare
  <2>2. LiveOK(t)'
    BY <1>0, <1>a, <1>e DEF Inv, TaskOK, LiveOK, hasTree
  <2>3. HandlerOK(t)'
    BY <1>0, <1>a, <1>b, <1>c, <1>d DEF HandlerOK, Lists
  <2>4. PassOK(t)'
    BY <1>0, <1>a, <1>b, <1>e DEF Inv, TaskOK, PassOK, LiveOK, Lost, Lists
  <2>5. TodoOK(t)'
    BY <1>0, <1>a, <1>b DEF TodoOK
  <2> QED BY <2>1, <2>2, <2>3, <2>4, <2>5 DEF TaskOK
<1> QED BY <1>0, <1>1, <1>2, <1>3, Settles

\* An agent that is taken over is watched from now on.
LEMMA ReattachKeeps ==
  ASSUME Regular, Inv, NEW t \in pass.todo, NEW at \in {"gupp", "stale"}, turn(at, t),
         status[t] = "in_progress", pidAlive(t),
         reattach(t), UNCHANGED <<resumes, work, system, bounds>>
  PROVE  Inv'
<1>0. /\ t \in Tasks /\ pass.at = at /\ pass.at # "idle" /\ handlers = {}
      /\ pass.project \in Projects /\ work[t] = "none"
      /\ \A u \in Tasks : handlersOf(u) = {}
  BY Turn DEF Lists
<1>a. /\ pass' \in Passes /\ pass'.at = pass.at /\ pass'.exclude = pass.exclude \cup {t}
      /\ pass'.todo = pass.todo \ {t}
      /\ pass'.awaits = pass.awaits /\ pass'.project = pass.project
  BY <1>0, TakenOn DEF reattach
<1>b. /\ slots' = slots \cup {t} /\ monitored' = monitored \cup {t}
      /\ UNCHANGED <<status, assignee, disk, live, rivals, handlers, resumes, work,
                      up, started, attempts, failures>>
  BY DEF reattach, agents, system, bounds
<1>c. live[t] # "none" /\ disk.inTree[t] # "none"
  BY <1>0 DEF pidAlive, Inv, TaskOK, LiveOK
<1>1. StepOf(t)
  BY <1>0, <1>a, <1>b DEF StepOf, DiskElsewhere, handlersOf, Inv, Typed
<1>2. Typed' /\ NoRivals'
  BY <1>0, <1>a, <1>b DEF Inv, Typed, NoRivals
<1>3. TaskOK(t)'
  <2>1. FreshOK(t)' /\ WorkOK(t)' /\ SlotOK(t)' /\ HandlerOK(t)'
    BY <1>0, <1>a, <1>b, <1>c DEF Inv, TaskOK, FreshOK, WorkOK, SlotOK, HandlerOK, handlersOf
  <2>2. LiveOK(t)'
    BY <1>0, <1>b DEF Inv, TaskOK, LiveOK, hasTree
  <2>3. PassOK(t)' /\ TodoOK(t)'
    BY <1>0, <1>a, <1>b DEF Inv, TaskOK, PassOK, TodoOK, Bare, Lost
  <2> QED BY <2>1, <2>2, <2>3 DEF TaskOK
<1> QED BY <1>0, <1>1, <1>2, <1>3, Settles

\* What no agent works on is put back, whatever becomes of its files.
LEMMA ReopenedKeeps ==
  ASSUME Regular, Inv, NEW t \in Tasks, handlers = {}, pass.at # "idle", work[t] = "none",
         reopened(t), DiskElsewhere(disk, disk', t),
         live'[t] = "none", \A u \in Tasks \ {t} : live'[u] = live[u], live' \in [Tasks -> Marks],
         slots' = slots \ {t} \/ (slots' = slots /\ (t \in slots => t \notin disk'.trees)),
         monitored' = monitored \ {t},
         takenOn(t) \/ passedOver(t),
         UNCHANGED <<rivals, handlers, resumes, work, system, bounds>>
  PROVE  Inv'
<1>a. /\ pass' \in Passes /\ pass'.at = pass.at
      /\ pass'.exclude = pass.exclude \/ pass'.exclude = pass.exclude \cup {t}
      /\ pass'.todo = pass.todo \ {t}
      /\ pass'.awaits = pass.awaits /\ pass'.project = pass.project
  BY TakenOn, PassedOver
<1>b. handlersOf(t) = {} /\ \A u \in Tasks : handlersOf(u)' = handlersOf(u)
  BY DEF handlersOf
<1>c. status' = [status EXCEPT ![t] = "open"] /\ assignee' = [assignee EXCEPT ![t] = FALSE]
  BY DEF reopened
<1>1. StepOf(t)
  BY <1>a, <1>b, <1>c DEF StepOf, Inv, Typed, system, bounds
<1>2. Typed' /\ NoRivals'
  BY <1>a, <1>b, <1>c DEF DiskElsewhere, Inv, Typed, NoRivals, system, bounds
<1>3. TaskOK(t)'
  <2>1. status'[t] = "open"
    BY <1>c DEF Inv, Typed
  <2>2. t \in slots' => ~hasTree(t)'
    BY <1>c DEF hasTree, Regular
  <2> QED BY <1>a, <1>b, <2>1, <2>2
      DEF TaskOK, FreshOK, WorkOK, SlotOK, LiveOK, HandlerOK, PassOK, TodoOK, Bare, Lost,
          system, bounds
<1> QED BY <1>1, <1>2, <1>3, Settles

\* A step of a pass that only takes files away, of a task without agent.
LEMMA DiscardedKeeps ==
  ASSUME Regular, Inv, NEW t \in Tasks, pass.at # "idle", live[t] = "none",
         t \in slots => Bare(t) /\ t \notin disk'.trees,
         handlers = {}, DiskElsewhere(disk, disk', t), passedOver(t),
         failures' \in 0..MaxFailures, failures' = failures \/ failures' = 1,
         UNCHANGED <<status, assignee, agents, slots, monitored, handlers, resumes, work,
                      system, attempts>>
  PROVE  Inv'
<1>a. /\ pass' \in Passes /\ pass'.at = pass.at /\ pass'.exclude = pass.exclude
      /\ pass'.todo = pass.todo \ {t}
      /\ pass'.awaits = pass.awaits /\ pass'.project = pass.project
  BY PassedOver
<1>b. handlersOf(t) = {} /\ \A u \in Tasks : handlersOf(u)' = handlersOf(u)
  BY DEF handlersOf
<1>1. StepOf(t)
  BY <1>a, <1>b DEF StepOf, agents, system
<1>2. Typed' /\ NoRivals'
  BY <1>a DEF DiskElsewhere, Inv, Typed, NoRivals, agents, system, bounds
<1>3. TaskOK(t)'
  BY <1>a, <1>b
  DEF Inv, Typed, TaskOK, FreshOK, WorkOK, SlotOK, LiveOK, HandlerOK, PassOK, TodoOK, Bare, Lost,
      hasTree, Regular, agents, system
<1> QED BY <1>1, <1>2, <1>3, Settles

\* Another reviewer, for one that is gone.
LEMMA RespawnKeeps ==
  ASSUME Regular, Inv, NEW t \in pass.todo, turn("gupp", t), status[t] = "in_progress",
         live[t] = "none", hasTree(t),
         respawnReviewer(t), UNCHANGED <<resumes, work, system, bounds>>
  PROVE  Inv'
<1>0. /\ t \in Tasks /\ pass.at = "gupp" /\ pass.at # "idle" /\ handlers = {}
      /\ pass.project \in Projects /\ work[t] = "none"
      /\ \A u \in Tasks : handlersOf(u) = {}
  BY Turn DEF Lists
<1>a. /\ pass' \in Passes /\ pass'.at = pass.at /\ pass'.exclude = pass.exclude \cup {t}
      /\ pass'.todo = pass.todo \ {t}
      /\ pass'.awaits = pass.awaits /\ pass'.project = pass.project
  BY <1>0, TakenOn DEF respawnReviewer
<1>b. /\ DiskElsewhere(disk, disk', t)
      /\ disk'.trees = disk.trees /\ disk'.inTree[t] = "review"
      /\ live' = [live EXCEPT ![t] = "review"] /\ rivals' = rivals
      /\ slots' = slots \cup {t} /\ monitored' = monitored \cup {t}
  BY <1>0, SpawnedEffect DEF respawnReviewer, Phases
<1>c. UNCHANGED <<status, assignee, handlers>>
  BY DEF respawnReviewer
<1>1. StepOf(t)
  BY <1>0, <1>a, <1>b, <1>c DEF StepOf, handlersOf, Inv, Typed, system, bounds
<1>2. Typed' /\ NoRivals'
  BY <1>0, <1>a, <1>b, <1>c DEF DiskElsewhere, Inv, Typed, NoRivals, Marks, Phases, system, bounds
<1>3. TaskOK(t)'
  BY <1>0, <1>a, <1>b, <1>c
  DEF Inv, Typed, TaskOK, FreshOK, WorkOK, SlotOK, LiveOK, HandlerOK, PassOK, TodoOK, Bare, Lost,
      handlersOf, hasTree, system
<1> QED BY <1>0, <1>1, <1>2, <1>3, Settles

\* What a step of a pass leaves to others.
LEMMA SkippedKeeps ==
  ASSUME Regular, Inv, NEW t \in Tasks, pass.at # "idle", handlers = {}, passedOver(t),
         ~Lost(t),
         UNCHANGED <<status, assignee, disk, agents, slots, monitored, handlers, resumes, work,
                      system, bounds>>
  PROVE  Inv'
<1>a. /\ pass' \in Passes /\ pass'.at = pass.at /\ pass'.exclude = pass.exclude
      /\ pass'.todo = pass.todo \ {t}
      /\ pass'.awaits = pass.awaits /\ pass'.project = pass.project
  BY PassedOver
<1>b. handlersOf(t) = {} /\ \A u \in Tasks : handlersOf(u)' = handlersOf(u)
  BY DEF handlersOf
<1>1. StepOf(t)
  BY <1>a, <1>b DEF StepOf, DiskElsewhere, agents, system, bounds, Inv, Typed
<1>2. Typed' /\ NoRivals'
  BY <1>a DEF Inv, Typed, NoRivals, agents, system, bounds
<1>3. TaskOK(t)'
  BY <1>a, <1>b
  DEF Inv, TaskOK, FreshOK, WorkOK, SlotOK, LiveOK, HandlerOK, PassOK, TodoOK, Bare, Lost, hasTree,
      assignment, agents, system, bounds
<1> QED BY <1>1, <1>2, <1>3, Settles

\* What is not slotted and has an agent has been left behind, and can be told
\* to be alive.
LEMMA LeftBehind ==
  ASSUME Regular, Inv, NEW t \in Tasks \ slots, live[t] # "none"
  PROVE  pidAlive(t) /\ canReattach(t) /\ status[t] = "in_progress" /\ t \notin monitored
  BY DEF Inv, Typed, TaskOK, LiveOK, pidAlive, canReattach, Regular

LEMMA GuppKeeps ==
  ASSUME RecoveryAssumption, Regular, Inv, NEW t \in Tasks, Gupp(t)
  PROVE  Inv'
<1>0. t \in pass.todo /\ turn("gupp", t) /\ UNCHANGED <<resumes, work, system, bounds>>
  BY DEF Gupp, turn
<1>a. /\ pass.at = "gupp" /\ handlers = {} /\ pass.project \in Projects /\ work[t] = "none"
      /\ pass.at # "idle"
  BY <1>0, Turn DEF Lists
<1>b. t \notin slots /\ t \notin monitored /\ (status[t] = "in_progress" => assignment(t) # "none")
  BY <1>0, <1>a DEF Inv, Typed, TaskOK, TodoOK
<1>c. ProjectOf[t] = pass.project
  BY <1>a DEF Regular, RecoveryAssumption
<1>d. ~canReattach(t) \/ ~pidAlive(t) \/ status[t] # "in_progress" => live[t] = "none"
  BY <1>b, LeftBehind
<1>e. assignment(t) \in Marks
  BY DEF assignment, Inv, Typed, Disks
<1>f. DiskElsewhere(disk, discardAssignment(pass.project, t), t)
  BY <1>c, ClearedDisk DEF discardAssignment, Inv, Typed, Marks
<1>1. CASE status[t] # "in_progress" /\ disk' = discardAssignment(pass.project, t) /\ passedOver(t)
           /\ UNCHANGED <<status, assignee, agents, slots, monitored, handlers>>
  BY <1>0, <1>1, <1>a, <1>b, <1>d, <1>f, DiscardedKeeps DEF bounds, Inv, Typed
<1>2. CASE status[t] = "in_progress" /\ hasTerminalResult(t) /\ complete(t)
  <2>1. assignment(t) \in Phases /\ ~pidAlive(t)
    BY <1>2, <1>b, <1>e DEF Marks, hasTerminalResult
  <2> QED BY <1>0, <1>2, <1>b, <1>d, <2>1, CompleteKeeps DEF Lists
<1>3. CASE status[t] = "in_progress" /\ canReattach(t) /\ reattach(t)
  BY <1>0, <1>3, ReattachKeeps DEF canReattach
<1>4. CASE status[t] = "in_progress" /\ respawns(t) /\ respawnReviewer(t)
  BY <1>0, <1>4, <1>d, RespawnKeeps DEF respawns
<1>5. CASE /\ reopened(t)
           /\ passedOver(t) \/ takenOn(t)
           /\ ~canReattach(t) \/ ~pidAlive(t)
           /\ DiskElsewhere(disk, disk', t)
           /\ UNCHANGED <<agents, slots, monitored, handlers>>
  <2>1. live' = live /\ rivals' = rivals /\ live[t] = "none" /\ live \in [Tasks -> Marks]
    BY <1>5, <1>d DEF agents, Inv, Typed
  <2>2. slots' = slots \ {t} /\ monitored' = monitored \ {t}
    BY <1>5, <1>b
  <2> QED BY <1>0, <1>5, <1>a, <2>1, <2>2, ReopenedKeeps
<1>6. CASE status[t] = "in_progress" /\ respawns(t) /\ reviewerFails(t)
  <2>1. DiskElsewhere(disk, disk', t)
    BY <1>6, ClearedDisk DEF reviewerFails, Inv, Typed
  <2> QED BY <1>6, <2>1, <1>5 DEF reviewerFails, respawns
<1>7. CASE /\ status[t] = "in_progress" /\ requeues(t) /\ reopened(t) /\ passedOver(t)
           /\ disk' = discardAssignment(pass.project, t)
           /\ UNCHANGED <<agents, slots, monitored, handlers>>
  BY <1>7, <1>f, <1>5 DEF requeues
<1> QED BY <1>c, <1>1, <1>2, <1>3, <1>4, <1>6, <1>7 DEF Gupp, current

LEMMA StaleHeartbeatKeeps ==
  ASSUME RecoveryAssumption, Regular, Inv, NEW t \in Tasks, StaleHeartbeat(t)
  PROVE  Inv'
<1>0. t \in pass.todo /\ turn("stale", t) /\ UNCHANGED <<resumes, work, system, bounds>>
  BY DEF StaleHeartbeat, turn
<1>a. /\ pass.at = "stale" /\ handlers = {} /\ pass.project \in Projects /\ work[t] = "none"
      /\ pass.at # "idle"
  BY <1>0, Turn DEF Lists
<1>b. t \notin pass.exclude => (t \in slots => Bare(t)) /\ t \notin monitored
  BY <1>a DEF Inv, Typed, TaskOK, TodoOK, Bare
<1>c. ProjectOf[t] = pass.project
  BY <1>a DEF Regular, RecoveryAssumption
<1>d. DiskElsewhere(disk, recovered(disk, t), t) /\ t \notin recovered(disk, t).trees
  BY RecoveredDisk DEF Inv, Typed
<1>1. CASE t \in pass.exclude \/ status[t] # "in_progress"
  <2>1. ~Lost(t)
    BY <1>1, <1>a DEF Inv, TaskOK, LiveOK, PassOK, Lost
  <2>2. passedOver(t) /\ UNCHANGED <<status, assignee, disk, agents, slots, monitored, handlers>>
    BY <1>1, <1>c DEF StaleHeartbeat, current
  <2> QED BY <1>0, <1>a, <2>1, <2>2, SkippedKeeps
<1>2. CASE t \notin pass.exclude /\ status[t] = "in_progress"
  <2>1. CASE assignment(t) # "none" /\ hasTerminalResult(t) /\ complete(t)
    <3>1. assignment(t) \in Phases /\ ~pidAlive(t)
      BY <2>1 DEF assignment, Inv, Typed, Disks, Marks, hasTerminalResult
    <3>2. live[t] = "none" /\ t \notin monitored
      BY <1>b, <1>2, <3>1, LeftBehind DEF Bare
    <3> QED BY <1>0, <1>2, <2>1, <3>1, <3>2, CompleteKeeps DEF Lists
  <2>2. CASE canReattach(t) /\ reattach(t)
    BY <1>0, <1>2, <2>2, ReattachKeeps DEF canReattach
  <2>3. CASE /\ reopened(t) /\ takenOn(t) /\ disk' = recovered(disk, t)
             /\ live' = [live EXCEPT ![t] = "none"]
             /\ UNCHANGED <<rivals, slots, monitored, handlers>>
    <3>1. /\ live'[t] = "none" /\ \A u \in Tasks \ {t} : live'[u] = live[u]
          /\ live' \in [Tasks -> Marks]
      BY <2>3 DEF Inv, Typed, Marks
    <3>2. slots' = slots /\ monitored' = monitored \ {t} /\ t \notin disk'.trees
      BY <1>2, <1>b, <1>d, <2>3
    <3> QED BY <1>0, <1>a, <1>d, <2>3, <3>1, <3>2, ReopenedKeeps
  <2> QED BY <1>2, <1>c, <2>1, <2>2, <2>3 DEF StaleHeartbeat, current, completed
<1> QED BY <1>1, <1>2

LEMMA RecoverTaskKeeps ==
  ASSUME RecoveryAssumption, Regular, Inv, NEW t \in Tasks, RecoverTask(t)
  PROVE  Inv'
<1>0. /\ t \in pass.todo /\ pass.at \in {"orphans", "stranded"} /\ handlers = {}
      /\ work[t] = "none" /\ pass.at # "idle"
  BY Turn DEF RecoverTask, turn
<1>1. t \notin monitored /\ live[t] = "none"
  BY <1>0 DEF Inv, Typed, TaskOK, TodoOK, PassOK, Bare, Lost
<1>2. DiskElsewhere(disk, disk', t) /\ t \notin disk'.trees
  BY RecoveredDisk DEF RecoverTask, Inv, Typed
<1>3. /\ reopened(t) /\ takenOn(t) /\ live' = live /\ live \in [Tasks -> Marks]
      /\ slots' = slots /\ monitored' = monitored \ {t}
      /\ UNCHANGED <<rivals, handlers, resumes, work, system, bounds>>
  BY <1>1 DEF RecoverTask, agents, memory, Inv, Typed
<1> QED BY <1>0, <1>1, <1>2, <1>3, ReopenedKeeps

\* A slot is given back with its files.
LEMMA UnslottedDisk ==
  ASSUME RecoveryAssumption, Regular, Inv, NEW t \in slots
  PROVE  /\ DiskElsewhere(disk, unslotted(t), t)
         /\ DiskElsewhere(disk, recovered(unslotted(t), t), t)
<1>1. t \in Tasks /\ disk \in Disks
  BY DEF Inv, Typed
<1>2. DiskElsewhere(disk, unslotted(t), t)
  BY <1>1, ClearedDisk DEF unslotted
<1>3. DiskElsewhere(unslotted(t), recovered(unslotted(t), t), t)
  BY <1>1, <1>2, RecoveredDisk DEF DiskElsewhere
<1> QED BY <1>2, <1>3 DEF DiskElsewhere

LEMMA ReconcileSlotKeeps ==
  ASSUME RecoveryAssumption, Regular, Inv, NEW t \in Tasks, ReconcileSlot(t)
  PROVE  Inv'
<1>0. t \in pass.todo /\ turn("slots", t) /\ UNCHANGED <<resumes, work, system, bounds>>
  BY DEF ReconcileSlot, turn
<1>a. pass.at = "slots" /\ handlers = {} /\ work[t] = "none" /\ pass.at # "idle"
  BY <1>0, Turn DEF Lists
<1>b. t \in slots /\ (status[t] = "in_progress" \/ ~hasTree(t)) /\ ~Lost(t)
  BY <1>0, <1>a DEF Inv, TaskOK, TodoOK, SlotOK, LiveOK, Lost, Bare
<1>1. CASE passedOver(t) /\ UNCHANGED <<status, assignee, disk, agents, slots, monitored, handlers>>
  BY <1>0, <1>1, <1>a, <1>b, SkippedKeeps
<1>2. CASE assignment(t) # "none" /\ hasTerminalResult(t) /\ complete(t)
  <2>1. assignment(t) \in Phases /\ ~pidAlive(t) /\ status[t] = "in_progress"
    BY <1>2, <1>b DEF assignment, Inv, Typed, Disks, Marks, hasTerminalResult
  <2> QED BY <1>0, <1>2, <1>b, <2>1, CompleteKeeps DEF Lists
<1>3. CASE /\ reopened(t) /\ released(t) /\ passedOver(t)
           /\ disk' = recovered(unslotted(t), t)
           /\ UNCHANGED handlers
  <2>1. /\ live' = [live EXCEPT ![t] = "none"] /\ rivals' = rivals
        /\ slots' = slots \ {t} /\ monitored' = monitored \ {t}
    BY <1>3, <1>b, Released DEF released
  <2>2. DiskElsewhere(disk, disk', t)
    BY <1>3, <1>b, UnslottedDisk
  <2>3. /\ live'[t] = "none" /\ \A u \in Tasks \ {t} : live'[u] = live[u]
        /\ live' \in [Tasks -> Marks]
    BY <2>1 DEF Inv, Typed, Marks
  <2> QED BY <1>0, <1>a, <1>3, <2>1, <2>2, <2>3, ReopenedKeeps
<1> QED BY <1>b, <1>1, <1>2, <1>3 DEF ReconcileSlot, completed

-----------------------------------------------------------------------------
(* The steps of a pass as a whole, crashes and restarts. *)

\* What is pruned is closed, and what is closed has no agent.
LEMMA PruneKeeps ==
  ASSUME RecoveryAssumption, Regular, Inv, Prune
  PROVE  Inv'
<1>0. pass.at = "prune" /\ UNCHANGED <<storeVars, agents, memory, up, attempts>>
  BY DEF Prune
<1>1. ASSUME NEW w \in prunable(pass.project), disk' = removed(disk, w),
             UNCHANGED <<pass, started, failures>>
      PROVE  Inv'
  <2>1. PICK t \in Tasks : WorktreeOf[t] = w /\ t \in tasksOf(pass.project)
    BY <1>1 DEF prunable, tasksOf
  <2>2. w = t /\ status[t] = "closed"
    BY <1>1, <2>1 DEF prunable, Regular
  <2>3. DiskElsewhere(disk, disk', t)
    BY <1>1, <2>2, RemovedDisk DEF Inv, Typed
  <2>4. handlersOf(t)' = handlersOf(t) /\ \A u \in Tasks : handlersOf(u)' = handlersOf(u)
    BY <1>0 DEF memory, handlersOf
  <2>5. StepOf(t)
    BY <1>0, <1>1, <2>3, <2>4 DEF StepOf, storeVars, agents, memory
  <2>6. Typed' /\ NoRivals'
    BY <1>0, <1>1, <2>3 DEF DiskElsewhere, Inv, Typed, NoRivals, storeVars, agents, memory
  <2>7. TaskOK(t)'
    BY <1>0, <1>1, <2>2, <2>4
    DEF Inv, Typed, TaskOK, FreshOK, WorkOK, SlotOK, LiveOK, HandlerOK, PassOK, TodoOK, Bare, Lost,
        hasTree, storeVars, agents, memory
  <2> QED BY <2>5, <2>6, <2>7, Settles
<1>2. CASE UNCHANGED disk /\ passEnds /\ failures' = IF failures = pass.before THEN 0 ELSE failures
  <2>1. Typed' /\ NoRivals' /\ pass'.at = "idle" /\ pass'.todo = {}
    BY <1>0, <1>2
    DEF Inv, Typed, NoRivals, NoPass, Passes, passEnds, RecoveryAssumption, storeVars, agents,
        memory
  <2>2. ASSUME NEW u \in Tasks
        PROVE  TaskOK(u)'
    <3>1. handlersOf(u)' = {}
      BY <1>0 DEF Inv, TaskOK, HandlerOK, memory, handlersOf, Lists
    <3> QED BY <1>0, <1>2, <2>1, <3>1
        DEF Inv, TaskOK, FreshOK, WorkOK, SlotOK, LiveOK, HandlerOK, PassOK, TodoOK, Bare, Lost,
            Lists, hasTree, passEnds, handlersOf, storeVars, agents, memory
  <2> QED BY <2>1, <2>2 DEF Inv
<1> QED BY <1>1, <1>2 DEF Prune

\* Each list holds what the next steps rely on.
LEMMA NextListKeeps ==
  ASSUME RecoveryAssumption, Regular, Inv, NextList
  PROVE  Inv'
<1> DEFINE p == pass.project
<1>0. /\ handlers = {} /\ pass.at # "idle" /\ pass.todo = {} /\ p \in Projects
      /\ UNCHANGED <<storeVars, disk, agents, memory, system, bounds>>
  BY NoneAtWork DEF NextList, Inv
<1>1. \A t \in Tasks : ProjectOf[t] = p /\ hasOwnTree(t)
  BY <1>0 DEF Regular, RecoveryAssumption, hasOwnTree
<1>2. tasksOf(p) = Tasks
  BY <1>1 DEF tasksOf
<1>3. \E at \in {"prune", "orphans", "stranded"} \cup Lists,
         exclude \in SUBSET Tasks, todo \in SUBSET Tasks :
        /\ goOn(at, exclude, todo)
        /\ \/ pass.at = "gupp" /\ at = "stale" /\ exclude = pass.exclude \cup slots
              /\ todo = staleHeartbeats
           \/ /\ exclude = pass.exclude
              /\ \/ pass.at = "stale" /\ at = "orphans" /\ todo = orphanedTasks(p) \ exclude
                 \/ pass.at = "orphans" /\ at = "stranded" /\ todo = strandedTasks(p) \ exclude
                 \/ pass.at = "orphans" /\ at = "stranded" /\ todo = {}
                 \/ pass.at = "stranded" /\ at = "slots" /\ todo = slots
                 \/ pass.at = "slots" /\ at = "prune" /\ todo = {}
  <2>1. /\ pass.exclude \in SUBSET Tasks /\ slots \in SUBSET Tasks
        /\ staleHeartbeats \in SUBSET Tasks
        /\ orphanedTasks(p) \in SUBSET Tasks /\ strandedTasks(p) \in SUBSET Tasks
    BY DEF Inv, Typed, Disks, Passes, staleHeartbeats, orphanedTasks, strandedTasks, tasksOf
  <2>2. slots \cap tasksOf(p) = slots
    BY <2>1, <1>2
  <2>3. CASE pass.at = "gupp" /\ goOn("stale", pass.exclude \cup (slots \cap tasksOf(p)),
                                          staleHeartbeats)
    BY <2>1, <2>2, <2>3 DEF Lists
  <2>4. CASE pass.at = "stale" /\ goOn("orphans", pass.exclude, orphanedTasks(p) \ pass.exclude)
    BY <2>1, <2>4
  <2>5. CASE pass.at = "orphans" /\ goOn("stranded", pass.exclude, strandedTasks(p) \ pass.exclude)
    BY <2>1, <2>5
  <2>6. CASE pass.at = "orphans" /\ goOn("stranded", pass.exclude, {})
    BY <2>1, <2>6
  <2>7. CASE pass.at = "stranded" /\ goOn("slots", pass.exclude, slots \cap tasksOf(p))
    BY <2>1, <2>2, <2>7 DEF Lists
  <2>8. CASE pass.at = "slots" /\ goOn("prune", pass.exclude, {})
    BY <2>1, <2>8
  <2> QED BY <2>3, <2>4, <2>5, <2>6, <2>7, <2>8 DEF NextList
<1>4. PICK at \in {"prune", "orphans", "stranded"} \cup Lists,
           exclude \in SUBSET Tasks, todo \in SUBSET Tasks :
        /\ goOn(at, exclude, todo)
        /\ \/ pass.at = "gupp" /\ at = "stale" /\ exclude = pass.exclude \cup slots
              /\ todo = staleHeartbeats
           \/ /\ exclude = pass.exclude
              /\ \/ pass.at = "stale" /\ at = "orphans" /\ todo = orphanedTasks(p) \ exclude
                 \/ pass.at = "orphans" /\ at = "stranded" /\ todo = strandedTasks(p) \ exclude
                 \/ pass.at = "orphans" /\ at = "stranded" /\ todo = {}
                 \/ pass.at = "stranded" /\ at = "slots" /\ todo = slots
                 \/ pass.at = "slots" /\ at = "prune" /\ todo = {}
  BY <1>3
<1>5. /\ pass' \in Passes /\ pass'.at = at /\ pass'.exclude = exclude /\ pass'.todo = todo
      /\ pass'.project = p
  BY <1>4, GoesOn
<1>6. Typed' /\ NoRivals'
  BY <1>0, <1>5 DEF Inv, Typed, NoRivals, storeVars, agents, memory, system, bounds
<1>7. ASSUME NEW u \in Tasks
      PROVE  TaskOK(u)'
  <2>1. at # "idle" /\ at # "gupp" /\ TaskOK(u)
    BY <1>4 DEF Inv, Lists
  <2>2. FreshOK(u)' /\ WorkOK(u)' /\ SlotOK(u)' /\ LiveOK(u)' /\ HandlerOK(u)'
    BY <1>0, <1>5, <2>1
    DEF TaskOK, FreshOK, WorkOK, SlotOK, LiveOK, HandlerOK, Bare, hasTree, handlersOf, Lists,
        storeVars, agents, memory, system
  <2>3. PassOK(u)'
    BY <1>0, <1>1, <1>4, <1>5, <2>1
    DEF TaskOK, PassOK, Lost, storeVars, agents, memory, system, bounds
  <2>4. TodoOK(u)'
    BY <1>0, <1>4, <1>5, <2>1
    DEF TaskOK, TodoOK, Bare, hasTree, handlersOf, orphanedTasks, strandedTasks, storeVars,
        agents, memory, system
  <2> QED BY <2>2, <2>3, <2>4 DEF TaskOK
<1> QED BY <1>0, <1>5, <1>6, <1>7 DEF Inv

\* A pass starts when nothing is on its way: the first with an empty memory.
LEMMA StartUpKeeps ==
  ASSUME RecoveryAssumption, Regular, Inv, NEW p \in Projects, StartUp(p)
  PROVE  Inv'
<1>0. /\ pass.at = "idle" /\ started = {}
      /\ \A t \in Tasks : t \notin slots /\ handlersOf(t) = {} /\ work[t] = "none" /\ hasOwnTree(t)
      /\ UNCHANGED <<storeVars, disk, agents, memory, system, bounds>>
  BY DEF StartUp, Regular, Inv, Typed, TaskOK, FreshOK, hasOwnTree
<1>1. /\ pass' \in Passes /\ pass'.at = "gupp" /\ pass'.project = p
      /\ pass'.todo = orphanedAssignments(p) /\ pass'.exclude = {}
  <2>1. orphanedAssignments(p) \in SUBSET Tasks
    BY DEF orphanedAssignments
  <2> HIDE DEF orphanedAssignments
  <2>2. pass' = [NoPass EXCEPT !.at = "gupp", !.project = p, !.before = failures,
                               !.todo = orphanedAssignments(p)]
    BY DEF StartUp
  <2>3. failures \in 0..MaxFailures
    BY DEF Inv, Typed
  <2> QED BY <2>1, <2>2, <2>3 DEF NoPass, Passes, Lists
<1>2. Typed' /\ NoRivals'
  BY <1>0, <1>1 DEF Inv, Typed, NoRivals, storeVars, agents, memory, system, bounds
<1>3. ASSUME NEW u \in Tasks
      PROVE  TaskOK(u)'
  <2>1. TaskOK(u) /\ u \notin monitored
    BY <1>0 DEF Inv, Typed
  <2>2. FreshOK(u)' /\ WorkOK(u)' /\ SlotOK(u)' /\ LiveOK(u)' /\ HandlerOK(u)'
    BY <1>0, <1>1, <2>1
    DEF TaskOK, FreshOK, WorkOK, SlotOK, LiveOK, HandlerOK, Bare, hasTree, handlersOf,
        storeVars, agents, memory, system
  <2>3. PassOK(u)'
    BY <1>0, <1>1, <2>1
    DEF TaskOK, PassOK, LiveOK, Lost, hasOwnTree, orphanedAssignments, storeVars, agents, memory
  <2>4. TodoOK(u)'
    BY <1>0, <1>1 DEF TodoOK, assignment, hasOwnTree, orphanedAssignments, storeVars, memory
  <2> QED BY <2>2, <2>3, <2>4 DEF TaskOK
<1> QED BY <1>1, <1>2, <1>3 DEF Inv

LEMMA WatchdogKeeps ==
  ASSUME RecoveryAssumption, Regular, Inv, NEW p \in Projects, Watchdog(p)
  PROVE  Inv'
<1>0. /\ pass.at = "idle" /\ p \in started /\ handlers = {}
      /\ \A t \in Tasks : work[t] = "none" /\ hasOwnTree(t)
                           /\ (t \in monitored /\ live[t] # "none" => t \in disk.beats)
      /\ UNCHANGED <<storeVars, disk, agents, memory, system, bounds>>
  BY DEF Watchdog, settled, beats, Regular, hasOwnTree, Inv, Typed
<1>1. /\ pass' \in Passes /\ pass'.at = "stale" /\ pass'.project = p
      /\ pass'.todo = staleHeartbeats /\ pass'.exclude = slots
  <2>1. staleHeartbeats \in SUBSET Tasks /\ slots \cap tasksOf(p) = slots
    BY DEF staleHeartbeats, tasksOf, Regular, RecoveryAssumption, Inv, Typed, Disks
  <2>2. slots \in SUBSET Tasks
    BY DEF Inv, Typed
  <2> HIDE DEF staleHeartbeats
  <2>3. pass' = [NoPass EXCEPT !.at = "stale", !.project = p, !.before = failures,
                               !.todo = staleHeartbeats, !.exclude = slots]
    BY <2>1 DEF Watchdog
  <2>4. failures \in 0..MaxFailures
    BY DEF Inv, Typed
  <2> QED BY <2>1, <2>2, <2>3, <2>4 DEF NoPass, Passes, Lists
<1>2. Typed' /\ NoRivals'
  BY <1>0, <1>1 DEF Inv, Typed, NoRivals, storeVars, agents, memory, system, bounds
<1>3. ASSUME NEW u \in Tasks
      PROVE  TaskOK(u)'
  <2>1. TaskOK(u)
    BY DEF Inv
  <2>2. FreshOK(u)' /\ WorkOK(u)' /\ SlotOK(u)' /\ LiveOK(u)' /\ HandlerOK(u)'
    BY <1>0, <1>1, <2>1
    DEF TaskOK, FreshOK, WorkOK, SlotOK, LiveOK, HandlerOK, Bare, hasTree, handlersOf,
        storeVars, agents, memory, system
  <2>3. PassOK(u)'
    BY <1>0, <1>1, <2>1
    DEF TaskOK, PassOK, LiveOK, Lost, staleHeartbeats, storeVars, agents, memory, bounds
  <2>4. TodoOK(u)'
    BY <1>0, <1>1 DEF TodoOK, storeVars, memory
  <2> QED BY <2>2, <2>3, <2>4 DEF TaskOK
<1> QED BY <1>1, <1>2, <1>3 DEF Inv

\* A crash leaves the agents with their worktrees and heartbeats.
LEMMA CrashKeeps ==
  ASSUME RecoveryAssumption, Regular, Inv, Crash
  PROVE  Inv'
<1>0. /\ slots' = {} /\ monitored' = {} /\ handlers' = {} /\ work' = [t \in Tasks |-> "none"]
      /\ started' = {} /\ pass' = NoPass /\ up' = FALSE /\ failures' = 0
      /\ \A t \in Tasks : live[t] # "none" => t \in disk.beats
      /\ UNCHANGED <<storeVars, disk, agents, attempts>>
  BY DEF Crash, beats, Regular
<1>1. Typed' /\ NoRivals' /\ pass'.at = "idle" /\ pass'.todo = {}
  <2>1. pass' \in Passes /\ pass'.at = "idle" /\ pass'.todo = {}
    BY <1>0 DEF NoPass, Passes, RecoveryAssumption
  <2>2. work' \in [Tasks -> {"none", "selected", "starting", "prepared"}]
    BY <1>0
  <2>3. failures' \in 0..MaxFailures
    BY <1>0 DEF RecoveryAssumption
  <2> QED BY <1>0, <2>1, <2>2, <2>3 DEF Inv, Typed, NoRivals, storeVars, agents
<1>2. ASSUME NEW u \in Tasks
      PROVE  TaskOK(u)'
  BY <1>0, <1>1
  DEF Inv, TaskOK, FreshOK, WorkOK, SlotOK, LiveOK, HandlerOK, PassOK, TodoOK, Bare, Lost,
      hasTree, handlersOf, storeVars, agents
<1> QED BY <1>1, <1>2 DEF Inv

LEMMA RestartKeeps ==
  ASSUME Inv, Restart \/ UNCHANGED vars
  PROVE  Inv'
<1>1. /\ UNCHANGED <<storeVars, disk, agents, memory, started, pass, bounds>>
      /\ up' \in BOOLEAN
  BY DEF Restart, vars, system, Inv, Typed
<1> USE <1>1 DEF storeVars, agents, memory, bounds
<1>2. Typed' /\ NoRivals'
  BY DEF Inv, Typed, NoRivals
<1>3. ASSUME NEW u \in Tasks
      PROVE  TaskOK(u)'
  BY
  DEF Inv, TaskOK, FreshOK, WorkOK, SlotOK, LiveOK, HandlerOK, PassOK, TodoOK, Bare, Lost,
      hasTree, assignment, handlersOf
<1> QED BY <1>2, <1>3 DEF Inv

-----------------------------------------------------------------------------
(* Errors of the task store. *)

\* There is one at most, before a pass goes through whole.
LEMMA FirstError ==
  ASSUME RecoveryAssumption, Regular, Inv, errs
  PROVE  /\ failures = 0 /\ failures' = 1 /\ failures' \in 0..MaxFailures
         /\ UNCHANGED <<assignee, resumes, work, up, attempts>>
  BY DEF errs, RecoveryAssumption, Regular, Inv, Typed

\* What a pass that ends with an error leaves to the next.
LEMMA EndsKeeps ==
  ASSUME Regular, Inv, pass.at # "idle", passEnds, handlers' = {}, failures' = 1,
         UNCHANGED <<status, work>>, Typed', NoRivals',
         \A t \in Tasks :
           \/ SlotOK(t)' /\ LiveOK(t)'
           \/ /\ hasTree(t)' = hasTree(t) /\ disk'.inTree[t] = disk.inTree[t]
              /\ t \in disk'.beats <=> t \in disk.beats
              /\ live'[t] = live[t]
              /\ t \in slots' <=> t \in slots
              /\ t \in monitored' <=> t \in monitored
  PROVE  Inv'
<1>0. /\ pass'.at = "idle" /\ pass'.todo = {} /\ started' # {}
      /\ \A t \in Tasks : work'[t] = "none" /\ handlersOf(t)' = {}
  BY DEF passEnds, NoPass, Inv, TaskOK, PassOK, handlersOf
<1>1. ASSUME NEW t \in Tasks
      PROVE  SlotOK(t)' /\ LiveOK(t)'
  <2>1. SlotOK(t) /\ LiveOK(t)
    BY DEF Inv, TaskOK
  <2> QED BY <1>0, <2>1 DEF SlotOK, LiveOK, Bare
<1>2. ASSUME NEW t \in Tasks
      PROVE  TaskOK(t)'
  BY <1>0, <1>1 DEF TaskOK, FreshOK, WorkOK, HandlerOK, PassOK, TodoOK, Lost
<1> QED BY <1>0, <1>2 DEF Inv

LEMMA StartFailsKeeps ==
  ASSUME RecoveryAssumption, Regular, Inv, NEW p \in Projects, StartFails(p)
  PROVE  Inv'
<1>0. /\ failures' = 1 /\ started' = started \cup {p} /\ failures' \in 0..MaxFailures
      /\ UNCHANGED <<status, disk, agents, slots, monitored, handlers, pass, assignee, resumes,
                      work, up, attempts>>
  BY FirstError DEF StartFails
<1>1. Typed' /\ NoRivals'
  BY <1>0 DEF Inv, Typed, NoRivals, agents
<1>2. ASSUME NEW t \in Tasks
      PROVE  TaskOK(t)'
  BY <1>0
  DEF Inv, TaskOK, FreshOK, WorkOK, SlotOK, LiveOK, HandlerOK, PassOK, TodoOK, Bare, Lost,
      hasTree, assignment, handlersOf, agents
<1> QED BY <1>0, <1>1, <1>2 DEF Inv

LEMMA PassFailsKeeps ==
  ASSUME RecoveryAssumption, Regular, Inv, PassFails
  PROVE  Inv'
<1>0. /\ failures' = 1 /\ failures' \in 0..MaxFailures
      /\ UNCHANGED <<status, disk, agents, slots, monitored, handlers, assignee, resumes,
                      work, up, attempts>>
  BY FirstError DEF PassFails
<1>1. pass.at # "idle" /\ handlers = {} /\ passEnds
  BY NoneAtWork DEF PassFails
<1>2. Typed' /\ NoRivals'
  BY <1>0, <1>1 DEF Inv, Typed, NoRivals, passEnds, NoPass, Passes, RecoveryAssumption, agents
<1> QED BY <1>0, <1>1, <1>2, EndsKeeps DEF hasTree, agents

\* The agents of the tasks whose turn it was not stay to be found.
LEMMA GuppFailsKeeps ==
  ASSUME RecoveryAssumption, Regular, Inv, NEW t \in Tasks, GuppFails(t)
  PROVE  Inv'
<1>0. /\ failures' = 1 /\ failures' \in 0..MaxFailures
      /\ UNCHANGED <<live, rivals, monitored, handlers, assignee, resumes, work, up, attempts>>
  BY FirstError DEF GuppFails
<1>1. /\ t \in pass.todo /\ pass.at = "gupp" /\ handlers = {} /\ pass.project \in Projects
      /\ pass.at # "idle" /\ status[t] = "in_progress" /\ ProjectOf[t] = pass.project
  BY Turn DEF GuppFails, turn, current, Lists
<1>2. t \notin slots /\ t \notin monitored
  BY <1>1 DEF Inv, Typed, TaskOK, TodoOK
<1>3. CASE /\ requeues(t) /\ disk' = discardAssignment(pass.project, t) /\ passedOver(t)
           /\ UNCHANGED <<status, slots, started>>
  <2>1. live[t] = "none"
    BY <1>2, <1>3, LeftBehind DEF requeues
  <2>2. DiskElsewhere(disk, disk', t)
    BY <1>1, <1>3, ClearedDisk DEF discardAssignment, Inv, Typed, Marks
  <2> QED BY <1>0, <1>1, <1>2, <1>3, <2>1, <2>2, DiscardedKeeps DEF agents, system
<1>4. CASE /\ passEnds
           /\ slots' = slots \/ (respawns(t) /\ slots' = slots \cup {t})
           /\ UNCHANGED <<status, disk>>
  <2>1. respawns(t) => live[t] = "none"
    BY <1>2, LeftBehind DEF respawns
  <2>2. Typed' /\ NoRivals'
    BY <1>0, <1>1, <1>4
    DEF Inv, Typed, NoRivals, passEnds, NoPass, Passes, RecoveryAssumption
  <2>3. SlotOK(t)' /\ LiveOK(t)'
    BY <1>0, <1>1, <1>2, <1>4, <2>1 DEF Inv, TaskOK, SlotOK, LiveOK, hasTree
  <2> QED BY <1>0, <1>1, <1>4, <2>2, <2>3, EndsKeeps DEF hasTree
<1> QED BY <1>3, <1>4 DEF GuppFails

\* At a first error no agent that was left behind is among the stale.
LEMMA StaleFailsKeeps ==
  ASSUME RecoveryAssumption, Regular, Inv, NEW t \in Tasks, StaleFails(t)
  PROVE  Inv'
<1>0. /\ failures = 0 /\ failures' = 1 /\ failures' \in 0..MaxFailures
      /\ UNCHANGED <<status, rivals, slots, monitored, handlers, assignee, resumes, work, up,
                      attempts>>
  BY FirstError DEF StaleFails
<1>1. /\ t \in pass.todo /\ pass.at = "stale" /\ handlers = {} /\ t \notin pass.exclude
      /\ pass.at # "idle" /\ pass.project \in Projects
  BY Turn DEF StaleFails, turn, Lists
<1>2. live[t] = "none" /\ t \notin monitored /\ (t \in slots => Bare(t))
  BY <1>0, <1>1 DEF Inv, Typed, TaskOK, TodoOK, PassOK, Bare, Lost
<1>3. live' = live
  BY <1>2 DEF StaleFails, Inv, Typed
<1>4. disk' = disk \/ disk' = removed(disk, t)
  BY DEF StaleFails
<1>5. DiskElsewhere(disk, disk', t) /\ (t \in disk'.trees => t \in disk.trees)
  <2>1. disk \in Disks
    BY DEF Inv, Typed
  <2> QED BY <1>4, <2>1, RemovedDisk, RecoveredDisk DEF DiskElsewhere
<1>6. CASE disk' = removed(disk, t) /\ passedOver(t) /\ UNCHANGED started
  <2>1. t \notin disk'.trees
    BY <1>6, RecoveredDisk DEF Inv, Typed
  <2> QED BY <1>0, <1>1, <1>2, <1>3, <1>5, <1>6, <2>1, DiscardedKeeps DEF agents, system
<1>7. CASE passEnds
  <2>1. Typed' /\ NoRivals'
    BY <1>0, <1>1, <1>3, <1>5, <1>7
    DEF Inv, Typed, NoRivals, passEnds, NoPass, Passes, DiskElsewhere, RecoveryAssumption
  <2>2. handlersOf(t)' = {}
    BY <1>0, <1>1 DEF handlersOf
  <2>3. SlotOK(t)' /\ LiveOK(t)'
    BY <1>0, <1>2, <1>3, <1>5, <2>2
    DEF Inv, TaskOK, SlotOK, LiveOK, Bare, hasTree, Regular
  <2> QED BY <1>0, <1>1, <1>3, <1>5, <1>7, <2>1, <2>3, EndsKeeps
          DEF DiskElsewhere, hasTree, Regular
<1> QED BY <1>6, <1>7 DEF StaleFails

LEMMA RecoverFailsKeeps ==
  ASSUME RecoveryAssumption, Regular, Inv, NEW t \in Tasks, RecoverFails(t)
  PROVE  Inv'
<1>0. /\ failures' = 1 /\ failures' \in 0..MaxFailures
      /\ UNCHANGED <<status, agents, slots, monitored, handlers, started, assignee, resumes,
                      work, up, attempts>>
  BY FirstError DEF RecoverFails
<1>1. /\ t \in pass.todo /\ pass.at \in {"orphans", "stranded"} /\ handlers = {}
      /\ pass.at # "idle" /\ passedOver(t)
  BY Turn DEF RecoverFails, turn
<1>2. live[t] = "none" /\ (t \in slots => Bare(t))
  BY <1>1 DEF Inv, Typed, TaskOK, TodoOK, PassOK, Bare, Lost
<1>3. DiskElsewhere(disk, disk', t) /\ (t \in disk'.trees => t \in disk.trees)
  <2>1. disk \in Disks /\ disk' \in {disk, recovered(disk, t)}
    BY DEF Inv, Typed, RecoverFails
  <2> QED BY <2>1, RecoveredDisk DEF DiskElsewhere
<1>4. t \in slots => t \notin disk'.trees
  BY <1>2, <1>3 DEF Bare, hasTree, Regular
<1> QED BY <1>0, <1>1, <1>2, <1>3, <1>4, DiscardedKeeps DEF system

LEMMA ReconcileFailsKeeps ==
  ASSUME RecoveryAssumption, Regular, Inv, NEW t \in Tasks, ReconcileFails(t)
  PROVE  Inv'
<1>0. /\ failures' = 1 /\ failures' \in 0..MaxFailures
      /\ UNCHANGED <<status, handlers, assignee, resumes, work, up, attempts>>
  BY FirstError DEF ReconcileFails
<1>1. /\ t \in pass.todo /\ pass.at = "slots" /\ handlers = {} /\ passEnds
      /\ pass.at # "idle" /\ pass.project \in Projects
  BY Turn DEF ReconcileFails, turn, Lists
<1>2. t \in slots
  BY <1>1 DEF Inv, TaskOK, TodoOK
<1>3. CASE released(t) /\ disk' \in {unslotted(t), recovered(unslotted(t), t)}
  <2>1. /\ live' = [live EXCEPT ![t] = "none"] /\ rivals' = rivals
        /\ slots' = slots \ {t} /\ monitored' = monitored \ {t}
    BY <1>2, <1>3, Released DEF released
  <2>2. DiskElsewhere(disk, disk', t)
    BY <1>2, <1>3, UnslottedDisk
  <2>3. Typed' /\ NoRivals'
    BY <1>0, <1>1, <2>1, <2>2
    DEF Inv, Typed, NoRivals, passEnds, NoPass, Passes, Marks, DiskElsewhere, RecoveryAssumption
  <2>4. SlotOK(t)' /\ LiveOK(t)'
    BY <2>1 DEF SlotOK, LiveOK, Inv, Typed
  <2>5. \A u \in Tasks \ {t} : live'[u] = live[u]
    BY <2>1 DEF Inv, Typed
  <2> QED BY <1>0, <1>1, <2>1, <2>2, <2>3, <2>4, <2>5, EndsKeeps
          DEF DiskElsewhere, hasTree, Regular
<1>4. CASE UNCHANGED <<disk, agents, slots, monitored>>
  <2>1. Typed' /\ NoRivals'
    BY <1>0, <1>1, <1>4
    DEF Inv, Typed, NoRivals, passEnds, NoPass, Passes, RecoveryAssumption, agents
  <2> QED BY <1>0, <1>1, <1>4, <2>1, EndsKeeps DEF hasTree, agents
<1> QED BY <1>3, <1>4 DEF ReconcileFails

\* The slot of the handler stays, for a later pass.
LEMMA HandlerThrowsKeeps ==
  ASSUME RecoveryAssumption, Regular, Inv, NEW h \in handlers, HandlerThrows(h)
  PROVE  Inv'
<1> DEFINE t == h[1]
<1>0. /\ failures' = 1 /\ failures' \in 0..MaxFailures /\ handlers' = handlers \ {h}
      /\ UNCHANGED <<status, agents, slots, monitored, assignee, resumes, work, up, attempts>>
  BY FirstError DEF HandlerThrows, outcome
<1>1. /\ t \in slots /\ t \in Tasks /\ status[t] = "in_progress"
      /\ pass.at # "idle" => t \notin pass.todo
      /\ handlersOf(t)' = {} /\ \A u \in Tasks \ {t} : handlersOf(u)' = handlersOf(u)
  BY <1>0, Ending
<1>2. /\ pass.at # "idle" => /\ handlers' = {} /\ h[2] = pass.at /\ h[2] \in Lists
                             /\ pass.project \in Projects
      /\ pass.at = "idle" => h[2] \notin Lists
      /\ pass.at = "stale" => live[t] = "none" /\ t \notin monitored
  BY <1>0, OfThePass
<1> HIDE DEF t
<1>3. CASE h[2] = "monitor" /\ UNCHANGED <<disk, pass, started>>
  <2>1. StepOf(t)
    BY <1>0, <1>1, <1>3 DEF StepOf, DiskElsewhere, agents, Inv, Typed
  <2>2. Typed' /\ NoRivals'
    BY <1>0, <1>3 DEF Inv, Typed, NoRivals, agents
  <2>3. TaskOK(t)'
    BY <1>0, <1>1, <1>2, <1>3
    DEF Inv, TaskOK, FreshOK, WorkOK, SlotOK, LiveOK, HandlerOK, PassOK, TodoOK, Bare, Lost,
        hasTree, agents, Lists
  <2> QED BY <1>1, <2>1, <2>2, <2>3, Settles
<1>4. CASE /\ h[2] = "stale" /\ disk' = removed(disk, t)
           /\ pass' = [pass EXCEPT !.exclude = @ \ {t}] /\ UNCHANGED started
  <2>1. DiskElsewhere(disk, disk', t) /\ t \notin disk'.trees
    BY <1>1, <1>4, RemovedDisk, RecoveredDisk DEF Inv, Typed
  <2>2. /\ pass' \in Passes /\ pass'.at = "stale" /\ pass'.exclude = pass.exclude \ {t}
        /\ pass'.todo = pass.todo /\ pass'.awaits = pass.awaits /\ pass.at = "stale"
        /\ pass'.project = pass.project
    BY <1>2, <1>4 DEF Passes, Inv, Typed, Lists
  <2>3. StepOf(t)
    BY <1>0, <1>1, <1>4, <2>1, <2>2 DEF StepOf, agents, Inv, Typed
  <2>4. Typed' /\ NoRivals'
    BY <1>0, <1>4, <2>1, <2>2 DEF DiskElsewhere, Inv, Typed, NoRivals, agents
  <2>5. TaskOK(t)'
    BY <1>0, <1>1, <1>2, <1>4, <2>1, <2>2
    DEF Inv, TaskOK, FreshOK, WorkOK, SlotOK, LiveOK, HandlerOK, PassOK, TodoOK, Bare, Lost,
        hasTree, agents, Regular
  <2> QED BY <1>1, <2>3, <2>4, <2>5, Settles
<1>5. CASE h[2] \in Lists /\ passEnds /\ UNCHANGED disk
  <2>1. Typed' /\ NoRivals'
    BY <1>0, <1>2, <1>5
    DEF Inv, Typed, NoRivals, passEnds, NoPass, Passes, RecoveryAssumption, agents
  <2> QED BY <1>0, <1>2, <1>5, <2>1, EndsKeeps DEF hasTree, agents
<1> QED BY <1>3, <1>4, <1>5 DEF HandlerThrows, t

-----------------------------------------------------------------------------
(* The theorems. *)

LEMMA InitInv ==
  ASSUME RecoveryAssumption, Init
  PROVE  Inv
<1>1. Typed /\ NoRivals
  BY DEF Init, Typed, NoRivals, Disks, Marks, Passes, NoPass, RecoveryAssumption
<1>2. ASSUME NEW t \in Tasks
      PROVE  TaskOK(t)
  BY
  DEF Init, NoPass, TaskOK, FreshOK, WorkOK, SlotOK, LiveOK, HandlerOK, PassOK, TodoOK, Bare,
      Lost, handlersOf
<1> QED BY <1>1, <1>2 DEF Init, NoPass, Inv

LEMMA StoreFailsKeeps ==
  ASSUME RecoveryAssumption, Regular, Inv, StoreFails
  PROVE  Inv'
  BY StartFailsKeeps, PassFailsKeeps, GuppFailsKeeps, StaleFailsKeeps, RecoverFailsKeeps,
     ReconcileFailsKeeps, HandlerThrowsKeeps
  DEF StoreFails

LEMMA NextInv ==
  ASSUME RecoveryAssumption, Regular, Inv, [Next]_vars
  PROVE  Inv'
<1>1. ASSUME NEW t \in Tasks, Dispatching(t)
      PROVE  Inv'
  BY <1>1, DispatchKeeps, TakeSlotKeeps, CreateTaskWorktreeKeeps, SpawnKeeps DEF Dispatching
<1>2. ASSUME NEW t \in Tasks, Heartbeat(t) \/ WriteResult(t) \/ Exit(t) \/ Notice(t)
                            \/ CleanUpAfterPush(t)
      PROVE  Inv'
  BY <1>2, HeartbeatKeeps, WriteResultKeeps, ExitKeeps, NoticeKeeps, CleanUpAfterPushKeeps
<1>3. ASSUME NEW h \in handlers, EnterReview(h) \/ Fail(h) \/ MergeAndClose(h) \/ RequeueMerge(h)
      PROVE  Inv'
  BY <1>3, EnterReviewKeeps, FailKeeps, MergeAndCloseKeeps, RequeueMergeKeeps
<1>4. ASSUME NEW t \in Tasks, Gupp(t) \/ StaleHeartbeat(t) \/ RecoverTask(t) \/ ReconcileSlot(t)
      PROVE  Inv'
  BY <1>4, GuppKeeps, StaleHeartbeatKeeps, RecoverTaskKeeps, ReconcileSlotKeeps
<1>5. ASSUME NEW p \in Projects, StartUp(p) \/ Watchdog(p)
      PROVE  Inv'
  BY <1>5, StartUpKeeps, WatchdogKeeps
<1>6. CASE Prune \/ NextList \/ StoreFails \/ Crash
  BY <1>6, PruneKeeps, NextListKeeps, StoreFailsKeeps, CrashKeeps
<1>7. CASE Restart \/ UNCHANGED vars
  BY <1>7, RestartKeeps
<1> QED BY <1>1, <1>2, <1>3, <1>4, <1>5, <1>6, <1>7 DEF Next, PassStep, HandlerEnds

(* The inductive invariant: every agent is watched or can be found again,    *)
(* and every outcome has one handler.                                        *)
THEOREM Invariance ==
  ASSUME Regular
  PROVE  Spec => []Inv
<1>1. Init => Inv
  BY InitInv, RecoveryAssumption
<1>2. Inv /\ [Next]_vars => Inv'
  BY NextInv, RecoveryAssumption
<1> QED BY <1>1, <1>2, PTL DEF Spec

(* TypeOK: the state stays well formed, and only what holds a slot is        *)
(* watched.                                                                  *)
THEOREM TypeCorrect ==
  ASSUME Regular
  PROVE  Spec => []TypeOK
<1>1. Inv => TypeOK
  BY DEF Inv, Typed, TypeOK, NoRivals, Disks, Passes, Marks, Lists
<1> QED BY <1>1, Invariance, PTL

(* AgentsKeepWorktrees: no recovery removes the worktree in which a process  *)
(* is still at work.                                                         *)
THEOREM WorktreesKept ==
  ASSUME Regular
  PROVE  Spec => []AgentsKeepWorktrees
<1>1. Inv => AgentsKeepWorktrees
  BY DEF Inv, TaskOK, LiveOK, AgentsKeepWorktrees
<1> QED BY <1>1, Invariance, PTL

(* NoRivals: no task is given a second process while an earlier one is still *)
(* at work.                                                                  *)
THEOREM NeverTwice ==
  ASSUME Regular
  PROVE  Spec => []NoRivals
<1>1. Inv => NoRivals
  BY DEF Inv
<1> QED BY <1>1, Invariance, PTL

(* OneHandler: the outcome of a process is handled by one handler at a time. *)
THEOREM HandledOnce ==
  ASSUME Regular
  PROVE  Spec => []OneHandler
<1>1. Inv => OneHandler
  <2> SUFFICES ASSUME Inv, NEW g \in handlers, NEW h \in handlers, g[1] = h[1]
               PROVE  g = h
    BY DEF OneHandler
  <2>1. h[1] \in Tasks /\ HandlerOK(h[1]) /\ g \in handlersOf(h[1]) /\ h \in handlersOf(h[1])
    BY DEF Inv, Typed, TaskOK, handlersOf
  <2> QED BY <2>1 DEF HandlerOK
<1> QED BY <1>1, Invariance, PTL

\* No step reopens a closed task: neither a handler, whose task has a slot, nor
\* a pass, whose lists hold what is in progress.
LEMMA ClosedKept ==
  ASSUME RecoveryAssumption, Regular, Inv, Next, NEW t \in Tasks, status[t] = "closed"
  PROVE  status'[t] = "closed"
<1>0. /\ t \notin slots /\ work[t] = "none" /\ live[t] = "none"
        /\ status \in [Tasks -> {"open", "in_progress", "closed"}]
  BY DEF Inv, Typed, TaskOK, SlotOK, WorkOK, LiveOK
<1>1. ASSUME NEW u \in Tasks, Dispatching(u)
      PROVE  status'[t] = "closed"
  BY <1>0, <1>1 DEF Dispatching, Dispatch, TakeSlot, CreateTaskWorktree, Spawn, failed, storeVars
<1>2. ASSUME NEW u \in Tasks,
             Heartbeat(u) \/ WriteResult(u) \/ Exit(u) \/ Notice(u) \/ CleanUpAfterPush(u)
      PROVE  status'[t] = "closed"
  BY <1>2 DEF Heartbeat, WriteResult, Exit, Notice, CleanUpAfterPush, storeVars
<1>3. ASSUME NEW h \in handlers, EnterReview(h) \/ Fail(h) \/ MergeAndClose(h) \/ RequeueMerge(h)
      PROVE  status'[t] = "closed"
  <2>1. h[1] \in Tasks /\ h \in handlersOf(h[1])
    BY DEF Inv, Typed, handlersOf
  <2>2. h[1] \in slots
    BY <2>1 DEF Inv, TaskOK, HandlerOK
  <2> QED BY <1>0, <1>3, <2>1, <2>2 DEF EnterReview, Fail, MergeAndClose, RequeueMerge, failed
<1>4. ASSUME NEW u \in Tasks, Gupp(u)
      PROVE  status'[t] = "closed"
  BY <1>0, <1>4 DEF Gupp, complete, reattach, respawnReviewer, reviewerFails, reopened, current
<1>5. ASSUME NEW u \in Tasks, StaleHeartbeat(u)
      PROVE  status'[t] = "closed"
  BY <1>0, <1>5 DEF StaleHeartbeat, complete, reattach, reopened, current
<1>6. ASSUME NEW u \in Tasks, RecoverTask(u) \/ ReconcileSlot(u)
      PROVE  status'[t] = "closed"
  <2>1. RecoverTask(u) \/ ReconcileSlot(u) => status[u] # "closed"
    BY DEF RecoverTask, ReconcileSlot, turn, Inv, TaskOK, TodoOK, SlotOK
  <2>2. status' = status \/ status' = [status EXCEPT ![u] = "open"]
    BY <1>6 DEF RecoverTask, ReconcileSlot, complete, reopened
  <2> QED BY <1>0, <1>6, <2>1, <2>2
<1>7. CASE Crash \/ Restart \/ Prune \/ NextList \/ StoreFails
  BY <1>7 DEF Crash, Restart, Prune, NextList, StoreFails, StartFails, PassFails, GuppFails,
     StaleFails, RecoverFails, ReconcileFails, HandlerThrows, storeVars
<1>8. ASSUME NEW p \in Projects, StartUp(p) \/ Watchdog(p)
      PROVE  status'[t] = "closed"
  BY <1>8 DEF StartUp, Watchdog, storeVars
<1> QED BY <1>1, <1>2, <1>3, <1>4, <1>5, <1>6, <1>7, <1>8 DEF Next, PassStep, HandlerEnds

(* ClosedStaysClosed: a task that was merged and closed is never put back to *)
(* work.                                                                     *)
THEOREM StaysClosed ==
  ASSUME Regular
  PROVE  Spec => ClosedStaysClosed
<1> DEFINE Kept == \A t \in Tasks : status[t] = "closed" => status'[t] = "closed"
<1>1. Inv /\ [Next]_vars => [Kept]_vars
  <2> SUFFICES ASSUME Inv, Next
               PROVE  Kept
    OBVIOUS
  <2> QED BY ClosedKept, RecoveryAssumption
<1>2. Spec => [][Kept]_vars
  BY <1>1, Invariance, PTL DEF Spec
<1> QED BY <1>2 DEF ClosedStaysClosed

=====
