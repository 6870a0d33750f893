------------------------------ MODULE Recovery ------------------------------
(* Crashes of the backend and what repairs them: runFullRecovery of          *)
(* services/recovery.service.ts, once per project at start and then from the *)
(* watchdog, with the parts of orchestrator.service.ts it calls back.  Agents*)
(* are processes of their own, which survive the backend; what it knows of   *)
(* them after a restart are the files they share: the worktree, and in it    *)
(* assignment, heartbeat and result.  Worktrees of all projects lie in one   *)
(* directory.  The steps of a pass interleave with the rest of the system.   *)
EXTENDS Integers, FiniteSets

CONSTANTS
  Projects, Tasks, ProjectOf,
  Worktrees, WorktreeOf,  \* the worktree of each task, named after it or its epic
  ReviewAngles,   \* reviews are split by angle, without a general reviewer
  Overlap,        \* passes meet dispatches, first heartbeats, exits and handlers,
                  \* and the backend may crash before an agent's first heartbeat
  MaxAttempts,    \* bound: dispatches
  MaxCrashes,     \* bound: crashes of the backend
  MaxFailures,    \* bound: errors of the task store before a pass goes through whole
  None

ASSUME RecoveryAssumption ==
  /\ ProjectOf \in [Tasks -> Projects] /\ WorktreeOf \in [Tasks -> Worktrees]
  /\ Tasks \cap Worktrees = {t \in Tasks : WorktreeOf[t] = t}
  /\ \A t, u \in Tasks : WorktreeOf[t] = WorktreeOf[u] => ProjectOf[t] = ProjectOf[u]
  /\ ReviewAngles \in BOOLEAN /\ Overlap \in BOOLEAN
  /\ MaxAttempts \in Nat /\ MaxCrashes \in Nat /\ MaxFailures \in Nat
  /\ None \notin Tasks \cup Projects

VARIABLES
  status, assignee, resumes,  \* the task store: status, whether an agent is the
                              \* assignee, whether the merge is to be retried
  disk,       \* [trees, inTree, inRepo, beats, results]: the worktrees, the two
              \* copies of each assignment.json (its phase), heartbeats, results
  live,       \* the process that works on each task: its phase or "none"
  rivals,     \* tasks given a process while an earlier one was still running
  slots,      \* tasks that hold a slot
  monitored,  \* tasks whose process the lifecycle manager watches
  work,       \* how far the dispatch of each task is
  handlers,   \* <<task, whose call, phase>>: handleCodingDone, handleReviewDone
  up,         \* the backend runs
  started,    \* projects whose ensureRunning is through
  pass,       \* the recovery pass: [at, project, exclude, todo, awaits, before],
              \* the last of them the failures there had been when it began
  attempts, crashes, failures

storeVars == <<status, assignee, resumes>>
memory == <<slots, monitored, work, handlers>>
bounds == <<attempts, crashes, failures>>
system == <<up, started>>
agents == <<live, rivals>>
vars == <<storeVars, disk, agents, memory, system, pass, bounds>>

Phases == {"coding", "review"}
Lists == {"gupp", "stale", "slots"}  \* of a pass, those whose tasks may be at their end
NoPass == [at |-> "idle", project |-> None, exclude |-> {}, todo |-> {}, awaits |-> None,
           before |-> 0]

tasksOf(p) == {t \in Tasks : ProjectOf[t] = p}
hasOwnTree(t) == WorktreeOf[t] = t
hasTree(t) == WorktreeOf[t] \in disk.trees

\* readAssignment: the copy in the worktree of that name, else the repository's.
assignment(t) ==
  IF hasOwnTree(t) /\ disk.inTree[t] # "none" THEN disk.inTree[t] ELSE disk.inRepo[t]

\* The heartbeat names a process that exists.
pidAlive(t) == t \in disk.beats /\ live[t] # "none"

\* git worktree remove --force, or rm -r: with all the files in it.
removed(d, w) ==
  LET outside(S) == {t \in S : WorktreeOf[t] # w}
  IN [d EXCEPT !.trees = @ \ {w}, !.beats = outside(@), !.results = outside(@),
               !.inTree = [t \in Tasks |-> IF WorktreeOf[t] = w THEN "none" ELSE @[t]]]

unassigned(d, t) == [d EXCEPT !.inTree[t] = "none", !.inRepo[t] = "none"]

\* An assignment for the phase is written, and no result is there yet.
assigned(d, t, phase) ==
  [d EXCEPT !.inTree[t] = phase, !.inRepo[t] = phase, !.results = @ \ {t}]

silent(d, t) == [d EXCEPT !.beats = @ \ {t}]

\* archiveSession removes the task's directory of active files.
archived(d, t) == [silent(unassigned(d, t), t) EXCEPT !.results = @ \ {t}]

Init ==
  /\ status = [t \in Tasks |-> "open"]
  /\ assignee = [t \in Tasks |-> FALSE]
  /\ resumes = [t \in Tasks |-> FALSE]
  /\ disk = [trees |-> {}, inTree |-> [t \in Tasks |-> "none"],
             inRepo |-> [t \in Tasks |-> "none"], beats |-> {}, results |-> {}]
  /\ live = [t \in Tasks |-> "none"] /\ rivals = {}
  /\ slots = {} /\ monitored = {} /\ handlers = {}
  /\ work = [t \in Tasks |-> "none"]
  /\ up = TRUE /\ started = {} /\ pass = NoPass
  /\ attempts = 0 /\ crashes = 0 /\ failures = 0

-----------------------------------------------------------------------------
(* The orchestrator between passes: dispatch, agents and their handlers.     *)

calm == Overlap \/ pass.at = "idle"

\* dispatchTask: the status is written, and a slot taken after more awaits.
\* The retry of a merge has no assignee.
Dispatch(t) ==
  /\ ProjectOf[t] \in started /\ calm
  /\ status[t] = "open" /\ t \notin slots /\ work[t] = "none"
  /\ \A u \in Tasks \ {t} : WorktreeOf[u] = WorktreeOf[t] => u \notin slots /\ work[u] = "none"
  /\ attempts < MaxAttempts
  /\ attempts' = attempts + 1
  /\ status' = [status EXCEPT ![t] = "in_progress"]
  /\ assignee' = [assignee EXCEPT ![t] = ~resumes[t]]
  /\ work' = [work EXCEPT ![t] = "selected"]
  /\ UNCHANGED <<resumes, disk, agents, slots, monitored, handlers, system, pass, crashes,
                 failures>>

TakeSlot(t) ==
  /\ work[t] = "selected"
  /\ slots' = slots \cup {t}
  /\ \/ /\ resumes[t]
        /\ handlers' = handlers \cup {<<t, "loop", "review">>}
        /\ work' = [work EXCEPT ![t] = "none"]
        /\ resumes' = [resumes EXCEPT ![t] = FALSE]
     \/ /\ ~resumes[t]
        /\ work' = [work EXCEPT ![t] = "starting"]
        /\ UNCHANGED <<handlers, resumes>>
  /\ UNCHANGED <<status, assignee, disk, agents, monitored, system, pass, bounds>>

\* createTaskWorktree, which reuses the one that is there.
CreateTaskWorktree(t) ==
  /\ work[t] = "starting"
  /\ \/ t \in slots /\ disk' = [disk EXCEPT !.trees = @ \cup {WorktreeOf[t]}]
        /\ work' = [work EXCEPT ![t] = "prepared"]
     \/ t \notin slots /\ work' = [work EXCEPT ![t] = "none"] /\ UNCHANGED disk
  /\ UNCHANGED <<storeVars, agents, slots, monitored, handlers, system, pass, bounds>>

\* Assignment first, then the process.
spawned(t, phase) ==
  /\ disk' = assigned(disk, t, phase)
  /\ live' = [live EXCEPT ![t] = phase]
  /\ rivals' = IF live[t] = "none" THEN rivals ELSE rivals \cup {t}
  /\ slots' = slots \cup {t}
  /\ monitored' = monitored \cup {t}

\* Mutant: what it watches is killed and forgotten, and the slot stays.
SlotKept(t) ==
  /\ live' = IF t \in monitored THEN [live EXCEPT ![t] = "none"] ELSE live
  /\ monitored' = monitored \ {t} /\ UNCHANGED <<rivals, slots>>

\* The slot is given back; removeSlot kills what it watches.
released(t) ==
  /\ UNCHANGED rivals
  /\ live' = IF t \in monitored THEN [live EXCEPT ![t] = "none"] ELSE live
  /\ slots' = slots \ {t} /\ monitored' = monitored \ {t}

\* handleTaskFailure returns when the slot is gone.
failed(t) ==
  \/ t \notin slots /\ UNCHANGED <<status, assignee, disk, agents, slots, monitored>>
  \/ /\ t \in slots
     /\ status' = [status EXCEPT ![t] = "open"]
     /\ assignee' = [assignee EXCEPT ![t] = FALSE]
     /\ disk' = unassigned(removed(disk, WorktreeOf[t]), t)
     /\ released(t)

Spawn(t) ==
  /\ work[t] = "prepared"
  /\ work' = [work EXCEPT ![t] = "none"]
  /\ \/ t \in slots /\ hasTree(t) /\ spawned(t, "coding") /\ UNCHANGED <<status, assignee>>
     \/ ~(t \in slots /\ hasTree(t)) /\ failed(t)
  /\ UNCHANGED <<resumes, handlers, system, pass, bounds>>

\* The reviewers of angles write theirs to directories of their own.
beats(t) == ~(ReviewAngles /\ live[t] = "review")

Heartbeat(t) ==
  /\ t \in monitored /\ live[t] # "none" /\ hasTree(t)
  /\ beats(t) /\ t \notin disk.beats
  /\ disk' = [disk EXCEPT !.beats = @ \cup {t}]
  /\ UNCHANGED <<storeVars, agents, memory, system, pass, bounds>>

WriteResult(t) ==
  /\ live[t] # "none" /\ hasTree(t) /\ t \notin disk.results
  /\ disk' = [disk EXCEPT !.results = @ \cup {t}]
  /\ UNCHANGED <<storeVars, agents, memory, system, pass, bounds>>

\* The process exits, or what watches it has killed it for its silence.
Exit(t) ==
  /\ live[t] # "none" /\ (t \in monitored => calm)
  /\ live' = [live EXCEPT ![t] = "none"] /\ UNCHANGED rivals
  /\ UNCHANGED <<storeVars, disk, memory, system, pass, bounds>>

\* The exit, or a terminal result, is noticed: the handler of the phase starts
\* if the slot is there.
Notice(t) ==
  /\ calm
  /\ t \in monitored /\ (live[t] = "none" \/ t \in disk.results)
  /\ monitored' = monitored \ {t}
  /\ live' = [live EXCEPT ![t] = "none"] /\ UNCHANGED rivals
  /\ disk' = silent(disk, t)
  /\ handlers' = IF t \in slots THEN handlers \cup {<<t, "monitor", assignment(t)>>}
                 ELSE handlers
  /\ UNCHANGED <<storeVars, slots, work, system, pass, bounds>>

-----------------------------------------------------------------------------
(* The handlers' outcomes. *)

outcome(h) == h \in handlers /\ handlers' = handlers \ {h}

\* A coder that succeeded is followed by a reviewer, if the slot is there and
\* the worktree can be prepared; the tests run meanwhile.
EnterReview(h) ==
  LET t == h[1] IN
  /\ outcome(h) /\ h[3] = "coding"
  /\ \/ t \in slots /\ hasTree(t) /\ spawned(t, "review") /\ UNCHANGED <<status, assignee>>
     \/ ~(t \in slots /\ hasTree(t)) /\ failed(t)
  /\ UNCHANGED <<resumes, work, system, pass, bounds>>

Fail(h) ==
  /\ outcome(h)
  /\ failed(h[1])
  /\ UNCHANGED <<resumes, work, system, pass, bounds>>

\* performMergeAndDone: without the slot the task is put back.  The worktree
\* stays until a push cleans it up.
MergeAndClose(h) ==
  LET t == h[1] IN
  /\ outcome(h) /\ h[3] = "review"
  /\ assignee' = [assignee EXCEPT ![t] = FALSE]
  /\ \/ t \in slots /\ hasTree(t) /\ released(t)
        /\ status' = [status EXCEPT ![t] = "closed"]
        /\ disk' = archived(disk, t)
     \/ t \notin slots
        /\ status' = [status EXCEPT ![t] = "open"]
        /\ UNCHANGED <<disk, agents, slots, monitored>>
  /\ UNCHANGED <<resumes, work, system, pass, bounds>>

\* The worktree is kept.  A merge that failed is archived and goes back to a
\* coder; one that waits for the baseline is to be resumed as it is.
RequeueMerge(h) ==
  LET t == h[1] IN
  /\ outcome(h) /\ h[3] = "review" /\ t \in slots
  /\ status' = [status EXCEPT ![t] = "open"]
  /\ assignee' = [assignee EXCEPT ![t] = FALSE]
  /\ released(t)
  /\ \/ disk' = archived(disk, t) /\ UNCHANGED resumes
     \/ resumes' = [resumes EXCEPT ![t] = TRUE] /\ UNCHANGED disk
  /\ UNCHANGED <<work, system, pass, bounds>>

\* The worktrees of what a push has published.
CleanUpAfterPush(t) ==
  /\ up /\ status[t] = "closed" /\ hasOwnTree(t) /\ hasTree(t)
  /\ disk' = removed(disk, t)
  /\ UNCHANGED <<storeVars, agents, memory, system, pass, bounds>>

-----------------------------------------------------------------------------
(* The backend stops, with everything in its memory, and starts again. *)

Crash ==
  /\ up /\ crashes < MaxCrashes
  /\ Overlap \/ \A t \in Tasks : live[t] # "none" => t \in disk.beats \/ ~beats(t)
  /\ up' = FALSE /\ crashes' = crashes + 1 /\ failures' = 0
  /\ slots' = {} /\ monitored' = {} /\ handlers' = {}
  /\ work' = [t \in Tasks |-> "none"]
  /\ started' = {} /\ pass' = NoPass
  /\ UNCHANGED <<storeVars, disk, agents, attempts>>

Restart ==
  /\ ~up
  /\ up' = TRUE
  /\ UNCHANGED <<storeVars, disk, agents, memory, started, pass, bounds>>

-----------------------------------------------------------------------------
(* runFullRecovery. *)

\* findOrphanedAssignments: the copies in the repository of the project, and
\* those in the worktrees of a task, whose ever it is.
orphanedAssignments(p) ==
  {t \in Tasks : \/ ProjectOf[t] = p /\ disk.inRepo[t] # "none"
                 \/ hasOwnTree(t) /\ disk.inTree[t] # "none"}

\* findStaleHeartbeats: nothing has written them for two minutes.
staleHeartbeats == {t \in disk.beats : hasOwnTree(t) /\ t \notin monitored}

\* Mutant: only those that have left an assignment.
AssignedOrphans(p) ==
  {t \in tasksOf(p) : status[t] = "in_progress" /\ assignee[t] /\ assignment(t) # "none"}

orphanedTasks(p) == {t \in tasksOf(p) : status[t] = "in_progress" /\ assignee[t]}

\* Mutant: whatever is not open.
UnassignedTasks(p) ==
  {t \in tasksOf(p) : status[t] # "open" /\ ~assignee[t] /\ work[t] = "none"}

\* Those whose status was written just now are too young.
strandedTasks(p) ==
  {t \in tasksOf(p) : status[t] = "in_progress" /\ ~assignee[t] /\ work[t] = "none"}

goOn(at, exclude, todo) ==
  pass' = [pass EXCEPT !.at = at, !.exclude = exclude, !.todo = todo]

passEnds == pass' = NoPass /\ started' = started \cup {pass.project}

settled == Overlap \/ /\ handlers = {} /\ \A t \in Tasks : work[t] = "none"
                      /\ \A t \in monitored : live[t] # "none" /\ (t \in disk.beats \/ ~beats(t))

\* ensureRunning, before the loop of the project is kicked.
StartUp(p) ==
  /\ up /\ pass.at = "idle" /\ p \notin started /\ settled
  /\ pass' = [NoPass EXCEPT !.at = "gupp", !.project = p, !.before = failures,
                            !.todo = orphanedAssignments(p)]
  /\ UNCHANGED <<storeVars, disk, agents, memory, system, bounds>>

Watchdog(p) ==
  /\ up /\ pass.at = "idle" /\ p \in started /\ settled
  /\ pass' = [NoPass EXCEPT !.at = "stale", !.project = p, !.before = failures,
                            !.todo = staleHeartbeats, !.exclude = slots \cap tasksOf(p)]
  /\ UNCHANGED <<storeVars, disk, agents, memory, system, bounds>>

\* Mutant: the handler is started and not awaited.
NeverAwaited == TRUE

\* The pass goes on when the handler it called last is through.
awaited == ~\E h \in handlers : h[1] = pass.awaits /\ h[2] \in Lists

turn(at, t) == pass.at = at /\ t \in pass.todo /\ awaited

takenOn(t) == goOn(pass.at, pass.exclude \cup {t}, pass.todo \ {t})
passedOver(t) == goOn(pass.at, pass.exclude, pass.todo \ {t})

\* handleCompletedRecoveredAssignment: the handler of the phase runs, with a
\* new slot if there is none.
complete(t) ==
  /\ slots' = slots \cup {t}
  /\ handlers' = handlers \cup {<<t, pass.at, assignment(t)>>}
  /\ pass' = [pass EXCEPT !.exclude = @ \cup {t}, !.todo = @ \ {t}, !.awaits = t]
  /\ UNCHANGED <<status, assignee, disk, agents, monitored>>

\* resumeMonitoring of the process that is there.
reattach(t) ==
  /\ slots' = slots \cup {t} /\ monitored' = monitored \cup {t}
  /\ takenOn(t)
  /\ UNCHANGED <<status, assignee, disk, agents, handlers>>

\* resumeRecoveredReviewPhase without a process: another reviewer.
respawnReviewer(t) ==
  /\ spawned(t, "review") /\ takenOn(t)
  /\ UNCHANGED <<status, assignee, handlers>>

reopened(t) ==
  /\ status' = [status EXCEPT ![t] = "open"]
  /\ assignee' = [assignee EXCEPT ![t] = FALSE]

\* The preparation of that reviewer fails, and the task with it.
reviewerFails(t) ==
  /\ reopened(t) /\ takenOn(t)
  /\ disk' = unassigned(removed(disk, WorktreeOf[t]), t)
  /\ UNCHANGED <<agents, slots, monitored, handlers>>

discardAssignment(p, t) ==
  [removed(disk, WorktreeOf[t]) EXCEPT !.inRepo[t] = IF ProjectOf[t] = p THEN "none" ELSE @]

\* Mutant: reviewers are not taken over.
CodersOnly(t) == pidAlive(t) /\ assignment(t) = "coding"

canReattach(t) == pidAlive(t) /\ ~(assignment(t) = "review" /\ (ReviewAngles \/ ~hasTree(t)))

\* Mutant: the result of a process that has not ended yet.
AnyResult(t) == t \in disk.results /\ hasTree(t)

hasTerminalResult(t) == ~pidAlive(t) /\ t \in disk.results /\ hasTree(t)

current(t) == ProjectOf[t] = pass.project /\ status[t] = "in_progress"

respawns(t) ==
  ~pidAlive(t) /\ ~hasTerminalResult(t) /\ assignment(t) = "review" /\ hasTree(t)

requeues(t) == ~canReattach(t) /\ ~hasTerminalResult(t) /\ ~respawns(t)

\* recoverFromAssignments, one of them.
Gupp(t) ==
  /\ turn("gupp", t)
  /\ \/ /\ ~current(t)
        /\ disk' = discardAssignment(pass.project, t) /\ passedOver(t)
        /\ UNCHANGED <<status, assignee, agents, slots, monitored, handlers>>
     \/ current(t) /\ hasTerminalResult(t) /\ complete(t)
     \/ current(t) /\ canReattach(t) /\ reattach(t)
     \/ current(t) /\ respawns(t) /\ (respawnReviewer(t) \/ reviewerFails(t))
     \/ /\ current(t) /\ requeues(t)
        /\ reopened(t) /\ passedOver(t)
        /\ disk' = discardAssignment(pass.project, t)
        /\ UNCHANGED <<agents, slots, monitored, handlers>>
  /\ UNCHANGED <<resumes, work, system, bounds>>

\* recoverTask: only a worktree of its own is found under the task's id, and
\* the assignment in the repository stays.
recovered(d, t) == IF hasOwnTree(t) THEN removed(d, t) ELSE d

completed(t) == assignment(t) # "none" /\ hasTerminalResult(t)

\* recoverFromStaleHeartbeats, one of them.  A task that is not found in this
\* project loses its worktree.
StaleHeartbeat(t) ==
  /\ turn("stale", t)
  /\ LET ours == ProjectOf[t] = pass.project
         due == t \notin pass.exclude /\ current(t) IN
     \/ /\ ours /\ ~due /\ passedOver(t)
        /\ UNCHANGED <<status, assignee, disk, agents, slots, monitored, handlers>>
     \/ /\ ~ours /\ disk' = removed(disk, t) /\ passedOver(t)
        /\ UNCHANGED <<status, assignee, agents, slots, monitored, handlers>>
     \/ due /\ completed(t) /\ complete(t)
     \/ due /\ assignment(t) # "none" /\ canReattach(t) /\ reattach(t)
     \/ /\ due /\ ~completed(t)
        /\ reopened(t) /\ takenOn(t)
        /\ disk' = recovered(disk, t)
        /\ live' = [live EXCEPT ![t] = "none"] /\ UNCHANGED rivals
        /\ UNCHANGED <<slots, monitored, handlers>>
  /\ UNCHANGED <<resumes, work, system, bounds>>

\* recoverOrphanedTasks and recoverAssigneeLessInProgressTasks, one of them.
RecoverTask(t) ==
  /\ turn("orphans", t) \/ turn("stranded", t)
  /\ reopened(t) /\ takenOn(t)
  /\ disk' = recovered(disk, t)
  /\ UNCHANGED <<resumes, agents, memory, system, bounds>>

dead(t) == assignment(t) # "none" /\ ~pidAlive(t) /\ ~hasTerminalResult(t)

\* removeStaleSlot.
unslotted(t) == IF t \in slots THEN unassigned(removed(disk, WorktreeOf[t]), t) ELSE disk

\* reconcileSlots, one of them.
ReconcileSlot(t) ==
  /\ turn("slots", t)
  /\ \/ /\ assignment(t) = "none" \/ pidAlive(t)
        /\ passedOver(t)
        /\ UNCHANGED <<status, assignee, disk, agents, slots, monitored, handlers>>
     \/ completed(t) /\ complete(t)
     \/ /\ dead(t)
        /\ reopened(t) /\ released(t) /\ passedOver(t)
        /\ disk' = recovered(unslotted(t), t)
        /\ UNCHANGED handlers
  /\ UNCHANGED <<resumes, work, system, bounds>>

\* Mutant: every task of the list keeps its worktree.
PruneUnknown(p) ==
  ({WorktreeOf[t] : t \in tasksOf(p)} \cap disk.trees) \ (pass.exclude \cup tasksOf(p))

\* branchManager.pruneOrphanWorktrees: what git lists for this repository and
\* is not the name of a task that is not closed.
prunable(p) ==
  ({WorktreeOf[t] : t \in tasksOf(p)} \cap disk.trees)
    \ (pass.exclude \cup {t \in tasksOf(p) : status[t] # "closed"})

Prune ==
  /\ pass.at = "prune"
  /\ \/ \E w \in prunable(pass.project) :
          disk' = removed(disk, w) /\ UNCHANGED <<pass, started, failures>>
     \/ /\ prunable(pass.project) = {} /\ UNCHANGED disk
        /\ passEnds
        /\ failures' = IF failures = pass.before THEN 0 ELSE failures
  /\ UNCHANGED <<storeVars, agents, memory, up, attempts, crashes>>

\* The next list is read when the last one is through.  What is slotted is
\* asked once, after the assignments.
NextList ==
  /\ pass.at \notin {"idle", "prune"} /\ pass.todo = {} /\ awaited
  /\ LET p == pass.project IN
     \/ /\ pass.at = "gupp"
        /\ goOn("stale", pass.exclude \cup (slots \cap tasksOf(p)), staleHeartbeats)
     \/ pass.at = "stale" /\ goOn("orphans", pass.exclude, orphanedTasks(p) \ pass.exclude)
     \/ /\ pass.at = "orphans"
        /\ \/ goOn("stranded", pass.exclude, strandedTasks(p) \ pass.exclude)
           \/ p \notin started /\ goOn("stranded", pass.exclude, {})
     \/ pass.at = "stranded" /\ goOn("slots", pass.exclude, slots \cap tasksOf(p))
     \/ pass.at = "slots" /\ goOn("prune", pass.exclude, {})
  /\ UNCHANGED <<storeVars, disk, agents, memory, system, bounds>>

-----------------------------------------------------------------------------
(* Errors of the task store, and of the settings that are read with it.      *)

errs ==
  /\ failures < MaxFailures /\ failures' = failures + 1
  /\ UNCHANGED <<assignee, resumes, work, up, attempts, crashes>>

\* What reads a list of the pass ends it; ensureRunning goes on all the same.
StartFails(p) ==
  /\ up /\ pass.at = "idle" /\ p \notin started /\ settled
  /\ orphanedAssignments(p) # {} /\ errs
  /\ started' = started \cup {p}
  /\ UNCHANGED <<status, disk, agents, slots, monitored, handlers, pass>>

PassFails ==
  /\ pass.at \in {"stale", "orphans", "stranded", "slots"} /\ pass.todo = {} /\ awaited /\ errs
  /\ pass.at = "stranded" => slots \cap tasksOf(pass.project) # {}
  /\ passEnds
  /\ UNCHANGED <<status, disk, agents, slots, monitored, handlers>>

\* The write that requeues is given up and the files go; the call that resumes
\* a review ends the pass, before it has done anything or with the new slot.
GuppFails(t) ==
  /\ turn("gupp", t) /\ current(t) /\ errs
  /\ \/ /\ requeues(t)
        /\ disk' = discardAssignment(pass.project, t) /\ passedOver(t)
        /\ UNCHANGED <<status, slots, started>>
     \/ /\ assignment(t) = "review" /\ passEnds
        /\ slots' = slots \/ (respawns(t) /\ slots' = slots \cup {t})
        /\ UNCHANGED <<status, disk>>
  /\ UNCHANGED <<live, rivals, monitored, handlers>>

\* Whatever fails is caught, and the worktree removed; unless the settings
\* cannot be read for that.
StaleFails(t) ==
  /\ turn("stale", t) /\ t \notin pass.exclude /\ errs
  /\ LET lost == current(t) /\ ~completed(t) /\ live' = [live EXCEPT ![t] = "none"] IN
     /\ UNCHANGED live \/ lost
     /\ \/ disk' = removed(disk, t) /\ passedOver(t) /\ UNCHANGED started
        \/ passEnds /\ (UNCHANGED disk \/ (lost /\ disk' = removed(disk, t)))
  /\ UNCHANGED <<status, rivals, slots, monitored, handlers>>

\* recoverTask fails before the worktree is removed, or after.
RecoverFails(t) ==
  /\ turn("orphans", t) \/ turn("stranded", t)
  /\ errs
  /\ disk' \in {disk, recovered(disk, t)} /\ passedOver(t)
  /\ UNCHANGED <<status, agents, slots, monitored, handlers, started>>

ReconcileFails(t) ==
  /\ turn("slots", t) /\ errs /\ passEnds
  /\ \/ dead(t) /\ released(t) /\ disk' \in {unslotted(t), recovered(unslotted(t), t)}
     \/ /\ completed(t) /\ assignment(t) = "review"
        /\ UNCHANGED <<disk, agents, slots, monitored>>
  /\ UNCHANGED <<status, handlers>>

\* The handler of an outcome throws: what watches agents logs it, recovery does
\* as with an error of its own.
HandlerThrows(h) ==
  /\ outcome(h) /\ errs
  /\ \/ h[2] = "monitor" /\ UNCHANGED <<disk, pass, started>>
     \/ /\ h[2] = "stale" /\ disk' = removed(disk, h[1])
        /\ pass' = [pass EXCEPT !.exclude = @ \ {h[1]}] /\ UNCHANGED started
     \/ h[2] \in Lists /\ passEnds /\ UNCHANGED disk
  /\ UNCHANGED <<status, agents, slots, monitored>>

StoreFails ==
  \/ \E p \in Projects : StartFails(p)
  \/ PassFails
  \/ \E t \in Tasks : GuppFails(t) \/ StaleFails(t) \/ RecoverFails(t) \/ ReconcileFails(t)
  \/ \E h \in handlers : HandlerThrows(h)

-----------------------------------------------------------------------------
PassStep ==
  \/ \E t \in Tasks : Gupp(t) \/ StaleHeartbeat(t) \/ RecoverTask(t) \/ ReconcileSlot(t)
  \/ Prune \/ NextList

Dispatching(t) == Dispatch(t) \/ TakeSlot(t) \/ CreateTaskWorktree(t) \/ Spawn(t)

HandlerEnds == \E h \in handlers : EnterReview(h) \/ Fail(h) \/ MergeAndClose(h) \/ RequeueMerge(h)

Next ==
  \/ \E t \in Tasks : \/ Dispatching(t) \/ Heartbeat(t) \/ WriteResult(t) \/ Exit(t)
                       \/ Notice(t) \/ CleanUpAfterPush(t)
  \/ HandlerEnds \/ Crash \/ Restart
  \/ \E p \in Projects : StartUp(p) \/ Watchdog(p)
  \/ PassStep \/ StoreFails

Spec == Init /\ [][Next]_vars

\* What runs goes on running, a silent process that is watched is killed, the
\* backend is started again and the watchdog's timer fires for each project.
\* Strong where calm or settled keeps interrupting what only time would do.
Fairness ==
  /\ \A t \in Tasks : /\ WF_vars(TakeSlot(t) \/ CreateTaskWorktree(t) \/ Spawn(t))
                      /\ WF_vars(Heartbeat(t)) /\ SF_vars(t \in monitored /\ Exit(t))
                      /\ SF_vars(Notice(t))
  /\ WF_vars(HandlerEnds) /\ WF_vars(Restart) /\ WF_vars(PassStep)
  /\ \A p \in Projects : SF_vars(StartUp(p)) /\ SF_vars(Watchdog(p))

FairSpec == Spec /\ Fairness

-----------------------------------------------------------------------------
\* The state is well formed, and only what holds a slot is watched.
TypeOK ==
  /\ status \in [Tasks -> {"open", "in_progress", "closed"}]
  /\ assignee \in [Tasks -> BOOLEAN] /\ resumes \in [Tasks -> BOOLEAN]
  /\ disk.trees \subseteq Worktrees /\ disk.beats \cup disk.results \subseteq Tasks
  /\ disk.inTree \in [Tasks -> Phases \cup {"none"}]
  /\ disk.inRepo \in [Tasks -> Phases \cup {"none"}]
  /\ live \in [Tasks -> Phases \cup {"none"}] /\ rivals \subseteq Tasks
  /\ slots \subseteq Tasks /\ monitored \subseteq slots
  /\ work \in [Tasks -> {"none", "selected", "starting", "prepared"}]
  /\ handlers \subseteq Tasks \X ({"loop", "monitor"} \cup Lists) \X Phases
  /\ up \in BOOLEAN /\ started \subseteq Projects
  /\ pass.at \in {"idle", "gupp", "stale", "orphans", "stranded", "slots", "prune"}
  /\ attempts \in 0..MaxAttempts

\* No recovery, whatever it takes to be dead, orphaned or stale, removes the
\* worktree in which a process is still at work, also when an error of the task
\* store has kept the pass at start from taking the process over.  A second
\* error before a whole pass does: StaleFails.
AgentsKeepWorktrees == \A t \in Tasks : live[t] # "none" => hasTree(t)

\* No worktree is ever given to a second process beside one that an earlier
\* run of the backend, or a recovery, has lost sight of, by a crash or by an
\* error of the task store.  Two errors before a whole pass lead to one.
NoRivals == rivals = {}

\* A task that was merged and closed is never put back to work, by a handler
\* that runs a second time or by a recovery that read an older state.
ClosedStaysClosed == [][\A t \in Tasks : status[t] = "closed" => status'[t] = "closed"]_vars

\* The outcome of one process is handled once: recovery never starts a handler
\* for a task while another one is still at it.
OneHandler == \A g, h \in handlers : g[1] = h[1] => g = h

\* A recovery pass kills no process that the backend itself has started or
\* taken over and watches.
RecoverySparesAgents ==
  [][PassStep => \A t \in monitored : live[t] # "none" => live'[t] # "none"]_vars

\* A merge that waits to be resumed keeps the worktree it is to be resumed in.
PausedMergeKeepsWorktree == \A t \in Tasks : resumes[t] => hasTree(t)

\* A task in progress does not stay without slot, whatever crashed and when:
\* it is taken on again or put back.
WorkIsTakenUp ==
  \A t \in Tasks :
    (status[t] = "in_progress" /\ t \notin slots) ~> (status[t] # "in_progress" \/ t \in slots)

\* No slot is held for ever, neither one a recovery has made nor one whose
\* process died unnoticed.
SlotsAreGivenBack == \A t \in Tasks : t \in slots ~> t \notin slots

\* The worktree of a closed task does not stay on the disk.
ClosedIsPruned ==
  \A t \in Tasks : (status[t] = "closed" /\ hasTree(t)) ~> ~(status[t] = "closed" /\ hasTree(t))
=============================================================================
