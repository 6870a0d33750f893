# OpenSprint: a TLA+ model of the orchestrator

OpenSprint runs coding agents on the tasks of a project. One backend process (Node.js) per
machine keeps, for every project, a set of *slots* in which agents work on tasks in git
worktrees, and moves each task through coding, tests and review, and the merge to main. Users
submit feedback, of which an agent makes new tasks. The modules in this directory model that
orchestration, and what is checked and proved of it is about the interleavings that the code's
awaits, timers, child processes, crashes and users produce.

Paths below are relative to `src/packages/backend/src/services/` unless they say otherwise.

## 1. Inventory

The backend is single-threaded: code runs from one `await` to the next without interruption.
All concurrency comes from what is in flight at an `await`: several invocations of the loop,
outcome handlers of several tasks, timers, events of child processes, HTTP requests. State is
kept in three places: memory (`OrchestratorState`, one per project), the task store (SQL), and
the file system (worktrees, `result.json`, `assignment.json`, heartbeats, the git repository).
A crash loses the first and keeps the others, and the agents go on without their backend.

| Component | State | Operations | Interacts by | Hard because | Correct when |
| --- | --- | --- | --- | --- | --- |
| Dispatch loop, `orchestrator-loop.service.ts` | `loopActive`, `loopRunId`, timers `loop` and `loopStuckGuard`, locals of each `runLoop` | `runLoop` | started by `nudge`, `startRunLoop`, a deferred run, the stuck guard; calls the scheduler, dispatch, the task store | several invocations at once; the count of free slots goes stale; every early return must leave the loop restartable | slots stay within bounds; the loop is held by the invocation it belongs to; open tasks are picked up |
| Dispatch, `orchestrator-dispatch.service.ts` | the task's row, `state.slots` | `dispatchTask` | called by the loop, goes on to the coding phase | the task changes between selection, status and slot | a slot has somebody working in it |
| Orchestrator, `orchestrator.service.ts` | `state.slots`, counters, phase coordinators | `nudge`, `transition`, `handleCodingDone`, `handleReviewDone`, `killAgent`, `stopTaskAndFreeSlot`, `stopProject`, resumption after a restart | callbacks of the agents, calls of users | handlers act on the slot the task has *now* | one outcome per run; closed tasks hold no slot |
| Coding and review, `phase-executor.service.ts` | assignment files, worktrees | `executeCodingPhase`, `executeReviewPhase` | called by dispatch and by retries | preparation takes long, and the slot may be gone or new when it ends | an agent belongs to its task's slot |
| Agent lifecycle, `agent-lifecycle.ts`, `agent-client.ts` | run state (`exitHandled`, `activeProcess`, ...), timers, the process | `run`, `resumeMonitoring`, the monitors | `onDone` callbacks | four detectors race; run state is reused | each run is reported exactly once |
| Phase coordinator, `task-phase-coordinator.ts` | outcomes, `resolved`, `resolutionPromise` | `setTestOutcome`, `setReviewOutcome` | called by tests and reviewers, calls `resolveTestAndReview` | order of outcomes, failure of the synthesizer | decides once, on complete data |
| Failure handling, `failure-handler.service.ts` | `attempts:N` label, priority, slot's attempt and infrastructure retries | `handleTaskFailure`, `blockTask` | called with the end of a run; writes the task store | counts in three places, written between awaits | bounded retries; demotion after every third failure |
| Merge coordinator, `merge-coordinator.service.ts` | `pushInProgress`, pending cleanups | `performMergeAndDone`, `requeueTaskAfterMergeFailure`, `postCompletionAsync`, `pushMainSafe` | the commit queue, the task store, the branch manager | waits for the push, the queue and its own job; the push works on the repository beside the queue | closed only if on main; requeued with its count; every merge ends |
| Commit queue, `git-commit-queue.service.ts`, `../utils/git-lock.ts` | FIFO of jobs, `processing`, drain resolvers | `enqueue`, `enqueueAndWait`, `drain` | all commits to main | retries of a job after part of it was done; other actors in the same repository | one job at a time, in order; what lands was validated |
| Recovery, `recovery.service.ts`, `crash-recovery.service.ts`, heartbeats, watchdog | none of its own: reads assignments, heartbeats, slots, the task store | `runFullRecovery` at the start of each project and from the watchdog | re-attaches to processes, runs outcome handlers, resets tasks, removes worktrees | acts on what is merely in between; lists are read before awaits | every task in progress is worked on or reset, none of them twice |
| Task store, `task-store.service.ts` | tasks, labels, dependencies | `update`, labels, `readyWithStatusMap` | everyone | several writes per operation, no transaction across awaits | counts and statuses are not lost |
| Users' operations, `task.service.ts` | - | `markDone`, `unblock`, `deleteTask`, `updateTask` | the orchestrator, the task store | race with runs and handlers | what the user decided stays |
| Scheduler, `task-scheduler.ts` | - | `selectTasks` | the loop | - | no two tasks in one worktree |
| Branches, `branch-manager.ts` | repository, worktrees | git commands | everyone | partial failure; names matched as text | work in progress is not lost |
| Feedback, `feedback*.service.ts` | tables `feedback` and `feedback_inbox` | submit, claim, categorize, link or make tasks, recategorize, resolve, cancel, auto-resolve | the loop's first await; the task store | a run saves a copy it read minutes ago; users act meanwhile | each item served; none resolved or cancelled behind whose back tasks appear |
| Providers and keys, `provider-outage-backoff.service.ts`, `api-key-*.ts`, `blocked-auto-retry.service.ts` | pauses, exhausted keys | pause, rotate, resume | the loop, failure handling | resumption against new failures | dispatch resumes |
| Plans, PRD, self improvement, notifications, chat, deployments | documents, runs | generation, editing | task store, commit queue, model calls | little concurrency of their own | - |
| Events, websocket, frontend, Electron shell | caches | display | reads | ordering of updates | eventually shows the state |

`PROJECT.json` lists every component with its sources and its status, and every hazard at its
line.

## 2. The modules

| Module | Models | The code it stands for |
| --- | --- | --- |
| `TaskPhaseCoordinator` | the join of tests and reviews, the synthesizer's and the handler's promise, what `resolveTestAndReview` does with the two outcomes | `task-phase-coordinator.ts`, the review section of `orchestrator.service.ts` |
| `OutcomeJoin` | abstract: a join that decides once, on complete data, for good | - |
| `AgentLifecycle` | the monitoring of the runs of one slot, and the process | `agent-lifecycle.ts`, the spawn and kill of `agent-client.ts` |
| `OrchestratorLoop` | the loop, dispatch, the coding phase's preparation, slots, and everything that fills and frees them | `orchestrator-loop.service.ts`, `orchestrator-dispatch.service.ts`, parts of `orchestrator.service.ts` and `phase-executor.service.ts` |
| `SlotPool` | abstract: a bounded pool with one slot for a task and for a worktree | - |
| `TaskRetries` | the accounting of one task's failures and the users' operations that race with it | `failure-handler.service.ts`, the failure path of `merge-coordinator.service.ts`, parts of `task.service.ts` and `task-store.service.ts` |
| `GitCommitQueue` | the queue of jobs on main and the worker, with what others do to the same repository | `git-commit-queue.service.ts`, the operations of `branch-manager.ts` it calls |
| `SerialQueue` | abstract: jobs settle one at a time, in order, once | - |
| `MergeCoordinator` | EXTENDS the queue: merges of tasks and of epics, the push of main and its cleanup | `merge-coordinator.service.ts` |
| `Recovery` | crashes, and the recovery of a project's tasks, processes, slots and worktrees | `recovery.service.ts`, `crash-recovery.service.ts`, `watchdog.service.ts`, the parts of `orchestrator.service.ts` they call |
| `Feedback` | feedback from its submission to its tasks and its resolution | `feedback.service.ts`, `feedback-*.ts` |
| `MC*` | small instances for TLC | - |
| `*_proofs` | theorems | - |

The grain is the same everywhere: **one action reaches from one await to the next**, but for awaits
in between which nothing that the module's properties tell apart can happen. What is
awaited and settles (a promise, a timer, an event of a process) is a variable or a state of a
"program counter" field, and the continuation is an action of its own. Definitions marked
"Mutant" in the modules are deliberate faults that the properties must detect; no behaviour
specification uses them. Variables marked "history" record what happened for a property, and no
guard reads them.

How the modules meet: `MergeCoordinator` is composed with `GitCommitQueue` by EXTENDS, and
`MergesUseTheQueue` proves that it is one of the queue's environments. The others meet at
interfaces: what `OrchestratorLoop` sees of the end of an agent (`AgentDone`) is what
`AgentLifecycle` reports; its decision after a review is the one of `TaskPhaseCoordinator`;
`TaskRetries` follows one task where `OrchestratorLoop` has its failure as a step, `Recovery`
has it as `failed`, and `MergeCoordinator` counts the failures of merges.

### TaskPhaseCoordinator

`testOutcome`, `reviewOutcomes`, `resolved`, `synthesizing` and `resolutionPromise` are the
fields of the class; the promise is named by what it waits for. `snapshot` is the map that
`tryResolve`'s closures hold, `calls` the calls of the resolution handler. Both setters run to
their first await in one step, which includes `tryResolve`; the synthesizer and the handler
settle in steps of their own. A rejection is one of three values, by what
`isPendingValidationOnlyRejection` can see of its text. An outcome that arrives once resolved
is dropped by the code: there the model has no step.

### AgentLifecycle

The run state and the timer registry belong to the slot and are reused by its runs, so the
module has one of each and a counter of runs (`MaxRuns`, a bound). `Run` happens inside an
`onDone` handler, as in the code (retry, repair of structured output, general review). The
close event and the client's own result poll belong to a *process*, the manager's timers to the
run *state*; that difference is the source of what `Agent_open` shows. Time is the number of
thresholds the silence of the agent has passed. The first run may be one that was re-attached to
after a restart (`resumeMonitoring`): it has no child handle, hence no close event.

### OrchestratorLoop

`pass` holds one record per invocation of `runLoop`: which await it is at, and its locals.
`loop` is the shared part: `loopActive`, `loopRunId` (named by the invocation it belongs to),
the armed stuck guard and the deferred run. `slots` maps a task to its `AgentSlot` *object*, so
that a slot that was freed and given again differs from the old one. What happens to a slot is
modelled by what the loop can see of it: the agent ends (`AgentDone`), the outcome handlers
decide (`Decide`, `Continue`, `RetrySpawns`) and release (`Release`), users kill, close or delete
(`StopTask`, `FreeSlot`, `EndTask`), the watchdog and users reopen (`Reopen`). A selection is any
sequence of ready tasks that the scheduler's and the worktree filter's rules allow, which stands
for every scoring, provider pause and overlap. Whether a dispatched task is to be coded (`SpawnCoder`) or has a
merge to resume (`ResumeMerge`) is data of the task and left open; the pass awaits a merge and the handling of a
failed preparation alike (`OutcomeHandled`).

### TaskRetries

One task with its row (`status`, `priority`, `attempts`), its slot, the failure that is being
handled and the request of a user that is under way. `handler.at` names the write that
comes next; between any two writes users, the watchdog and a restart may act. `handler.slot` is
the slot object the handler has found, which lives on when the slot is taken away; `live` tells
whether the task still has it. `streak` is history: how often the task has failed in a row since
it was last demoted, blocked, reopened or merged.

Choices of abstraction: the cleanup of `stopTaskAndFreeSlot` is one step here (`OrchestratorLoop`
has it in two); one failure is handled at a time, the next being that of another run; the reading
of the label and its removal are one step; a failing store write is one of the status.
A retry in a slot that has been taken away leaves the slots as they are: the agent it spawns is
the subject of `AgentsHaveSlots` in `OrchestratorLoop`.

### GitCommitQueue and MergeCoordinator

`queue`, `processing` and `drainResolvers` are the fields of the service; `currentJob`, `step`,
`attempt`, `round` and `candidate` are the locals of `processNext` and `executeJob`, one step for
each await between which main or a branch may change. `main` is its history: what advanced it,
without the files. `offMain` are the branches that have work main lacks; `listed` is what
`git branch --merged` prints, which is not its complement: a new branch is listed although it
has no work, and a rewritten main contains fewer tips and the same work. `NameIn` is the textual
relation on branch names by which `verifyMerge` decides. `Fail` is every error that none of the
job's classes settles: the next attempt starts over. A job of the queue may fail after main has
moved (`Publish` and `SyncMain`, when the stash of the repository root does not come back).

`MergeCoordinator` adds the tasks and the push. `at[t]` is the await `performMergeAndDone` is at,
from `start` to `post`; `push` the await of `pushMainSafe`, of which there is one at a time.
The epic's tasks share a branch and are closed one by one without a merge; the one that finds all
closed merges. The push prepares main at the repository's root *outside* the queue
(`PreparePush`, `ResolvePush`), which is why the queue's `Others` exist and why its properties
are proved for any of them. `MarkDone` and `CloseByUser` are the two halves of a user's
`markDone`. `MergeSettles` may requeue a task whose job was resolved: what follows the merge in its `try`
(`markMergeValidationHealthy`, `merge-coordinator.service.ts:1671`) may throw. A task is merged at most
`MaxMerges` times, a bound.

### Recovery

Tasks of several projects, whose worktrees lie in one directory. `disk` is what a restart finds
(worktrees, the two copies of each assignment, heartbeats, results), `live` the processes, which
survive the backend; `slots`, `monitored`, `work` and `handlers` are memory and gone with a
`Crash`. `work` follows a dispatch from the status write to the spawn; `handlers` are
`handleCodingDone` and `handleReviewDone` in flight, with who called them.
`pass` is one `runFullRecovery`: the list it works through (`gupp`, which is
`recoverFromAssignments`, `stale` heartbeats, `orphans`, `stranded` tasks without assignee,
`slots`, `prune`), what is left of that list as it was read, the ids it excludes, and the handler it
awaits. Each task of a list is a step of its own (`Gupp`, `StaleHeartbeat`, `RecoverTask`,
`ReconcileSlot`, `Prune`); the rest of the system runs between them.

Errors of the task store have actions of their own (`StoreFails`), by what the code does with them. What reads
a list ends the pass, and `ensureRunning` starts the project all the same (`StartFails`, `PassFails`). An
error for one task is mostly caught and the list goes on, but not without effects: a requeueing whose status
write fails still removes the assignment and the worktree (`GuppFails`, `recovery.service.ts:264-275`);
whatever fails for a stale heartbeat, the worktree goes, without a look at the process (`StaleFails`,
`:370-380`); a task that is to be reset may lose its worktree and keep its status (`RecoverFails`), or its
slot (`ReconcileFails`, `:602`). A handler that throws is logged by whoever watches the agent, and recovery
takes it for an error of its own (`HandlerThrows`). `failures` counts the errors since the last pass that met
none; a crash also clears it. `before` is its value when the pass began.

`Overlap = FALSE` keeps dispatches, exits and outcomes away from a pass and a crash away from an agent
that has not written its first heartbeat. The code has no such protection; it holds mostly because a pass
takes moments, the watchdog runs every five minutes and a heartbeat comes within seconds. What the
code promises under that assumption is what the run checks; `Recovery_overlap` and
`Recovery_crash` show what happens without it.

### Feedback

`row` is the table `feedback`, `inbox` the table `feedback_inbox`; `run[l]` is an invocation of
the loop in `processFeedback`: the await it is at and its copy `item` of the row, which is
saved as a whole at the end. The Analyst answers with links, a similar task, proposals, a plan,
questions or a change of scope; every write of a proposal's tasks may fail on its own
(`CreateFails`, `CreateStandalone`, the branches without source of `StartTasks`). Users submit,
recategorize, resolve and cancel (`CancelFeedback`, `DeleteTasks`, `DeleteFeedback` are the steps
of a cancellation), close tasks (`CloseTask`), and `CheckAutoResolveOnTaskDone` follows each close.
A crash may fall between the two writes of a submission; `RetryPendingCategorizations` runs at the
start. `AutoResolve` is the project's setting `autoResolveFeedbackOnTaskCompletion`, which is off by
default (`shared/src/types/settings.ts:148`): without it the check returns at once.

Errors of the store are told apart by who catches them. `LoadFails`: the first read is outside every `try` but
the loop's, which logs that the feedback is left in the inbox (`orchestrator-loop.service.ts:203`), but its
entry was taken by the claim; the feedback waits for the next start. `RunFails`: an error in the run, that of
the last save (`feedback-categorization-apply.service.ts:98`) included, queues the feedback again
(`feedback-process.service.ts:35-41`), and the tasks the run has made are forgotten. `ApplyFails`: what
applies the answer catches its own errors and saves the copy as it is by then. `CancelFails` ends a
cancellation halfway; `CheckFails` is a check of auto-resolve that fails, which is only logged
(`task.service.ts:746`, `merge-coordinator.service.ts:1462`), and may have resolved a part (`Cascades`).
Submission, recategorization, resolution and the start may fail after their first write. `declined` are the
feedbacks that wait for the next start, `missed` the checks that were taken by a crash or an error.

`Overlap = FALSE` keeps users and others away from a feedback from the Analyst's answer to the
last write of its run: a few statements, where the Analyst takes minutes. Users still act while the
Analyst works.

`stray` records the tasks that the code is known to leave behind: those of a recategorized
feedback, of a failed plan, of an earlier attempt's source, of a crash or an error before the save, of a save
that fails, and those that the fallback of `createWithRetry` makes and forgets. They are leaks of the
code, named so that `TasksAreKnown` can say that the system makes no others as it is modelled here.

## 3. What is checked

All runs of a module share its MC module. The runs of `PROJECT.json`:

| Run | Bounds | Properties | Shows |
| --- | --- | --- | --- |
| `Coordinator_synthesis` | 2 angles, an unexpected reviewer, synthesizer | `TypeOK`, `SecondCallOnlyAfterSynthesis`, `DecidedOutcomeIsFinal`, `MergeIsEarned`, `CompleteJoinSettles`, `ImplementsJoin` | the join decides once, on complete data, and a missing verdict is not outvoted |
| `Agent_shared` | 2 runs in a slot | `TypeOK`, `MonitoredUntilHandled`, `CurrentRunReportedOnce`, `FinishedRunIsSettled` | the reuse of run state neither leaves a run unmonitored nor reports it twice while it is the current one |
| `Loop_pool` | 2 tasks, 1 slot, 2 invocations, deletions | `TypeOK`, `SlotIsWorkedOn` | no slot is held by nobody |
| `Loop_epic` | 3 tasks in 2 worktrees, 2 slots, failing baseline, 1 failure | `AgentsHaveSlots`, `ImplementsPool` | slots are a bounded pool with one slot for a worktree; agents work in their slots |
| `Loop_live` | 2 tasks, 1 slot, 1 stuck pass | `LoopHeldByItsRun`, `WorkIsPickedUp` | recovery by the guard keeps `loopActive` meaningful, and the loop does not go to sleep on work |
| `Retries_bounded` | thresholds of the code, every first priority, failures of the task, 1 lost write; users mark done and kill | `RetriesAreBounded`, `TaskIsSettled` | no endless work on a failing task |
| `Retries_demotion` | thresholds of the code, every first priority, no infrastructure failures, 12 attempts, 1 lost write; users unblock, reset and change priorities | `FailuresDemote` | demotion after every third failure |
| `Retries_count` | thresholds of the code, low priorities, all failures, 9 attempts, 1 restart, 1 lost write; users unblock and change priorities | `TypeOK`, `CountKeepsUp` | label and slot agree |
| `Merge_tasks` | 2 tasks on their own branches, one merged up to twice, 2 rounds of conflicts, main advanced once by others, a failing store; a user marks one done | `BranchesLandAsValidated`, `ResolvedIsOnMain`, `ClosedIsMerged`, `ImplementsSerialQueue` | what lands was validated, a closed task is on main, and the queue is serial, whatever the push does beside it |
| `Merge_epic` | 2 tasks on an epic's branch, an update of the PRD, 2 attempts of a job, the push | `EpicIsMerged`, `DrainedIsIdle`, `MergesEnd` | the last task merges the epic or is put back; no merge waits for ever |
| `Recovery_restart` | 2 tasks of a project, 2 dispatches, 1 crash, 1 error of the store until a whole pass goes through | `AgentsKeepWorktrees`, `NoRivals`, `ClosedStaysClosed`, `OneHandler`, `WorkIsTakenUp`, `SlotsAreGivenBack`, `ClosedIsPruned` | recovery hurts nobody who works, and leaves nothing behind |
| `Feedback_tasks` | 1 feedback, a given task and 2 to make, 2 proposals, 1 question, recategorization, crash or error; auto-resolve on | `TypeOK`, `TasksAreKnown`, `DoneIsResolved`, `ResolvedStaysResolved`, `FeedbackIsServed` | no task is made behind a feedback's back but by the leaks named; it is resolved with its last task; none waits for ever |

Why the bounds are enough. A join of two reviewers has every order of three outcomes; a third
angle adds no new kind of step. Runs of a slot interfere only with their immediate successor,
since starting one resets all shared state. Two invocations are what the guard's recovery
creates: the stale one and the fresh one; with one of two slot objects in use a freed and
re-created slot still differs from the old one. One slot and two tasks make every dispatch compete;
`Loop_epic` has two slots so that a batch has two tasks and worktrees matter. The three runs of
`TaskRetries` use the code's constants (3, 4 and 2). In `Retries_bounded` `MaxAttempts` is 24,
above the bound of `RetriesAreBounded`, so that it never cuts a behaviour short. In
`Retries_demotion` it is 12 and in `Retries_count` 9: three or four demotions, after which the
accounting repeats itself, each from another priority. `FailuresDemote` allows one more streak
for every store write that is lost, since the code does not repeat it. Two jobs are what the queue needs
to have one waiting behind one at work, and the second merge of a task meets what its first has left;
main moves once between any two steps of a job, by origin or by the push, so every check of a
candidate against main is put to the test. In `Recovery_restart` two tasks let a pass be between one and
the other, with the second dispatch going to either of them, before, between or after the crash. In
`Feedback_tasks` a feedback meets a task of others and up to two of its own, which makes a task that
others close, a partial failure and a rerun on top of its leftovers.

Deadlock is not checked: the coordinator, a slot whose last run has ended, a task that is
done or blocked, a merge queue without submitters, a recovered project without open tasks and a resolved
feedback really stop, and so does a pool whose tasks are all closed.

### Further configurations

The other `.cfg` files are kept beside the runs for whoever wants to look closer; run them by hand
with `tlc -config <name>.cfg MC<module>`. Four pass:

| Configuration | Bounds | Properties |
| --- | --- | --- |
| `Coordinator_general` | 2 angles, general reviewer, a stray angle, no synthesizer | `MergeIsEarned`, `CompleteJoinSettles`, `ImplementsJoin` |
| `Recovery_live` | 2 projects, 1 task, 1 crash, no errors, `Overlap` | `TypeOK`, `WorkIsTakenUp`, `SlotsAreGivenBack`, `ClosedIsPruned` |
| `Feedback_reply` | a feedback and a reply to it, a given task and 1 to make | all five of `Feedback_tasks` |
| `Feedback_twice` | those of `Feedback_tasks` with two questions, recategorizations, crashes or errors | all five of `Feedback_tasks` |

`Recovery_live` is without errors because it has two projects: errors might then hit each pass of the one
between whole passes of the other, and nothing would be settled in that project.

The others show what happens beyond the assumptions of a property above, or what stronger properties the
code does not have. Each property of a configuration is violated on its own: those after the first
are commented out.

| Configuration | Property | What the trace shows |
| --- | --- | --- |
| `Coordinator_open` | `ResolvesOnlyOnce` | the handler rejects after a successful synthesis; the same catch calls it again |
| | `DoesNotThrow` | the handler rejects in its second call too, and the promise of the reporters with it |
| | `FindingsBlockMerge` | "pending validation" of one reviewer and a finding in another's summary merge into an acceptable text |
| `Agent_open` | `FinishedRunIsReported` | the late close event of run 1 settles run 2, whose own end is then ignored |
| | `OneDetectorReports` | the late close event of run 1 reports run 1 again, now through run 2's flag |
| | `OnDoneAtMostOnce` | the handler of a dead process rejects and is called again |
| `Loop_open` | `LoopIsGuarded` | a pass processes feedback and nudges; its `finally` clears the guard of the pass it started |
| | `SlotIsWorkedOn` | an error after `start_task` leaves the slot for ever |
| | `BranchInUseIsNoFailure` | the branch-in-use error is handled as a crash of the agent |
| | `AgentsHaveSlots` | kill during preparation, new dispatch of the same task: two agents |
| | `ClosedTaskHoldsNoSlot` | a task marked done between selection and slot is closed and worked on |
| | `SlotsWithinLimit` | a stuck pass dispatches its batch after the fresh pass has filled the slots |
| `Loop_exhausted` | `ExhaustedIsNotDispatched` | the only remediation task is dispatched while it is being blocked |
| `Retries_open` | `FailuresDemote` | a crash as third attempt is retried, and the demotion waits for the sixth |
| | `DoneStaysDone` | marked done while a failure is handled, then reopened by the demotion |
| | `BlockedAtMaxPriority` | a user raises the priority, and the task is blocked for being at the lowest |
| | `MergeBlockIsAboutMerges` | five failures to code and one to merge block the task as six merge failures |
| | `ResetRestartsCount` | dispatched between the two writes of unblock, the task goes on at its old number |
| `Merge_prefix` | `ClosedIsMerged` | with ids `os-1.1` and `os-1.10` the text search of `verifyMerge` (`branch-manager.ts:524`) finds the one in the other: the task is closed unmerged, which `merge-coordinator.service.ts:1471` ("task is only closed after a successful merge") excludes |
| `Merge_lastdone` | `EpicIsMerged` | the last task of an epic is closed by a user, and nothing merges the epic |
| `Merge_open` | `MarkedDoneStaysDone` | a merge that fails reopens what the user has marked as done |
| | `UsedWorktreeIsKept` | the cleanup after a push takes the worktree of a task that is back at work |
| `Recovery_crash` | `PausedMergeKeepsWorktree` | the worktree of a merge that waits to be resumed is removed |
| | `RecoverySparesAgents` | `reconcileSlots` kills a new reviewer before its first heartbeat, against `docs/design/review-phase-crash-recovery.md:140` |
| `Recovery_errors` | `AgentsKeepWorktrees` | an error at start leaves an agent without a slot; another in the watchdog's pass is caught (`recovery.service.ts:370`), and the agent's worktree removed |
| | `NoRivals` | the same, after which the task is reset and dispatched beside the agent |
| `Recovery_overlap` | `NoRivals` | crash before the first heartbeat: a second process in the worktree |
| | `AgentsKeepWorktrees` | the ids to exclude are built once (`recovery.service.ts:122`), and a task dispatched since loses its worktree, though a pass is "safe to call multiple times" (`:101`) |
| | `ClosedStaysClosed` | a second handler of one outcome reopens what the first has closed |
| `Recovery_angles` | `RecoverySparesAgents` | reviewers of angles write their heartbeats elsewhere, and are killed |
| `Recovery_projects` | `AgentsKeepWorktrees` | the recovery of one project removes another's worktree (`crash-recovery.service.ts:17`) |
| `Recovery_epic` | `AgentsKeepWorktrees` | the worktree of an epic bears no task's name and is pruned (`branch-manager.ts:1851`) |
| `Feedback_open` | `AnswersAreKept` | an answer given while the Analyst works is overwritten by the copy |
| | `CancelSparesOthers` | cancelling deletes a task of others that was linked |
| | `PendingHasWork` | the tasks of a pending feedback are all deleted |
| `Feedback_overlap` | `TasksAreKnown` | cancelled between the check and the save, the tasks are made for nobody; two loops do so without `Overlap` |
| | `DoneIsResolved` | the last task is closed before it is saved as one of the feedback's |
| | `ResolvedStaysResolved` | resolved between the check and the save, the feedback is pending again |

### Fairness

Fairness is stated per action and only where the runtime gives it. Promises settle, timers fire, events are
delivered and a process dies after SIGKILL: weak fairness of the continuations. In `AgentLifecycle` the agent
itself is under no fairness: it need not write, speak or end. `FinishedRunIsReported` holds of one run and
fails of two (`Agent_open`); what two runs still have is `FinishedRunIsSettled`. In `OrchestratorLoop` the
60-second kicker makes `Nudge` fair, the deferred run is a timer, and outcome handlers end; `CheckPasses` and
`SelectSome` are *strongly* fair: an open approval, an outage or an overlap may empty a pass, not every pass
for ever. `WorkIsPickedUp` also assumes that feedback stops arriving, since the code claims feedback before
tasks without limit. In `TaskRetries` runs end, handlers finish, and the loop and the watchdog reach the task;
users are under no fairness. `TaskIsSettled` assumes that the kills stop: a user who kills every agent keeps
the task open, and no attempt is counted.

In `MergeCoordinator` the worker, the push and each merge go on: git commands and agents have timeouts. That
there is one worker and one push suffices for weak fairness; tasks need not be dispatched, nor agents be
ready. In `Recovery` dispatches that have begun, handlers, first heartbeats, the restart and the steps of a
pass are weakly fair; the exit of a watched process, its being noticed, and the passes themselves are
*strongly* fair, because `calm` and `settled` disable them again and again where the code only has time pass:
the monitor's interval and the watchdog's timer fire anyway. Errors are under no fairness, and at most
`MaxFailures` of them come before a whole pass goes through, which liveness needs: a store that fails in every
pass settles nothing. In `Feedback` what the backend has begun it goes on with, and the Analyst and the humans
who approve a plan answer. Questions are bounded (`MaxUpsets`): an Analyst that asks back each time is asked
again without limit, so `FeedbackIsServed` is about those that at last answer; what an error has lost is
served after the next start only (`declined`). Nothing is asked of users, and crashes and errors need not
happen.

## 4. What is proved

`tlapm` checks these theorems for every value of the constants that satisfies the modules' assumptions
(`CoordinatorAssumption`, `MaxRunsAssumption`, `LoopAssumption`, `RetriesAssumption`, `NoneAssumption`,
`QueueAssumption`, `MergeAssumption`, `RecoveryAssumption`, `FeedbackAssumption`), which TLC evaluates in
every run. Every invariant and every action property that a run checks is stated by one of them. Where a
theorem has hypotheses (`ASSUME ... PROVE`), they are on constants only and the instance of the run satisfies
them. That they are needed is shown by the further configurations of section 3 where they have one; otherwise
the text below says what goes wrong, which TLC finds when the run's configuration is changed accordingly.

- `TaskPhaseCoordinator_proofs`: type correctness; `SecondCallSafe`, `NoResultSafe`, `DecisionSafe`,
  `MergeSafe`; and `Refinement`, that the coordinator implements `OutcomeJoin`. The inductive invariant ties
  `resolved`, `resolutionPromise`, `snapshot` and `calls` together: while nothing is promised no call was
  made; while the synthesizer runs the snapshot is complete and without a missing verdict; a call carries the
  test outcome that is frozen from then on. The refinement maps each setter to a report that may decide at
  once, and the synthesizer's end to a decision. `NoResultSafe` (the handler is told `no_result` exactly when
  a verdict is missing) is proved and needs no run.
- `AgentLifecycle_proofs`: type correctness, `MonitoredSafe`, `ReportedOnceSafe`, for any number of runs.
  `CurrentRunReportedOnce` is not inductive: it needs that handlers, pending deaths and processes belong to
  runs that have started, and that an unhandled current run has not been reported.
- `OrchestratorLoop_proofs`: type correctness; `LoopHeld`, that `loopActive` is exactly "the invocation of
  `loopRunId` is at work", for any number of stuck passes and failures; `PoolRefinement`, that the slots
  implement `SlotPool` when no pass outlasts the guard. Its invariant is why a count of free slots that was
  read several awaits ago is still good: only one invocation is selecting or dispatching, the slots in use and
  what is left of its batch never exceed `MaxSlots`, the batch has distinct worktrees that no slot has, and
  between the two only releases happen. `SlotsWithinLimit` of `Loop_open` shows that the assumption is needed.
  `WorkedOn` (`SlotIsWorkedOn`) holds for any stuck passes and any requests of users, if nothing fails between
  `start_task` and the spawn (`MaxFailures = 0`): what frees a slot and what leaves one with no agent are the
  same step or have a handler in between, and `StillWorked` reduces every other step to "who works on a slot
  goes on or hands over". `AgentsInSlots` (`AgentsHaveSlots`) holds for any failures, if no pass outlasts the
  guard and no user takes a slot away (`MaxStuck = 0`, `Requests = {}`). It stands on the invariant of the
  refinement; its own one is that a task has one worker: an agent, a retry on its way to one, an outcome being
  handled or a preparation exclude each other and belong to the slot object the task has. `Loop_open` has the
  trace against each with failures and with kills; with `MaxStuck = 1` a pass that comes back after the guard
  has replaced it gives a task a new slot that the fresh pass has already got an agent for.
- `TaskRetries_proofs`: type correctness, whose point is that the priority stays in range, because a demotion
  is only chosen below `MaxPriority`; `CountSafe`, that the label and the slot agree up to the infrastructure
  retries. Its invariant follows the number through the handler: while a failure is counted the label is
  absent and the slot is ahead of the label by no more than its own retries and one. It assumes that users
  unblock and change priorities only: with a reset it is false in the code (`ResetRestartsCount`).
  `AttemptsBounded` (`RetriesAreBounded`) and `Demotes` (`FailuresDemote`) are about remainders: a task is
  demoted when its count is a multiple of the threshold, and the count goes by label, slot and handler. The
  first bounds the attempts by `Threshold * (spent + 2)`, where `spent` are the levels of priority and the
  lost writes used so far, and at the lowest level the next multiple blocks. The second bounds the streak by
  the distance to the last multiple plus a threshold for each lost write, through the requests of users
  between any two writes. Both exclude infrastructure failures and restarts: a retry of the one can skip the
  very number at which the code demotes (`Retries_open`), and the other loses a demotion with the memory that
  was to write it, as a lost write does, but without a bound in the property: both properties are violated in
  their runs' configurations with `MaxRestarts = 1`, and `RetriesAreBounded` with infrastructure failures.
  `AttemptsBounded` further allows users `done` and `kill` only, because who unblocks a task wants it worked
  on again.
- `GitCommitQueue_proofs`: for any jobs, branches, attempts and rounds, and any environment that acts as
  `Others`: `QueueTypes`; `LandAsValidated`, from the invariant that what was validated at `publish` is the
  candidate with the branch on top, so that a fast-forward can only add what the gates saw; `DrainIsExact`,
  from the invariant that an idle worker leaves neither jobs nor waiting callers; `ResolvedIsMerged`, if no
  branch's name occurs in another's: the invariant is that a listed branch has no work off main, and no agent
  commits while a job of its branch is pending; `QueueIsSerial`, the refinement: taking a job, its attempts
  and its steps are stutters, `Settle` is the abstract one, and the jobs that wait are distinct and those that
  are promised.
- `MergeCoordinator_proofs`: `MergesUseTheQueue`, that every step of the coordinator is one of the queue or
  leaves it alone, so that the theorems above hold under it; the condition on commits is one of
  `AgentCommits`, whose tasks on one branch take turns. `MergeTypeCorrect`, whose point is that failures never
  exceed the limit, because who reaches it is blocked and returns by a user only. `ClosesWhatIsMerged`, for
  tasks with branches of their own (`OwnBranch`) whose names keep apart (`NamesApart`): from the job's end to
  the close nobody takes the work off main. `EpicLands` (`EpicIsMerged`), for an epic of any size on a branch
  that no other task uses (`OneEpicBranch`): as long as all its tasks are closed and its work is off main, one
  of them is in charge, being about to look whether it is the last, merging as the last (two may do so at
  once), or about to reopen because that failed. It excludes users who close a task of the epic
  (`Merge_lastdone`) and failing writes of the store, since a merge whose requeueing fails leaves the epic
  closed and unmerged.
- `Recovery_proofs`: for any number of tasks, dispatches, crashes and passes, under `Regular`: passes do not
  meet the orchestrator's work (`~Overlap`), reviews have a general reviewer, worktrees are the tasks' own,
  there is one project, and between two errors of the task store a whole pass goes through or the backend is
  started again (`MaxFailures <= 1`; errors may come any number of times). `Recovery_overlap`, `_angles`,
  `_epic`, `_projects` and `_errors` drop one part each. `Inv` says of every task who answers for it: a
  dispatch between status and spawn; a slot, in which an agent is watched or one handler works; or an agent
  that a crash has left (`Lost`), which has its worktree, the assignment in it and a heartbeat, so that the
  pass after the restart finds it by one of the two before it reads the orphans. An error may take that pass
  from it; then `failures = 1`, the next pass meets no error, and the agent is on the lists that it reads. An
  error may also leave a slot to a task that has been reset, of which then nothing else is left (`Bare`). The
  rest ties a pass to what it has read: who is still on its list still is what the list is of, and whoever
  holds a slot is excluded from the lists of the dead. From it follow type correctness, `WorktreesKept`
  (`AgentsKeepWorktrees`), `NeverTwice` (`NoRivals`), `HandledOnce` (`OneHandler`) and `StaysClosed`
  (`ClosedStaysClosed`). TLC checked `Inv` on the instance of `Recovery_restart` before it was proved.
- `Feedback_proofs`: `TypeCorrect` holds without hypotheses, whatever several loops and users do at once; it
  carries that a run is always about a feedback whose row it has read. Under `Orderly` (one loop handles
  feedback at a time, and nobody overtakes a run between the answer and its last write), with the setting on
  or off and any number of errors, `Inv` says that a run's copy agrees with its row where it matters, that a
  cancellation has noted all the tasks of its feedback, that the tasks only a run knows of are open and for
  its feedback, and, with the setting on, that a pending feedback with tasks has one that is open or whose
  check is to come. From it: `TasksKnown` (`TasksAreKnown`), which says how a task can be forgotten, not that
  none is; `DoneResolved` (`DoneIsResolved`), which says nothing of projects without the setting, where such
  feedback stays pending until a user resolves it; `ResolvedStays` (`ResolvedStaysResolved`), which leaves out
  the run that took the feedback up resolved, before it was recategorized. `Feedback_overlap` has a trace
  against each without `Orderly`.

Only model-checked: liveness (`CompleteJoinSettles`, `FinishedRunIsSettled`, `WorkIsPickedUp`,
`TaskIsSettled`, `MergesEnd`, `WorkIsTakenUp`, `SlotsAreGivenBack`, `ClosedIsPruned`, `FeedbackIsServed`),
which the prover does not reach, and what a recursive function computes for every input (`Thread` of
`Feedback`). What the passing configurations of section 3 check beyond the runs (`Recovery_live`, with two
projects and `Overlap`) is not proved either: `Regular` excludes it.

## 5. What is not modelled, and the plan

Left out of the modules above: in `Recovery`, what a handler that throws has done before it throws, the errors
that the outcome handlers themselves swallow (`TaskRetries` has them), errors of a merge that the loop
resumes, and what `ensureRunning` reads before the pass; in `Feedback`, changes of the auto-resolve setting
while the backend runs; deletion of a project (`stopProject`); providers' pauses and human approvals other
than as reasons for an empty pass; the agents of the review phase one by one; failures of the label's writes;
the "branches" mode of work without worktrees; the wording of summaries, comments and events;
`orphan-recovery.service.ts`, which nothing in the backend calls. Not modelled at all are the parts without
concurrency of their own (plans, PRD, chat, routes), the display (events, frontend, Electron), and the
database, each statement of which is one step of the module that uses it.

Planned, in this order:

1. `ReviewPhase`: the reviewers of one task over the join of `OutcomeJoin`: angles
   read from the settings at two moments, results handed to a newer slot, the repair of a
   reviewer's output. Properties: every expected reviewer runs or the join is told; no result
   reaches another review.
2. `Backoff`: pauses, rotation of keys, exhaustion and resumption.
3. `TaskRetries` extended by failing label writes.
4. Proofs with weaker hypotheses: `RetriesAreBounded` and `FailuresDemote` through restarts, which needs a
   bound in the property for each of them; `Recovery` for several projects whose worktrees do not meet.
