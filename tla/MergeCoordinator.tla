--------------------------- MODULE MergeCoordinator ---------------------------
(* The merge of finished tasks: services/merge-coordinator.service.ts over   *)
(* the git commit queue, whose variables and worker it shares.  A task that  *)
(* is ready runs performMergeAndDone, which closes it or puts it back; tasks *)
(* of the epic, under the per_epic strategy, share a branch that the last of *)
(* them merges; each merge starts a push of main, unless one is running.     *)
EXTENDS GitCommitQueue

CONSTANTS
  Tasks,
  BranchOf,          \* the branch of each task
  Epic,              \* the tasks of the epic whose strategy is per_epic
  Pusher,            \* the caller of drain that pushes
  MaxMerges,         \* bound: merges of each task
  MaxMergeFailures,  \* maxMergeFailures
  HasOrigin,         \* the repository has a remote
  Users,             \* tasks that users mark as done
  StoreFails         \* writes of the task store fail while a merge is requeued

ASSUME MergeAssumption ==
  /\ BranchOf \in [Tasks -> Branches]
  /\ Epic \subseteq Tasks
  /\ MaxMerges \in [Tasks -> Nat] /\ MaxMergeFailures \in Nat \ {0}
  /\ HasOrigin \in BOOLEAN /\ Users \subseteq Tasks /\ StoreFails \in BOOLEAN
  /\ MergeJobs = UNION {{t} \X (1..MaxMerges[t]) : t \in Tasks}
  /\ Branch = [j \in MergeJobs |-> BranchOf[j[1]]]
  /\ Callers = Tasks \cup {Pusher} /\ Pusher \notin Tasks

VARIABLES
  at,              \* where the task is: with an agent, or in performMergeAndDone
  status,          \* its status in the store
  slots,           \* tasks that hold a slot
  merges,          \* jobs submitted for the task
  failures,        \* its cumulative attempts
  marking,         \* what the user does to it: nothing, stopped the agent, done
  pendingCleanup,
  push             \* where the push of main is

taskVars == <<at, status, slots, merges, failures, marking>>
pushVars == <<pendingCleanup, push>>
mergeVars == <<queueVars, taskVars, pushVars>>

Places == {"none", "agent", "start", "prepare", "waitPush", "checks", "drain",
           "drained", "merging", "requeue", "fail", "close", "release", "epic", "post"}

PushSteps == {"none", "drain", "drained", "prepare", "resolve", "gates", "origin", "cleanup"}

job(t) == <<t, merges[t]>>
pushInProgress == push # "none"

MergeInit ==
  /\ QueueInit
  /\ at = [t \in Tasks |-> "none"]
  /\ status = [t \in Tasks |-> "open"]
  /\ slots = {}
  /\ merges = [t \in Tasks |-> 0]
  /\ failures = [t \in Tasks |-> 0]
  /\ marking = [t \in Tasks |-> "no"]
  /\ pendingCleanup = {} /\ push = "none"

Go(t, place) == at' = [at EXCEPT ![t] = place]
SetStatus(t, s) == status' = [status EXCEPT ![t] = s]

-----------------------------------------------------------------------------
(* Before the merge: the loop, the agent and the user. *)

\* The loop gives the task a slot and a worktree on its branch, which is new
\* or the one of the last attempt.  Tasks of the epic take turns.
Dispatch(t) ==
  /\ at[t] = "none" /\ status[t] = "open" /\ t \notin slots
  /\ merges[t] < MaxMerges[t]
  /\ t \in Epic => slots \cap Epic = {}
  /\ SetStatus(t, "in_progress") /\ Go(t, "agent")
  /\ slots' = slots \cup {t}
  /\ (CreateBranch(BranchOf[t]) \/ UNCHANGED queueVars)
  /\ UNCHANGED <<merges, failures, marking>> /\ UNCHANGED pushVars

AgentCommits(t) ==
  /\ at[t] = "agent"
  /\ CommitOnBranch(BranchOf[t])
  /\ UNCHANGED taskVars /\ UNCHANGED pushVars

\* The task is ready to merge: its agent and the review are through, or this
\* is the retry of a merge.
Ready(t) ==
  /\ at[t] = "agent"
  /\ Go(t, "start")
  /\ UNCHANGED <<status, slots, merges, failures, marking>>
  /\ UNCHANGED queueVars /\ UNCHANGED pushVars

\* markDone: the agent is stopped and the slot freed first, then the task is
\* closed, whatever else is going on.
MarkDone(t) ==
  /\ t \in Users /\ status[t] # "closed" /\ marking[t] = "no"
  /\ marking' = [marking EXCEPT ![t] = "stopped"]
  /\ slots' = slots \ {t}
  /\ Go(t, IF at[t] = "agent" THEN "none" ELSE at[t])
  /\ UNCHANGED <<status, merges, failures>>
  /\ UNCHANGED queueVars /\ UNCHANGED pushVars

CloseByUser(t) ==
  /\ marking[t] = "stopped"
  /\ marking' = [marking EXCEPT ![t] = "done"]
  /\ SetStatus(t, "closed")
  /\ UNCHANGED <<at, slots, merges, failures>>
  /\ UNCHANGED queueVars /\ UNCHANGED pushVars

-----------------------------------------------------------------------------
(* performMergeAndDone. *)

\* Without its slot the task is requeued at once.
StartMerge(t) ==
  /\ at[t] = "start"
  /\ \/ t \in slots /\ Go(t, "prepare") /\ UNCHANGED status
     \/ t \notin slots /\ Go(t, "none") /\ SetStatus(t, "open")
  /\ UNCHANGED <<slots, merges, failures, marking>>
  /\ UNCHANGED queueVars /\ UNCHANGED pushVars

afterPrepare(t) == IF t \in Epic THEN "close" ELSE "checks"

\* waitForPushComplete waits for the push that runs now.
Prepare(t) ==
  /\ at[t] = "prepare"
  /\ Go(t, IF pushInProgress THEN "waitPush" ELSE afterPrepare(t))
  /\ UNCHANGED <<status, slots, merges, failures, marking>>
  /\ UNCHANGED queueVars /\ UNCHANGED pushVars

\* deferMergeValidationWhileDegraded, the gates of the base branch and those
\* of the task's worktree.
Checks(t) ==
  /\ at[t] = "checks"
  /\ \/ (Go(t, "drain") \/ Go(t, "requeue")) /\ UNCHANGED status
     \/ Go(t, "fail") /\ SetStatus(t, "open")
  /\ UNCHANGED <<slots, merges, failures, marking>>
  /\ UNCHANGED queueVars /\ UNCHANGED pushVars

DrainQueue(t) ==
  /\ at[t] = "drain"
  /\ Go(t, "drained")
  /\ Drain(t) \/ (quiet /\ UNCHANGED queueVars)
  /\ UNCHANGED <<status, slots, merges, failures, marking>> /\ UNCHANGED pushVars

SubmitMerge(t) ==
  /\ at[t] = "drained" /\ t \notin drainResolvers
  /\ merges[t] < MaxMerges[t]
  /\ Go(t, "merging")
  /\ merges' = [merges EXCEPT ![t] = @ + 1]
  /\ Enqueue(<<t, merges[t] + 1>>)
  /\ UNCHANGED <<status, slots, failures, marking>> /\ UNCHANGED pushVars

\* Mutant: the job is taken for done whatever became of it.
closeAnyway(t) == promise[job(t)] \in {"resolved", "rejected"}

landed(t) == promise[job(t)] = "resolved"

\* The cleanup is registered before the task is closed.  An error between the
\* merge and that, of markMergeValidationHealthy, requeues what has landed.
MergeSettles(t) ==
  /\ at[t] = "merging"
  /\ \/ /\ landed(t)
        /\ Go(t, IF t \in Epic THEN "post" ELSE "close")
        /\ pendingCleanup' = pendingCleanup \cup {t}
     \/ /\ promise[job(t)] \in {"resolved", "rejected"} /\ Go(t, "requeue")
        /\ UNCHANGED pendingCleanup
  /\ UNCHANGED <<status, slots, merges, failures, marking, push>> /\ UNCHANGED queueVars

\* Mutant: a task that is closed already is left closed.
RequeueUnlessClosed(t) ==
  /\ at[t] = "requeue"
  /\ Go(t, "fail")
  /\ failures' = [failures EXCEPT ![t] = @ + 1]
  /\ SetStatus(t, IF status[t] = "closed" THEN "closed"
                  ELSE IF failures'[t] < MaxMergeFailures THEN "open" ELSE "blocked")
  /\ UNCHANGED <<slots, merges, marking>>
  /\ UNCHANGED queueVars /\ UNCHANGED pushVars

\* requeueTaskAfterMergeFailure: too many attempts, or gates that cannot run,
\* block the task; an error of the store leaves it as it is.
Requeue(t) ==
  /\ at[t] = "requeue"
  /\ Go(t, "fail")
  /\ \/ /\ failures' = [failures EXCEPT ![t] = @ + 1]
        /\ \/ failures'[t] < MaxMergeFailures /\ SetStatus(t, "open")
           \/ SetStatus(t, "blocked")
     \/ StoreFails /\ UNCHANGED <<failures, status>>
  /\ UNCHANGED <<slots, merges, marking>>
  /\ UNCHANGED queueVars /\ UNCHANGED pushVars

\* releaseMergeSlot with outcome "fail".
FailMerge(t) ==
  /\ at[t] = "fail"
  /\ Go(t, "none") /\ slots' = slots \ {t}
  /\ UNCHANGED <<status, merges, failures, marking>>
  /\ UNCHANGED queueVars /\ UNCHANGED pushVars

\* closeTaskRecordAndReleaseSlot.
Close(t) ==
  /\ at[t] = "close"
  /\ Go(t, "release") /\ SetStatus(t, "closed")
  /\ UNCHANGED <<slots, merges, failures, marking>>
  /\ UNCHANGED queueVars /\ UNCHANGED pushVars

Release(t) ==
  /\ at[t] = "release"
  /\ slots' = slots \ {t}
  /\ Go(t, IF t \in Epic THEN "epic" ELSE "post")
  /\ UNCHANGED <<status, merges, failures, marking>>
  /\ UNCHANGED queueVars /\ UNCHANGED pushVars

epicIsClosed == \A t \in Epic : status[t] = "closed"

LastOfEpic(t) ==
  /\ at[t] = "epic"
  /\ Go(t, IF epicIsClosed THEN "checks" ELSE "none")
  /\ UNCHANGED <<status, slots, merges, failures, marking>>
  /\ UNCHANGED queueVars /\ UNCHANGED pushVars

-----------------------------------------------------------------------------
(* postCompletionAsync and pushMainSafe. *)

\* A push that finds another one in progress is skipped.
PostCompletion(t) ==
  /\ at[t] = "post"
  /\ Go(t, "none")
  /\ push' = IF pushInProgress THEN push ELSE "drain"
  /\ UNCHANGED <<status, slots, merges, failures, marking, pendingCleanup>>
  /\ UNCHANGED queueVars

PushTo(s) == push' = s /\ UNCHANGED pendingCleanup /\ UNCHANGED taskVars

\* The end of the push, whatever it came to, lets the merges go on that wait.
Finish ==
  /\ push' = "none"
  /\ at' = [t \in Tasks |-> IF at[t] = "waitPush" THEN afterPrepare(t) ELSE at[t]]
  /\ UNCHANGED <<status, slots, merges, failures, marking, pendingCleanup>>

PushDrain ==
  /\ push = "drain" /\ PushTo("drained")
  /\ Drain(Pusher) \/ (quiet /\ UNCHANGED queueVars)

PushDrained ==
  /\ push = "drained" /\ Pusher \notin drainResolvers
  /\ PushTo(IF HasOrigin THEN "prepare" ELSE "cleanup")
  /\ UNCHANGED queueVars

\* prepareMainForPush works on the repository root, outside the queue.
PreparePush ==
  /\ push = "prepare"
  /\ \/ PushTo("gates") /\ (RewriteMain \/ UNCHANGED queueVars)
     \/ PushTo("resolve") /\ ConflictAtRoot
     \/ Finish /\ UNCHANGED queueVars

\* The rounds of resolvePushRebaseConflicts, up to their end.
ResolvePush ==
  /\ push = "resolve"
  /\ \/ PushTo("gates") /\ (RewriteMain \/ ConflictGone)
     \/ Finish /\ ConflictGone

PushGates ==
  /\ push = "gates"
  /\ PushTo("origin") \/ Finish
  /\ UNCHANGED queueVars

PushMain ==
  /\ push = "origin"
  /\ PushTo("cleanup") \/ Finish
  /\ UNCHANGED queueVars

\* cleanupAfterSuccessfulPush: targets that are registered meanwhile are
\* cleaned up too; one that fails stays.
CleanUp(t) ==
  /\ push = "cleanup" /\ t \in pendingCleanup
  /\ pendingCleanup' = pendingCleanup \ {t}
  /\ DeleteBranch(BranchOf[t])
  /\ UNCHANGED push /\ UNCHANGED taskVars

EndOfPush ==
  /\ push = "cleanup"
  /\ Finish
  /\ UNCHANGED queueVars

Push ==
  \/ PushDrain \/ PushDrained \/ PreparePush \/ ResolvePush \/ PushGates \/ PushMain
  \/ \E t \in Tasks : CleanUp(t)
  \/ EndOfPush

\* What the user's resolution of a failed stash leaves.
RootIsResolved ==
  /\ push # "resolve" /\ unmerged
  /\ ConflictGone
  /\ UNCHANGED taskVars /\ UNCHANGED pushVars

\* commitPrd, from the routes and services that change SPEC.md.
UpdatePrd(j) ==
  /\ j \notin MergeJobs /\ Enqueue(j)
  /\ UNCHANGED taskVars /\ UNCHANGED pushVars

QueueWorks == Worker /\ UNCHANGED taskVars /\ UNCHANGED pushVars

Merge(t) ==
  \/ StartMerge(t) \/ Prepare(t) \/ Checks(t) \/ DrainQueue(t) \/ SubmitMerge(t)
  \/ MergeSettles(t) \/ Requeue(t) \/ FailMerge(t) \/ Close(t) \/ Release(t)
  \/ LastOfEpic(t) \/ PostCompletion(t)

MergeNext ==
  \/ \E t \in Tasks :
       Dispatch(t) \/ AgentCommits(t) \/ Ready(t) \/ MarkDone(t) \/ CloseByUser(t) \/ Merge(t)
  \/ \E j \in Jobs : UpdatePrd(j)
  \/ Push \/ RootIsResolved \/ QueueWorks

\* The continuations of awaits run and what they wait for outside ends: git
\* commands and agents have timeouts.
MergeSpec ==
  /\ MergeInit /\ [][MergeNext]_mergeVars
  /\ WF_mergeVars(QueueWorks) /\ WF_mergeVars(Push)
  /\ \A t \in Tasks : WF_mergeVars(Merge(t))

-----------------------------------------------------------------------------
(* Properties. *)

\* The coordinator's state has its type, and failures stay within the limit.
MergeTypeOK ==
  /\ QueueTypeOK
  /\ at \in [Tasks -> Places]
  /\ status \in [Tasks -> {"open", "in_progress", "closed", "blocked"}]
  /\ slots \subseteq Tasks
  /\ merges \in [Tasks -> Nat] /\ \A t \in Tasks : merges[t] <= MaxMerges[t]
  /\ failures \in [Tasks -> 0..MaxMergeFailures]
  /\ marking \in [Tasks -> {"no", "stopped", "done"}]
  /\ pendingCleanup \subseteq Tasks /\ push \in PushSteps

\* A task that the coordinator closes has its work on main: no rejected job,
\* push or other merge between the job and the close can make it otherwise.
ClosedIsMerged ==
  [][\A t \in Tasks \ Epic :
       at[t] = "close" /\ at'[t] = "release" => BranchOf[t] \notin offMain]_mergeVars

\* Once every task of the epic is closed and no merge of it is under way, the
\* work of the epic is on main.
EpicIsMerged ==
  epicIsClosed /\ (\A t \in Epic : at[t] = "none" /\ marking[t] # "stopped")
    => \A t \in Epic : BranchOf[t] \notin offMain

\* What a user has marked as done stays closed.
MarkedDoneStaysDone ==
  [][\A t \in Tasks :
       marking[t] = "done" /\ status[t] = "closed" => status'[t] = "closed"]_mergeVars

\* The cleanup after a push removes no worktree that a task is using.
UsedWorktreeIsKept ==
  [][\A t \in pendingCleanup \ pendingCleanup' :
       \A u \in slots : BranchOf[u] # BranchOf[t]]_mergeVars

\* Every merge ends: the waits for the push, for the queue to drain and for
\* the job never wait for each other.
MergesEnd == \A t \in Tasks : at[t] = "start" ~> at[t] = "none"
=============================================================================
