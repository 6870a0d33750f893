----------------------- MODULE MergeCoordinator_proofs -----------------------
(* Proofs about MergeCoordinator: it uses the queue as the queue's module    *)
(* says, so that what is proved of the queue holds of it, it closes no task  *)
(* whose work is not on main, and it leaves no finished epic off main.       *)
EXTENDS MergeCoordinator, GitCommitQueue_proofs

\* Only the tasks of the epic share a branch.
OwnBranch == \A t \in Tasks \ Epic, u \in Tasks : BranchOf[u] = BranchOf[t] => u = t

PlacesOK ==
  /\ at \in [Tasks -> Places]
  /\ merges \in [Tasks -> Nat] /\ \A t \in Tasks : merges[t] <= MaxMerges[t]
  /\ \A t \in Tasks : at[t] = "merging" => merges[t] \in 1..MaxMerges[t]

\* From the resolution of its job to its close, the work of a task stays on
\* main.
LandedOK ==
  \A t \in Tasks \ Epic :
    \/ at[t] = "close"
    \/ at[t] = "merging" /\ promise[job(t)] = "resolved"
    => BranchOf[t] \notin offMain

\* Steps that change neither the queue nor the submitted jobs.
Quiet(t) ==
  \/ Ready(t) \/ MarkDone(t) \/ CloseByUser(t) \/ StartMerge(t) \/ Prepare(t) \/ Checks(t)
  \/ MergeSettles(t) \/ Requeue(t) \/ FailMerge(t) \/ Close(t) \/ Release(t)
  \/ LastOfEpic(t) \/ PostCompletion(t)

LEMMA QuietStep ==
  ASSUME NEW t \in Tasks, PlacesOK, Quiet(t)
  PROVE  /\ UNCHANGED queueVars /\ UNCHANGED merges
         /\ \E p \in Places \ {"merging"} :
              /\ at' = [at EXCEPT ![t] = p]
              /\ p = "close" => t \in Epic \/ (at[t] = "merging" /\ promise[job(t)] = "resolved")
         \/ UNCHANGED <<queueVars, merges, at>>
<1> USE DEF Go, Places, PlacesOK
<1>1. CASE Ready(t) \/ StartMerge(t) \/ Checks(t) \/ Requeue(t) \/ FailMerge(t)
           \/ Close(t) \/ Release(t) \/ LastOfEpic(t) \/ PostCompletion(t)
  <2>1. UNCHANGED queueVars /\ UNCHANGED merges
    BY <1>1 DEF Ready, StartMerge, Checks, Requeue, FailMerge, Close, Release, LastOfEpic,
                PostCompletion
  <2>2. \E p \in Places \ {"merging", "close"} : at' = [at EXCEPT ![t] = p]
    BY <1>1 DEF Ready, StartMerge, Checks, Requeue, FailMerge, Close, Release, LastOfEpic,
                PostCompletion
  <2> QED BY <2>1, <2>2
<1>2. CASE MarkDone(t)
  <2>1. UNCHANGED queueVars /\ UNCHANGED merges
        /\ (at' = [at EXCEPT ![t] = "none"] \/ at' = [at EXCEPT ![t] = at[t]])
    BY <1>2 DEF MarkDone
  <2>2. [at EXCEPT ![t] = at[t]] = at
    OBVIOUS
  <2> QED BY <2>1, <2>2
<1>3. CASE CloseByUser(t)
  BY <1>3 DEF CloseByUser
<1>4. CASE Prepare(t)
  <2>1. UNCHANGED queueVars /\ UNCHANGED merges
    BY <1>4 DEF Prepare
  <2>2. \/ at' = [at EXCEPT ![t] = "waitPush"]
        \/ at' = [at EXCEPT ![t] = "checks"]
        \/ at' = [at EXCEPT ![t] = "close"] /\ t \in Epic
    BY <1>4 DEF Prepare, afterPrepare
  <2>3. {"waitPush", "checks", "close"} \subseteq Places \ {"merging"}
    OBVIOUS
  <2> HIDE DEF Places, PlacesOK, Go
  <2> QED BY <2>1, <2>2, <2>3
<1>5. CASE MergeSettles(t)
  BY <1>5 DEF MergeSettles, landed
<1> QED BY <1>1, <1>2, <1>3, <1>4, <1>5 DEF Quiet

LEMMA QuietKeeps ==
  ASSUME NEW t \in Tasks, PlacesOK, LandedOK, Quiet(t)
  PROVE  PlacesOK' /\ LandedOK'
<1>1. CASE UNCHANGED <<queueVars, merges, at>>
  BY <1>1 DEF PlacesOK, LandedOK, queueVars, job
<1>2. ASSUME UNCHANGED queueVars, UNCHANGED merges, NEW p \in Places \ {"merging"},
             at' = [at EXCEPT ![t] = p],
             p = "close" => t \in Epic \/ (at[t] = "merging" /\ promise[job(t)] = "resolved")
      PROVE  PlacesOK' /\ LandedOK'
  <2>1. PlacesOK'
    BY <1>2 DEF PlacesOK
  <2>2. ASSUME NEW u \in Tasks \ Epic,
               at'[u] = "close" \/ (at'[u] = "merging" /\ (promise[job(u)] = "resolved")')
        PROVE  BranchOf[u] \notin offMain'
    <3>1. promise' = promise /\ offMain' = offMain /\ job(u)' = job(u)
      BY <1>2 DEF queueVars, job
    <3>2. CASE u = t
      BY <1>2, <2>2, <3>1, <3>2 DEF PlacesOK, LandedOK
    <3>3. CASE u # t
      BY <1>2, <2>2, <3>1, <3>3 DEF PlacesOK, LandedOK
    <3> QED BY <3>2, <3>3
  <2> QED BY <2>1, <2>2 DEF LandedOK
<1> QED BY <1>1, <1>2, QuietStep

-----------------------------------------------------------------------------
(* The steps of the merges, as seen by the queue.                            *)

LEMMA PushOnQueue ==
  ASSUME MergeAssumption, PlacesOK, Push
  PROVE  /\ QueueNext \/ UNCHANGED queueVars
         /\ UNCHANGED <<merges, promise>> /\ offMain' \subseteq offMain
         /\ \/ UNCHANGED at
            \/ at' = [t \in Tasks |-> IF at[t] = "waitPush" THEN afterPrepare(t) ELSE at[t]]
<1>0. (\A t \in Tasks : BranchOf[t] \in Branches) /\ Pusher \in Callers
  BY DEF MergeAssumption
<1>1. CASE PushDrain
  BY <1>0, <1>1 DEF PushDrain, PushTo, Drain, QueueNext, taskVars, queueVars, repoVars
<1>2. CASE PushDrained \/ PushGates \/ PushMain \/ EndOfPush
  BY <1>2 DEF PushDrained, PushGates, PushMain, EndOfPush, PushTo, Finish, taskVars, queueVars
<1>3. CASE PreparePush
  BY <1>3 DEF PreparePush, PushTo, Finish, taskVars, queueVars, QueueNext, Others,
              RewriteMain, ConflictAtRoot, UNCHANGED_QUEUE
<1>4. CASE ResolvePush
  BY <1>4 DEF ResolvePush, PushTo, Finish, taskVars, queueVars, QueueNext, Others,
              RewriteMain, ConflictGone, UNCHANGED_QUEUE
<1>5. ASSUME NEW t \in Tasks, CleanUp(t)
      PROVE  /\ QueueNext /\ UNCHANGED <<merges, promise, at, offMain>>
  BY <1>0, <1>5 DEF CleanUp, taskVars, QueueNext, Others, DeleteBranch, UNCHANGED_QUEUE
<1> QED BY <1>1, <1>2, <1>3, <1>4, <1>5 DEF Push

LEMMA PushKeeps ==
  ASSUME MergeAssumption, PlacesOK, LandedOK, Push
  PROVE  PlacesOK' /\ LandedOK'
<1>1. UNCHANGED <<merges, promise>> /\ offMain' \subseteq offMain
  BY PushOnQueue
<1>2. CASE UNCHANGED at
  BY <1>1, <1>2 DEF PlacesOK, LandedOK, job
<1>3. CASE at' = [t \in Tasks |-> IF at[t] = "waitPush" THEN afterPrepare(t) ELSE at[t]]
  <2>1. PlacesOK'
    BY <1>1, <1>3 DEF PlacesOK, Places, afterPrepare
  <2>2. \A t \in Tasks \ Epic : at'[t] \in {"close", "merging"} => at'[t] = at[t]
    BY <1>3 DEF PlacesOK, afterPrepare
  <2>3. LandedOK'
    BY <1>1, <2>2 DEF LandedOK, job
  <2> QED BY <2>1, <2>3
<1> QED BY <1>2, <1>3, PushOnQueue

MergeInv == QueueInv /\ PlacesOK /\ LandedOK

LEMMA MergeOnQueue ==
  MergeAssumption /\ PlacesOK /\ [MergeNext]_mergeVars => [QueueNext]_queueVars
<1> SUFFICES ASSUME MergeAssumption, PlacesOK, [MergeNext]_mergeVars
             PROVE  QueueNext \/ UNCHANGED queueVars
  OBVIOUS
<1>0. \A t \in Tasks : BranchOf[t] \in Branches /\ t \in Callers
  BY DEF MergeAssumption
<1>1. ASSUME NEW t \in Tasks, Quiet(t)
      PROVE  UNCHANGED queueVars
  BY <1>1, QuietStep
<1>2. ASSUME NEW t \in Tasks, Dispatch(t) \/ AgentCommits(t) \/ DrainQueue(t)
      PROVE  QueueNext \/ UNCHANGED queueVars
  BY <1>0, <1>2 DEF Dispatch, AgentCommits, DrainQueue, QueueNext, Others
<1>3. ASSUME NEW t \in Tasks, SubmitMerge(t)
      PROVE  QueueNext
  <2>1. <<t, merges[t] + 1>> \in MergeJobs
    BY <1>3 DEF SubmitMerge, MergeAssumption, PlacesOK
  <2> QED BY <1>3, <2>1, QueueAssumption DEF SubmitMerge, QueueNext
<1>4. CASE RootIsResolved \/ QueueWorks \/ \E j \in Jobs : UpdatePrd(j)
  BY <1>4 DEF RootIsResolved, QueueWorks, UpdatePrd, QueueNext, Others
<1>5. CASE UNCHANGED mergeVars
  BY <1>5 DEF mergeVars
<1> QED BY <1>1, <1>2, <1>3, <1>4, <1>5, PushOnQueue DEF MergeNext, Merge, Quiet

-----------------------------------------------------------------------------
(* The worker settles a job with the work on main.                           *)

\* Outside the agents' commits, work does not leave main.
LEMMA WorkStays == QueueInv /\ Worker => offMain' \subseteq offMain
BY DEF Worker, QueueEmpty, TakeJob, CheckUnmerged, CommitSpec, SyncMain, SkipMerged, Rebase,
       ResolveRebase, MergeCandidate, RunGates, Publish, FastForward, repoVars

LEMMA WorkerLands ==
  ASSUME MergeAssumption, NamesApart, QueueInv, PlacesOK, LandedOK, QueueWorks
  PROVE  PlacesOK' /\ LandedOK'
<1>1. UNCHANGED <<at, merges>> /\ Worker
  BY DEF QueueWorks, taskVars
<1>2. PlacesOK'
  BY <1>1 DEF PlacesOK
<1>3. offMain' \subseteq offMain
  BY <1>1, WorkStays
<1>4. ASSUME NEW t \in Tasks \ Epic,
             at'[t] = "close" \/ (at'[t] = "merging" /\ (promise[job(t)] = "resolved")')
      PROVE  BranchOf[t] \notin offMain'
  <2>1. CASE at[t] = "close"
    BY <1>3, <2>1 DEF LandedOK
  <2>2. CASE at[t] = "merging"
    <3>1. job(t)' = job(t) /\ promise'[job(t)] = "resolved"
      BY <1>1, <1>4, <2>2 DEF job
    <3>2. job(t) \in MergeJobs /\ Branch[job(t)] = BranchOf[t]
      BY <2>2 DEF PlacesOK, job, MergeAssumption
    <3>3. CASE promise[job(t)] = "resolved"
      BY <1>3, <2>2, <3>3 DEF LandedOK
    <3>4. CASE promise[job(t)] = "queued"
      <4>1. QueueNext
        BY <1>1 DEF QueueNext
      <4> QED BY <3>1, <3>2, <3>4, <4>1, ResolvedStep
    <3>5. promise'[job(t)] # promise[job(t)] => promise[job(t)] = "queued"
      <4>1. job(t) \in Jobs /\ promise \in [Jobs -> {"none", "queued", "resolved", "rejected"}]
        BY <3>2, QueueAssumption DEF QueueInv, QueueTypeOK
      <4>2. \/ UNCHANGED promise
            \/ currentJob # NoJob /\ \E v \in {"resolved", "rejected"} : Settle(v)
        BY <1>1 DEF Worker, QueueEmpty, TakeJob, CheckUnmerged, CommitSpec, SyncMain, SkipMerged,
                    Rebase, ResolveRebase, MergeCandidate, RunGates, Publish, Fail, Goto,
                    QueueInv, WorkerOK
      <4> QED BY <4>1, <4>2 DEF Settle, QueueInv, JobsOK
    <3> QED BY <3>1, <3>3, <3>4, <3>5
  <2> QED BY <1>1, <1>4, <2>1, <2>2
<1> QED BY <1>2, <1>4 DEF LandedOK

LEMMA MergeKeeps ==
  ASSUME MergeAssumption, NamesApart, OwnBranch, QueueInv, PlacesOK, LandedOK,
         [MergeNext]_mergeVars
  PROVE  PlacesOK' /\ LandedOK'
<1>1. ASSUME NEW t \in Tasks, Quiet(t)
      PROVE  PlacesOK' /\ LandedOK'
  BY <1>1, QuietKeeps
<1>2. ASSUME NEW t \in Tasks, Dispatch(t)
      PROVE  PlacesOK' /\ LandedOK'
  <2>1. /\ UNCHANGED <<merges, promise, offMain>>
        /\ at' = [at EXCEPT ![t] = "agent"]
    BY <1>2 DEF Dispatch, Go, CreateBranch, UNCHANGED_QUEUE, queueVars
  <2> QED BY <2>1 DEF PlacesOK, LandedOK, Places, job
<1>3. ASSUME NEW t \in Tasks, AgentCommits(t)
      PROVE  PlacesOK' /\ LandedOK'
  <2>1. /\ UNCHANGED <<at, merges, promise>> /\ at[t] = "agent"
        /\ offMain' = offMain \cup {BranchOf[t]}
    BY <1>3 DEF AgentCommits, taskVars, CommitOnBranch, UNCHANGED_QUEUE
  <2> QED BY <2>1 DEF PlacesOK, LandedOK, OwnBranch, job
<1>4. ASSUME NEW t \in Tasks, DrainQueue(t)
      PROVE  PlacesOK' /\ LandedOK'
  <2>1. /\ UNCHANGED <<merges, promise, offMain>>
        /\ at' = [at EXCEPT ![t] = "drained"]
    BY <1>4 DEF DrainQueue, Go, Drain, queueVars, repoVars
  <2> QED BY <2>1 DEF PlacesOK, LandedOK, Places, job
<1>5. ASSUME NEW t \in Tasks, SubmitMerge(t)
      PROVE  PlacesOK' /\ LandedOK'
  <2>1. /\ at' = [at EXCEPT ![t] = "merging"] /\ UNCHANGED offMain
        /\ merges' = [merges EXCEPT ![t] = @ + 1] /\ merges[t] < MaxMerges[t]
        /\ Enqueue(<<t, merges[t] + 1>>)
    BY <1>5 DEF SubmitMerge, Go, Enqueue, repoVars
  <2>2. PlacesOK'
    BY <2>1 DEF PlacesOK, Places, MergeAssumption
  <2>3. ASSUME NEW u \in Tasks \ Epic,
               at'[u] = "close" \/ (at'[u] = "merging" /\ (promise[job(u)] = "resolved")')
        PROVE  BranchOf[u] \notin offMain'
    <3>1. promise' = [promise EXCEPT ![<<t, merges[t] + 1>>] = "queued"]
      BY <2>1 DEF Enqueue
    <3>2. <<t, merges[t] + 1>> \in MergeJobs
      BY <2>1 DEF PlacesOK, MergeAssumption
    <3>3. promise'[<<t, merges[t] + 1>>] = "queued"
      BY <3>1, <3>2, QueueAssumption DEF QueueInv, QueueTypeOK
    <3>4. CASE u = t
      BY <2>1, <2>3, <3>3, <3>4 DEF PlacesOK, job
    <3>5. CASE u # t
      <4>1. at'[u] = at[u] /\ merges'[u] = merges[u]
        BY <2>1, <3>5 DEF PlacesOK
      <4>2. promise'[<<u, merges[u]>>] = promise[<<u, merges[u]>>] \/ at[u] # "merging"
        <5>1. CASE at[u] = "merging"
          <6>1. <<u, merges[u]>> \in Jobs
            BY <5>1, QueueAssumption DEF PlacesOK, MergeAssumption
          <6> QED BY <6>1, <3>1, <3>5 DEF QueueInv, QueueTypeOK
        <5> QED BY <5>1
      <4> QED BY <2>1, <2>3, <4>1, <4>2 DEF LandedOK, job
    <3> QED BY <3>4, <3>5
  <2> QED BY <2>2, <2>3 DEF LandedOK
<1>6. CASE RootIsResolved
  BY <1>6 DEF RootIsResolved, ConflictGone, UNCHANGED_QUEUE, taskVars, PlacesOK, LandedOK, job
<1>7. ASSUME NEW j \in Jobs, UpdatePrd(j)
      PROVE  PlacesOK' /\ LandedOK'
  <2>1. /\ UNCHANGED <<at, merges, offMain>> /\ j \notin MergeJobs
        /\ promise' = [promise EXCEPT ![j] = "queued"]
    BY <1>7 DEF UpdatePrd, taskVars, Enqueue, repoVars
  <2>2. \A t \in Tasks : at[t] = "merging" => job(t) \in MergeJobs
    BY DEF PlacesOK, job, MergeAssumption
  <2>3. \A t \in Tasks : at[t] = "merging" => promise'[job(t)] = promise[job(t)]
    BY <2>1, <2>2 DEF QueueInv, QueueTypeOK
  <2> QED BY <2>1, <2>3 DEF PlacesOK, LandedOK, job
<1>8. CASE UNCHANGED mergeVars
  BY <1>8 DEF mergeVars, queueVars, taskVars, PlacesOK, LandedOK, job
<1> QED
  BY <1>1, <1>2, <1>3, <1>4, <1>5, <1>6, <1>7, <1>8, PushKeeps, WorkerLands
  DEF MergeNext, Merge, Quiet

-----------------------------------------------------------------------------

LEMMA PlacesStep == MergeAssumption /\ PlacesOK /\ [MergeNext]_mergeVars => PlacesOK'
<1> SUFFICES ASSUME MergeAssumption, PlacesOK, [MergeNext]_mergeVars
             PROVE  PlacesOK'
  OBVIOUS
<1>1. ASSUME NEW t \in Tasks, Quiet(t)
      PROVE  PlacesOK'
  BY <1>1, QuietStep DEF PlacesOK
<1>2. ASSUME NEW t \in Tasks, Dispatch(t) \/ DrainQueue(t)
      PROVE  PlacesOK'
  BY <1>2 DEF Dispatch, DrainQueue, Go, PlacesOK, Places
<1>3. ASSUME NEW t \in Tasks, SubmitMerge(t)
      PROVE  PlacesOK'
  BY <1>3 DEF SubmitMerge, Go, PlacesOK, Places, MergeAssumption
<1>4. CASE Push
  <2>1. UNCHANGED merges
    BY <1>4, PushOnQueue
  <2>2. CASE UNCHANGED at
    BY <2>1, <2>2 DEF PlacesOK
  <2>3. CASE at' = [t \in Tasks |-> IF at[t] = "waitPush" THEN afterPrepare(t) ELSE at[t]]
    BY <2>1, <2>3 DEF PlacesOK, Places, afterPrepare
  <2> QED BY <1>4, <2>2, <2>3, PushOnQueue
<1>5. CASE UNCHANGED taskVars
  BY <1>5 DEF taskVars, PlacesOK
<1> QED
  BY <1>1, <1>2, <1>3, <1>4, <1>5
  DEF MergeNext, Merge, Quiet, AgentCommits, RootIsResolved, UpdatePrd, QueueWorks, mergeVars

LEMMA MergeOnQueueAlways == MergeSpec => QueueSpec /\ []PlacesOK
<1>1. MergeInit => QueueInit /\ PlacesOK
  BY MergeAssumption DEF MergeInit, PlacesOK, Places
<1>2. PlacesOK /\ [MergeNext]_mergeVars => PlacesOK' /\ [QueueNext]_queueVars
  BY PlacesStep, MergeOnQueue, MergeAssumption
<1> QED BY <1>1, <1>2, PTL DEF MergeSpec, QueueSpec

\* The merges, the push and the agents use the queue and the repository only
\* in the ways the queue is proved for, so that its theorems hold of them.
THEOREM MergesUseTheQueue ==
  MergeSpec => /\ []QueueTypeOK /\ BranchesLandAsValidated
               /\ DrainedIsIdle /\ ImplementsSerialQueue
BY MergeOnQueueAlways, QueueTypes, LandAsValidated, DrainIsExact, QueueIsSerial, PTL

-----------------------------------------------------------------------------
(* The coordinator's own state.                                              *)

\* A task at the limit of its failures is out of the merge, and only the user
\* gets it out of "blocked".
TasksOK ==
  /\ status \in [Tasks -> {"open", "in_progress", "closed", "blocked"}]
  /\ failures \in [Tasks -> 0..MaxMergeFailures]
  /\ \A t \in Tasks :
       failures[t] = MaxMergeFailures
         => at[t] \in {"fail", "none"} /\ status[t] \in {"blocked", "closed"}
  /\ slots \subseteq Tasks
  /\ marking \in [Tasks -> {"no", "stopped", "done"}]
  /\ pendingCleanup \subseteq Tasks /\ push \in PushSteps

LEMMA PushTypes ==
  ASSUME PlacesOK, TasksOK, Push
  PROVE  TasksOK'
<1>1. /\ UNCHANGED <<status, slots, failures, marking>>
      /\ pendingCleanup' \subseteq pendingCleanup /\ push' \in PushSteps
  BY DEF Push, PushDrain, PushDrained, PreparePush, ResolvePush, PushGates, PushMain, CleanUp,
         EndOfPush, PushTo, Finish, taskVars, TasksOK, PushSteps
<1>2. \/ UNCHANGED at
      \/ at' = [t \in Tasks |-> IF at[t] = "waitPush" THEN afterPrepare(t) ELSE at[t]]
  BY DEF Push, PushDrain, PushDrained, PreparePush, ResolvePush, PushGates, PushMain, CleanUp,
         EndOfPush, PushTo, Finish, taskVars
<1>3. \A t \in Tasks : at[t] \in {"fail", "none"} => at'[t] = at[t]
  BY <1>2
<1> QED BY <1>1, <1>3 DEF TasksOK

LEMMA RequeueTypes ==
  ASSUME MergeAssumption, PlacesOK, TasksOK, NEW t \in Tasks, Requeue(t)
  PROVE  TasksOK'
<1>1. at[t] = "requeue" /\ failures[t] < MaxMergeFailures
  BY DEF Requeue, TasksOK, MergeAssumption
<1>2. /\ at' = [at EXCEPT ![t] = "fail"]
      /\ UNCHANGED <<slots, marking, pendingCleanup, push>>
  BY DEF Requeue, Go, pushVars
<1>3. CASE failures' = [failures EXCEPT ![t] = @ + 1]
  <2>1. failures' \in [Tasks -> 0..MaxMergeFailures] /\ failures'[t] = failures[t] + 1
    BY <1>1, <1>3 DEF TasksOK, MergeAssumption
  <2>2. \E s \in {"open", "blocked"} :
          /\ status' = [status EXCEPT ![t] = s]
          /\ failures'[t] = MaxMergeFailures => s = "blocked"
    BY <1>3, <2>1 DEF Requeue, SetStatus, TasksOK, MergeAssumption
  <2> QED BY <1>2, <1>3, <2>1, <2>2 DEF TasksOK, PlacesOK
<1>4. CASE UNCHANGED <<failures, status>>
  BY <1>1, <1>2, <1>4 DEF TasksOK, PlacesOK
<1> QED BY <1>3, <1>4 DEF Requeue

LEMMA TaskTypes ==
  ASSUME MergeAssumption, PlacesOK, TasksOK, [MergeNext]_mergeVars
  PROVE  TasksOK'
<1>1. ASSUME NEW t \in Tasks,
             Ready(t) \/ Prepare(t) \/ DrainQueue(t) \/ SubmitMerge(t) \/ FailMerge(t)
               \/ Release(t) \/ LastOfEpic(t)
      PROVE  TasksOK'
  <2>1. /\ UNCHANGED <<status, failures, marking, pendingCleanup, push>>
        /\ slots' \subseteq slots
        /\ at[t] \notin {"fail", "none"} \/ at'[t] \in {"fail", "none"}
        /\ \A u \in Tasks \ {t} : at'[u] = at[u]
    BY <1>1 DEF Ready, Prepare, DrainQueue, SubmitMerge, FailMerge, Release, LastOfEpic, Go,
                pushVars, PlacesOK
  <2> QED BY <2>1 DEF TasksOK
<1>2. ASSUME NEW t \in Tasks, Dispatch(t) \/ MarkDone(t) \/ CloseByUser(t)
      PROVE  TasksOK'
  BY <1>2 DEF Dispatch, MarkDone, CloseByUser, Go, SetStatus, pushVars, PlacesOK, TasksOK
<1>3. ASSUME NEW t \in Tasks, StartMerge(t) \/ Checks(t) \/ Close(t)
      PROVE  TasksOK'
  BY <1>3 DEF StartMerge, Checks, Close, Go, SetStatus, pushVars, PlacesOK, TasksOK
<1>4. ASSUME NEW t \in Tasks, MergeSettles(t) \/ PostCompletion(t)
      PROVE  TasksOK'
  <2>1. /\ UNCHANGED <<status, failures, slots, marking>>
        /\ pendingCleanup' \subseteq Tasks /\ push' \in PushSteps
        /\ at[t] \notin {"fail", "none"}
        /\ \A u \in Tasks \ {t} : at'[u] = at[u]
    BY <1>4 DEF MergeSettles, PostCompletion, Go, pushVars, PlacesOK, TasksOK, PushSteps
  <2> QED BY <2>1 DEF TasksOK
<1>5. CASE UNCHANGED <<taskVars, pushVars>>
  BY <1>5 DEF taskVars, pushVars, TasksOK
<1> QED
  BY <1>1, <1>2, <1>3, <1>4, <1>5, PushTypes, RequeueTypes
  DEF MergeNext, Merge, AgentCommits, RootIsResolved, UpdatePrd, QueueWorks, mergeVars

\* The state of the coordinator has its type, and no task's failures exceed
\* the limit: a task that reaches it is blocked and does not come back.
THEOREM MergeTypeCorrect == MergeSpec => []MergeTypeOK
<1>1. MergeInit => TasksOK
  BY MergeAssumption DEF MergeInit, TasksOK, PushSteps, MergeAssumption
<1>2. PlacesOK /\ TasksOK /\ [MergeNext]_mergeVars => TasksOK'
  BY TaskTypes, MergeAssumption
<1>3. QueueTypeOK /\ PlacesOK /\ TasksOK => MergeTypeOK
  BY DEF PlacesOK, TasksOK, MergeTypeOK
<1> QED BY <1>1, <1>2, <1>3, MergeOnQueueAlways, QueueTypes, PTL DEF MergeSpec

-----------------------------------------------------------------------------
\* When no branch's name occurs in the name of another and only the tasks of
\* the epic share a branch, the coordinator closes a task only with its work
\* on main, whatever the pushes, the other merges and the users do meanwhile.
THEOREM ClosesWhatIsMerged == NamesApart /\ OwnBranch /\ MergeSpec => ClosedIsMerged
<1> SUFFICES ASSUME NamesApart, OwnBranch
             PROVE  MergeSpec => ClosedIsMerged
  OBVIOUS
<1>1. MergeInit => LandedOK
  BY MergeAssumption DEF MergeInit, LandedOK
<1>2. QueueInv /\ PlacesOK /\ LandedOK /\ [MergeNext]_mergeVars => LandedOK'
  BY MergeKeeps, MergeAssumption
<1>3. LandedOK /\ [MergeNext]_mergeVars
        => [\A t \in Tasks \ Epic :
              at[t] = "close" /\ at'[t] = "release" => BranchOf[t] \notin offMain]_mergeVars
  BY DEF LandedOK
<1> QED
  BY <1>1, <1>2, <1>3, MergeOnQueueAlways, QueueInvariant, PTL DEF MergeSpec, ClosedIsMerged

-----------------------------------------------------------------------------
(* The work of an epic.                                                      *)

\* The tasks of the epic share one branch, which no other task uses, and no
\* user marks one of them as done.
OneEpicBranch ==
  /\ \A t, u \in Epic : BranchOf[t] = BranchOf[u]
  /\ Epic \cap Users = {}

\* A closed task of the epic that has yet to look whether it is the last, or
\* to merge the epic as the last, or to reopen because that failed.
Charged(t) ==
  \/ at[t] \in {"release", "epic", "checks", "drain", "drained", "requeue"}
  \/ at[t] = "merging" /\ promise[job(t)] # "resolved"

\* A task whose agent may commit is not closed, and as long as the whole epic
\* is closed and its work is off main, one of its tasks is in charge of it.
EpicOK ==
  /\ \A t \in Epic : marking[t] = "no"
  /\ \A t \in Epic :
       at[t] \in {"agent", "start", "prepare", "waitPush", "close"} => status[t] # "closed"
  /\ epicIsClosed /\ (\E t \in Epic : BranchOf[t] \in offMain) => \E t \in Epic : Charged(t)

\* What a step of one task has to keep.
LEMMA EpicStep ==
  ASSUME EpicOK, Epic \subseteq Tasks, NEW t \in Tasks,
         offMain' \subseteq offMain,
         \A u \in Epic : marking'[u] = marking[u],
         \A u \in Epic \ {t} : status'[u] = status[u] /\ at'[u] = at[u],
         \A u \in Epic \ {t} : Charged(u) => Charged(u)',
         t \in Epic =>
           /\ at'[t] \in {"agent", "start", "prepare", "waitPush", "close"} => status'[t] # "closed"
           /\ epicIsClosed /\ epicIsClosed' /\ Charged(t) => Charged(t)'
           /\ status[t] # "closed" /\ status'[t] = "closed" => Charged(t)'
  PROVE  EpicOK'
<1>1. \A u \in Epic : marking'[u] = "no"
  BY DEF EpicOK
<1>2. ASSUME NEW u \in Epic,
             at'[u] \in {"agent", "start", "prepare", "waitPush", "close"}
      PROVE  status'[u] # "closed"
  BY <1>2 DEF EpicOK
<1>3. ASSUME epicIsClosed', NEW b \in Epic, BranchOf[b] \in offMain'
      PROVE  \E u \in Epic : Charged(u)'
  <2>1. CASE epicIsClosed
    <3>1. PICK u \in Epic : Charged(u)
      BY <1>3, <2>1 DEF EpicOK
    <3> QED BY <1>3, <2>1, <3>1
  <2>2. CASE ~ epicIsClosed
    <3>1. PICK u \in Epic : status[u] # "closed"
      BY <2>2 DEF epicIsClosed
    <3>2. status'[u] = "closed"
      BY <1>3 DEF epicIsClosed
    <3> QED BY <3>1, <3>2
  <2> QED BY <2>1, <2>2
<1> QED BY <1>1, <1>2, <1>3 DEF EpicOK

\* The steps of a task that leave the queue and the jobs alone.
LEMMA EpicQuiet ==
  ASSUME MergeAssumption, StoreFails = FALSE, OneEpicBranch, PlacesOK, TasksOK, EpicOK,
         NEW t \in Tasks, Quiet(t)
  PROVE  EpicOK'
<1>0. Epic \subseteq Tasks
  BY DEF MergeAssumption
<1>1. /\ UNCHANGED <<promise, offMain, merges>>
      /\ \A u \in Epic : marking'[u] = marking[u]
      /\ \A u \in Tasks \ {t} : status'[u] = status[u] /\ at'[u] = at[u]
  <2>1. UNCHANGED queueVars /\ UNCHANGED merges
    BY QuietStep
  <2>2. \A u \in Epic : marking'[u] = marking[u]
    BY <1>0 DEF Quiet, Ready, MarkDone, CloseByUser, StartMerge, Prepare, Checks, MergeSettles,
           Requeue, FailMerge, Close, Release, LastOfEpic, PostCompletion,
           OneEpicBranch, EpicOK, TasksOK
  <2>3. \A u \in Tasks \ {t} : status'[u] = status[u]
    BY DEF Quiet, Ready, MarkDone, CloseByUser, StartMerge, Prepare, Checks, MergeSettles,
           Requeue, FailMerge, Close, Release, LastOfEpic, PostCompletion, SetStatus, TasksOK
  <2>4. \A u \in Tasks \ {t} : at'[u] = at[u]
    BY QuietStep DEF PlacesOK
  <2> QED BY <2>1, <2>2, <2>3, <2>4 DEF queueVars
<1>2. \A u \in Epic \ {t} : Charged(u) => Charged(u)'
  BY <1>0, <1>1 DEF Charged, job
<1>3. ASSUME t \in Epic
      PROVE  /\ at'[t] \in {"agent", "start", "prepare", "waitPush", "close"}
               => status'[t] # "closed"
             /\ epicIsClosed /\ epicIsClosed' /\ Charged(t) => Charged(t)'
             /\ status[t] # "closed" /\ status'[t] = "closed" => Charged(t)'
  <2>0. /\ at \in [Tasks -> Places]
        /\ status \in [Tasks -> {"open", "in_progress", "closed", "blocked"}]
    BY DEF PlacesOK, TasksOK
  <2>1. CASE MarkDone(t) \/ CloseByUser(t)
    BY <1>3, <2>1 DEF MarkDone, CloseByUser, OneEpicBranch, EpicOK
  <2>2. CASE Ready(t) \/ StartMerge(t) \/ Prepare(t)
    <3>1. /\ at[t] \in {"agent", "start", "prepare"}
          /\ status'[t] \in {status[t], "open"}
      BY <2>0, <2>2 DEF Ready, StartMerge, Prepare, SetStatus
    <3> QED BY <1>3, <3>1 DEF EpicOK, Charged
  <2>3. CASE Checks(t)
    <3>1. \/ at'[t] \in {"drain", "requeue"} /\ status'[t] = status[t]
          \/ at'[t] = "fail" /\ status'[t] = "open"
      BY <2>0, <2>3 DEF Checks, SetStatus, Go
    <3> QED BY <1>3, <3>1 DEF Charged, epicIsClosed
  <2>4. CASE MergeSettles(t)
    <3>1. /\ at[t] = "merging" /\ status'[t] = status[t]
          /\ \/ at'[t] = "requeue"
             \/ at'[t] = "post" /\ promise[job(t)] = "resolved"
      BY <1>3, <2>0, <2>4 DEF MergeSettles, Go, landed
    <3> QED BY <1>3, <3>1 DEF Charged
  <2>5. CASE Requeue(t)
    <3>1. at'[t] = "fail" /\ status'[t] \in {"open", "blocked"}
      BY <2>0, <2>5 DEF Requeue, SetStatus, Go
    <3> QED BY <1>3, <3>1 DEF epicIsClosed
  <2>6. CASE FailMerge(t) \/ PostCompletion(t)
    <3>1. at[t] \in {"fail", "post"} /\ at'[t] = "none" /\ status'[t] = status[t]
      BY <2>0, <2>6 DEF FailMerge, PostCompletion, Go
    <3> QED BY <3>1 DEF Charged
  <2>7. CASE Close(t) \/ Release(t)
    <3>1. at'[t] \in {"release", "epic"}
      BY <1>3, <2>0, <2>7 DEF Close, Release, Go
    <3> QED BY <3>1 DEF Charged
  <2>8. CASE LastOfEpic(t)
    <3>1. /\ at'[t] = "checks" \/ (at'[t] = "none" /\ ~ epicIsClosed)
          /\ status'[t] = status[t]
      BY <2>0, <2>8 DEF LastOfEpic, Go
    <3> QED BY <3>1 DEF Charged
  <2> QED BY <2>1, <2>2, <2>3, <2>4, <2>5, <2>6, <2>7, <2>8 DEF Quiet
<1> QED BY <1>0, <1>1, <1>2, <1>3, EpicStep

\* A push hands a waiting task of the epic on to its close.
LEMMA EpicPush ==
  ASSUME MergeAssumption, PlacesOK, EpicOK, Push
  PROVE  EpicOK'
<1>0. Epic \subseteq Tasks
  BY DEF MergeAssumption
<1>1. UNCHANGED <<merges, promise>> /\ offMain' \subseteq offMain
  BY PushOnQueue
<1>2. UNCHANGED <<status, marking>>
  BY DEF Push, PushDrain, PushDrained, PreparePush, ResolvePush, PushGates, PushMain, CleanUp,
         EndOfPush, PushTo, Finish, taskVars
<1>3. \A u \in Epic : at'[u] = at[u] \/ (at[u] = "waitPush" /\ at'[u] = "close")
  BY <1>0, PushOnQueue DEF PlacesOK, afterPrepare
<1>4. \A u \in Epic : Charged(u) => Charged(u)'
  BY <1>1, <1>3 DEF Charged, job
<1> QED BY <1>1, <1>2, <1>3, <1>4 DEF EpicOK, epicIsClosed

\* The worker settles the job of a task that is in charge: rejected, the task
\* is still in charge; resolved, the work of the epic is on main.
LEMMA EpicWorks ==
  ASSUME MergeAssumption, NamesApart, OneEpicBranch, QueueInv, PlacesOK, EpicOK, QueueWorks
  PROVE  EpicOK'
<1>0. Epic \subseteq Tasks
  BY DEF MergeAssumption
<1>1. UNCHANGED taskVars /\ Worker
  BY DEF QueueWorks
<1>2. UNCHANGED <<at, status, merges, marking>>
  BY <1>1 DEF taskVars
<1>3. offMain' \subseteq offMain
  BY <1>1, WorkStays
<1>4. ASSUME NEW b \in Epic, BranchOf[b] \in offMain', NEW u \in Epic, Charged(u)
      PROVE  Charged(u)'
  <2>1. CASE at[u] # "merging"
    BY <1>2, <1>4, <2>1 DEF Charged
  <2>2. CASE at[u] = "merging" /\ promise'[job(u)] = "resolved"
    <3>1. job(u) \in MergeJobs /\ Branch[job(u)] = BranchOf[b] /\ promise[job(u)] # "resolved"
      BY <1>0, <1>4, <2>2 DEF PlacesOK, job, MergeAssumption, OneEpicBranch, Charged
    <3>2. promise[job(u)] = "queued"
      <4>1. job(u) \in Jobs /\ promise \in [Jobs -> {"none", "queued", "resolved", "rejected"}]
        BY <3>1, QueueAssumption DEF QueueInv, QueueTypeOK
      <4>2. \/ UNCHANGED promise
            \/ currentJob # NoJob /\ \E v \in {"resolved", "rejected"} : Settle(v)
        BY <1>1 DEF Worker, QueueEmpty, TakeJob, CheckUnmerged, CommitSpec, SyncMain, SkipMerged,
                    Rebase, ResolveRebase, MergeCandidate, RunGates, Publish, Fail, Goto,
                    QueueInv, WorkerOK
      <4> QED BY <2>2, <3>1, <4>1, <4>2 DEF Settle, QueueInv, JobsOK
    <3>3. QueueNext
      BY <1>1 DEF QueueNext
    <3> QED BY <1>4, <2>2, <3>1, <3>2, <3>3, ResolvedStep
  <2>3. CASE at[u] = "merging" /\ promise'[job(u)] # "resolved"
    BY <1>2, <2>3 DEF Charged, job
  <2> QED BY <2>1, <2>2, <2>3
<1> QED BY <1>2, <1>3, <1>4 DEF EpicOK, epicIsClosed

LEMMA EpicKeeps ==
  ASSUME MergeAssumption, NamesApart, OwnBranch, StoreFails = FALSE, OneEpicBranch,
         QueueInv, PlacesOK, TasksOK, EpicOK, [MergeNext]_mergeVars
  PROVE  EpicOK'
<1>0. Epic \subseteq Tasks /\ at \in [Tasks -> Places]
      /\ status \in [Tasks -> {"open", "in_progress", "closed", "blocked"}]
  BY DEF MergeAssumption, PlacesOK, TasksOK
<1>1. ASSUME NEW t \in Tasks, Quiet(t)
      PROVE  EpicOK'
  BY <1>1, EpicQuiet
<1>2. ASSUME NEW t \in Tasks, Dispatch(t)
      PROVE  EpicOK'
  <2>1. /\ UNCHANGED <<merges, promise, offMain, marking>>
        /\ at' = [at EXCEPT ![t] = "agent"] /\ status' = [status EXCEPT ![t] = "in_progress"]
    BY <1>2 DEF Dispatch, Go, SetStatus, CreateBranch, UNCHANGED_QUEUE, queueVars
  <2>2. \A u \in Epic \ {t} : Charged(u) => Charged(u)'
    BY <1>0, <2>1 DEF Charged, job
  <2>3. t \in Epic => ~ epicIsClosed'
    BY <1>0, <2>1 DEF epicIsClosed
  <2> QED BY <1>0, <2>1, <2>2, <2>3, EpicStep
<1>3. ASSUME NEW t \in Tasks, AgentCommits(t)
      PROVE  EpicOK'
  <2>1. /\ UNCHANGED <<at, status, merges, promise, marking>> /\ at[t] = "agent"
        /\ offMain' = offMain \cup {BranchOf[t]}
    BY <1>3 DEF AgentCommits, taskVars, CommitOnBranch, UNCHANGED_QUEUE
  <2>2. CASE t \in Epic
    BY <2>1, <2>2 DEF EpicOK, epicIsClosed
  <2>3. CASE t \notin Epic
    <3>1. \A u \in Epic : BranchOf[u] # BranchOf[t]
      BY <1>0, <2>3 DEF OwnBranch
    <3>2. \A u \in Epic : Charged(u) <=> Charged(u)'
      BY <2>1 DEF Charged, job
    <3> QED BY <2>1, <3>1, <3>2 DEF EpicOK, epicIsClosed
  <2> QED BY <2>2, <2>3
<1>4. ASSUME NEW t \in Tasks, DrainQueue(t)
      PROVE  EpicOK'
  <2>1. /\ UNCHANGED <<merges, promise, offMain, marking, status>>
        /\ at[t] = "drain" /\ at' = [at EXCEPT ![t] = "drained"]
    BY <1>4 DEF DrainQueue, Go, Drain, queueVars, repoVars
  <2>2. \A u \in Epic : Charged(u) => Charged(u)'
    BY <1>0, <2>1 DEF Charged, job
  <2> QED BY <1>0, <2>1, <2>2, EpicStep
<1>5. ASSUME NEW t \in Tasks, SubmitMerge(t)
      PROVE  EpicOK'
  <2>1. /\ UNCHANGED <<offMain, marking, status>>
        /\ at' = [at EXCEPT ![t] = "merging"]
        /\ merges' = [merges EXCEPT ![t] = @ + 1] /\ merges[t] < MaxMerges[t]
        /\ promise' = [promise EXCEPT ![<<t, merges[t] + 1>>] = "queued"]
    BY <1>5 DEF SubmitMerge, Go, Enqueue, repoVars
  <2>2. <<t, merges[t] + 1>> \in MergeJobs
    BY <2>1 DEF PlacesOK, MergeAssumption
  <2>3. promise'[<<t, merges[t] + 1>>] = "queued"
    BY <2>1, <2>2, QueueAssumption DEF QueueInv, QueueTypeOK
  <2>4. Charged(t)'
    BY <1>0, <2>1, <2>3 DEF Charged, job, PlacesOK
  <2>5. \A u \in Tasks \ {t} : Charged(u) => Charged(u)'
    <3> SUFFICES ASSUME NEW u \in Tasks \ {t}, Charged(u)
                 PROVE  Charged(u)'
      OBVIOUS
    <3>1. at'[u] = at[u] /\ merges'[u] = merges[u]
      BY <2>1 DEF PlacesOK
    <3>2. at[u] = "merging" => <<u, merges[u]>> \in Jobs
      BY QueueAssumption DEF PlacesOK, MergeAssumption
    <3>3. at[u] = "merging" => promise'[<<u, merges[u]>>] = promise[<<u, merges[u]>>]
      BY <2>1, <3>2 DEF QueueInv, QueueTypeOK
    <3> QED BY <3>1, <3>3 DEF Charged, job
  <2> QED BY <1>0, <2>1, <2>4, <2>5, EpicStep
<1>6. CASE RootIsResolved
  <2>1. UNCHANGED <<at, status, merges, promise, marking, offMain>>
    BY <1>6 DEF RootIsResolved, ConflictGone, UNCHANGED_QUEUE, taskVars
  <2> QED BY <2>1 DEF EpicOK, Charged, epicIsClosed, job
<1>7. ASSUME NEW j \in Jobs, UpdatePrd(j)
      PROVE  EpicOK'
  <2>1. /\ UNCHANGED <<at, status, merges, marking, offMain>> /\ j \notin MergeJobs
        /\ promise' = [promise EXCEPT ![j] = "queued"]
    BY <1>7 DEF UpdatePrd, taskVars, Enqueue, repoVars
  <2>2. \A t \in Epic : at[t] = "merging" => job(t) \in MergeJobs
    BY <1>0 DEF PlacesOK, job, MergeAssumption
  <2>3. \A t \in Epic : at[t] = "merging" => promise'[job(t)] = promise[job(t)]
    BY <2>1, <2>2 DEF QueueInv, QueueTypeOK
  <2>4. \A t \in Epic : Charged(t) => Charged(t)'
    BY <2>1, <2>3 DEF Charged, job
  <2> QED BY <2>1, <2>4 DEF EpicOK, epicIsClosed
<1>8. CASE UNCHANGED mergeVars
  BY <1>8 DEF mergeVars, queueVars, taskVars, EpicOK, Charged, epicIsClosed, job
<1> QED
  BY <1>1, <1>2, <1>3, <1>4, <1>5, <1>6, <1>7, <1>8, EpicPush, EpicWorks
  DEF MergeNext, Merge, Quiet

\* The work of a finished epic is on main, for any number of tasks, as long as
\* the store's writes do not fail and no user closes a task of the epic: the
\* last of its tasks to close merges it, or reopens.
THEOREM EpicLands ==
  ASSUME NamesApart, OwnBranch, OneEpicBranch, StoreFails = FALSE
  PROVE  MergeSpec => []EpicIsMerged
<1>1. MergeInit => TasksOK /\ EpicOK
  <2>1. MergeInit => TasksOK
    BY MergeAssumption DEF MergeInit, TasksOK, PushSteps, MergeAssumption
  <2>2. MergeInit => EpicOK
    <3> SUFFICES ASSUME MergeInit PROVE EpicOK
      OBVIOUS
    <3>1. offMain = {} /\ (\A t \in Tasks : at[t] = "none" /\ marking[t] = "no")
      BY DEF MergeInit, QueueInit
    <3> QED BY <3>1, MergeAssumption DEF EpicOK, MergeAssumption
  <2> QED BY <2>1, <2>2
<1>2. QueueInv /\ PlacesOK /\ TasksOK /\ EpicOK /\ [MergeNext]_mergeVars => TasksOK' /\ EpicOK'
  BY TaskTypes, EpicKeeps, MergeAssumption
<1>3. EpicOK => EpicIsMerged
  BY DEF EpicOK, EpicIsMerged, Charged
<1> QED BY <1>1, <1>2, <1>3, MergeOnQueueAlways, QueueInvariant, PTL DEF MergeSpec
=============================================================================
