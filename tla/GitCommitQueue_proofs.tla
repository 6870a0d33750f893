------------------------ MODULE GitCommitQueue_proofs ------------------------
(* Proofs about GitCommitQueue: its type invariant, that branches land as    *)
(* validated, that drain is exact, that a resolved merge is on main when     *)
(* names are told apart, and that it is a serial queue.                      *)
EXTENDS GitCommitQueue, TLAPS

RepoOK ==
  /\ main \in Seq(Advances) /\ unmerged \in BOOLEAN
  /\ offMain \subseteq Branches /\ listed \subseteq Branches
  /\ listed \cap offMain = {}

MergeSteps == {"sync", "verify", "rebase", "resolve", "candidate", "gates", "publish"}

\* The worker and its job.
WorkerOK ==
  /\ step = "idle" <=> ~processing
  /\ step \in {"idle", "scheduled"} <=> currentJob = NoJob
  /\ step \in MergeSteps => currentJob \in MergeJobs
  /\ step = "commit" => currentJob \notin MergeJobs
  /\ step = "publish" => validated = Append(candidate, branch)
  /\ step = "idle" => queue = <<>> /\ drainResolvers = {}

\* The jobs that wait or run, and no others, have not been settled.
JobsOK ==
  /\ \A i \in 1..Len(queue) : promise[queue[i]] = "queued"
  /\ \A i, k \in 1..Len(queue) : queue[i] = queue[k] => i = k
  /\ currentJob # NoJob =>
       /\ promise[currentJob] = "queued"
       /\ \A i \in 1..Len(queue) : queue[i] # currentJob

QueueInv == QueueTypeOK /\ RepoOK /\ WorkerOK /\ JobsOK

-----------------------------------------------------------------------------
(* What the ways in which a step of the worker ends preserve. *)

\* The end of a job.
LEMMA SettleKeeps ==
  ASSUME QueueAssumption, QueueInv, RepoOK',
         step \notin {"idle", "scheduled"},
         NEW verdict \in {"resolved", "rejected"}, Settle(verdict)
  PROVE  QueueInv'
<1> USE DEF QueueInv
<1>1. QueueTypeOK'
  BY DEF QueueTypeOK, Settle, Forget, RepoOK, WorkerOK, Steps, QueueAssumption
<1>2. WorkerOK'
  BY DEF QueueTypeOK, Settle, Forget, WorkerOK, MergeSteps
<1>3. JobsOK'
  BY DEF QueueTypeOK, Settle, JobsOK, WorkerOK
<1> QED BY <1>1, <1>2, <1>3

\* The next attempt, or the end of the last one.
LEMMA FailKeeps ==
  ASSUME QueueAssumption, QueueInv, RepoOK',
         step \notin {"idle", "scheduled"}, Fail
  PROVE  QueueInv'
<1> USE DEF QueueInv
<1>1. CASE attempt = MaxRetries /\ Settle("rejected")
  BY <1>1, SettleKeeps
<1>2. CASE ~(attempt = MaxRetries /\ Settle("rejected"))
  <2>1. /\ attempt < MaxRetries /\ attempt' = attempt + 1 /\ step' = "check" /\ Forget
        /\ UNCHANGED <<queue, processing, currentJob, promise, drainResolvers>>
    BY <1>2 DEF Fail
  <2>2. QueueTypeOK'
    BY <2>1 DEF QueueTypeOK, Forget, RepoOK, Steps, QueueAssumption
  <2>3. WorkerOK'
    BY <2>1 DEF WorkerOK, MergeSteps
  <2>4. JobsOK'
    BY <2>1 DEF JobsOK
  <2> QED BY <2>2, <2>3, <2>4
<1> QED BY <1>1, <1>2

\* The next step of the same attempt.
LEMMA GotoKeeps ==
  ASSUME QueueInv, RepoOK', step \notin {"idle", "scheduled"},
         NEW s \in Steps \ {"idle", "scheduled"}, Goto(s),
         s \in MergeSteps => currentJob \in MergeJobs,
         s = "commit" => currentJob \notin MergeJobs,
         s = "publish" => validated' = Append(candidate', branch),
         round' \in 0..MaxRounds, candidate' \in Seq(Advances), validated' \in Seq(Advances)
  PROVE  QueueInv'
<1> USE DEF QueueInv
<1>1. QueueTypeOK'
  BY DEF QueueTypeOK, Goto, RepoOK
<1>2. WorkerOK'
  BY DEF WorkerOK, Goto, branch, Steps, MergeSteps
<1>3. JobsOK'
  BY DEF JobsOK, Goto
<1> QED BY <1>1, <1>2, <1>3

\* The variables of the repository that a step leaves alone stay as they were.
LEMMA RepoKept ==
  ASSUME RepoOK, UNCHANGED repoVars
  PROVE  RepoOK'
BY DEF RepoOK, repoVars

-----------------------------------------------------------------------------
LEMMA BranchesKnown ==
  ASSUME QueueAssumption, QueueInv, currentJob \in MergeJobs
  PROVE  branch \in Branches /\ branch \in Advances
BY DEF QueueAssumption, branch, Advances

LEMMA WorkerKeeps ==
  ASSUME QueueAssumption, QueueInv, Worker
  PROVE  QueueInv'
<1> USE DEF QueueInv
<1>1. CASE QueueEmpty
  <2>1. RepoOK'
    BY <1>1, RepoKept DEF QueueEmpty
  <2>2. QueueTypeOK'
    BY <1>1 DEF QueueEmpty, repoVars, QueueTypeOK, Steps
  <2>3. WorkerOK'
    BY <1>1 DEF QueueEmpty, WorkerOK, MergeSteps
  <2>4. JobsOK'
    BY <1>1 DEF QueueEmpty, JobsOK
  <2> QED BY <2>1, <2>2, <2>3, <2>4
<1>2. CASE TakeJob
  <2>1. RepoOK'
    BY <1>2, RepoKept DEF TakeJob
  <2>2. Head(queue) = queue[1] /\ queue # <<>> /\ queue' = Tail(queue) /\ queue \in Seq(Jobs)
    BY <1>2 DEF TakeJob, QueueTypeOK
  <2>3. /\ Len(queue') = Len(queue) - 1 /\ queue' \in Seq(Jobs) /\ Head(queue) \in Jobs
        /\ \A i \in 1..Len(queue') : queue'[i] = queue[i + 1]
    BY <2>2
  <2>4. QueueTypeOK'
    BY <1>2, <2>3 DEF TakeJob, QueueTypeOK, repoVars, Steps, QueueAssumption
  <2>5. WorkerOK'
    BY <1>2, <2>3 DEF TakeJob, WorkerOK, MergeSteps, QueueAssumption
  <2>6. JobsOK'
    BY <1>2, <2>2, <2>3 DEF TakeJob, JobsOK, QueueTypeOK
  <2> QED BY <2>1, <2>4, <2>5, <2>6
<1>3. CASE CheckUnmerged
  <2>1. RepoOK' /\ step = "check"
    BY <1>3, RepoKept DEF CheckUnmerged
  <2>2. CASE Settle("rejected")
    BY <2>1, <2>2, SettleKeeps
  <2>3. CASE Goto(IF currentJob \in MergeJobs THEN "sync" ELSE "commit") /\ Keep
    BY <2>1, <2>3, GotoKeeps DEF Keep, QueueTypeOK, Steps, MergeSteps
  <2> QED BY <1>3, <2>2, <2>3 DEF CheckUnmerged
<1>4. CASE CommitSpec
  <2>1. RepoOK' /\ step = "commit"
    BY <1>4 DEF CommitSpec, RepoOK, Advances
  <2> QED BY <1>4, <2>1, SettleKeeps, FailKeeps DEF CommitSpec
<1>5. CASE SyncMain
  <2>1. RepoOK' /\ step = "sync"
    BY <1>5 DEF SyncMain, RepoOK, Advances
  <2>2. CASE Goto("verify") /\ Keep
    BY <2>1, <2>2, GotoKeeps DEF Keep, QueueTypeOK, WorkerOK, Steps, MergeSteps
  <2> QED BY <1>5, <2>1, <2>2, FailKeeps DEF SyncMain
<1>6. CASE SkipMerged
  <2>1. RepoOK' /\ step = "verify"
    BY <1>6, RepoKept DEF SkipMerged
  <2>2. CASE Goto("rebase") /\ Keep
    BY <2>1, <2>2, GotoKeeps DEF Keep, QueueTypeOK, WorkerOK, Steps, MergeSteps
  <2> QED BY <1>6, <2>1, <2>2, SettleKeeps DEF SkipMerged
<1>7. CASE Rebase
  <2>1. RepoOK' /\ step = "rebase"
    BY <1>7, RepoKept DEF Rebase
  <2>2. CASE Goto("candidate") /\ Keep
    BY <2>1, <2>2, GotoKeeps DEF Keep, QueueTypeOK, WorkerOK, Steps, MergeSteps
  <2>3. CASE Goto("resolve") /\ round' = 1 /\ UNCHANGED <<candidate, validated>>
    BY <2>1, <2>3, GotoKeeps DEF QueueTypeOK, WorkerOK, Steps, MergeSteps, QueueAssumption
  <2> QED BY <1>7, <2>2, <2>3 DEF Rebase
<1>8. CASE ResolveRebase
  <2>1. RepoOK' /\ step = "resolve"
    BY <1>8, RepoKept DEF ResolveRebase
  <2>2. CASE Goto("candidate") /\ Keep
    BY <2>1, <2>2, GotoKeeps DEF Keep, QueueTypeOK, WorkerOK, Steps, MergeSteps
  <2>3. CASE /\ round < MaxRounds /\ Goto("resolve")
             /\ round' = round + 1 /\ UNCHANGED <<candidate, validated>>
    BY <2>1, <2>3, GotoKeeps DEF QueueTypeOK, WorkerOK, Steps, MergeSteps, QueueAssumption
  <2> QED BY <1>8, <2>1, <2>2, <2>3, SettleKeeps, FailKeeps DEF ResolveRebase
<1>9. CASE MergeCandidate
  <2>1. RepoOK' /\ step = "candidate"
    BY <1>9, RepoKept DEF MergeCandidate
  <2>2. CASE Goto("gates") /\ candidate' = main /\ UNCHANGED <<round, validated>>
    BY <2>1, <2>2, GotoKeeps DEF QueueTypeOK, WorkerOK, Steps, MergeSteps
  <2> QED BY <1>9, <2>1, <2>2, SettleKeeps, FailKeeps DEF MergeCandidate
<1>10. CASE RunGates
  <2>1. RepoOK' /\ step = "gates"
    BY <1>10, RepoKept DEF RunGates
  <2>2. branch \in Advances
    BY <2>1, BranchesKnown DEF WorkerOK, MergeSteps
  <2>3. CASE /\ Goto("publish") /\ UNCHANGED <<round, candidate>>
             /\ validated' = Append(candidate, branch)
    BY <2>1, <2>2, <2>3, GotoKeeps DEF QueueTypeOK, WorkerOK, Steps, MergeSteps
  <2> QED BY <1>10, <2>1, <2>3, SettleKeeps, FailKeeps DEF RunGates
<1>11. CASE Publish
  <2>1. step = "publish" /\ branch \in Advances /\ branch \in Branches
    BY <1>11, BranchesKnown DEF Publish, WorkerOK, MergeSteps
  <2>2. CASE FastForward /\ unmerged' \in {unmerged, TRUE}
    <3>1. main' \in Seq(Advances)
      BY <2>1, <2>2 DEF FastForward, QueueTypeOK
    <3>4. unmerged' \in BOOLEAN
      BY <2>2 DEF RepoOK
    <3>2. /\ offMain' \subseteq Branches /\ listed' \subseteq Branches
          /\ listed' \cap offMain' = {}
      BY <2>1, <2>2 DEF FastForward, RepoOK
    <3>3. RepoOK'
      BY <3>1, <3>2, <3>4 DEF RepoOK
    <3> QED BY <1>11, <2>1, <2>2, <3>3, SettleKeeps, FailKeeps DEF Publish
  <2>3. CASE Fail /\ UNCHANGED repoVars
    BY <2>1, <2>3, FailKeeps, RepoKept
  <2> QED BY <1>11, <2>2, <2>3 DEF Publish
<1> QED
  BY <1>1, <1>2, <1>3, <1>4, <1>5, <1>6, <1>7, <1>8, <1>9, <1>10, <1>11 DEF Worker

LEMMA OthersKeep ==
  ASSUME QueueAssumption, QueueInv, Others
  PROVE  QueueInv'
<1> USE DEF QueueInv
<1>1. UNCHANGED_QUEUE
  BY DEF Others, CreateBranch, CommitOnBranch, DeleteBranch, RewriteMain,
         ConflictAtRoot, ConflictGone
<1>2. RepoOK'
  <2>1. CASE \E b \in Branches : CreateBranch(b) \/ CommitOnBranch(b) \/ DeleteBranch(b)
    BY <2>1 DEF CreateBranch, CommitOnBranch, DeleteBranch, RepoOK
  <2>2. CASE RewriteMain
    <3>1. "rewrite" \in Advances /\ main' = Append(main, "rewrite") /\ main \in Seq(Advances)
      BY <2>2 DEF RewriteMain, RepoOK, Advances
    <3>2. main' \in Seq(Advances)
      BY <3>1
    <3>3. /\ unmerged' = FALSE /\ offMain' = offMain
          /\ listed' \in SUBSET listed
      BY <2>2 DEF RewriteMain
    <3> QED BY <3>2, <3>3 DEF RepoOK
  <2>3. CASE ConflictAtRoot \/ ConflictGone
    BY <2>3 DEF ConflictAtRoot, ConflictGone, RepoOK
  <2> QED BY <2>1, <2>2, <2>3 DEF Others
<1>3. QueueTypeOK' /\ WorkerOK' /\ JobsOK'
  BY <1>1, <1>2 DEF UNCHANGED_QUEUE, QueueTypeOK, RepoOK, WorkerOK, JobsOK, branch
<1> QED BY <1>2, <1>3

LEMMA EnqueueKeeps ==
  ASSUME QueueAssumption, QueueInv, NEW j \in Jobs, Enqueue(j)
  PROVE  QueueInv'
<1> USE DEF QueueInv
<1>1. RepoOK'
  BY RepoKept DEF Enqueue
<1>2. /\ queue \in Seq(Jobs) /\ queue' = Append(queue, j) /\ queue' \in Seq(Jobs)
      /\ Len(queue') = Len(queue) + 1 /\ queue'[Len(queue) + 1] = j
      /\ \A i \in 1..Len(queue) : queue'[i] = queue[i]
  BY DEF Enqueue, QueueTypeOK
<1>3. QueueTypeOK'
  BY <1>2 DEF Enqueue, repoVars, QueueTypeOK, Steps
<1>4. WorkerOK'
  BY <1>2 DEF Enqueue, WorkerOK, MergeSteps, branch
<1>5. promise' = [promise EXCEPT ![j] = "queued"] /\ promise[j] = "none"
      /\ promise \in [Jobs -> {"none", "queued", "resolved", "rejected"}]
      /\ currentJob' = currentJob /\ (currentJob # NoJob => currentJob \in Jobs)
  BY DEF Enqueue, QueueTypeOK
<1>6. JobsOK'
  <2>1. \A i \in 1..Len(queue') : promise'[queue'[i]] = "queued"
    <3> SUFFICES ASSUME NEW i \in 1..Len(queue')
                 PROVE  promise'[queue'[i]] = "queued"
      OBVIOUS
    <3>1. CASE i = Len(queue) + 1
      BY <1>2, <1>5, <3>1
    <3>2. CASE i # Len(queue) + 1
      <4>1. i \in 1..Len(queue)
        BY <1>2, <3>2
      <4>2. queue'[i] = queue[i] /\ queue[i] \in Jobs /\ promise[queue[i]] = "queued"
        BY <1>2, <4>1 DEF JobsOK
      <4> QED BY <1>5, <4>2
    <3> QED BY <3>1, <3>2
  <2>2. \A i \in 1..Len(queue) : queue[i] # j
    BY <1>5 DEF JobsOK
  <2>3. \A i, k \in 1..Len(queue') : queue'[i] = queue'[k] => i = k
    BY <1>2, <2>2 DEF JobsOK
  <2>4. currentJob # NoJob => currentJob # j
    BY <1>5 DEF JobsOK
  <2>5. currentJob' # NoJob => promise'[currentJob'] = "queued"
    BY <1>5, <2>4 DEF JobsOK
  <2>6. currentJob' # NoJob => \A i \in 1..Len(queue') : queue'[i] # currentJob'
    BY <1>2, <1>5, <2>4 DEF JobsOK
  <2> QED BY <2>1, <2>3, <2>5, <2>6 DEF JobsOK
<1> QED BY <1>1, <1>3, <1>4, <1>6

LEMMA QueueInductive == QueueAssumption /\ QueueInv /\ [QueueNext]_queueVars => QueueInv'
<1> SUFFICES ASSUME QueueAssumption, QueueInv, [QueueNext]_queueVars
             PROVE  QueueInv'
  OBVIOUS
<1>1. ASSUME NEW c \in Callers, Drain(c)
      PROVE  QueueInv'
  <2>1. RepoOK'
    BY <1>1, RepoKept DEF Drain, QueueInv
  <2>2. QueueTypeOK'
    BY <1>1 DEF Drain, QueueInv, QueueTypeOK, workerVars, repoVars
  <2>3. WorkerOK'
    BY <1>1 DEF Drain, quiet, QueueInv, WorkerOK, workerVars, MergeSteps, branch
  <2>4. JobsOK'
    BY <1>1 DEF Drain, QueueInv, JobsOK, workerVars
  <2> QED BY <2>1, <2>2, <2>3, <2>4 DEF QueueInv
<1>2. CASE UNCHANGED queueVars
  BY <1>2 DEF queueVars, QueueInv, QueueTypeOK, RepoOK, WorkerOK, JobsOK, branch
<1> QED
  BY <1>1, <1>2, WorkerKeeps, OthersKeep, EnqueueKeeps DEF QueueNext

LEMMA QueueInitially == QueueAssumption /\ QueueInit => QueueInv
<1> SUFFICES ASSUME QueueAssumption, QueueInit
             PROVE  QueueInv
  OBVIOUS
<1>0. <<>> \in Seq(Advances) /\ <<>> \in Seq(Jobs)
  OBVIOUS
<1>1. RepoOK
  <2>1. main \in Seq(Advances) /\ unmerged = FALSE
    BY <1>0 DEF QueueInit
  <2>2. offMain = {} /\ listed = {}
    BY DEF QueueInit
  <2> QED BY <2>1, <2>2 DEF RepoOK
<1>2. QueueTypeOK
  <2>1. 0 \in 0..MaxRetries /\ 0 \in 0..MaxRounds
    BY DEF QueueAssumption
  <2>2. /\ queue \in Seq(Jobs) /\ candidate \in Seq(Advances) /\ validated \in Seq(Advances)
        /\ processing = FALSE
    BY <1>0 DEF QueueInit
  <2>3. promise \in [Jobs -> {"none", "queued", "resolved", "rejected"}]
    BY DEF QueueInit
  <2>4. currentJob = NoJob /\ step = "idle" /\ attempt = 0 /\ round = 0 /\ drainResolvers = {}
    BY DEF QueueInit
  <2> QED BY <1>1, <2>1, <2>2, <2>3, <2>4 DEF RepoOK, QueueTypeOK, Steps
<1>3. WorkerOK
  BY DEF QueueInit, WorkerOK, MergeSteps
<1>4. JobsOK
  BY DEF QueueInit, JobsOK
<1> QED BY <1>1, <1>2, <1>3, <1>4 DEF QueueInv

LEMMA QueueInvariant == QueueSpec => []QueueInv
<1>1. QueueInit => QueueInv
  BY QueueAssumption, QueueInitially
<1>2. QueueInv /\ [QueueNext]_queueVars => QueueInv'
  BY QueueAssumption, QueueInductive
<1> QED BY <1>1, <1>2, PTL DEF QueueSpec

\* The variables keep their types, whatever the jobs, the callers, the git
\* commands and the other actors on the repository do.
THEOREM QueueTypes == QueueSpec => []QueueTypeOK
BY QueueInvariant, PTL DEF QueueInv

-----------------------------------------------------------------------------
(* What a step may never do. *)

LEMMA LandsStep == QueueInv /\ QueueNext => (offMain \ offMain' # {} => main' = validated)
<1> SUFFICES ASSUME QueueInv, QueueNext, offMain \ offMain' # {}
             PROVE  main' = validated
  OBVIOUS
<1>1. Publish
  BY DEF QueueNext, Enqueue, Drain, Worker, Others, QueueEmpty, TakeJob, CheckUnmerged, CommitSpec,
         SyncMain, SkipMerged, Rebase, ResolveRebase, MergeCandidate, RunGates,
         CreateBranch, CommitOnBranch, DeleteBranch, RewriteMain, ConflictAtRoot, ConflictGone,
         repoVars
<1>2. FastForward /\ step = "publish"
  BY <1>1 DEF Publish, repoVars
<1> QED BY <1>2 DEF FastForward, QueueInv, WorkerOK

\* A branch lands on main only as the content that passed the quality gates,
\* whatever is committed, pulled or rewritten while they run.
THEOREM LandAsValidated == QueueSpec => BranchesLandAsValidated
<1>1. QueueInv /\ [QueueNext]_queueVars => [offMain \ offMain' # {} => main' = validated]_queueVars
  BY LandsStep
<1> QED BY <1>1, QueueInvariant, PTL DEF QueueSpec, BranchesLandAsValidated

LEMMA DrainedStep ==
  QueueInv /\ QueueNext
    => \A c \in Callers : c \in drainResolvers /\ c \notin drainResolvers'
         => queue = <<>> /\ currentJob = NoJob
<1> SUFFICES ASSUME QueueInv, QueueNext, NEW c \in drainResolvers, c \notin drainResolvers'
             PROVE  queue = <<>> /\ currentJob = NoJob
  OBVIOUS
<1>1. QueueEmpty
  BY DEF QueueNext, Enqueue, Drain, Worker, Others, TakeJob, CheckUnmerged, CommitSpec,
         SyncMain, SkipMerged, Rebase, ResolveRebase, MergeCandidate, RunGates, Publish,
         Settle, Fail, Goto, CreateBranch, CommitOnBranch, DeleteBranch, RewriteMain,
         ConflictAtRoot, ConflictGone, UNCHANGED_QUEUE
<1> QED BY <1>1 DEF QueueEmpty, QueueInv, WorkerOK

\* drain lets a caller go only when nothing runs and nothing waits, also when
\* jobs are submitted while it waits.
THEOREM DrainIsExact == QueueSpec => DrainedIsIdle
<1>1. QueueInv /\ [QueueNext]_queueVars
        => [\A c \in Callers : c \in drainResolvers /\ c \notin drainResolvers'
              => queue = <<>> /\ currentJob = NoJob]_queueVars
  BY DrainedStep
<1> QED BY <1>1, QueueInvariant, PTL DEF QueueSpec, DrainedIsIdle

-----------------------------------------------------------------------------
(* A resolved merge is on main, when a name is found only in itself.         *)

NamesApart == \A b, c \in Branches : <<b, c>> \in NameIn => b = c

LEMMA ResolvedStep ==
  NamesApart /\ QueueInv /\ QueueNext
    => \A j \in MergeJobs :
         promise[j] = "queued" /\ promise'[j] = "resolved" => Branch[j] \notin offMain'
<1> SUFFICES ASSUME NamesApart, QueueInv, QueueNext, NEW j \in MergeJobs,
                    promise[j] = "queued", promise'[j] = "resolved"
             PROVE  Branch[j] \notin offMain'
  OBVIOUS
<1>0. j \in Jobs /\ promise \in [Jobs -> {"none", "queued", "resolved", "rejected"}]
  BY QueueAssumption DEF QueueInv, QueueTypeOK
<1>1. ASSUME Settle("resolved")
      PROVE  j = currentJob /\ branch = Branch[j]
  BY <1>0, <1>1 DEF Settle, branch
<1>2. ASSUME Fail \/ Settle("rejected")
      PROVE  FALSE
  BY <1>0, <1>2 DEF Fail, Settle
<1>3. ASSUME UNCHANGED promise
      PROVE  FALSE
  BY <1>3
<1>4. CASE Worker
  <2>1. CASE CommitSpec
    <3>1. j # currentJob
      BY <2>1 DEF CommitSpec, QueueInv, WorkerOK
    <3> QED BY <2>1, <3>1, <1>1, <1>2 DEF CommitSpec
  <2>2. CASE SkipMerged
    <3>1. CASE verifyMerge(branch) /\ Settle("resolved")
      <4>1. branch = Branch[j] /\ branch \in Branches
        BY <3>1, <1>1, QueueAssumption
      <4>2. PICK c \in listed : <<branch, c>> \in NameIn
        BY <3>1 DEF verifyMerge
      <4>3. c = branch
        BY <4>1, <4>2 DEF NamesApart, QueueInv, RepoOK
      <4>4. offMain' = offMain
        BY <2>2 DEF SkipMerged, repoVars
      <4> QED BY <4>1, <4>2, <4>3, <4>4 DEF QueueInv, RepoOK
    <3> QED BY <2>2, <3>1, <1>3 DEF SkipMerged, Goto
  <2>3. CASE MergeCandidate
    <3>1. CASE branch \notin offMain /\ Settle("resolved")
      BY <2>3, <3>1, <1>1 DEF MergeCandidate, repoVars
    <3> QED BY <2>3, <3>1, <1>2, <1>3 DEF MergeCandidate, Goto
  <2>4. CASE Publish
    <3>1. CASE FastForward /\ Settle("resolved")
      BY <3>1, <1>1 DEF FastForward
    <3> QED BY <2>4, <3>1, <1>2 DEF Publish
  <2>5. CASE CheckUnmerged \/ SyncMain \/ Rebase \/ ResolveRebase \/ RunGates
    BY <2>5, <1>2, <1>3 DEF CheckUnmerged, SyncMain, Rebase, ResolveRebase, RunGates, Goto
  <2>6. CASE QueueEmpty \/ TakeJob
    BY <2>6, <1>3 DEF QueueEmpty, TakeJob
  <2> QED BY <1>4, <2>1, <2>2, <2>3, <2>4, <2>5, <2>6 DEF Worker
<1>5. CASE Others
  <2>1. UNCHANGED promise
    BY <1>5 DEF Others, CreateBranch, CommitOnBranch, DeleteBranch, RewriteMain,
                ConflictAtRoot, ConflictGone, UNCHANGED_QUEUE
  <2> QED BY <2>1, <1>3
<1>6. ASSUME NEW k \in Jobs, Enqueue(k)
      PROVE  FALSE
  BY <1>0, <1>6 DEF Enqueue
<1>7. ASSUME NEW c \in Callers, Drain(c)
      PROVE  FALSE
  BY <1>3, <1>7 DEF Drain
<1> QED BY <1>4, <1>5, <1>6, <1>7 DEF QueueNext

\* When no branch's name occurs in the name of another, a caller whose merge
\* job is resolved finds the work of the branch on main.
THEOREM ResolvedIsMerged == NamesApart /\ QueueSpec => ResolvedIsOnMain
<1> SUFFICES ASSUME NamesApart
             PROVE  QueueSpec => ResolvedIsOnMain
  OBVIOUS
<1>1. QueueInv /\ [QueueNext]_queueVars
        => [\A j \in MergeJobs :
              promise[j] = "queued" /\ promise'[j] = "resolved"
                => Branch[j] \notin offMain']_queueVars
  BY ResolvedStep
<1> QED BY <1>1, QueueInvariant, PTL DEF QueueSpec, ResolvedIsOnMain

-----------------------------------------------------------------------------
(* The queue is a serial queue.                                              *)

LEMMA SerialSettles ==
  ASSUME QueueInv, currentJob # NoJob, NEW verdict \in {"resolved", "rejected"}, Settle(verdict)
  PROVE  Serial!Settle(verdict)
<1>1. pendingJobs = <<currentJob>> \o queue /\ pendingJobs' = queue
  BY DEF Settle, pendingJobs
<1>2. currentJob \in Jobs /\ queue \in Seq(Jobs)
  BY DEF QueueInv, QueueTypeOK
<1>3. /\ pendingJobs # <<>> /\ Head(pendingJobs) = currentJob
      /\ Tail(pendingJobs) = queue
  BY <1>1, <1>2
<1> QED BY <1>1, <1>3 DEF Settle, Serial!Settle

LEMMA SerialFails ==
  ASSUME QueueInv, currentJob # NoJob, Fail
  PROVE  Serial!Settle("rejected") \/ UNCHANGED <<pendingJobs, promise>>
BY SerialSettles DEF Fail, pendingJobs

LEMMA SerialStep == QueueInv /\ [QueueNext]_queueVars => [Serial!Next]_(Serial!serialVars)
<1> SUFFICES ASSUME QueueInv, [QueueNext]_queueVars
             PROVE  Serial!Next \/ UNCHANGED <<pendingJobs, promise>>
  BY DEF Serial!serialVars
<1>0. queue \in Seq(Jobs) /\ (currentJob # NoJob => currentJob \in Jobs)
  BY DEF QueueInv, QueueTypeOK
<1>1. ASSUME NEW s, Goto(s)
      PROVE  UNCHANGED <<pendingJobs, promise>>
  BY <1>1 DEF Goto, pendingJobs
<1>2. CASE Worker
  <2>1. CASE QueueEmpty
    BY <2>1 DEF QueueEmpty, pendingJobs
  <2>2. CASE TakeJob
    <3>1. currentJob = NoJob /\ Head(queue) # NoJob /\ queue # <<>>
      BY <2>2, <1>0, QueueAssumption DEF TakeJob, QueueInv, WorkerOK
    <3>2. pendingJobs = queue /\ pendingJobs' = <<Head(queue)>> \o Tail(queue)
      BY <2>2, <3>1 DEF TakeJob, pendingJobs
    <3>3. <<Head(queue)>> \o Tail(queue) = queue
      BY <1>0, <3>1
    <3> QED BY <2>2, <3>2, <3>3 DEF TakeJob
  <2>3. CASE ~QueueEmpty /\ ~TakeJob
    <3>1. currentJob # NoJob
      BY <1>2, <2>3 DEF Worker, CheckUnmerged, CommitSpec, SyncMain, SkipMerged, Rebase,
                        ResolveRebase, MergeCandidate, RunGates, Publish, QueueInv, WorkerOK
    <3>2. \/ Settle("resolved") \/ Settle("rejected") \/ Fail
          \/ \E s \in Steps : Goto(s)
      BY <1>2, <2>3 DEF Worker, CheckUnmerged, CommitSpec, SyncMain, SkipMerged, Rebase,
                        ResolveRebase, MergeCandidate, RunGates, Publish, Steps
    <3> QED BY <3>1, <3>2, <1>1, SerialSettles, SerialFails DEF Serial!Next
  <2> QED BY <2>1, <2>2, <2>3
<1>3. CASE Others
  BY <1>3 DEF Others, CreateBranch, CommitOnBranch, DeleteBranch, RewriteMain,
              ConflictAtRoot, ConflictGone, UNCHANGED_QUEUE, pendingJobs
<1>4. ASSUME NEW j \in Jobs, Enqueue(j)
      PROVE  Serial!Submit(j)
  <2>1. pendingJobs' = Append(pendingJobs, j)
    <3>1. CASE currentJob = NoJob
      BY <1>4, <3>1 DEF Enqueue, pendingJobs
    <3>2. CASE currentJob # NoJob
      <4>1. <<currentJob>> \o Append(queue, j) = Append(<<currentJob>> \o queue, j)
        BY <1>0, <3>2
      <4> QED BY <1>4, <3>2, <4>1 DEF Enqueue, pendingJobs
    <3> QED BY <3>1, <3>2
  <2> QED BY <1>4, <2>1 DEF Enqueue, Serial!Submit
<1>5. ASSUME NEW c \in Callers, Drain(c)
      PROVE  UNCHANGED <<pendingJobs, promise>>
  BY <1>5 DEF Drain, workerVars, pendingJobs
<1>6. CASE UNCHANGED queueVars
  BY <1>6 DEF queueVars, pendingJobs
<1> QED BY <1>2, <1>3, <1>4, <1>5, <1>6 DEF QueueNext, Serial!Next

\* Retries, drains and everything that happens to the repository are hidden
\* from the callers: they see jobs that settle one at a time, in order.
THEOREM QueueIsSerial == QueueSpec => ImplementsSerialQueue
<1>1. QueueInit => Serial!Init
  BY DEF QueueInit, Serial!Init, pendingJobs
<1>2. QueueInv /\ [QueueNext]_queueVars => [Serial!Next]_(Serial!serialVars)
  BY SerialStep
<1> QED BY <1>1, <1>2, QueueInvariant, PTL DEF QueueSpec, ImplementsSerialQueue, Serial!Spec
=============================================================================
