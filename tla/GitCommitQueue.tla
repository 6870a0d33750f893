--------------------------- MODULE GitCommitQueue ---------------------------
(* The queue of git jobs of the main branch: packages/backend/src/services/  *)
(* git-commit-queue.service.ts.  Jobs wait in a FIFO for one worker; a merge *)
(* job rebases its branch, merges it in a candidate workspace, validates the *)
(* candidate and fast-forwards main to it.  Each await of executeJob ends a  *)
(* step, so that callers, the agents on their branches and the push of main, *)
(* which works on the same repository without going through the queue, act   *)
(* in between.                                                               *)
EXTENDS Naturals, Sequences

CONSTANTS
  Jobs,        \* submissions to the queue
  Branches,    \* names of task branches
  Branch,      \* the branch of each worktree_merge job; the rest are prd_update
  NameIn,      \* <<b, c>>: the name of b occurs in the name of c
  Callers,     \* who may wait for the queue to drain
  MaxRetries,  \* maxRetries
  MaxRounds,   \* MAX_REBASE_CONFLICT_ROUNDS
  MaxMain,     \* bound: length of main's history
  NoJob        \* currentJob is null

MergeJobs == DOMAIN Branch

ASSUME QueueAssumption ==
  /\ Branch \in [MergeJobs -> Branches]
  /\ MergeJobs \subseteq Jobs
  /\ NameIn \subseteq Branches \X Branches
  /\ \A b \in Branches : <<b, b>> \in NameIn
  /\ MaxRetries \in Nat \ {0} /\ MaxRounds \in Nat \ {0} /\ MaxMain \in Nat
  /\ NoJob \notin Jobs

-----------------------------------------------------------------------------
VARIABLES
  queue,           \* jobs waiting
  processing,      \* a worker is running or scheduled
  currentJob,
  step,            \* where the worker is
  attempt,         \* attempt at the current job
  round,           \* rounds of conflict resolution in the current rebase
  candidate,       \* the history the candidate workspace was created from
  promise,         \* what the submitter of each job has been told
  drainResolvers,  \* callers waiting in drain
  main,            \* history of main, as the sequence of what advanced it
  validated,       \* the last history whose quality gates passed
  offMain,         \* branches with commits whose work is not on main
  listed,          \* what `git branch --merged` lists: tips that main contains
  unmerged         \* the repository root has unmerged files

workerVars == <<currentJob, step, attempt, round, candidate, validated>>
repoVars == <<main, offMain, listed, unmerged>>
queueVars == <<queue, processing, currentJob, step, attempt, round, candidate,
               promise, drainResolvers, main, validated, offMain, listed, unmerged>>

Steps == {"idle", "scheduled", "check", "commit", "sync", "verify", "rebase",
          "resolve", "candidate", "gates", "publish"}

\* What advances main: a merged branch, a commit of SPEC.md, commits of others
\* pulled from origin, the rewriting of local commits before a push.
Advances == Branches \cup {"spec", "origin", "rewrite"}

branch == Branch[currentJob]

QueueInit ==
  /\ queue = <<>> /\ processing = FALSE
  /\ currentJob = NoJob /\ step = "idle" /\ attempt = 0 /\ round = 0
  /\ candidate = <<>> /\ validated = <<>>
  /\ promise = [j \in Jobs |-> "none"]
  /\ drainResolvers = {}
  /\ main = <<>> /\ offMain = {} /\ listed = {} /\ unmerged = FALSE

-----------------------------------------------------------------------------
(* Callers. *)

Enqueue(j) ==
  /\ promise[j] = "none"
  /\ queue' = Append(queue, j)
  /\ promise' = [promise EXCEPT ![j] = "queued"]
  /\ processing' = TRUE
  /\ step' = IF processing THEN step ELSE "scheduled"
  /\ UNCHANGED <<currentJob, attempt, round, candidate, validated, drainResolvers>>
  /\ UNCHANGED repoVars

quiet == queue = <<>> /\ ~processing

\* drain that has to wait; when the queue is quiet it returns at once.
Drain(c) ==
  /\ ~quiet
  /\ drainResolvers' = drainResolvers \cup {c}
  /\ UNCHANGED <<queue, processing, promise>>
  /\ UNCHANGED workerVars /\ UNCHANGED repoVars

-----------------------------------------------------------------------------
(* The worker. *)

\* Mutant: the callers that wait are forgotten with the last job.
EmptySilently ==
  /\ step = "scheduled" /\ queue = <<>>
  /\ processing' = FALSE /\ step' = "idle"
  /\ UNCHANGED <<queue, currentJob, attempt, round, candidate, validated, promise, drainResolvers>>
  /\ UNCHANGED repoVars

QueueEmpty ==
  /\ step = "scheduled" /\ queue = <<>>
  /\ processing' = FALSE /\ step' = "idle"
  /\ drainResolvers' = {}
  /\ UNCHANGED <<queue, currentJob, attempt, round, candidate, validated, promise>>
  /\ UNCHANGED repoVars

\* Mutant: the worker takes the job that came last.
TakeLast ==
  /\ step = "scheduled" /\ queue # <<>>
  /\ currentJob' = queue[Len(queue)]
  /\ queue' = SubSeq(queue, 1, Len(queue) - 1)
  /\ attempt' = 1 /\ step' = "check"
  /\ UNCHANGED <<processing, round, candidate, validated, promise, drainResolvers>>
  /\ UNCHANGED repoVars

\* Mutant: the callers that wait are let go when no job is left to take.
ReleaseEarly ==
  /\ step = "scheduled" /\ queue # <<>>
  /\ currentJob' = Head(queue)
  /\ queue' = Tail(queue)
  /\ attempt' = 1 /\ step' = "check"
  /\ drainResolvers' = IF Tail(queue) = <<>> THEN {} ELSE drainResolvers
  /\ UNCHANGED <<processing, round, candidate, validated, promise>>
  /\ UNCHANGED repoVars

TakeJob ==
  /\ step = "scheduled" /\ queue # <<>>
  /\ currentJob' = Head(queue)
  /\ queue' = Tail(queue)
  /\ attempt' = 1 /\ step' = "check"
  /\ UNCHANGED <<processing, round, candidate, validated, promise, drainResolvers>>
  /\ UNCHANGED repoVars

\* The variables of one attempt go with it.
Forget == round' = 0 /\ candidate' = <<>> /\ validated' = <<>>

Keep == UNCHANGED <<round, candidate, validated>>

\* The job settles and the next processNext is scheduled.
Settle(verdict) ==
  /\ promise' = [promise EXCEPT ![currentJob] = verdict]
  /\ currentJob' = NoJob
  /\ step' = "scheduled" /\ attempt' = 0
  /\ Forget
  /\ UNCHANGED <<queue, processing, drainResolvers>>

\* An error of none of the classes that settle a job: it is tried again, or
\* rejected with the last attempt.
Fail ==
  \/ /\ attempt < MaxRetries
     /\ attempt' = attempt + 1
     /\ step' = "check"
     /\ Forget
     /\ UNCHANGED <<queue, processing, currentJob, promise, drainResolvers>>
  \/ attempt = MaxRetries /\ Settle("rejected")

Goto(s) ==
  /\ step' = s
  /\ UNCHANGED <<queue, processing, currentJob, attempt, promise, drainResolvers>>

CheckUnmerged ==
  /\ step = "check"
  /\ \/ unmerged /\ Settle("rejected")
     \/ /\ ~unmerged
        /\ Goto(IF currentJob \in MergeJobs THEN "sync" ELSE "commit")
        /\ Keep
  /\ UNCHANGED repoVars

CommitSpec ==
  /\ step = "commit"
  /\ \/ Settle("resolved") /\ main' = Append(main, "spec")
     \/ (Settle("resolved") \/ Fail) /\ main' = main
  /\ UNCHANGED <<offMain, listed, unmerged>>

\* syncMainWithOrigin and ensureOnMain.
SyncMain ==
  /\ step = "sync"
  /\ (Goto("verify") /\ Keep) \/ Fail
  /\ \/ main' = main
     \/ Len(main) < MaxMain /\ main' = Append(main, "origin")
  /\ UNCHANGED <<offMain, listed, unmerged>>

\* Mutant: every branch of the repository counts as merged.
anyBranchListed(b) == listed # {}

\* verifyMerge looks for the branch's name in the text that git prints.
verifyMerge(b) == \E c \in listed : <<b, c>> \in NameIn

SkipMerged ==
  /\ step = "verify"
  /\ \/ verifyMerge(branch) /\ Settle("resolved")
     \/ ~verifyMerge(branch) /\ Goto("rebase") /\ Keep
  /\ UNCHANGED repoVars

\* rebaseOntoMain in the task's worktree; it fails with conflicts only.
Rebase ==
  /\ step = "rebase"
  /\ \/ Goto("candidate") /\ Keep
     \/ Goto("resolve") /\ round' = 1 /\ UNCHANGED <<candidate, validated>>
  /\ UNCHANGED repoVars

\* A round of the merger agent and rebase --continue.
ResolveRebase ==
  /\ step = "resolve"
  /\ \/ Goto("candidate") /\ Keep
     \/ /\ round < MaxRounds /\ Goto("resolve")
        /\ round' = round + 1 /\ UNCHANGED <<candidate, validated>>
     \/ Settle("rejected")
     \/ Fail
  /\ UNCHANGED repoVars

\* The candidate workspace starts from main; merging a branch whose work main
\* has already leaves nothing to commit.
MergeCandidate ==
  /\ step = "candidate"
  /\ \/ /\ branch \in offMain /\ Goto("gates")
        /\ candidate' = main /\ UNCHANGED <<round, validated>>
     \/ branch \notin offMain /\ Settle("resolved")
     \/ Settle("rejected")
     \/ Fail
  /\ UNCHANGED repoVars

RunGates ==
  /\ step = "gates"
  /\ \/ /\ Goto("publish") /\ UNCHANGED <<round, candidate>>
        /\ validated' = Append(candidate, branch)
     \/ Settle("rejected")
     \/ Fail
  /\ UNCHANGED repoVars

\* Mutant: the branch itself is merged, whatever main has become.
MergeAnyway ==
  /\ main' = Append(main, branch)
  /\ offMain' = offMain \ {branch}
  /\ listed' = listed \cup {branch}

\* git merge --ff-only of the candidate.
FastForward ==
  /\ main = candidate
  /\ main' = Append(candidate, branch)
  /\ offMain' = offMain \ {branch}
  /\ listed' = listed \cup {branch}

\* The stash of the repository root can fail to come back, with conflicts or
\* without, when main has moved already.
Publish ==
  /\ step = "publish"
  /\ \/ FastForward /\ Settle("resolved") /\ unmerged' = unmerged
     \/ FastForward /\ Fail /\ unmerged' \in {unmerged, TRUE}
     \/ Fail /\ UNCHANGED repoVars

Worker ==
  \/ QueueEmpty \/ TakeJob
  \/ CheckUnmerged \/ CommitSpec
  \/ SyncMain \/ SkipMerged \/ Rebase \/ ResolveRebase
  \/ MergeCandidate \/ RunGates \/ Publish

-----------------------------------------------------------------------------
(* Others in the same repository. *)

UNCHANGED_QUEUE ==
  UNCHANGED <<queue, processing, currentJob, step, attempt, round, candidate,
              promise, drainResolvers, validated>>

\* createTaskWorktree: a new branch starts at the tip of main.
CreateBranch(b) ==
  /\ b \notin offMain
  /\ listed' = listed \cup {b}
  /\ UNCHANGED <<main, offMain, unmerged>> /\ UNCHANGED_QUEUE

\* The agent of a task commits, while no job of its branch is pending.
CommitOnBranch(b) ==
  /\ \A j \in MergeJobs : Branch[j] = b => promise[j] # "queued"
  /\ offMain' = offMain \cup {b}
  /\ listed' = listed \ {b}
  /\ UNCHANGED <<main, unmerged>> /\ UNCHANGED_QUEUE

\* deleteBranch: git branch -d, which refuses what is not merged.
DeleteBranch(b) ==
  /\ listed' = listed \ {b}
  /\ UNCHANGED <<main, offMain, unmerged>> /\ UNCHANGED_QUEUE

\* prepareMainForPush squashes and rebases the local commits: main contains
\* the tips of fewer branches, and the same work.
RewriteMain ==
  /\ Len(main) < MaxMain
  /\ main' = Append(main, "rewrite")
  /\ listed' \in SUBSET listed
  /\ unmerged' = FALSE
  /\ UNCHANGED offMain /\ UNCHANGED_QUEUE

\* The rebase of main stops at a conflict; it is resolved or aborted; or the
\* user resolves what a stash left behind.
ConflictAtRoot ==
  /\ unmerged' = TRUE
  /\ UNCHANGED <<main, offMain, listed>> /\ UNCHANGED_QUEUE

ConflictGone ==
  /\ unmerged' = FALSE
  /\ UNCHANGED <<main, offMain, listed>> /\ UNCHANGED_QUEUE

Others ==
  \/ \E b \in Branches : CreateBranch(b) \/ CommitOnBranch(b) \/ DeleteBranch(b)
  \/ RewriteMain \/ ConflictAtRoot \/ ConflictGone

QueueNext ==
  \/ \E j \in Jobs : Enqueue(j)
  \/ \E c \in Callers : Drain(c)
  \/ Worker
  \/ Others

QueueSpec == QueueInit /\ [][QueueNext]_queueVars

-----------------------------------------------------------------------------
(* Properties. *)

QueueTypeOK ==
  /\ queue \in Seq(Jobs) /\ processing \in BOOLEAN
  /\ currentJob \in Jobs \cup {NoJob} /\ step \in Steps
  /\ attempt \in 0..MaxRetries /\ round \in 0..MaxRounds
  /\ candidate \in Seq(Advances) /\ validated \in Seq(Advances)
  /\ promise \in [Jobs -> {"none", "queued", "resolved", "rejected"}]
  /\ drainResolvers \subseteq Callers
  /\ main \in Seq(Advances)
  /\ offMain \subseteq Branches /\ listed \subseteq Branches
  /\ unmerged \in BOOLEAN

\* A branch lands on main only as the content that passed the quality gates:
\* no commit of another actor comes between the validation of a candidate and
\* the fast-forward of main.
BranchesLandAsValidated ==
  [][offMain \ offMain' # {} => main' = validated]_queueVars

\* A caller whose merge job is resolved may close the task: the work of the
\* branch is on main.
ResolvedIsOnMain ==
  [][\A j \in MergeJobs :
       promise[j] = "queued" /\ promise'[j] = "resolved"
         => Branch[j] \notin offMain']_queueVars

\* drain lets a caller go only when nothing runs and nothing waits.
DrainedIsIdle ==
  [][\A c \in Callers : c \in drainResolvers /\ c \notin drainResolvers'
       => queue = <<>> /\ currentJob = NoJob]_queueVars

pendingJobs == IF currentJob = NoJob THEN queue ELSE <<currentJob>> \o queue

Serial == INSTANCE SerialQueue WITH pending <- pendingJobs

\* The queue implements a serial queue: jobs settle one at a time, in the
\* order of their submission, once.
ImplementsSerialQueue == Serial!Spec
=============================================================================
