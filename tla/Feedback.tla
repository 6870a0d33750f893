------------------------------ MODULE Feedback ------------------------------
(* Feedback of users and the tasks made of it: services/feedback-*.ts.  A    *)
(* submitted feedback is a row and an entry of the inbox; the dispatch loop  *)
(* claims it and has the Analyst categorize it, which ends with tasks made,  *)
(* linked or planned, with questions, or with nothing.  Meanwhile users      *)
(* answer, resolve and cancel, and tasks that close resolve their feedback.  *)
(* A run works on the copy of the row that it took at its start, and saves   *)
(* the whole of it.                                                          *)
EXTENDS Naturals, Sequences, FiniteSets, SequencesExt

CONSTANTS
  Items,          \* feedback
  Parent,         \* the feedback it replies to, or None
  Loops,          \* invocations of the loop: two of them after the stuck guard
  Tasks,          \* tasks that there are or will be
  Given,          \* tasks that others made
  AutoResolve,    \* the setting autoResolveFeedbackOnTaskCompletion, off by default;
                  \* it is not switched while the system runs
  RetryCap,       \* LINK_INVALID_RETRY_CAP
  MaxProposed,    \* bound: tasks proposed at a time
  MaxUpsets,      \* bound: questions, recategorizations, crashes and errors in all
  Overlap,        \* others act on what a run has its result for
  None

ASSUME FeedbackAssumption ==
  /\ Parent \in [Items -> Items \cup {None}]
  /\ None \notin Items \cup Tasks /\ None # {}
  /\ IsFiniteSet(Items) /\ IsFiniteSet(Tasks)
  /\ Given \subseteq Tasks /\ Overlap \in BOOLEAN /\ AutoResolve \in BOOLEAN
  /\ {RetryCap, MaxProposed, MaxUpsets} \subseteq Nat

VARIABLES
  row,        \* the table feedback
  inbox,      \* the table feedback_inbox, in its order
  task,       \* status of each task
  for,        \* the feedback a task was made for
  chores,     \* the tasks that stand for a feedback itself, as a source
  run,        \* what each invocation of the loop does
  cancelled,  \* the tasks a cancellation has noted, by feedback
  closed,     \* checks of auto-resolve that are to come
  booted,     \* the pending feedback was enqueued at start
  upsets,     \* questions, recategorizations, crashes and errors so far
  stray,      \* history: tasks that their feedback forgot, and why is known
  declined,   \* history: feedback that waits for the next start: it was rejected,
              \* its tasks all failed, or an error lost its entry of the inbox
  missed      \* history: checks of auto-resolve that a crash or an error took

tasks == <<task, for, chores>>
tables == <<row, inbox, tasks>>
users == <<cancelled, closed, booted>>
history == <<stray, declined, missed>>
vars == <<tables, run, users, upsets, history>>

NoRow == [status |-> "none", tasks |-> {}, source |-> None, tries |-> 0, text |-> 0]
Idle == [pc |-> "idle", id |-> None, item |-> NoRow, links |-> {}, similar |-> None,
         left |-> 0, made |-> {}]

Exists(f) == row[f].status \in {"pending", "resolved"}
Live == {t \in Tasks : task[t] \in {"open", "closed"}}
Linkable == {t \in Tasks : task[t] = "open"} \ chores
AllClosed(f) == row[f].tasks # {} /\ \A t \in row[f].tasks : task[t] = "closed"

(* The tasks a feedback knows of, and those a run has in hand.               *)
Known(f) == IF Exists(f) THEN (row[f].tasks \cup {row[f].source}) \ {None} ELSE {}
InHand(l) ==
  (run[l].item.tasks \cup run[l].made \cup run[l].links
     \cup {run[l].item.source, run[l].similar}) \ {None}

(* A feedback with the replies to it, and the replies to those.              *)
Thread(f) ==
  LET Replies(F) == {g \in Items : Exists(g) /\ Parent[g] \in F}
      upTo[n \in Nat] == IF n = 0 THEN {} ELSE Replies({f} \cup upTo[n - 1])
  IN  {f} \cup upTo[Cardinality(Items)]

(* Unless Overlap, nobody touches a feedback, or its tasks, between the      *)
(* Analyst's answer and the last write of the run, nor while it is being     *)
(* cancelled: both take the time of a few statements, the Analyst minutes.   *)
Settling(l) == run[l].pc \in {"recheck", "apply", "create", "save"}
Undisturbed(F) ==
  \/ Overlap
  \/ \A f \in F : cancelled[f] = None /\ ~\E l \in Loops : Settling(l) /\ run[l].id = f

Queued(q, f) == IF f \in ToSet(q) THEN q ELSE Append(q, f)
Dequeued(q, f) ==
  IF f \in ToSet(q) THEN RemoveAt(q, CHOOSE i \in DOMAIN q : q[i] = f) ELSE q
Enqueue(f) == inbox' = Queued(inbox, f)

(* saveFeedback updates the whole row, if there still is one.                *)
SaveRow(item, id) == row' = IF Exists(id) THEN [row EXCEPT ![id] = item] ELSE row

Make(T, f) ==
  /\ task' = [t \in Tasks |-> IF t \in T THEN "open" ELSE task[t]]
  /\ for' = [t \in Tasks |-> IF t \in T THEN f ELSE for[t]]

(* The n next tasks; all are alike until they are made.                      *)
Fresh(n) ==
  CHOOSE T \in SUBSET {t \in Tasks : task[t] = "free"} : Cardinality(T) = n
CanMake(n) == Cardinality({t \in Tasks : task[t] = "free"}) >= n

upset == upsets < MaxUpsets /\ upsets' = upsets + 1

(* What a run that ends now has made for its feedback, which does not know.  *)
Forgotten(l) == {t \in InHand(l) : for[t] = run[l].id /\ t \notin Known(run[l].id)}

Concerned(T) == {t \in T : \E f \in Items : t \in row[f].tasks}

-----------------------------------------------------------------------------
(* Users submit, answer, resolve and cancel.                                 *)

Submittable(f) == row[f].status = "none" /\ (Parent[f] # None => Exists(Parent[f]))

(* Each of the two writes may be the last.                                   *)
SubmitFeedback(f) ==
  /\ Submittable(f)
  /\ row' = [row EXCEPT ![f].status = "pending"]
  /\ \/ Enqueue(f) /\ UNCHANGED <<upsets, declined>>
     \/ upset /\ declined' = declined \cup {f} /\ UNCHANGED inbox
  /\ UNCHANGED <<tasks, run, users, stray, missed>>

(* Clears the tasks of the feedback and forgets them; keeps the source and   *)
(* the count of invalid links.                                               *)
RecategorizeFeedback(f) ==
  /\ Exists(f) /\ Undisturbed({f}) /\ upset
  /\ row' = [row EXCEPT ![f].status = "pending", ![f].tasks = {}, ![f].text = @ + 1]
  /\ \/ Enqueue(f) /\ declined' = declined \ {f}
     \/ declined' = declined \cup {f} /\ UNCHANGED inbox
  /\ stray' = stray \cup row[f].tasks
  /\ UNCHANGED <<tasks, run, users, missed>>

Resolved(F) ==
  [f \in Items |-> IF f \in F /\ Exists(f) THEN [row[f] EXCEPT !.status = "resolved"] ELSE row[f]]

(* What resolving those of D has come to when an error ends it: none of the  *)
(* replies is resolved before what it replies to.                            *)
Cascades(D) ==
  {F \in SUBSET UNION {Thread(f) : f \in D} : \A g \in F : g \in D \/ Parent[g] \in F}

(* With the replies to it, however they stand.                               *)
ResolveFeedback(f) ==
  /\ row[f].status = "pending" /\ Undisturbed(Thread(f))
  /\ \E F \in Cascades({f}) : f \in F /\ row' = Resolved(F)
  /\ UNCHANGED <<inbox, tasks, run, users, upsets, history>>

(* Mutant: the source is left out.                                           *)
CreatedOnly(f) == row[f].tasks

toDelete(f) == Known(f)

(* Refused with 409 if a task of it is closed.                               *)
CancelFeedback(f) ==
  /\ row[f].status = "pending" /\ cancelled[f] = None /\ Undisturbed({f})
  /\ \A t \in row[f].tasks : task[t] # "closed"
  /\ cancelled' = [cancelled EXCEPT ![f] = toDelete(f)]
  /\ UNCHANGED <<tables, run, closed, booted, upsets, history>>

(* The agents of the tasks are stopped one after the other before that.      *)
DeleteTasks(f) ==
  /\ cancelled[f] \notin {None, {}}
  /\ task' = [t \in Tasks |-> IF t \in cancelled[f] THEN "deleted" ELSE task[t]]
  /\ for' = [t \in Tasks |-> IF t \in cancelled[f] THEN None ELSE for[t]]
  /\ chores' = chores \ cancelled[f]
  /\ cancelled' = [cancelled EXCEPT ![f] = {}]
  /\ UNCHANGED <<row, inbox, run, closed, booted, upsets, history>>

DeleteFeedback(f) ==
  /\ cancelled[f] = {}
  /\ row' = [row EXCEPT ![f] = [NoRow EXCEPT !.status = "gone"]]
  /\ inbox' = Dequeued(inbox, f)
  /\ cancelled' = [cancelled EXCEPT ![f] = None]
  /\ UNCHANGED <<tasks, run, closed, booted, upsets, history>>

(* An error of one of the two.                                               *)
CancelFails(f) ==
  /\ cancelled[f] # None /\ upset
  /\ cancelled' = [cancelled EXCEPT ![f] = None]
  /\ UNCHANGED <<tables, run, closed, booted, history>>

-----------------------------------------------------------------------------
(* A task is closed, by its merge or by a user, and then checked for what    *)
(* it resolves: pending feedback all of whose tasks are closed.              *)

CloseTask(t) ==
  /\ t \in Linkable
  /\ Overlap \/ ~\E l \in Loops : t \in InHand(l)
  /\ Undisturbed({f \in Items : t \in row[f].tasks})
  /\ task' = [task EXCEPT ![t] = "closed"]
  /\ closed' = closed \cup {t}
  /\ UNCHANGED <<row, inbox, for, chores, run, cancelled, booted, upsets, history>>

(* Mutant: the feedback that the task was made for.                          *)
MadeFor(t) == {f \in Items : row[f].status = "pending" /\ for[t] = f}

candidates(t) == {f \in Items : row[f].status = "pending" /\ t \in row[f].tasks}

allClosed(t) == {f \in candidates(t) : AllClosed(f)}

CheckAutoResolveOnTaskDone(t) ==
  LET done == IF AutoResolve THEN UNION {Thread(f) : f \in allClosed(t)} ELSE {}
  IN  /\ t \in closed /\ Undisturbed(done)
      /\ closed' = closed \ {t}
      /\ row' = Resolved(done)
      /\ UNCHANGED <<inbox, tasks, run, cancelled, booted, upsets, history>>

(* Its callers log an error, and nothing checks again.                       *)
CheckFails(t) ==
  /\ t \in closed /\ upset
  /\ closed' = closed \ {t} /\ missed' = missed \cup Concerned({t})
  /\ \E F \in Cascades(IF AutoResolve THEN allClosed(t) ELSE {}) :
       Undisturbed(F) /\ row' = Resolved(F)
  /\ UNCHANGED <<inbox, tasks, run, cancelled, booted, stray, declined>>

-----------------------------------------------------------------------------
(* An invocation of the loop takes the oldest entry of the inbox, reads the  *)
(* feedback and waits for the Analyst.                                       *)

ClaimNextPendingFeedbackId(l) ==
  /\ run[l].pc = "idle" /\ inbox # <<>>
  /\ run' = [run EXCEPT ![l] = [Idle EXCEPT !.pc = "load", !.id = Head(inbox)]]
  /\ inbox' = Tail(inbox)
  /\ UNCHANGED <<row, tasks, users, upsets, history>>

(* Its status is not looked at.                                              *)
LoadFeedback(l) ==
  LET id == run[l].id
  IN  /\ run[l].pc = "load"
      /\ run' = [run EXCEPT ![l] = IF ~Exists(id) \/ row[id].tasks # {} THEN Idle
                                   ELSE [@ EXCEPT !.pc = "analyst", !.item = row[id]]]
      /\ UNCHANGED <<tables, users, upsets, history>>

(* An error of the read ends the run, with the entry taken.                  *)
LoadFails(l) ==
  /\ run[l].pc = "load" /\ upset
  /\ run' = [run EXCEPT ![l] = Idle]
  /\ declined' = declined \cup {run[l].id}
  /\ UNCHANGED <<tables, users, stray, missed>>

Answers(l) == run[l].pc = "analyst" /\ Undisturbed({run[l].id})

(* open_questions, or the Planner asks back: notify, and queue it again.     *)
AskBack(l) ==
  /\ Answers(l) /\ upset
  /\ Enqueue(run[l].id)
  /\ run' = [run EXCEPT ![l] = Idle]
  /\ UNCHANGED <<row, tasks, users, history>>

(* Tasks to link to or one to merge into, or neither.  What else it proposes *)
(* is left open until StartTasks makes tasks of it; an Analyst that fails    *)
(* proposes a title.                                                         *)
Propose(l, links, similar) ==
  /\ Answers(l)
  /\ run' = [run EXCEPT ![l].pc = "recheck", ![l].links = links, ![l].similar = similar]
  /\ UNCHANGED <<tables, users, upsets, history>>

(* handleLargeScope: a plan with its tasks, which a human may have to        *)
(* approve before it is shipped; rejected or not, the feedback is saved.     *)
GeneratePlan(l, n) ==
  /\ Answers(l) /\ CanMake(n)
  /\ Make(Fresh(n), run[l].id)
  /\ run' = [run EXCEPT ![l].pc = "approval", ![l].item.tasks = Fresh(n)]
  /\ UNCHANGED <<row, inbox, chores, users, upsets, history>>

SavePlan(l) ==
  LET id == run[l].id
  IN  /\ run[l].pc = "approval" /\ Undisturbed({id})
      /\ SaveRow([run[l].item EXCEPT !.status = "pending"], id)
      /\ stray' = IF Exists(id) THEN stray ELSE stray \cup run[l].item.tasks
      /\ run' = [run EXCEPT ![l] = Idle]
      /\ UNCHANGED <<inbox, tasks, users, upsets, declined, missed>>

(* The error is caught further out, as if the Analyst had failed: the        *)
(* feedback is queued again and goes on with a title to make a task of.      *)
PlanFails(l) ==
  /\ run[l].pc = "approval" \/ Answers(l)
  /\ Undisturbed({run[l].id})
  /\ Enqueue(run[l].id)
  /\ stray' = stray \cup run[l].item.tasks
  /\ run' = [run EXCEPT ![l].pc = "recheck"]
  /\ UNCHANGED <<row, tasks, users, upsets, declined, missed>>

(* handleScopeChange, not approved.                                          *)
RejectScopeChange(l) ==
  LET id == run[l].id
  IN  /\ Answers(l)
      /\ SaveRow([run[l].item EXCEPT !.status = "pending"], id)
      /\ declined' = declined \cup {id}
      /\ run' = [run EXCEPT ![l] = Idle]
      /\ UNCHANGED <<inbox, tasks, users, upsets, stray, missed>>

-----------------------------------------------------------------------------
(* Applying what the Analyst proposes.                                       *)

(* Mutant: only a feedback that is gone is skipped.                          *)
IsThere(id) == Exists(id)

stillPending(id) == row[id].status = "pending"

Recheck(l) ==
  /\ run[l].pc = "recheck"
  /\ run' = [run EXCEPT ![l] = IF stillPending(@.id) THEN [@ EXCEPT !.pc = "apply"]
                               ELSE Idle]
  /\ UNCHANGED <<tables, users, upsets, history>>

InvalidLinks(l) == ~(run[l].links \subseteq Linkable)

(* Mutant: off by one.                                                       *)
CapReached(id) == row[id].tries > RetryCap

retryCapReached(id) == row[id].tries >= RetryCap

(* Mutant: the copy is saved as it is.                                       *)
SaveCopy(l) == SaveRow(run[l].item, run[l].id)

SaveRetry(l) == SaveRow([run[l].item EXCEPT !.tries = row[run[l].id].tries + 1], run[l].id)

LinksRetried(l) ==
  run[l].pc = "apply" /\ InvalidLinks(l) /\ Exists(run[l].id) /\ ~retryCapReached(run[l].id)

RetryLinks(l) ==
  /\ LinksRetried(l)
  /\ SaveRetry(l)
  /\ Enqueue(run[l].id)
  /\ run' = [run EXCEPT ![l] = Idle]
  /\ UNCHANGED <<tasks, users, upsets, history>>

(* An error is caught and the copy saved as it is by then: of the first      *)
(* reads, of the write of the count, or of the entry that follows it.        *)
ApplyFails(l) ==
  /\ run[l].pc = "apply" /\ upset
  /\ \/ run' = [run EXCEPT ![l].pc = "save"] /\ UNCHANGED row
     \/ /\ LinksRetried(l)
        /\ run' = [run EXCEPT ![l].pc = "save",
                              ![l].item.tries = row[run[l].id].tries + 1]
        /\ UNCHANGED row \/ SaveRetry(l)
  /\ UNCHANGED <<inbox, tasks, users, history>>

(* A feedback that is gone is an error, after which there is nothing to save.*)
UseExisting(l) ==
  LET id == run[l].id
  IN  /\ run' = [run EXCEPT ![l].pc = "save",
                            ![l].item.tasks = IF Exists(id) THEN row[id].tasks ELSE @]
      /\ UNCHANGED <<tables, users, upsets, history>>

(* A new source takes the place of the one an earlier attempt left.          *)
MakeSource(l, next) ==
  /\ Make(Fresh(1), run[l].id)
  /\ chores' = chores \cup Fresh(1)
  /\ stray' = stray \cup ({run[l].item.source} \ {None})
  /\ run' = [run EXCEPT ![l] = [next EXCEPT !.item.source = CHOOSE t \in Fresh(1) : TRUE]]

(* linkFeedbackToExistingTasks; any of its writes may fail.                  *)
LinkTasks(l) ==
  /\ run[l].links # {} /\ ~InvalidLinks(l)
  /\ \/ /\ CanMake(1)
        /\ \E linked \in {run[l].links, {}} :
             MakeSource(l, [run[l] EXCEPT !.pc = "save", !.item.tasks = linked])
     \/ run' = [run EXCEPT ![l].pc = "save"] /\ UNCHANGED <<tasks, stray>>
  /\ UNCHANGED <<row, inbox, users, upsets, declined, missed>>

MergeIntoSimilar(l) ==
  /\ run[l].similar \in Linkable
  /\ run' = [run EXCEPT ![l].pc = "save", ![l].item.tasks = {run[l].similar}]
  /\ UNCHANGED <<tables, users, upsets, history>>

(* createTasksFromFeedback, when there is nothing to link to or merge into,  *)
(* or that failed.  A single proposed task goes without a source; the source *)
(* may fail, and so may each task.                                           *)
StartTasks(l) ==
  /\ run[l].links = {} \/ InvalidLinks(l)
  /\ \E n \in 1..MaxProposed :
       LET next == [run[l] EXCEPT !.pc = "create", !.left = n]
       IN  \/ CanMake(1) /\ MakeSource(l, next)
           \/ run' = [run EXCEPT ![l] = next] /\ UNCHANGED <<tasks, stray>>
  /\ UNCHANGED <<row, inbox, users, upsets, declined, missed>>

(* applyCategorizationResult; createdTaskIds that there are by now are used  *)
(* instead of new ones.                                                      *)
ApplyCategorizationResult(l) ==
  LET id == run[l].id
  IN  /\ run[l].pc = "apply"
      /\ InvalidLinks(l) /\ Exists(id) => retryCapReached(id)
      /\ IF ~Exists(id) \/ row[id].tasks # {} THEN UseExisting(l)
         ELSE LinkTasks(l) \/ MergeIntoSimilar(l) \/ StartTasks(l)

CreateTask(l) ==
  /\ run[l].pc = "create" /\ run[l].left > 0 /\ CanMake(1)
  /\ Make(Fresh(1), run[l].id)
  /\ run' = [run EXCEPT ![l].left = @ - 1, ![l].made = @ \cup Fresh(1)]
  /\ UNCHANGED <<row, inbox, chores, users, upsets, history>>

(* createWithRetry makes the task without its epic, and answers null.        *)
CreateStandalone(l) ==
  /\ run[l].pc = "create" /\ run[l].left > 0 /\ CanMake(1)
  /\ Make(Fresh(1), run[l].id)
  /\ stray' = stray \cup Fresh(1)
  /\ run' = [run EXCEPT ![l].left = @ - 1]
  /\ UNCHANGED <<row, inbox, chores, users, upsets, declined, missed>>

CreateFails(l) ==
  /\ run[l].pc = "create" /\ run[l].left > 0
  /\ run' = [run EXCEPT ![l].left = @ - 1]
  /\ UNCHANGED <<tables, users, upsets, history>>

TasksCreated(l) ==
  /\ run[l].pc = "create" /\ run[l].left = 0
  /\ run' = [run EXCEPT ![l].pc = "save", ![l].item.tasks = run[l].made]
  /\ UNCHANGED <<tables, users, upsets, history>>

SaveFeedback(l) ==
  LET id == run[l].id
  IN  /\ run[l].pc = "save"
      /\ SaveRow([run[l].item EXCEPT !.status = "pending"], id)
      /\ declined' = IF run[l].item.tasks = {} THEN declined \cup {id} ELSE declined
      /\ run' = [run EXCEPT ![l] = Idle]
      /\ UNCHANGED <<inbox, tasks, users, upsets, stray, missed>>

(* An error before the Analyst is asked, when the status is read again or    *)
(* when the copy is saved ends the run; processFeedbackWithAnalyst queues    *)
(* the feedback again, if it can.                                            *)
RunFails(l) ==
  LET id == run[l].id
  IN  /\ run[l].pc \in {"analyst", "recheck", "save"} /\ upset
      /\ run' = [run EXCEPT ![l] = Idle]
      /\ stray' = stray \cup Forgotten(l)
      /\ \/ Enqueue(id) /\ UNCHANGED declined
         \/ declined' = declined \cup {id} /\ UNCHANGED inbox
      /\ UNCHANGED <<row, tasks, users, missed>>

-----------------------------------------------------------------------------
(* The backend crashes, maybe between the two writes of a submission; at its *)
(* start retryPendingCategorizations queues the feedback that is pending     *)
(* without tasks, while the loops already run, unless an error ends it.      *)

Crash ==
  /\ upset
  /\ \/ UNCHANGED row
     \/ \E f \in Items : Submittable(f) /\ row' = [row EXCEPT ![f].status = "pending"]
  /\ run' = [l \in Loops |-> Idle]
  /\ closed' = {} /\ cancelled' = [f \in Items |-> None]
  /\ booted' = FALSE
  /\ stray' = stray \cup {t \in UNION {InHand(l) : l \in Loops} :
                            for[t] # None /\ t \notin Known(for[t])}
  /\ missed' = missed \cup Concerned(closed)
  /\ UNCHANGED <<inbox, tasks, declined>>

RetryPendingCategorizations ==
  LET pending == {f \in Items : row[f].status = "pending" /\ row[f].tasks = {}}
      rest == pending \ ToSet(inbox)
  IN  /\ ~booted
      /\ booted' = TRUE
      /\ \/ /\ inbox' = inbox \o SetToSeq(rest)
            /\ declined' = declined \ pending
            /\ UNCHANGED upsets
         \/ \E F \in SUBSET rest : /\ upset
                                   /\ inbox' = inbox \o SetToSeq(F)
                                   /\ declined' = (declined \ pending) \cup (rest \ F)
      /\ UNCHANGED <<row, tasks, run, cancelled, closed, stray, missed>>

-----------------------------------------------------------------------------

Init ==
  /\ row = [f \in Items |-> NoRow]
  /\ inbox = <<>>
  /\ task = [t \in Tasks |-> IF t \in Given THEN "open" ELSE "free"]
  /\ for = [t \in Tasks |-> None] /\ chores = {}
  /\ run = [l \in Loops |-> Idle]
  /\ cancelled = [f \in Items |-> None] /\ closed = {} /\ booted = TRUE
  /\ upsets = 0
  /\ stray = {} /\ declined = {} /\ missed = {}

User ==
  \/ \E f \in Items : SubmitFeedback(f) \/ RecategorizeFeedback(f) \/ ResolveFeedback(f)
                      \/ CancelFeedback(f)
  \/ \E t \in Tasks : CloseTask(t)

Proposal(l) ==
  \/ Propose(l, {}, None)
  \/ \E t \in {u \in Tasks : task[u] # "free"} : Propose(l, {t}, None) \/ Propose(l, {}, t)

Analyst(l) ==
  \/ AskBack(l) \/ Proposal(l) \/ RejectScopeChange(l)
  \/ \E n \in 1..MaxProposed : GeneratePlan(l, n)

Planned(l) == SavePlan(l) \/ PlanFails(l)

Apply(l) ==
  \/ Recheck(l) \/ RetryLinks(l) \/ ApplyCategorizationResult(l)
  \/ CreateTask(l) \/ CreateStandalone(l) \/ CreateFails(l) \/ TasksCreated(l)
  \/ SaveFeedback(l)

Loop(l) ==
  \/ ClaimNextPendingFeedbackId(l) \/ LoadFeedback(l) \/ Analyst(l) \/ Planned(l) \/ Apply(l)
  \/ LoadFails(l) \/ ApplyFails(l) \/ RunFails(l)

Service ==
  \/ \E f \in Items : DeleteTasks(f) \/ DeleteFeedback(f) \/ CancelFails(f)
  \/ \E t \in Tasks : CheckAutoResolveOnTaskDone(t) \/ CheckFails(t)
  \/ RetryPendingCategorizations

Next == User \/ Service \/ (\E l \in Loops : Loop(l)) \/ Crash

Spec == Init /\ [][Next]_vars

(* What the backend has begun it goes on with; the Analyst and the humans    *)
(* who approve answer.  Nothing is asked of users, and crashes need not be.  *)
FairSpec ==
  /\ Spec
  /\ \A l \in Loops : WF_vars(ClaimNextPendingFeedbackId(l)) /\ WF_vars(LoadFeedback(l))
                      /\ WF_vars(Analyst(l)) /\ WF_vars(Planned(l)) /\ WF_vars(Apply(l))
  /\ \A f \in Items : WF_vars(DeleteTasks(f)) /\ WF_vars(DeleteFeedback(f))
  /\ \A t \in Tasks : WF_vars(CheckAutoResolveOnTaskDone(t))
  /\ WF_vars(RetryPendingCategorizations)

-----------------------------------------------------------------------------
(* The tables, the runs and the bookkeeping have their types.                *)
Rows == [status : {"none", "pending", "resolved", "gone"}, tasks : SUBSET Tasks,
         source : Tasks \cup {None}, tries : 0..RetryCap, text : 0..MaxUpsets]
Runs == [pc : {"idle", "load", "analyst", "approval", "recheck", "apply", "create", "save"},
         id : Items \cup {None}, item : Rows, links : SUBSET Tasks,
         similar : Tasks \cup {None}, left : 0..MaxProposed,
         made : SUBSET Tasks]

TypeOK ==
  /\ row \in [Items -> Rows]
  /\ inbox \in Seq(Items)
  /\ task \in [Tasks -> {"free", "open", "closed", "deleted"}]
  /\ for \in [Tasks -> Items \cup {None}] /\ chores \subseteq Tasks
  /\ run \in [Loops -> Runs]
  /\ closed \subseteq Tasks /\ booted \in BOOLEAN
  /\ cancelled \in [Items -> (SUBSET Tasks) \cup {None}]
  /\ upsets \in 0..MaxUpsets
  /\ stray \subseteq Tasks /\ declined \subseteq Items /\ missed \subseteq Tasks

(* A task made for a feedback is among its tasks or in the hands of a run,   *)
(* as long as the task lives: a cancelled or resolved feedback gets none     *)
(* behind its back, and none is made twice.  Left aside are the tasks that   *)
(* a crash or an error before the run's last write, that write's own error,  *)
(* a recategorization, a failed plan, a failed attempt's source or the       *)
(* fallback of createWithRetry is known to leave behind.                     *)
TasksAreKnown ==
  \A t \in Live \ stray :
    for[t] # None => \/ t \in Known(for[t])
                     \/ \E l \in Loops : run[l].id = for[t] /\ t \in InHand(l)

(* Resolved feedback becomes pending again only when it is recategorized,    *)
(* when a plan or a rejected scope change is saved over it, or by a run that *)
(* took it up resolved, before it was recategorized.                         *)
ResolvedStaysResolved ==
  [][\A f \in Items : row[f].status = "resolved" /\ row'[f].status = "pending" =>
       \/ RecategorizeFeedback(f)
       \/ \E l \in Loops : /\ run[l].id = f
                           /\ \/ SavePlan(l) \/ RejectScopeChange(l)
                              \/ run[l].item.status = "resolved"]_vars

(* Where the setting asks for it, pending feedback whose tasks are all       *)
(* closed is about to be resolved: the check of one of them is still to      *)
(* come, unless a crash or an error took it.                                 *)
DoneIsResolved ==
  AutoResolve =>
    \A f \in Items :
      row[f].status = "pending" /\ AllClosed(f) => row[f].tasks \cap (closed \cup missed) # {}

(* Feedback that waits gets its tasks, or is resolved, cancelled or denied   *)
(* them: no entry of the inbox is lost, but to an error, or starved, no link *)
(* is retried for ever, and what a crash interrupts is taken up at the start.*)
Waiting(f) == row[f].status = "pending" /\ row[f].tasks = {} /\ f \notin declined
FeedbackIsServed == \A f \in Items : Waiting(f) ~> ~Waiting(f)

(* A clarification that a user gave stays in the feedback.                   *)
AnswersAreKept ==
  [][\A f \in Items :
       Exists(f) => row'[f].status = "gone" \/ row'[f].text >= row[f].text]_vars

(* Cancelling a feedback deletes no task that others have asked for.         *)
CancelSparesOthers ==
  [][\A t \in Tasks : task[t] # "deleted" /\ task'[t] = "deleted" =>
       \A f \in Items : t \in cancelled[f] => for[t] = f]_vars

(* Pending feedback with tasks has one that still is to be done or is done.  *)
PendingHasWork ==
  \A f \in Items : row[f].status = "pending" /\ row[f].tasks # {} => row[f].tasks \cap Live # {}

=============================================================================
