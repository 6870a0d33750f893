--------------------------- MODULE Feedback_proofs ---------------------------
(* Proofs about Feedback: its type invariant and, for one invocation of the  *)
(* loop whose results nobody overtakes, that the tasks of a feedback stay    *)
(* known, that feedback that is done is resolved, and that it stays so.      *)
EXTENDS Feedback, TLAPS, FiniteSetTheorems

\* One invocation of the loop handles feedback at a time, and nobody overtakes it
\* between the answer of the Analyst and its last write.
Orderly == ~Overlap /\ \A l, k \in Loops : l = k

Deciding == {"apply", "create", "save"}

\* There are no tasks without a row, and no answer that is not counted.
RowsOK ==
  /\ \A f \in Items : ~Exists(f) => row[f].tasks = {} /\ row[f].source = None
  /\ \A f \in Items : row[f].text <= upsets
  /\ \A l \in Loops : run[l].item.text <= upsets

\* A run is about a feedback, whose row it has read.
RunsOK ==
  \A l \in Loops :
    /\ run[l].pc # "idle" => run[l].id \in Items
    /\ run[l].pc \notin {"idle", "load"} => run[l].item.status \in {"pending", "resolved"}

TypeInv == TypeOK /\ RowsOK /\ RunsOK

\* What a run has in hand, by how far it is.
RunOK(l) ==
  /\ run[l].pc \notin {"create", "save"} => run[l].made = {}
  /\ run[l].pc \in {"idle", "load", "analyst"} => run[l].item.tasks = {}
  /\ run[l].pc \in {"recheck", "apply", "create"} => run[l].item.tasks \subseteq stray
  /\ run[l].pc = "save" => run[l].made \subseteq run[l].item.tasks
  /\ run[l].pc \in {"idle", "load", "analyst", "approval"} => run[l].links = {}
  /\ run[l].pc \in {"recheck", "apply"} => run[l].item.tasks = {} \/ run[l].links = {}

\* The copy of a run agrees with the row where it matters.
CopyOK(l) ==
  LET id == run[l].id
  IN  run[l].pc \notin {"idle", "load"} =>
        /\ row[id].status # "none" /\ row[id].tasks = {}
        /\ Exists(id) => \/ run[l].item.source = row[id].source
                         \/ run[l].pc \in {"create", "save"} /\ row[id].source \in stray \cup {None}
        /\ run[l].pc \in Deciding =>
             \/ row[id].status = "pending"
             \/ row[id].status = "resolved" /\ run[l].item.status = "resolved"

\* A cancellation has noted all the tasks of its feedback, and no run decides
\* on it.
CancelOK ==
  /\ \A f \in Items : cancelled[f] # None =>
       \A t \in Known(f) : t \in cancelled[f] \/ task[t] = "deleted"
  /\ \A l \in Loops : Settling(l) => cancelled[run[l].id] = None

\* The tasks that only the run knows of.
Own(l) ==
  IF run[l].pc = "approval" THEN run[l].item.tasks
  ELSE IF run[l].pc \in {"create", "save"}
       THEN run[l].made \cup run[l].item.tasks \cup {run[l].item.source}
       ELSE {}

KnownOK ==
  \A t \in Live \ stray :
    for[t] # None => t \in Known(for[t]) \/ \E l \in Loops : run[l].id = for[t] /\ t \in Own(l)

\* No task of a run has been closed.
HandsOpen ==
  \A l \in Loops : \A t \in run[l].item.tasks \cup run[l].made : task[t] # "closed"

\* What DoneIsResolved says, by the tasks.
DoneOK ==
  AutoResolve =>
    \A f \in Items : row[f].status = "pending" =>
      \A s \in row[f].tasks :
        \E t \in row[f].tasks : task[t] # "closed" \/ t \in closed \/ t \in missed

Inv ==
  /\ TypeInv /\ CancelOK /\ KnownOK /\ HandsOpen /\ DoneOK
  /\ \A l \in Loops : RunOK(l) /\ CopyOK(l)

-----------------------------------------------------------------------------
(* The operators of the model. *)

Free == {t \in Tasks : task[t] = "free"}

\* A finite set has subsets of every size up to its own.
LEMMA SubsetOfSize ==
  ASSUME NEW S, IsFiniteSet(S), NEW n \in Nat, n <= Cardinality(S)
  PROVE  \E T \in SUBSET S : Cardinality(T) = n
<1> DEFINE m == Cardinality(S)
<1>1. m \in Nat /\ ExistsBijection(1..m, S)
  BY FS_CardinalityType
<1>2. PICK f \in Bijection(1..m, S) : TRUE
  BY <1>1 DEF ExistsBijection
<1> DEFINE T == {f[i] : i \in 1..n}
           g == [i \in 1..n |-> f[i]]
<1>3. 1..n \subseteq 1..m
  BY <1>1
<1>4. f \in [1..m -> S] /\ \A i, k \in 1..m : f[i] = f[k] => i = k
  BY <1>2 DEF Bijection, Injection, IsInjective
<1>5. T \in SUBSET S
  BY <1>3, <1>4
<1>6. g \in Bijection(1..n, T)
  BY <1>3, <1>4 DEF Bijection, Injection, Surjection, IsInjective
<1>7. Cardinality(T) = n
  BY <1>6, FS_CountingElements DEF ExistsBijection
<1> QED BY <1>5, <1>7

\* The tasks that are made next are free.
LEMMA FreshIsFree ==
  ASSUME FeedbackAssumption, NEW n \in Nat, CanMake(n)
  PROVE  Fresh(n) \subseteq Free /\ Cardinality(Fresh(n)) = n
<1>1. IsFiniteSet(Free)
  BY FS_Subset DEF FeedbackAssumption, Free
<1>2. n <= Cardinality(Free)
  BY <1>1, FS_CardinalityType DEF CanMake, Free
<1>3. \E T \in SUBSET Free : Cardinality(T) = n
  BY <1>1, <1>2, SubsetOfSize
<1> QED BY <1>3 DEF Fresh, Free

\* One task is one.
LEMMA FreshOne ==
  ASSUME FeedbackAssumption, CanMake(1)
  PROVE  \E t \in Free : Fresh(1) = {t}
<1>1. Fresh(1) \subseteq Free /\ Cardinality(Fresh(1)) = 1
  BY FreshIsFree
<1>2. IsFiniteSet(Fresh(1))
  BY <1>1, FS_Subset DEF FeedbackAssumption, Free
<1> QED BY <1>1, <1>2, FS_Singleton

\* What is done to the inbox leaves it a sequence of feedback.
LEMMA QueuedType ==
  ASSUME NEW q \in Seq(Items), NEW f \in Items
  PROVE  Queued(q, f) \in Seq(Items) /\ Dequeued(q, f) \in Seq(Items)
<1>1. Queued(q, f) \in Seq(Items)
  BY DEF Queued
<1>2. ASSUME f \in ToSet(q) PROVE Dequeued(q, f) \in Seq(Items)
  <2> DEFINE i == CHOOSE k \in DOMAIN q : q[k] = f
  <2>1. i \in 1..Len(q)
    BY <1>2 DEF ToSet
  <2>2. ASSUME NEW k \in 1..Len(q)
        PROVE  RemoveAt(q, k) \in Seq(Items)
    <3>1. SubSeq(q, 1, k - 1) \in Seq(Items)
      OBVIOUS
    <3>2. SubSeq(q, k + 1, Len(q)) \in Seq(Items)
      OBVIOUS
    <3> QED BY <3>1, <3>2 DEF RemoveAt
  <2> QED BY <1>2, <2>1, <2>2 DEF Dequeued
<1> QED BY <1>1, <1>2 DEF Dequeued

\* The feedback that is queued at the start is feedback.
LEMMA SetToSeqType ==
  ASSUME NEW S, IsFiniteSet(S)
  PROVE  SetToSeq(S) \in Seq(S)
<1>1. Cardinality(S) \in Nat /\ ExistsBijection(1..Cardinality(S), S)
  BY FS_CardinalityType
<1>2. \E f \in [1..Cardinality(S) -> S] : IsInjective(f)
  BY <1>1 DEF ExistsBijection, Bijection, Injection
<1>3. SetToSeq(S) \in [1..Cardinality(S) -> S]
  BY <1>2 DEF SetToSeq
<1> QED BY <1>1, <1>3

Pcs == {"idle", "load", "analyst", "approval", "recheck", "apply", "create", "save"}

\* A run with another value in one field is a run.
LEMMA RunWith ==
  ASSUME NEW r \in Runs
  PROVE  /\ \A p \in Pcs : [r EXCEPT !.pc = p] \in Runs
         /\ \A x \in Rows : [r EXCEPT !.item = x] \in Runs
         /\ \A L \in SUBSET Tasks : [r EXCEPT !.links = L] \in Runs
         /\ \A t \in Tasks \cup {None} : [r EXCEPT !.similar = t] \in Runs
         /\ \A n \in 0..MaxProposed : [r EXCEPT !.left = n] \in Runs
         /\ \A M \in SUBSET Tasks : [r EXCEPT !.made = M] \in Runs
<1>1. \A p \in Pcs : [r EXCEPT !.pc = p] \in Runs
  BY SMT DEF Runs, Pcs
<1>2. \A x \in Rows : [r EXCEPT !.item = x] \in Runs
  BY SMT DEF Runs
<1>3. \A L \in SUBSET Tasks : [r EXCEPT !.links = L] \in Runs
  BY SMT DEF Runs
<1>4. \A t \in Tasks \cup {None} : [r EXCEPT !.similar = t] \in Runs
  BY SMT DEF Runs
<1>5. \A n \in 0..MaxProposed : [r EXCEPT !.left = n] \in Runs
  BY SMT DEF Runs
<1>6. \A M \in SUBSET Tasks : [r EXCEPT !.made = M] \in Runs
  BY SMT DEF Runs
<1> QED BY <1>1, <1>2, <1>3, <1>4, <1>5, <1>6

\* And so is a row a row.
LEMMA RowWith ==
  ASSUME NEW r \in Rows
  PROVE  /\ \A p \in {"none", "pending", "resolved", "gone"} : [r EXCEPT !.status = p] \in Rows
         /\ \A T \in SUBSET Tasks : [r EXCEPT !.tasks = T] \in Rows
         /\ \A t \in Tasks \cup {None} : [r EXCEPT !.source = t] \in Rows
         /\ \A n \in 0..RetryCap : [r EXCEPT !.tries = n] \in Rows
         /\ \A n \in 0..MaxUpsets : [r EXCEPT !.text = n] \in Rows
<1>1. \A p \in {"none", "pending", "resolved", "gone"} : [r EXCEPT !.status = p] \in Rows
  BY SMT DEF Rows
<1>2. \A T \in SUBSET Tasks : [r EXCEPT !.tasks = T] \in Rows
  BY SMT DEF Rows
<1>3. \A t \in Tasks \cup {None} : [r EXCEPT !.source = t] \in Rows
  BY SMT DEF Rows
<1>4. \A n \in 0..RetryCap : [r EXCEPT !.tries = n] \in Rows
  BY SMT DEF Rows
<1>5. \A n \in 0..MaxUpsets : [r EXCEPT !.text = n] \in Rows
  BY SMT DEF Rows
<1> QED BY <1>1, <1>2, <1>3, <1>4, <1>5

\* The parts of rows and runs.
LEMMA Fields ==
  ASSUME TypeOK
  PROVE  /\ \A f \in Items : /\ row[f] \in Rows /\ row[f].tasks \in SUBSET Tasks
                             /\ row[f].source \in Tasks \cup {None}
                             /\ row[f].tries \in 0..RetryCap /\ row[f].text \in 0..MaxUpsets
         /\ \A l \in Loops : /\ run[l] \in Runs /\ run[l].item \in Rows
                             /\ run[l].id \in Items \cup {None} /\ run[l].links \in SUBSET Tasks
                             /\ run[l].similar \in Tasks \cup {None}
                             /\ run[l].left \in 0..MaxProposed /\ run[l].made \in SUBSET Tasks
                             /\ run[l].item.tasks \in SUBSET Tasks
                             /\ run[l].item.source \in Tasks \cup {None}
<1>1. \A f \in Items : row[f] \in Rows
  BY DEF TypeOK
<1>2. \A l \in Loops : run[l] \in Runs
  BY DEF TypeOK
<1>3. \A l \in Loops : run[l].item \in Rows
  BY <1>2 DEF Runs
<1> QED BY <1>1, <1>2, <1>3 DEF Rows, Runs

\* Nothing to do, and no row.
LEMMA IdleType ==
  ASSUME FeedbackAssumption
  PROVE  NoRow \in Rows /\ Idle \in Runs
<1>1. NoRow \in Rows
  BY DEF NoRow, Rows, FeedbackAssumption
<1> QED BY <1>1 DEF Idle, Runs, FeedbackAssumption

\* Resolving leaves rows, and saving one.
LEMMA ResolvedType ==
  ASSUME TypeOK, NEW F
  PROVE  Resolved(F) \in [Items -> Rows]
<1>1. ASSUME NEW f \in Items
      PROVE  (IF f \in F /\ Exists(f) THEN [row[f] EXCEPT !.status = "resolved"]
                                     ELSE row[f]) \in Rows
  <2>1. row[f] \in Rows
    BY Fields
  <2>2. [row[f] EXCEPT !.status = "resolved"] \in Rows
    BY <2>1, RowWith
  <2> QED BY <2>1, <2>2
<1> QED BY <1>1 DEF Resolved

LEMMA SavedType ==
  ASSUME TypeOK, NEW f \in Items, NEW r \in Rows, SaveRow(r, f)
  PROVE  row' \in [Items -> Rows]
BY DEF SaveRow, TypeOK

\* An error later the answers are still counted.
LEMMA LaterTypes ==
  ASSUME FeedbackAssumption, TypeInv, row' = row, run' = run, upsets' = upsets + 1
  PROVE  RowsOK'
<1>1. /\ upsets \in Nat
      /\ \A g \in Items : row[g].text \in Nat
      /\ \A l \in Loops : run[l].item.text \in Nat
  BY Fields DEF TypeInv, TypeOK, Rows, FeedbackAssumption
<1> QED BY <1>1 DEF TypeInv, RowsOK, Exists

\* And when it ends the run.
LEMMA IdleRows ==
  ASSUME FeedbackAssumption, TypeInv, NEW l \in Loops, row' = row, upsets' = upsets + 1,
         \A k \in Loops : run'[k].item = IF k = l THEN NoRow ELSE run[k].item
  PROVE  RowsOK'
<1>1. /\ upsets \in Nat
      /\ \A g \in Items : row[g].text \in Nat
      /\ \A k \in Loops : run[k].item.text \in Nat
  BY Fields DEF TypeInv, TypeOK, Rows, FeedbackAssumption
<1>2. NoRow.text = 0
  BY DEF NoRow
<1> HIDE DEF NoRow
<1> QED BY <1>1, <1>2 DEF TypeInv, RowsOK, Exists

\* An invalid link is counted.
LEMMA RetriedType ==
  ASSUME FeedbackAssumption, TypeInv, NEW l \in Loops, LinksRetried(l)
  PROVE  LET next == [run[l].item EXCEPT !.tries = row[run[l].id].tries + 1]
         IN  /\ next \in Rows
             /\ next.text = run[l].item.text /\ next.tasks = run[l].item.tasks
             /\ next.source = run[l].item.source /\ next.status = run[l].item.status
<1> DEFINE n == row[run[l].id].tries + 1
<1>1. run[l].id \in Items
  BY DEF TypeInv, RunsOK, LinksRetried
<1>2. n \in 0..RetryCap
  BY <1>1, Fields DEF TypeInv, FeedbackAssumption, LinksRetried, retryCapReached
<1>3. run[l].item \in Rows
  BY Fields DEF TypeInv
<1> HIDE DEF n
<1>4. [run[l].item EXCEPT !.tries = n] \in Rows
  BY <1>2, <1>3, RowWith
<1> QED BY <1>3, <1>4 DEF Rows, n

\* What the steps of a run make of it.
LEMMA StepTypes ==
  ASSUME TypeOK, NEW l \in Loops
  PROVE  /\ [run[l].item EXCEPT !.status = "pending"] \in Rows
         /\ \A p \in Pcs : [run[l] EXCEPT !.pc = p] \in Runs
         /\ \A p \in Pcs : \A n \in 0..MaxProposed : [run[l] EXCEPT !.pc = p, !.left = n] \in Runs
<1>1. [run[l].item EXCEPT !.status = "pending"] \in Rows
  BY Fields, RowWith
<1>2. \A p \in Pcs : [run[l] EXCEPT !.pc = p] \in Runs
  BY Fields, RunWith
<1>3. \A p \in Pcs : \A n \in 0..MaxProposed : [run[l] EXCEPT !.pc = p, !.left = n] \in Runs
  BY <1>2, RunWith
<1> QED BY <1>1, <1>2, <1>3

LEMMA TasksType ==
  ASSUME TypeOK, NEW l \in Loops, NEW p \in Pcs, NEW T \in SUBSET Tasks
  PROVE  [run[l] EXCEPT !.pc = p, !.item.tasks = T] \in Runs
<1>1. [run[l] EXCEPT !.pc = p] \in Runs
  BY StepTypes
<1>2. [run[l].item EXCEPT !.tasks = T] \in Rows
  BY Fields, RowWith
<1> QED BY <1>1, <1>2, Fields, RunWith DEF Runs

LEMMA SourceType ==
  ASSUME FeedbackAssumption, TypeOK, NEW l \in Loops, NEW next \in Runs,
         CanMake(1), MakeSource(l, next)
  PROVE  run' \in [Loops -> Runs]
<1>1. PICK t \in Free : Fresh(1) = {t}
  BY FreshOne
<1> DEFINE s == CHOOSE u \in Fresh(1) : TRUE
<1>2. s \in Tasks
  BY <1>1 DEF Free
<1>3. next.item \in Rows
  BY DEF Runs
<1>4. [next.item EXCEPT !.source = s] \in Rows
  BY <1>2, <1>3, RowWith
<1>5. [next EXCEPT !.item = [next.item EXCEPT !.source = s]] \in Runs
  BY <1>4, RunWith
<1>6. run' = [run EXCEPT ![l] = [next EXCEPT !.item = [next.item EXCEPT !.source = s]]]
  BY DEF MakeSource
<1> QED BY <1>5, <1>6 DEF TypeOK

-----------------------------------------------------------------------------
(* Each action keeps the types. *)

LEMMA SubmitFeedbackTypes ==
  ASSUME FeedbackAssumption, TypeInv, NEW f \in Items, SubmitFeedback(f)
  PROVE  TypeInv'
<1> USE DEF TypeInv
<1>1. row' \in [Items -> Rows]
  <2>1. [row[f] EXCEPT !.status = "pending"] \in Rows
    BY Fields, RowWith
  <2> QED BY <2>1 DEF SubmitFeedback, TypeOK
<1>2. run' = run
  BY DEF SubmitFeedback, tables, tasks, users, history
<1>3. inbox' \in Seq(Items)
  <2>1. inbox' = inbox \/ inbox' = Queued(inbox, f)
    BY DEF SubmitFeedback, Enqueue
  <2>2. inbox \in Seq(Items)
    BY DEF TypeOK
  <2>3. Queued(inbox, f) \in Seq(Items)
    BY <2>2, QueuedType
  <2> QED BY <2>1, <2>2, <2>3
<1>4. TypeOK'
  <2>1. upsets' \in 0..MaxUpsets /\ declined' \subseteq Items
    BY DEF SubmitFeedback, TypeOK, upset, FeedbackAssumption
  <2> QED BY <1>1, <1>2, <1>3, <2>1 DEF SubmitFeedback, TypeOK, tasks, users
<1>5. RowsOK'
  <2>1. upsets' \in {upsets, upsets + 1} /\ upsets \in Nat
    BY DEF SubmitFeedback, TypeOK, upset, FeedbackAssumption
  <2>2. \A g \in Items : /\ row'[g].text = row[g].text /\ row'[g].tasks = row[g].tasks
                         /\ row'[g].source = row[g].source
                         /\ row'[g].status \in {row[g].status, "pending"}
    BY DEF SubmitFeedback, TypeOK, Rows
  <2>3. /\ \A g \in Items : row[g].text \in Nat
        /\ \A l \in Loops : run[l].item.text \in Nat
    BY Fields DEF Rows, FeedbackAssumption
  <2>4. \A g \in Items : ~Exists(g)' => ~Exists(g)
    BY <2>2 DEF Exists
  <2> QED BY <1>2, <2>1, <2>2, <2>3, <2>4 DEF RowsOK
<1>6. RunsOK'
  BY <1>1, <1>2 DEF RunsOK
<1> QED BY <1>4, <1>5, <1>6

LEMMA RecategorizeFeedbackTypes ==
  ASSUME FeedbackAssumption, TypeInv, NEW f \in Items, RecategorizeFeedback(f)
  PROVE  TypeInv'
<1> USE DEF TypeInv
<1>1. row' \in [Items -> Rows]
  <2>1. row[f].text + 1 \in 0..MaxUpsets
    BY Fields DEF RowsOK, TypeOK, RecategorizeFeedback, upset, FeedbackAssumption
  <2>2. [row[f] EXCEPT !.status = "pending"] \in Rows
    BY Fields, RowWith
  <2>3. [row[f] EXCEPT !.status = "pending", !.tasks = {}] \in Rows
    BY <2>2, RowWith
  <2>4. [row[f] EXCEPT !.status = "pending", !.tasks = {}, !.text = row[f].text + 1] \in Rows
    BY <2>1, <2>3, RowWith
  <2> QED BY <2>4 DEF RecategorizeFeedback, TypeOK
<1>2. run' = run
  BY DEF RecategorizeFeedback, tables, tasks, users, history
<1>3. inbox' \in Seq(Items)
  <2>1. inbox' = inbox \/ inbox' = Queued(inbox, f)
    BY DEF RecategorizeFeedback, Enqueue
  <2>2. inbox \in Seq(Items)
    BY DEF TypeOK
  <2>3. Queued(inbox, f) \in Seq(Items)
    BY <2>2, QueuedType
  <2> QED BY <2>1, <2>2, <2>3
<1>4. \A g \in Items : row'[g].text = IF g = f THEN row[g].text + 1 ELSE row[g].text
  BY DEF RecategorizeFeedback, TypeOK, Rows
<1>5. \A g \in Items : /\ row'[g].tasks = (IF g = f THEN {} ELSE row[g].tasks)
                       /\ row'[g].source = row[g].source
  BY DEF RecategorizeFeedback, TypeOK, Rows
<1>6. \A g \in Items : row'[g].status \in {row[g].status, "pending"}
  BY DEF RecategorizeFeedback, TypeOK, Rows
<1>7. TypeOK'
  <2>1. upsets' \in 0..MaxUpsets /\ declined' \subseteq Items /\ stray' \subseteq Tasks
    BY Fields DEF RecategorizeFeedback, TypeOK, upset, FeedbackAssumption
  <2> QED BY <1>1, <1>2, <1>3, <2>1 DEF RecategorizeFeedback, TypeOK, tasks, users
<1>8. RowsOK'
  <2>1. upsets' = upsets + 1 /\ upsets \in Nat /\ run' = run
    BY DEF RecategorizeFeedback, TypeOK, upset, FeedbackAssumption
  <2>2. \A g \in Items : ~Exists(g)' => ~Exists(g)
    BY <1>6 DEF Exists
  <2>3. /\ \A g \in Items : row[g].text \in Nat
        /\ \A l \in Loops : run[l].item.text \in Nat
    BY Fields DEF Rows, FeedbackAssumption
  <2> QED BY <1>4, <1>5, <2>1, <2>2, <2>3 DEF RowsOK
<1>9. RunsOK'
  BY <1>1, <1>2 DEF RunsOK
<1> QED BY <1>7, <1>8, <1>9

LEMMA ResolveFeedbackTypes ==
  ASSUME FeedbackAssumption, TypeInv, NEW f \in Items, ResolveFeedback(f)
  PROVE  TypeInv'
<1> USE DEF TypeInv
<1>1. row' \in [Items -> Rows]
  BY ResolvedType DEF ResolveFeedback
<1>2. run' = run
  BY DEF ResolveFeedback, tables, tasks, users, history
<1>3. inbox' = inbox
  BY DEF ResolveFeedback, tables, tasks, users, history
<1>4. TypeOK'
  BY <1>1, <1>2, <1>3, Fields DEF ResolveFeedback, TypeOK, tasks, users, history
<1>5. RowsOK'
  BY <1>1, <1>2 DEF ResolveFeedback, Resolved, RowsOK, Exists
<1>6. RunsOK'
  BY <1>1, <1>2 DEF RunsOK
<1> QED BY <1>4, <1>5, <1>6

LEMMA CancelFeedbackTypes ==
  ASSUME FeedbackAssumption, TypeInv, NEW f \in Items, CancelFeedback(f)
  PROVE  TypeInv'
<1> USE DEF TypeInv
<1>1. row' = row
  BY DEF CancelFeedback, tables, tasks, users, history
<1>2. run' = run
  BY DEF CancelFeedback, tables, tasks, users, history
<1>3. inbox' = inbox
  BY DEF CancelFeedback, tables, tasks, users, history
<1>4. TypeOK'
  <2>1. toDelete(f) \in SUBSET Tasks
    BY Fields DEF toDelete, Known
  <2>2. cancelled' \in [Items -> (SUBSET Tasks) \cup {None}]
    BY <2>1 DEF CancelFeedback, TypeOK
  <2> QED BY <2>2 DEF CancelFeedback, TypeOK, tables, tasks, history
<1>5. RowsOK'
  BY <1>1, <1>2 DEF CancelFeedback, RowsOK, Exists
<1>6. RunsOK'
  BY <1>1, <1>2 DEF RunsOK
<1> QED BY <1>4, <1>5, <1>6

LEMMA DeleteTasksTypes ==
  ASSUME FeedbackAssumption, TypeInv, NEW f \in Items, DeleteTasks(f)
  PROVE  TypeInv'
<1> USE DEF TypeInv
<1>1. row' = row
  BY DEF DeleteTasks, tables, tasks, users, history
<1>2. run' = run
  BY DEF DeleteTasks, tables, tasks, users, history
<1>3. inbox' = inbox
  BY DEF DeleteTasks, tables, tasks, users, history
<1>4. TypeOK'
  BY <1>1, <1>2, <1>3, Fields DEF DeleteTasks, TypeOK, history
<1>5. RowsOK'
  BY <1>1, <1>2 DEF DeleteTasks, RowsOK, Exists
<1>6. RunsOK'
  BY <1>1, <1>2 DEF DeleteTasks, TypeOK, RowsOK, RunsOK, Rows
<1> QED BY <1>4, <1>5, <1>6

LEMMA DeleteFeedbackTypes ==
  ASSUME FeedbackAssumption, TypeInv, NEW f \in Items, DeleteFeedback(f)
  PROVE  TypeInv'
<1> USE DEF TypeInv
<1>1. row' \in [Items -> Rows]
  <2>1. [NoRow EXCEPT !.status = "gone"] \in Rows
    BY IdleType, RowWith
  <2> QED BY <2>1 DEF DeleteFeedback, TypeOK
<1>2. run' = run
  BY DEF DeleteFeedback, tables, tasks, users, history
<1>3. inbox' \in Seq(Items)
  BY QueuedType DEF TypeOK, DeleteFeedback
<1>4. TypeOK'
  <2>1. cancelled' \in [Items -> (SUBSET Tasks) \cup {None}]
    BY DEF DeleteFeedback, TypeOK
  <2> QED BY <1>1, <1>3, <2>1 DEF DeleteFeedback, TypeOK, tasks, history
<1>5. RowsOK'
  BY <1>1, <1>2 DEF DeleteFeedback, TypeOK, RowsOK, NoRow, Exists
<1>6. RunsOK'
  BY <1>1, <1>2 DEF DeleteFeedback, TypeOK, RowsOK, RunsOK, Rows
<1> QED BY <1>4, <1>5, <1>6

LEMMA CancelFailsTypes ==
  ASSUME FeedbackAssumption, TypeInv, NEW f \in Items, CancelFails(f)
  PROVE  TypeInv'
<1> USE DEF TypeInv
<1>1. row' = row /\ run' = run
  BY DEF CancelFails, tables
<1>2. upsets' = upsets + 1 /\ upsets \in Nat /\ upsets' \in 0..MaxUpsets
  BY DEF CancelFails, upset, TypeOK, FeedbackAssumption
<1>3. TypeOK'
  <2>1. cancelled' \in [Items -> (SUBSET Tasks) \cup {None}]
    BY DEF CancelFails, TypeOK
  <2> QED BY <1>1, <1>2, <2>1 DEF CancelFails, TypeOK, tables, tasks, history
<1>4. RowsOK'
  BY <1>1, <1>2, LaterTypes
<1>5. RunsOK'
  BY <1>1 DEF RunsOK
<1> QED BY <1>3, <1>4, <1>5

LEMMA CloseTaskTypes ==
  ASSUME FeedbackAssumption, TypeInv, NEW t \in Tasks, CloseTask(t)
  PROVE  TypeInv'
<1> USE DEF TypeInv
<1>1. row' = row
  BY DEF CloseTask, tables, tasks, users, history
<1>2. run' = run
  BY DEF CloseTask, tables, tasks, users, history
<1>3. inbox' = inbox
  BY DEF CloseTask, tables, tasks, users, history
<1>4. TypeOK'
  BY <1>1, <1>2, <1>3, Fields DEF CloseTask, TypeOK, history
<1>5. RowsOK'
  BY <1>1, <1>2 DEF CloseTask, RowsOK, Exists
<1>6. RunsOK'
  BY <1>1, <1>2 DEF RunsOK
<1> QED BY <1>4, <1>5, <1>6

LEMMA CheckAutoResolveOnTaskDoneTypes ==
  ASSUME FeedbackAssumption, TypeInv, NEW t \in Tasks, CheckAutoResolveOnTaskDone(t)
  PROVE  TypeInv'
<1> USE DEF TypeInv
<1>1. row' \in [Items -> Rows]
  BY ResolvedType DEF CheckAutoResolveOnTaskDone
<1>2. run' = run
  BY DEF CheckAutoResolveOnTaskDone, tables, tasks, users, history
<1>3. inbox' = inbox
  BY DEF CheckAutoResolveOnTaskDone, tables, tasks, users, history
<1>4. TypeOK'
  BY <1>1, <1>2, <1>3, Fields DEF CheckAutoResolveOnTaskDone, TypeOK, tasks, history
<1>5. RowsOK'
  BY <1>1, <1>2 DEF CheckAutoResolveOnTaskDone, Resolved, RowsOK, Exists
<1>6. RunsOK'
  BY <1>1, <1>2 DEF RunsOK
<1> QED BY <1>4, <1>5, <1>6

LEMMA CheckFailsTypes ==
  ASSUME FeedbackAssumption, TypeInv, NEW t \in Tasks, CheckFails(t)
  PROVE  TypeInv'
<1> USE DEF TypeInv
<1>1. PICK F : row' = Resolved(F)
  BY DEF CheckFails
<1>2. run' = run
  BY DEF CheckFails
<1>3. row' \in [Items -> Rows]
  BY <1>1, ResolvedType
<1>4. upsets' = upsets + 1 /\ upsets \in Nat /\ upsets' \in 0..MaxUpsets
  BY DEF CheckFails, upset, TypeOK, FeedbackAssumption
<1>5. TypeOK'
  <2>1. closed' \subseteq Tasks /\ missed' \subseteq Tasks
    BY DEF CheckFails, Concerned, TypeOK
  <2> QED BY <1>2, <1>3, <1>4, <2>1 DEF CheckFails, TypeOK, tasks
<1>6. RowsOK'
  <2>1. \A g \in Items : /\ row'[g].text = row[g].text /\ row'[g].tasks = row[g].tasks
                         /\ row'[g].source = row[g].source
                         /\ row'[g].status \in {row[g].status, "resolved"}
    BY <1>1 DEF Resolved, TypeOK, Rows
  <2>2. /\ \A g \in Items : row[g].text \in Nat
        /\ \A l \in Loops : run[l].item.text \in Nat
    BY Fields DEF Rows, FeedbackAssumption
  <2>3. \A g \in Items : ~Exists(g)' => ~Exists(g)
    BY <2>1 DEF Exists
  <2> QED BY <1>2, <1>4, <2>1, <2>2, <2>3 DEF RowsOK
<1>7. RunsOK'
  BY <1>2 DEF RunsOK
<1> QED BY <1>5, <1>6, <1>7

LEMMA ClaimNextPendingFeedbackIdTypes ==
  ASSUME FeedbackAssumption, TypeInv, NEW l \in Loops, ClaimNextPendingFeedbackId(l)
  PROVE  TypeInv'
<1> USE DEF TypeInv
<1>1. row' = row
  BY DEF ClaimNextPendingFeedbackId, tables, tasks, users, history
<1>2. run' \in [Loops -> Runs]
  <2>1. Head(inbox) \in Items
    BY DEF TypeOK, ClaimNextPendingFeedbackId
  <2>2. [Idle EXCEPT !.pc = "load"] \in Runs
    BY IdleType, RunWith DEF Pcs
  <2>3. [Idle EXCEPT !.pc = "load", !.id = Head(inbox)] \in Runs
    BY <2>1, <2>2 DEF Runs
  <2> QED BY <2>3 DEF TypeOK, ClaimNextPendingFeedbackId
<1>3. inbox' \in Seq(Items)
  BY DEF TypeOK, ClaimNextPendingFeedbackId
<1>4. \A k \in Loops : run'[k].item = IF k = l THEN NoRow ELSE run[k].item
  BY DEF ClaimNextPendingFeedbackId, TypeOK, Runs, Idle
<1>5. TypeOK'
  BY <1>1, <1>2, <1>3, Fields DEF ClaimNextPendingFeedbackId, TypeOK, tasks, users, history
<1>6. RowsOK'
  BY <1>1, <1>4 DEF RowsOK, ClaimNextPendingFeedbackId, Exists, NoRow, TypeOK
<1>7. RunsOK'
  BY <1>1, <1>2 DEF ClaimNextPendingFeedbackId, TypeOK, RowsOK, RunsOK, Rows
<1> QED BY <1>5, <1>6, <1>7

LEMMA LoadFeedbackTypes ==
  ASSUME FeedbackAssumption, TypeInv, NEW l \in Loops, LoadFeedback(l)
  PROVE  TypeInv'
<1> USE DEF TypeInv
<1>1. row' = row
  BY DEF LoadFeedback, tables, tasks, users, history
<1>2. run' \in [Loops -> Runs]
  <2>1. run[l].id \in Items
    BY DEF RunsOK, LoadFeedback
  <2>2. [run[l] EXCEPT !.pc = "analyst", !.item = row[run[l].id]] \in Runs
    BY <2>1, Fields, RunWith DEF Pcs
  <2> QED BY <2>2, IdleType DEF TypeOK, LoadFeedback
<1>3. inbox' = inbox
  BY DEF LoadFeedback, tables, tasks, users, history
<1>4. TypeOK'
  BY <1>1, <1>2, <1>3, Fields DEF LoadFeedback, TypeOK, tables, tasks, users, history
<1>5. RowsOK'
  BY <1>1, <1>2
  DEF LoadFeedback, TypeOK, RowsOK, RunsOK, NoRow, Idle, Exists, tables, tasks, users, history
<1>6. RunsOK'
  BY <1>1, <1>2 DEF LoadFeedback, RunsOK, Idle, Exists
<1> QED BY <1>4, <1>5, <1>6

LEMMA LoadFailsTypes ==
  ASSUME FeedbackAssumption, TypeInv, NEW l \in Loops, LoadFails(l)
  PROVE  TypeInv'
<1> USE DEF TypeInv
<1>1. row' = row
  BY DEF LoadFails, tables
<1>2. run' \in [Loops -> Runs]
  BY IdleType DEF TypeOK, LoadFails
<1>3. upsets' = upsets + 1 /\ upsets \in Nat /\ upsets' \in 0..MaxUpsets
  BY DEF LoadFails, upset, TypeOK, FeedbackAssumption
<1>4. TypeOK'
  <2>1. declined' \subseteq Items
    BY DEF LoadFails, TypeOK, RunsOK
  <2> QED BY <1>1, <1>2, <1>3, <2>1 DEF LoadFails, TypeOK, tables, tasks, users
<1>5. RowsOK'
  <2>1. \A k \in Loops : run'[k].item = IF k = l THEN NoRow ELSE run[k].item
    BY DEF LoadFails, TypeOK, Idle
  <2> QED BY <1>1, <1>3, <2>1, IdleRows
<1>6. RunsOK'
  BY <1>1, <1>2 DEF LoadFails, RunsOK, Idle
<1> QED BY <1>4, <1>5, <1>6

LEMMA AskBackTypes ==
  ASSUME FeedbackAssumption, TypeInv, NEW l \in Loops, AskBack(l)
  PROVE  TypeInv'
<1> USE DEF TypeInv
<1>1. row' = row
  BY DEF AskBack, tables, tasks, users, history
<1>2. run' \in [Loops -> Runs]
  BY IdleType DEF TypeOK, AskBack
<1>3. inbox' \in Seq(Items)
  BY QueuedType DEF TypeOK, AskBack, Enqueue, RunsOK, Answers
<1>4. TypeOK'
  <2>1. upsets' \in 0..MaxUpsets
    BY DEF AskBack, upset, TypeOK, FeedbackAssumption
  <2> QED BY <1>1, <1>2, <1>3, <2>1 DEF AskBack, TypeOK, tasks, users, history
<1>5. RowsOK'
  <2>1. \A k \in Loops : run'[k].item = IF k = l THEN NoRow ELSE run[k].item
    BY DEF AskBack, TypeOK, Idle
  <2> QED BY <1>1, <2>1, IdleRows DEF AskBack, upset
<1>6. RunsOK'
  BY <1>1, <1>2 DEF AskBack, RunsOK, Idle
<1> QED BY <1>4, <1>5, <1>6

LEMMA ProposeTypes ==
  ASSUME FeedbackAssumption, TypeInv, NEW l \in Loops, NEW L \in SUBSET Tasks,
         NEW s \in Tasks \cup {None}, Propose(l, L, s)
  PROVE  TypeInv'
<1> USE DEF TypeInv
<1>1. row' = row
  BY DEF Propose, tables, tasks, users, history
<1>2. run' \in [Loops -> Runs]
  <2>1. [run[l] EXCEPT !.pc = "recheck", !.links = L, !.similar = s] \in Runs
    BY Fields, RunWith DEF Pcs
  <2> QED BY <2>1 DEF TypeOK, Propose
<1>3. inbox' = inbox
  BY DEF Propose, tables, tasks, users, history
<1>4. TypeOK'
  BY <1>1, <1>2, <1>3, Fields DEF Propose, TypeOK, tables, tasks, users, history
<1>5. RowsOK'
  BY <1>1, <1>2 DEF Propose, RowsOK, Exists
<1>6. RunsOK'
  BY <1>1, <1>2 DEF Propose, Answers, RunsOK
<1> QED BY <1>4, <1>5, <1>6

LEMMA RejectScopeChangeTypes ==
  ASSUME FeedbackAssumption, TypeInv, NEW l \in Loops, RejectScopeChange(l)
  PROVE  TypeInv'
<1> USE DEF TypeInv
<1>1. row' \in [Items -> Rows]
  BY StepTypes, SavedType DEF RejectScopeChange, RunsOK, Answers
<1>2. run' \in [Loops -> Runs]
  BY IdleType DEF TypeOK, RejectScopeChange
<1>3. inbox' = inbox
  BY DEF RejectScopeChange, tables, tasks, users, history
<1>4. TypeOK'
  <2>1. declined' \in SUBSET Items
    BY DEF RejectScopeChange, TypeOK, RunsOK, Answers
  <2> QED BY <1>1, <1>2, <2>1 DEF RejectScopeChange, TypeOK, tasks, users
<1>5. RowsOK'
  BY <1>1, <1>2 DEF RejectScopeChange, SaveRow, TypeOK, RowsOK, NoRow, Idle, Exists
<1>6. RunsOK'
  BY <1>1, <1>2 DEF RejectScopeChange, RunsOK, Idle
<1> QED BY <1>4, <1>5, <1>6

LEMMA GeneratePlanTypes ==
  ASSUME FeedbackAssumption, TypeInv, NEW l \in Loops, NEW n \in 1..MaxProposed, GeneratePlan(l, n)
  PROVE  TypeInv'
<1> USE DEF TypeInv
<1>1. Fresh(n) \subseteq Free
  BY FreshIsFree DEF GeneratePlan
<1>2. row' = row
  BY DEF GeneratePlan, tables, tasks, users, history
<1>3. run' \in [Loops -> Runs]
  <2>0. Fresh(n) \in SUBSET Tasks /\ "approval" \in Pcs
    BY <1>1 DEF Pcs, Free
  <2>1. [run[l] EXCEPT !.pc = "approval", !.item.tasks = Fresh(n)] \in Runs
    BY <2>0, TasksType
  <2> QED BY <2>1 DEF TypeOK, GeneratePlan
<1>4. inbox' = inbox
  BY DEF GeneratePlan, tables, tasks, users, history
<1>5. \A k \in Loops : /\ run'[k].item.status = run[k].item.status /\ run'[k].id = run[k].id
                         /\ run'[k].pc = IF k = l THEN "approval" ELSE run[k].pc
  BY DEF GeneratePlan, TypeOK, Runs, Rows
<1>6. TypeOK'
  BY <1>1, <1>2, <1>3, <1>4, Fields DEF GeneratePlan, Make, TypeOK, tasks, users, history
<1>7. RowsOK'
  BY <1>2, <1>3 DEF GeneratePlan, RowsOK, Exists, tasks, users, history
<1>8. RunsOK'
  BY <1>5, ZenonT(60) DEF RunsOK, GeneratePlan, Answers
<1> QED BY <1>6, <1>7, <1>8

LEMMA SavePlanTypes ==
  ASSUME FeedbackAssumption, TypeInv, NEW l \in Loops, SavePlan(l)
  PROVE  TypeInv'
<1> USE DEF TypeInv
<1>1. row' \in [Items -> Rows]
  BY StepTypes, SavedType DEF SavePlan, RunsOK
<1>2. run' \in [Loops -> Runs]
  BY IdleType DEF TypeOK, SavePlan
<1>3. inbox' = inbox
  BY DEF SavePlan, tables, tasks, users, history
<1>4. TypeOK'
  BY <1>1, <1>2, <1>3, Fields DEF SavePlan, TypeOK, tasks, users
<1>5. RowsOK'
  BY <1>1, <1>2 DEF SavePlan, SaveRow, TypeOK, RowsOK, NoRow, Idle, Exists
<1>6. RunsOK'
  BY <1>1, <1>2 DEF SavePlan, RunsOK, Idle
<1> QED BY <1>4, <1>5, <1>6

LEMMA PlanFailsTypes ==
  ASSUME FeedbackAssumption, TypeInv, NEW l \in Loops, PlanFails(l)
  PROVE  TypeInv'
<1> USE DEF TypeInv
<1>1. row' = row
  BY ZenonT(60) DEF PlanFails
<1>2. run' \in [Loops -> Runs]
  BY StepTypes DEF TypeOK, PlanFails, Pcs
<1>3. inbox' \in Seq(Items)
  BY QueuedType DEF TypeOK, PlanFails, Enqueue, RunsOK, Answers
<1>4. \A k \in Loops : run'[k].item = run[k].item
  BY DEF PlanFails, TypeOK, Runs
<1>5. TypeOK'
  BY <1>1, <1>2, <1>3, Fields DEF PlanFails, TypeOK, tasks, users
<1>6. RowsOK'
  BY <1>4 DEF RowsOK, PlanFails, Exists
<1>7. RunsOK'
  BY <1>1, <1>2 DEF PlanFails, Answers, RunsOK
<1> QED BY <1>5, <1>6, <1>7

LEMMA RecheckTypes ==
  ASSUME FeedbackAssumption, TypeInv, NEW l \in Loops, Recheck(l)
  PROVE  TypeInv'
<1> USE DEF TypeInv
<1>1. row' = row
  <2>1. UNCHANGED tables
    BY ZenonT(60) DEF Recheck
  <2> QED BY <2>1 DEF tables
<1>2. run' \in [Loops -> Runs]
  BY StepTypes, IdleType DEF TypeOK, Recheck, Pcs
<1>3. inbox' = inbox
  BY DEF Recheck, tables, tasks, users, history
<1>4. TypeOK'
  BY <1>1, <1>2, <1>3, Fields DEF Recheck, TypeOK, tables, tasks, users, history
<1>5. RowsOK'
  BY <1>1, <1>2 DEF Recheck, TypeOK, RowsOK, NoRow, Idle, Exists
<1>6. RunsOK'
  BY <1>1, <1>2 DEF Recheck, RunsOK, Idle
<1> QED BY <1>4, <1>5, <1>6

LEMMA RetriedRow ==
  ASSUME FeedbackAssumption, TypeInv, NEW l \in Loops, LinksRetried(l), SaveRetry(l)
  PROVE  /\ row' \in [Items -> Rows]
         /\ \A g \in Items : row'[g].text \in {row[g].text, run[l].item.text}
         /\ \A g \in Items : ~Exists(g)' => ~Exists(g) /\ row'[g] = row[g]
         /\ \A g \in Items : IF g # run[l].id THEN row'[g] = row[g]
                             ELSE /\ row'[g].tasks = run[l].item.tasks
                                  /\ row'[g].source = run[l].item.source
                                  /\ row'[g].status = run[l].item.status
<1> DEFINE id == run[l].id
           next == [run[l].item EXCEPT !.tries = row[id].tries + 1]
<1>1. id \in Items /\ run[l].item.status \in {"pending", "resolved"}
  BY DEF LinksRetried, TypeInv, RunsOK
<1>2. row' = [row EXCEPT ![id] = next]
  BY DEF SaveRetry, SaveRow, LinksRetried
<1>3. /\ next \in Rows
      /\ next.text = run[l].item.text /\ next.tasks = run[l].item.tasks
      /\ next.source = run[l].item.source /\ next.status = run[l].item.status
  BY RetriedType
<1> HIDE DEF next
<1>4. row \in [Items -> Rows]
  BY DEF TypeInv, TypeOK
<1>5. row'[id] = next /\ \A g \in Items : g # id => row'[g] = row[g]
  BY <1>1, <1>2, <1>4
<1>6. row' \in [Items -> Rows]
  BY <1>2, <1>3, <1>4
<1>7. \A g \in Items : ~Exists(g)' => g # id
  BY <1>1, <1>3, <1>5 DEF Exists
<1>8. \A g \in Items : ~Exists(g)' => ~Exists(g) /\ row'[g] = row[g]
  BY <1>5, <1>7 DEF Exists
<1> QED BY <1>3, <1>5, <1>6, <1>8

LEMMA RetryLinksTypes ==
  ASSUME FeedbackAssumption, TypeInv, NEW l \in Loops, RetryLinks(l)
  PROVE  TypeInv'
<1> USE DEF TypeInv
<1>1. row' \in [Items -> Rows]
  BY RetriedType, SavedType DEF RetryLinks, LinksRetried, SaveRetry, RunsOK
<1>2. run' \in [Loops -> Runs]
  BY IdleType DEF TypeOK, RetryLinks
<1>3. inbox' \in Seq(Items)
  BY QueuedType DEF TypeOK, RetryLinks, LinksRetried, Enqueue, RunsOK
<1>4. \A g \in Items : row'[g].text \in {row[g].text, run[l].item.text}
  BY RetriedRow DEF RetryLinks
<1>5. \A g \in Items : ~Exists(g)' => ~Exists(g) /\ row'[g] = row[g]
  BY RetriedRow DEF RetryLinks
<1>6. \A k \in Loops : run'[k].item = IF k = l THEN NoRow ELSE run[k].item
  BY DEF RetryLinks, TypeOK, Idle
<1>7. UNCHANGED <<tasks, users, upsets, history>>
  BY DEF RetryLinks
<1>8. TypeOK'
  BY <1>1, <1>2, <1>3, <1>7 DEF TypeOK, tasks, users, history
<1>9. RowsOK'
  <2>1. upsets' = upsets /\ upsets \in Nat
    BY <1>7, FeedbackAssumption DEF TypeOK, FeedbackAssumption
  <2>2. \A g \in Items : ~Exists(g)' => row'[g].tasks = {} /\ row'[g].source = None
    BY <1>5 DEF RowsOK
  <2>3. \A g \in Items : row'[g].text <= upsets
    BY <1>4 DEF RowsOK
  <2>4. \A k \in Loops : run'[k].item.text <= upsets
    <3>1. NoRow.text <= upsets
      BY <2>1 DEF NoRow
    <3> HIDE DEF NoRow
    <3> QED BY <1>6, <3>1 DEF RowsOK
  <2> QED BY <2>1, <2>2, <2>3, <2>4 DEF RowsOK
<1>10. RunsOK'
  BY <1>1, <1>2 DEF RetryLinks, RunsOK, Idle
<1> QED BY <1>8, <1>9, <1>10

LEMMA ApplyFailsTypes ==
  ASSUME FeedbackAssumption, TypeInv, NEW l \in Loops, ApplyFails(l)
  PROVE  TypeInv'
<1> USE DEF TypeInv
<1> DEFINE next == [run[l].item EXCEPT !.tries = row[run[l].id].tries + 1]
           saved == [run[l] EXCEPT !.pc = "save"]
           counted == [run[l] EXCEPT !.pc = "save", !.item = next]
<1>1. row' = row \/ (LinksRetried(l) /\ SaveRetry(l))
  BY DEF ApplyFails
<1>2. /\ row' \in [Items -> Rows]
      /\ \A g \in Items : row'[g].text \in {row[g].text, run[l].item.text}
      /\ \A g \in Items : ~Exists(g)' => ~Exists(g) /\ row'[g] = row[g]
  BY <1>1, RetriedRow DEF TypeOK, Exists
<1>3. /\ run[l].id \in Items /\ run[l].item.status \in {"pending", "resolved"}
      /\ saved \in Runs /\ saved.item = run[l].item /\ saved.pc = "save"
      /\ saved.id = run[l].id
  <2>1. run[l].id \in Items /\ run[l].item.status \in {"pending", "resolved"}
    BY DEF ApplyFails, RunsOK
  <2>2. saved \in Runs
    BY StepTypes DEF Pcs
  <2>3. run[l] \in Runs
    BY Fields
  <2> QED BY <2>1, <2>2, <2>3 DEF Runs
<1>4. ASSUME LinksRetried(l)
      PROVE  /\ counted \in Runs /\ counted.pc = "save" /\ counted.id = run[l].id
             /\ counted.item.text = run[l].item.text
             /\ counted.item.status = run[l].item.status
  <2>1. /\ next \in Rows
        /\ next.text = run[l].item.text /\ next.status = run[l].item.status
    BY <1>4, RetriedType
  <2> HIDE DEF next
  <2>2. [saved EXCEPT !.item = next] \in Runs
    BY <1>3, <2>1, RunWith
  <2>3. counted = [saved EXCEPT !.item = next]
    BY Fields DEF Runs
  <2> QED BY <1>3, <2>1, <2>2, <2>3 DEF Runs
<1>5. \/ run' = [run EXCEPT ![l] = saved]
      \/ LinksRetried(l) /\ run' = [run EXCEPT ![l] = counted]
  BY DEF ApplyFails
<1> HIDE DEF saved, counted
<1>6. /\ run' \in [Loops -> Runs] /\ run'[l].pc = "save" /\ run'[l].id = run[l].id
      /\ run'[l].item.text = run[l].item.text /\ run'[l].item.status = run[l].item.status
      /\ \A k \in Loops : k # l => run'[k] = run[k]
  BY <1>3, <1>4, <1>5 DEF TypeOK
<1>7. upsets' = upsets + 1 /\ upsets \in Nat /\ upsets' \in 0..MaxUpsets
  BY DEF ApplyFails, upset, TypeOK, FeedbackAssumption
<1>8. TypeOK'
  BY <1>2, <1>6, <1>7 DEF ApplyFails, TypeOK, tasks, users, history
<1>9. RowsOK'
  <2>1. /\ \A g \in Items : row[g].text \in Nat
        /\ \A k \in Loops : run[k].item.text \in Nat
    BY Fields DEF Rows, FeedbackAssumption
  <2>2. \A g \in Items : ~Exists(g)' => row'[g].tasks = {} /\ row'[g].source = None
    BY <1>2 DEF RowsOK
  <2>3. \A g \in Items : row'[g].text <= upsets'
    BY <1>2, <1>7, <2>1 DEF RowsOK
  <2>4. \A k \in Loops : run'[k].item.text <= upsets'
    BY <1>6, <1>7, <2>1 DEF RowsOK
  <2> QED BY <2>2, <2>3, <2>4 DEF RowsOK
<1>10. RunsOK'
  BY <1>3, <1>6 DEF RunsOK
<1> QED BY <1>8, <1>9, <1>10

LEMMA UseExistingTypes ==
  ASSUME FeedbackAssumption, TypeInv, NEW l \in Loops, run[l].pc = "apply", UseExisting(l)
  PROVE  TypeInv'
<1> USE DEF TypeInv
<1>1. row' = row
  BY DEF UseExisting, tables, tasks, users, history
<1>2. run' \in [Loops -> Runs]
  <2>1. \A T \in SUBSET Tasks : [run[l] EXCEPT !.pc = "save", !.item.tasks = T] \in Runs
    BY TasksType DEF Pcs
  <2>2. run[l].id \in Items
    BY DEF RunsOK
  <2>3. row[run[l].id].tasks \in SUBSET Tasks /\ run[l].item.tasks \in SUBSET Tasks
    BY <2>2, Fields
  <2> QED BY <2>1, <2>3, ZenonT(60) DEF TypeOK, UseExisting
<1>3. inbox' = inbox
  BY DEF UseExisting, tables, tasks, users, history
<1>4. \A k \in Loops : /\ run'[k].item.status = run[k].item.status /\ run'[k].id = run[k].id
                         /\ run'[k].item.text = run[k].item.text
                         /\ run'[k].pc = IF k = l THEN "save" ELSE run[k].pc
  BY DEF UseExisting, TypeOK, Runs, Rows
<1>5. TypeOK'
  BY <1>1, <1>2, <1>3, Fields DEF UseExisting, TypeOK, tables, tasks, users, history
<1>6. RowsOK'
  BY <1>1, <1>4 DEF RowsOK, UseExisting, Exists, tables
<1>7. RunsOK'
  BY <1>4 DEF RunsOK
<1> QED BY <1>5, <1>6, <1>7

LEMMA MergeIntoSimilarTypes ==
  ASSUME FeedbackAssumption, TypeInv, NEW l \in Loops, run[l].pc = "apply", MergeIntoSimilar(l)
  PROVE  TypeInv'
<1> USE DEF TypeInv
<1>1. row' = row
  BY DEF MergeIntoSimilar, tables, tasks, users, history
<1>2. run' \in [Loops -> Runs]
  <2>0. run[l].similar \in Tasks
    BY DEF MergeIntoSimilar, Linkable
  <2>1. {run[l].similar} \in SUBSET Tasks
    BY <2>0, SMTT(40)
  <2>2. [run[l] EXCEPT !.pc = "save", !.item.tasks = {run[l].similar}] \in Runs
    BY <2>1, TasksType DEF Pcs
  <2> QED BY <2>2 DEF TypeOK, MergeIntoSimilar
<1>3. inbox' = inbox
  BY DEF MergeIntoSimilar, tables, tasks, users, history
<1>4. TypeOK'
  BY <1>1, <1>2, <1>3, Fields DEF MergeIntoSimilar, TypeOK, tables, tasks, users, history
<1>5. RowsOK'
  BY <1>1, <1>2 DEF MergeIntoSimilar, RowsOK, Exists, tables, tasks, users, history
<1>6. RunsOK'
  BY <1>1, <1>2 DEF MergeIntoSimilar, RunsOK, users
<1> QED BY <1>4, <1>5, <1>6

LEMMA CreateTaskTypes ==
  ASSUME FeedbackAssumption, TypeInv, NEW l \in Loops, CreateTask(l)
  PROVE  TypeInv'
<1> USE DEF TypeInv
<1>1. CanMake(1) /\ \E t \in Free : Fresh(1) = {t}
  BY FreshOne DEF CreateTask
<1>2. row' = row
  BY DEF CreateTask, tables, tasks, users, history
<1>3. run' \in [Loops -> Runs]
  <2>1. run[l].left - 1 \in 0..MaxProposed /\ run[l].made \cup Fresh(1) \in SUBSET Tasks
    BY <1>1, Fields DEF CreateTask, FeedbackAssumption, Free
  <2>2. [run[l] EXCEPT !.left = run[l].left - 1, !.made = run[l].made \cup Fresh(1)] \in Runs
    BY <2>1, Fields, RunWith
  <2>3. run' = [run EXCEPT ![l] = [run[l] EXCEPT !.left = run[l].left - 1,
                                                 !.made = run[l].made \cup Fresh(1)]]
    BY Fields DEF CreateTask, TypeOK
  <2> QED BY <2>2, <2>3 DEF TypeOK
<1>4. inbox' = inbox
  BY DEF CreateTask, tables, tasks, users, history
<1>5. \A k \in Loops : /\ run'[k].item = run[k].item
                         /\ run'[k].pc = run[k].pc /\ run'[k].id = run[k].id
  BY DEF CreateTask, TypeOK, Runs
<1>6. TypeOK'
  BY <1>1, <1>2, <1>3, <1>4, Fields DEF CreateTask, Make, TypeOK, users, history
<1>7. RowsOK'
  BY <1>2, <1>5 DEF RowsOK, CreateTask, Exists
<1>8. RunsOK'
  BY <1>5 DEF RunsOK
<1> QED BY <1>6, <1>7, <1>8

LEMMA CreateStandaloneTypes ==
  ASSUME FeedbackAssumption, TypeInv, NEW l \in Loops, CreateStandalone(l)
  PROVE  TypeInv'
<1> USE DEF TypeInv
<1>1. CanMake(1) /\ \E t \in Free : Fresh(1) = {t}
  BY FreshOne DEF CreateStandalone
<1>2. row' = row
  BY DEF CreateStandalone, tables, tasks, users, history
<1>3. run' \in [Loops -> Runs]
  <2>1. run[l].left - 1 \in 0..MaxProposed
    BY Fields DEF CreateStandalone, FeedbackAssumption
  <2>2. [run[l] EXCEPT !.left = run[l].left - 1] \in Runs
    BY <2>1, Fields, RunWith
  <2> QED BY <2>2 DEF TypeOK, CreateStandalone
<1>4. inbox' = inbox
  BY DEF CreateStandalone, tables, tasks, users, history
<1>5. \A k \in Loops : /\ run'[k].item = run[k].item
                         /\ run'[k].pc = run[k].pc /\ run'[k].id = run[k].id
  BY DEF CreateStandalone, TypeOK, Runs
<1>6. TypeOK'
  BY <1>1, <1>2, <1>3, <1>4, Fields
  DEF CreateStandalone, Make, TypeOK, tables, tasks, users, history, Free
<1>7. RowsOK'
  BY <1>2, <1>5 DEF RowsOK, CreateStandalone, Exists
<1>8. RunsOK'
  BY <1>5 DEF RunsOK
<1> QED BY <1>6, <1>7, <1>8

LEMMA CreateFailsTypes ==
  ASSUME FeedbackAssumption, TypeInv, NEW l \in Loops, CreateFails(l)
  PROVE  TypeInv'
<1> USE DEF TypeInv
<1>1. row' = row
  BY DEF CreateFails, tables, tasks, users, history
<1>2. run' \in [Loops -> Runs]
  <2>1. run[l].left - 1 \in 0..MaxProposed
    BY Fields DEF CreateFails, FeedbackAssumption
  <2>2. [run[l] EXCEPT !.left = run[l].left - 1] \in Runs
    BY <2>1, Fields, RunWith
  <2> QED BY <2>2 DEF TypeOK, CreateFails
<1>3. inbox' = inbox
  BY DEF CreateFails, tables, tasks, users, history
<1>4. \A k \in Loops : /\ run'[k].item = run[k].item
                         /\ run'[k].pc = run[k].pc /\ run'[k].id = run[k].id
  BY DEF CreateFails, TypeOK, Runs
<1>5. TypeOK'
  BY <1>1, <1>2, <1>3, Fields DEF CreateFails, TypeOK, tables, tasks, users, history
<1>6. RowsOK'
  BY <1>1, <1>4 DEF RowsOK, CreateFails, Exists, users
<1>7. RunsOK'
  BY <1>4 DEF RunsOK
<1> QED BY <1>5, <1>6, <1>7

LEMMA TasksCreatedTypes ==
  ASSUME FeedbackAssumption, TypeInv, NEW l \in Loops, TasksCreated(l)
  PROVE  TypeInv'
<1> USE DEF TypeInv
<1>1. row' = row
  BY DEF TasksCreated, tables, tasks, users, history
<1>2. run' \in [Loops -> Runs]
  <2>1. [run[l] EXCEPT !.pc = "save", !.item.tasks = run[l].made] \in Runs
    BY Fields, TasksType DEF Pcs
  <2> QED BY <2>1, ZenonT(60) DEF TypeOK, TasksCreated
<1>3. inbox' = inbox
  BY DEF TasksCreated, tables, tasks, users, history
<1>4. \A k \in Loops : /\ run'[k].item.status = run[k].item.status /\ run'[k].id = run[k].id
                         /\ run'[k].pc = IF k = l THEN "save" ELSE run[k].pc
  BY DEF TasksCreated, TypeOK, Runs, Rows
<1>5. TypeOK'
  BY <1>1, <1>2, <1>3, Fields DEF TasksCreated, TypeOK, tables, tasks, users, history
<1>6. RowsOK'
  BY <1>1, <1>2 DEF TasksCreated, RowsOK, Exists, tables, tasks, users, history
<1>7. RunsOK'
  BY <1>4, ZenonT(60) DEF RunsOK, TasksCreated
<1> QED BY <1>5, <1>6, <1>7

LEMMA SaveFeedbackTypes ==
  ASSUME FeedbackAssumption, TypeInv, NEW l \in Loops, SaveFeedback(l)
  PROVE  TypeInv'
<1> USE DEF TypeInv
<1>1. row' \in [Items -> Rows]
  BY StepTypes, SavedType DEF SaveFeedback, RunsOK
<1>2. run' \in [Loops -> Runs]
  BY IdleType DEF TypeOK, SaveFeedback
<1>3. inbox' = inbox
  BY DEF SaveFeedback, tables, tasks, users, history
<1>4. TypeOK'
  <2>1. declined' \in SUBSET Items
    BY DEF SaveFeedback, TypeOK, RunsOK
  <2> QED BY <1>1, <1>2, <2>1 DEF SaveFeedback, TypeOK, tasks, users
<1>5. RowsOK'
  BY <1>1, <1>2 DEF SaveFeedback, SaveRow, TypeOK, RowsOK, NoRow, Idle, Exists
<1>6. RunsOK'
  BY <1>1, <1>2 DEF SaveFeedback, RunsOK, Idle
<1> QED BY <1>4, <1>5, <1>6

LEMMA RunFailsTypes ==
  ASSUME FeedbackAssumption, TypeInv, NEW l \in Loops, RunFails(l)
  PROVE  TypeInv'
<1> USE DEF TypeInv
<1>1. row' = row /\ run[l].id \in Items
  BY DEF RunFails, RunsOK
<1>2. run' \in [Loops -> Runs]
  BY IdleType DEF TypeOK, RunFails
<1>3. inbox' \in Seq(Items)
  <2>1. inbox' = inbox \/ inbox' = Queued(inbox, run[l].id)
    BY DEF RunFails, Enqueue
  <2> QED BY <1>1, <2>1, QueuedType DEF TypeOK
<1>4. upsets' = upsets + 1 /\ upsets \in Nat /\ upsets' \in 0..MaxUpsets
  BY DEF RunFails, upset, TypeOK, FeedbackAssumption
<1>5. TypeOK'
  <2>1. declined' \subseteq Items
    BY <1>1 DEF RunFails, TypeOK
  <2>2. stray' \subseteq Tasks
    BY Fields DEF RunFails, Forgotten, InHand, TypeOK
  <2> QED BY <1>1, <1>2, <1>3, <1>4, <2>1, <2>2 DEF RunFails, TypeOK, tasks, users
<1>6. RowsOK'
  <2>1. \A k \in Loops : run'[k].item = IF k = l THEN NoRow ELSE run[k].item
    BY DEF RunFails, TypeOK, Idle
  <2> QED BY <1>1, <1>4, <2>1, IdleRows
<1>7. RunsOK'
  BY <1>1, <1>2 DEF RunFails, RunsOK, Idle
<1> QED BY <1>5, <1>6, <1>7

LEMMA CrashTypes ==
  ASSUME FeedbackAssumption, TypeInv, Crash
  PROVE  TypeInv'
<1> USE DEF TypeInv
<1>1. row' \in [Items -> Rows]
  <2>1. \A f \in Items : [row[f] EXCEPT !.status = "pending"] \in Rows
    BY Fields, RowWith
  <2> QED BY <2>1 DEF Crash, TypeOK
<1>2. run' \in [Loops -> Runs]
  BY IdleType DEF TypeOK, Crash
<1>3. inbox' = inbox
  BY DEF Crash, tables, tasks, users, history
<1>4. \A g \in Items : /\ row'[g].text = row[g].text /\ row'[g].tasks = row[g].tasks
                         /\ row'[g].source = row[g].source
                         /\ row'[g].status \in {row[g].status, "pending"}
  <2>1. CASE UNCHANGED row
    BY <2>1
  <2>2. CASE \E f \in Items : row' = [row EXCEPT ![f].status = "pending"]
    BY <2>2, SMTT(40) DEF TypeOK, Rows
  <2> QED BY <2>1, <2>2 DEF Crash
<1>5. \A k \in Loops : run'[k].item.text = 0
  BY DEF Crash, Idle, NoRow
<1>6. TypeOK'
  <2>1. stray' \in SUBSET Tasks /\ missed' \in SUBSET Tasks
    BY Fields DEF Crash, Concerned, InHand, TypeOK
  <2>2. cancelled' \in [Items -> (SUBSET Tasks) \cup {None}] /\ closed' \in SUBSET Tasks
    BY DEF Crash
  <2>3. upsets' \in 0..MaxUpsets
    BY DEF Crash, upset, TypeOK, FeedbackAssumption
  <2>4. UNCHANGED <<inbox, task, for, chores, declined>> /\ booted' \in BOOLEAN
    BY DEF Crash, tasks
  <2> QED BY <1>1, <1>2, <2>1, <2>2, <2>3, <2>4 DEF TypeOK
<1>7. RowsOK'
  <2>1. upsets' = upsets + 1 /\ upsets \in Nat
    BY DEF Crash, upset, TypeOK, FeedbackAssumption
  <2>2. \A g \in Items : ~Exists(g)' => ~Exists(g)
    BY <1>4 DEF Exists
  <2>3. \A g \in Items : row[g].text \in Nat
    BY Fields DEF FeedbackAssumption
  <2> QED BY <1>4, <1>5, <2>1, <2>2, <2>3 DEF RowsOK
<1>8. RunsOK'
  BY <1>1, <1>2 DEF Crash, RunsOK, Idle
<1> QED BY <1>6, <1>7, <1>8

LEMMA RetryPendingCategorizationsTypes ==
  ASSUME FeedbackAssumption, TypeInv, RetryPendingCategorizations
  PROVE  TypeInv'
<1> USE DEF TypeInv
<1>1. row' = row
  BY DEF RetryPendingCategorizations, tables, tasks, users, history
<1>2. run' = run
  BY DEF RetryPendingCategorizations, tables, tasks, users, history
<1>3. inbox' \in Seq(Items)
  <2>1. \A S \in SUBSET Items : SetToSeq(S) \in Seq(Items)
    BY SetToSeqType, FS_Subset DEF FeedbackAssumption
  <2>2. inbox' = inbox \/ \E S \in SUBSET Items : inbox' = inbox \o SetToSeq(S)
    BY DEF RetryPendingCategorizations
  <2>3. inbox \in Seq(Items)
    BY DEF TypeOK
  <2>4. \A q \in Seq(Items) : inbox \o q \in Seq(Items)
    BY <2>3
  <2> QED BY <2>1, <2>2, <2>3, <2>4
<1>4. TypeOK'
  <2>1. upsets' \in 0..MaxUpsets /\ declined' \subseteq Items
    BY DEF RetryPendingCategorizations, upset, TypeOK, FeedbackAssumption
  <2> QED BY <1>1, <1>2, <1>3, <2>1 DEF RetryPendingCategorizations, TypeOK, tasks
<1>5. RowsOK'
  <2>1. upsets' \in {upsets, upsets + 1}
    BY DEF RetryPendingCategorizations, upset
  <2> QED BY <1>1, <1>2, <2>1, LaterTypes DEF RowsOK, Exists
<1>6. RunsOK'
  BY <1>1, <1>2 DEF RetryPendingCategorizations, TypeOK, RowsOK, RunsOK, Rows
<1> QED BY <1>4, <1>5, <1>6

LEMMA MakeSourceTypes ==
  ASSUME FeedbackAssumption, TypeInv, NEW l \in Loops, run[l].pc = "apply", CanMake(1),
         NEW next \in Runs, next.id = run[l].id, next.pc \in Pcs,
         next.item.text = run[l].item.text, next.item.status = run[l].item.status,
         MakeSource(l, next), UNCHANGED <<row, inbox, users, upsets, declined, missed>>
  PROVE  TypeInv'
<1> USE DEF TypeInv
<1>1. \E t \in Free : Fresh(1) = {t}
  BY FreshOne
<1>2. run' \in [Loops -> Runs]
  BY SourceType
<1>3. TypeOK'
  BY <1>1, <1>2, Fields DEF MakeSource, Make, TypeOK, users, Free
<1>4. \A k \in Loops : /\ run'[k].id = run[k].id
                       /\ run'[k].item.text = run[k].item.text
                       /\ run'[k].item.status = run[k].item.status
                       /\ run'[k].pc = IF k = l THEN next.pc ELSE run[k].pc
  BY ZenonT(60) DEF MakeSource, TypeOK, Runs, Rows
<1>5. RowsOK'
  BY <1>4 DEF RowsOK, Exists
<1>6. RunsOK'
  BY <1>4 DEF RunsOK
<1> QED BY <1>3, <1>5, <1>6

LEMMA LinkTasksTypes ==
  ASSUME FeedbackAssumption, TypeInv, NEW l \in Loops, run[l].pc = "apply", LinkTasks(l)
  PROVE  TypeInv'
<1> USE DEF TypeInv
<1>1. ASSUME CanMake(1), NEW linked \in {run[l].links, {}},
             MakeSource(l, [run[l] EXCEPT !.pc = "save", !.item.tasks = linked])
      PROVE  TypeInv'
  <2> DEFINE next == [run[l] EXCEPT !.pc = "save", !.item.tasks = linked]
  <2>0. run[l].links \in SUBSET Tasks /\ {} \in SUBSET Tasks
    BY Fields
  <2>1. linked \in SUBSET Tasks
    BY <2>0, ZenonT(60)
  <2>2. next \in Runs
    BY <2>1, TasksType DEF Pcs
  <2>3. /\ next.id = run[l].id /\ next.pc = "save"
        /\ next.item.text = run[l].item.text /\ next.item.status = run[l].item.status
    BY Fields DEF Runs, Rows
  <2> HIDE DEF next
  <2>4. MakeSource(l, next)
    BY <1>1, SMTT(40) DEF next
  <2> QED BY <1>1, <2>2, <2>3, <2>4, MakeSourceTypes DEF LinkTasks, Pcs
<1>2. CASE run' = [run EXCEPT ![l].pc = "save"] /\ UNCHANGED <<tasks, stray>>
  <2>1. run' \in [Loops -> Runs]
    BY <1>2, StepTypes DEF TypeOK, Pcs
  <2>2. TypeOK'
    BY <1>2, <2>1 DEF LinkTasks, TypeOK, tasks, users
  <2>3. /\ row' = row /\ upsets' = upsets
        /\ \A k \in Loops : /\ run'[k].item = run[k].item /\ run'[k].id = run[k].id
                             /\ run'[k].pc = IF k = l THEN "save" ELSE run[k].pc
    BY <1>2 DEF LinkTasks, TypeOK, Runs
  <2>4. RowsOK'
    BY <2>3 DEF RowsOK, Exists
  <2>5. RunsOK'
    BY <2>3 DEF RunsOK
  <2> QED BY <2>2, <2>4, <2>5
<1> QED BY <1>1, <1>2 DEF LinkTasks

LEMMA StartTasksTypes ==
  ASSUME FeedbackAssumption, TypeInv, NEW l \in Loops, run[l].pc = "apply", StartTasks(l)
  PROVE  TypeInv'
<1> USE DEF TypeInv
<1>1. PICK n \in 1..MaxProposed :
        \/ CanMake(1) /\ MakeSource(l, [run[l] EXCEPT !.pc = "create", !.left = n])
        \/ /\ run' = [run EXCEPT ![l] = [run[l] EXCEPT !.pc = "create", !.left = n]]
           /\ UNCHANGED <<tasks, stray>>
  BY Zenon DEF StartTasks
<1> DEFINE next == [run[l] EXCEPT !.pc = "create", !.left = n]
<1>2. next \in Runs
  <2>1. n \in 0..MaxProposed
    BY DEF FeedbackAssumption
  <2>2. "create" \in Pcs
    BY DEF Pcs
  <2> QED BY <2>1, <2>2, StepTypes
<1>3. next.id = run[l].id /\ next.pc = "create" /\ next.item = run[l].item
  BY Fields DEF Runs
<1> HIDE DEF next
<1>4. CASE CanMake(1) /\ MakeSource(l, next)
  BY <1>2, <1>3, <1>4, MakeSourceTypes DEF StartTasks, Pcs
<1>5. CASE run' = [run EXCEPT ![l] = next] /\ UNCHANGED <<tasks, stray>>
  <2>1. TypeOK'
    BY <1>2, <1>5 DEF StartTasks, TypeOK, tasks, users
  <2>2. RowsOK' /\ RunsOK'
    BY <1>3, <1>5 DEF StartTasks, TypeOK, RowsOK, RunsOK, Exists
  <2> QED BY <2>1, <2>2
<1> QED BY <1>1, <1>4, <1>5 DEF next

LEMMA TypeStep ==
  ASSUME FeedbackAssumption, TypeInv, [Next]_vars
  PROVE  TypeInv'
<1>1. CASE User
  BY <1>1, SubmitFeedbackTypes, RecategorizeFeedbackTypes, ResolveFeedbackTypes,
     CancelFeedbackTypes, CloseTaskTypes DEF User
<1>2. CASE Service
  BY <1>2, DeleteTasksTypes, DeleteFeedbackTypes, CheckAutoResolveOnTaskDoneTypes,
     CancelFailsTypes, CheckFailsTypes, RetryPendingCategorizationsTypes DEF Service
<1>3. ASSUME NEW l \in Loops, Loop(l)
      PROVE  TypeInv'
  <2>1. CASE ClaimNextPendingFeedbackId(l) \/ LoadFeedback(l)
    BY <2>1, ClaimNextPendingFeedbackIdTypes, LoadFeedbackTypes
  <2>2. CASE Proposal(l)
    BY <2>2, ProposeTypes DEF Proposal
  <2>3. CASE AskBack(l) \/ RejectScopeChange(l) \/ \E n \in 1..MaxProposed : GeneratePlan(l, n)
    BY <2>3, AskBackTypes, RejectScopeChangeTypes, GeneratePlanTypes
  <2>4. CASE Planned(l)
    BY <2>4, SavePlanTypes, PlanFailsTypes DEF Planned
  <2>5. CASE Recheck(l) \/ RetryLinks(l)
    BY <2>5, RecheckTypes, RetryLinksTypes
  <2>6. CASE ApplyCategorizationResult(l)
    BY <2>6, UseExistingTypes, LinkTasksTypes, MergeIntoSimilarTypes, StartTasksTypes
    DEF ApplyCategorizationResult
  <2>7. CASE CreateTask(l) \/ CreateStandalone(l) \/ CreateFails(l) \/ TasksCreated(l)
    BY <2>7, CreateTaskTypes, CreateStandaloneTypes, CreateFailsTypes, TasksCreatedTypes
  <2>8. CASE SaveFeedback(l)
    BY <2>8, SaveFeedbackTypes
  <2>9. CASE LoadFails(l) \/ ApplyFails(l) \/ RunFails(l)
    BY <2>9, LoadFailsTypes, ApplyFailsTypes, RunFailsTypes
  <2> QED BY <1>3, <2>1, <2>2, <2>3, <2>4, <2>5, <2>6, <2>7, <2>8, <2>9 DEF Loop, Analyst, Apply
<1>4. CASE Crash
  BY <1>4, CrashTypes
<1>5. CASE UNCHANGED vars
  BY <1>5 DEF TypeInv, TypeOK, RowsOK, RunsOK, Exists, vars, tables, tasks, users, history
<1> QED BY <1>1, <1>2, <1>3, <1>4, <1>5 DEF Next

\* There is nothing at first.

LEMMA TypeInit ==
  ASSUME FeedbackAssumption, Init
  PROVE  TypeInv
<1>1. row \in [Items -> Rows] /\ run \in [Loops -> Runs]
  BY IdleType DEF Init
<1>2. TypeOK
  BY <1>1 DEF Init, TypeOK, FeedbackAssumption
<1>3. RowsOK /\ RunsOK
  BY DEF Init, RowsOK, RunsOK, NoRow, Idle
<1> QED BY <1>2, <1>3 DEF TypeInv

(* The tables and the runs keep their types, whatever overtakes what: a      *)
(* count of invalid links never passes its cap, and a run is always about a  *)
(* feedback whose row it has read.                                           *)
THEOREM TypeInvariance == Spec => []TypeInv
<1>1. Init => TypeInv
  BY TypeInit, FeedbackAssumption
<1>2. TypeInv /\ [Next]_vars => TypeInv'
  BY TypeStep, FeedbackAssumption
<1> QED BY <1>1, <1>2, PTL DEF Spec

(* TypeOK, for any loops, users and crashes.                                 *)
THEOREM TypeCorrect == Spec => []TypeOK
BY TypeInvariance, PTL DEF TypeInv

-----------------------------------------------------------------------------
(* Each action keeps the invariant. *)

\* A resolved row keeps its tasks.

LEMMA ResolvedRow ==
  ASSUME TypeOK, NEW F, NEW f \in Items
  PROVE  /\ Resolved(F)[f].tasks = row[f].tasks /\ Resolved(F)[f].source = row[f].source
         /\ Resolved(F)[f].status = IF f \in F /\ Exists(f) THEN "resolved" ELSE row[f].status
BY DEF Resolved, TypeOK, Rows

LEMMA SubmitFeedbackKeeps ==
  ASSUME FeedbackAssumption, Orderly, Inv, NEW f \in Items, SubmitFeedback(f)
  PROVE  Inv'
<1> USE DEF Inv, TypeInv
<1>1. CancelOK'
  BY DEF SubmitFeedback, Known, Settling, tasks, users, CancelOK, RowsOK
<1>2. KnownOK'
  BY DEF SubmitFeedback, Exists, Known, tasks, history, KnownOK, Own, Live
<1>3. HandsOpen'
  BY DEF SubmitFeedback, tasks, HandsOpen
<1>4. DoneOK'
  BY DEF SubmitFeedback, Submittable, Exists, tasks, users, history, DoneOK, RowsOK
<1>5. ASSUME NEW k \in Loops PROVE RunOK(k)'
  BY DEF SubmitFeedback, history, RunOK
<1>6. ASSUME NEW k \in Loops PROVE CopyOK(k)'
  BY DEF SubmitFeedback, Submittable, Exists, history, CopyOK, RunsOK
<1>7. TypeInv'
  BY SubmitFeedbackTypes
<1> QED BY <1>1, <1>2, <1>3, <1>4, <1>5, <1>6, <1>7

LEMMA RecategorizeFeedbackKeeps ==
  ASSUME FeedbackAssumption, Orderly, Inv, NEW f \in Items, RecategorizeFeedback(f)
  PROVE  Inv'
<1> USE DEF Inv, TypeInv
<1>1. CancelOK'
  BY DEF RecategorizeFeedback, Known, Settling, tasks, users, TypeOK, CancelOK, RowsOK
<1>2. KnownOK'
  BY DEF RecategorizeFeedback, Exists, Known, tasks, TypeOK, KnownOK, Own, Live
<1>3. HandsOpen'
  BY DEF RecategorizeFeedback, tasks, HandsOpen
<1>4. DoneOK'
  BY DEF RecategorizeFeedback, tasks, users, TypeOK, DoneOK
<1>5. ASSUME NEW k \in Loops PROVE RunOK(k)'
  BY DEF RecategorizeFeedback, RunOK
<1>6. ASSUME NEW k \in Loops PROVE CopyOK(k)'
  BY DEF RecategorizeFeedback, Exists, TypeOK, CopyOK, RunsOK
<1>7. TypeInv'
  BY RecategorizeFeedbackTypes
<1> QED BY <1>1, <1>2, <1>3, <1>4, <1>5, <1>6, <1>7

\* Nobody resolves what a run decides on.

LEMMA ResolvedCopy ==
  ASSUME FeedbackAssumption, Orderly, Inv, NEW F, row' = Resolved(F), Undisturbed(F),
         UNCHANGED <<run, stray>>, NEW k \in Loops
  PROVE  CopyOK(k)'
<1> USE DEF Inv, TypeInv
<1>1. \A g \in Items : /\ row'[g].tasks = row[g].tasks /\ row'[g].source = row[g].source
                        /\ row'[g].status = IF g \in F /\ Exists(g) THEN "resolved"
                                            ELSE row[g].status
  BY ResolvedRow
<1>2. Settling(k) => run[k].id \notin F
  BY DEF Undisturbed, Orderly
<1>3. run'[k] = run[k] /\ (run[k].pc \notin {"idle", "load"} => run[k].id \in Items)
  BY DEF RunsOK
<1>4. run[k].pc \in Deciding => row'[run[k].id].status = row[run[k].id].status
  BY <1>1, <1>2, <1>3 DEF Settling, Deciding
<1>5. run[k].pc \notin {"idle", "load"} => (Exists(run[k].id)' <=> Exists(run[k].id))
  BY <1>1, <1>3 DEF Exists
<1> QED BY <1>1, <1>3, <1>4, <1>5 DEF CopyOK

LEMMA ResolveFeedbackKeeps ==
  ASSUME FeedbackAssumption, Orderly, Inv, NEW f \in Items, ResolveFeedback(f)
  PROVE  Inv'
<1> USE DEF Inv, TypeInv
<1>1. CancelOK'
  BY DEF ResolveFeedback, Resolved, Exists, Known, Settling, tasks, users, CancelOK
<1>2. KnownOK'
  BY DEF ResolveFeedback, Resolved, Exists, Known, tasks, history, TypeOK, KnownOK, Own, Live
<1>3. HandsOpen'
  BY DEF ResolveFeedback, tasks, HandsOpen
<1>4. DoneOK'
  BY DEF ResolveFeedback, Resolved, tasks, users, history, DoneOK
<1>5. ASSUME NEW k \in Loops PROVE RunOK(k)'
  BY DEF ResolveFeedback, history, RunOK
<1>6. ASSUME NEW k \in Loops PROVE CopyOK(k)'
  <2>1. PICK F \in Cascades({f}) : row' = Resolved(F)
    BY DEF ResolveFeedback
  <2>2. F \subseteq Thread(f)
    BY <2>1, UNION {Thread(g) : g \in {f}} = Thread(f) DEF Cascades
  <2>3. Undisturbed(F) /\ UNCHANGED <<run, stray>>
    BY <2>2 DEF ResolveFeedback, Undisturbed, history
  <2> QED BY <2>1, <2>3, ResolvedCopy
<1>7. TypeInv'
  BY ResolveFeedbackTypes
<1> QED BY <1>1, <1>2, <1>3, <1>4, <1>5, <1>6, <1>7

LEMMA CancelFeedbackKeeps ==
  ASSUME FeedbackAssumption, Orderly, Inv, NEW f \in Items, CancelFeedback(f)
  PROVE  Inv'
<1> USE DEF Inv, TypeInv
<1>1. CancelOK'
  BY DEF CancelFeedback, Undisturbed, toDelete, Exists, Known, Settling, Orderly, tables, tasks,
         CancelOK
<1>2. KnownOK'
  BY DEF CancelFeedback, Exists, Known, tables, tasks, history, KnownOK, Own, Live
<1>3. HandsOpen'
  BY DEF CancelFeedback, tables, tasks, HandsOpen
<1>4. DoneOK'
  BY DEF CancelFeedback, tables, tasks, history, DoneOK
<1>5. ASSUME NEW k \in Loops PROVE RunOK(k)'
  BY DEF CancelFeedback, history, RunOK
<1>6. ASSUME NEW k \in Loops PROVE CopyOK(k)'
  BY DEF CancelFeedback, Exists, tables, history, CopyOK, RunsOK
<1>7. TypeInv'
  BY CancelFeedbackTypes
<1> QED BY <1>1, <1>2, <1>3, <1>4, <1>5, <1>6, <1>7

LEMMA DeleteTasksKeeps ==
  ASSUME FeedbackAssumption, Orderly, Inv, NEW f \in Items, DeleteTasks(f)
  PROVE  Inv'
<1> USE DEF Inv, TypeInv
<1>1. CancelOK'
  BY DEF DeleteTasks, Exists, Known, Settling, TypeOK, Rows, CancelOK
<1>2. KnownOK'
  BY DEF DeleteTasks, Exists, Known, history, KnownOK, Own, Live
<1>3. HandsOpen'
  BY DEF DeleteTasks, TypeOK, Rows, Runs, HandsOpen
<1>4. DoneOK'
  BY DEF DeleteTasks, history, TypeOK, Rows, DoneOK
<1>5. ASSUME NEW k \in Loops PROVE RunOK(k)'
  BY DEF DeleteTasks, history, RunOK
<1>6. ASSUME NEW k \in Loops PROVE CopyOK(k)'
  BY DEF DeleteTasks, Exists, history, CopyOK, RunsOK, CancelOK
<1>7. TypeInv'
  BY DeleteTasksTypes
<1> QED BY <1>1, <1>2, <1>3, <1>4, <1>5, <1>6, <1>7

LEMMA DeleteFeedbackKeeps ==
  ASSUME FeedbackAssumption, Orderly, Inv, NEW f \in Items, DeleteFeedback(f)
  PROVE  Inv'
<1> USE DEF Inv, TypeInv
<1>1. /\ \A g \in Items : g # f => row'[g] = row[g]
      /\ row'[f].status = "gone" /\ row'[f].tasks = {} /\ row'[f].source = None
      /\ UNCHANGED <<task, for, run, stray>> /\ cancelled[f] = {}
  BY DEF DeleteFeedback, TypeOK, tasks, history, NoRow
<1>2. \A t \in Known(f) : task[t] = "deleted"
  BY <1>1 DEF CancelOK, FeedbackAssumption
<1>3. CancelOK'
  BY DEF DeleteFeedback, Exists, Known, Settling, tasks, CancelOK
<1>4. KnownOK'
  <2>1. \A g \in Items : g # f => Known(g)' = Known(g)
    BY <1>1 DEF Known, Exists
  <2>2. \A l \in Loops : Own(l)' = Own(l)
    BY <1>1 DEF Own
  <2>3. for \in [Tasks -> Items \cup {None}]
    BY DEF TypeOK
  <2> QED BY <1>1, <1>2, <2>1, <2>2, <2>3 DEF KnownOK, Live
<1>5. HandsOpen'
  BY DEF DeleteFeedback, tasks, HandsOpen
<1>6. DoneOK'
  BY DEF DeleteFeedback, tasks, history, DoneOK
<1>7. ASSUME NEW k \in Loops PROVE RunOK(k)'
  BY DEF DeleteFeedback, history, RunOK
<1>8. ASSUME NEW k \in Loops PROVE CopyOK(k)'
  <2>1. Settling(k) => run[k].id # f
    BY <1>1 DEF CancelOK, FeedbackAssumption
  <2> QED BY <1>1, <2>1 DEF CopyOK, RunsOK, Settling, Exists, Deciding
<1>9. TypeInv'
  BY DeleteFeedbackTypes
<1> QED BY <1>3, <1>4, <1>5, <1>6, <1>7, <1>8, <1>9

LEMMA CancelFailsKeeps ==
  ASSUME FeedbackAssumption, Orderly, Inv, NEW f \in Items, CancelFails(f)
  PROVE  Inv'
<1> USE DEF Inv, TypeInv
<1>1. CancelOK'
  BY DEF CancelFails, Exists, Known, Settling, tables, tasks, TypeOK, CancelOK, RunsOK
<1>2. KnownOK'
  BY DEF CancelFails, Exists, Known, tables, tasks, history, KnownOK, Own, Live
<1>3. HandsOpen'
  BY DEF CancelFails, tables, tasks, HandsOpen
<1>4. DoneOK'
  BY DEF CancelFails, tables, tasks, history, DoneOK
<1>5. ASSUME NEW k \in Loops PROVE RunOK(k)'
  BY DEF CancelFails, history, RunOK
<1>6. ASSUME NEW k \in Loops PROVE CopyOK(k)'
  BY DEF CancelFails, Exists, tables, history, CopyOK, RunsOK
<1>7. TypeInv'
  BY CancelFailsTypes
<1> QED BY <1>1, <1>2, <1>3, <1>4, <1>5, <1>6, <1>7

LEMMA CloseTaskKeeps ==
  ASSUME FeedbackAssumption, Orderly, Inv, NEW t \in Tasks, CloseTask(t)
  PROVE  Inv'
<1> USE DEF Inv, TypeInv
<1>1. CancelOK'
  BY DEF CloseTask, Linkable, Exists, Known, Settling, CancelOK
<1>2. KnownOK'
  BY DEF CloseTask, Linkable, Exists, Known, history, KnownOK, Own, Live
<1>3. HandsOpen'
  BY DEF CloseTask, InHand, Orderly, HandsOpen
<1>4. DoneOK'
  BY DEF CloseTask, history, DoneOK
<1>5. ASSUME NEW k \in Loops PROVE RunOK(k)'
  BY DEF CloseTask, history, RunOK
<1>6. ASSUME NEW k \in Loops PROVE CopyOK(k)'
  BY DEF CloseTask, Exists, history, CopyOK, RunsOK
<1>7. TypeInv'
  BY CloseTaskTypes
<1> QED BY <1>1, <1>2, <1>3, <1>4, <1>5, <1>6, <1>7

LEMMA CheckAutoResolveOnTaskDoneKeeps ==
  ASSUME FeedbackAssumption, Orderly, Inv, NEW t \in Tasks, CheckAutoResolveOnTaskDone(t)
  PROVE  Inv'
<1> USE DEF Inv, TypeInv
<1> DEFINE done == IF AutoResolve THEN UNION {Thread(f) : f \in allClosed(t)} ELSE {}
<1>1. /\ row' = Resolved(done) /\ Undisturbed(done) /\ t \in closed /\ closed' = closed \ {t}
      /\ UNCHANGED <<inbox, task, for, chores, run, cancelled, stray, missed>>
  BY DEF CheckAutoResolveOnTaskDone, tasks, history
<1>2. AutoResolve => \A g \in candidates(t) : AllClosed(g) => g \in done
  BY DEF Thread, allClosed
<1> HIDE DEF done
<1>3. \A g \in Items : /\ row'[g].tasks = row[g].tasks /\ row'[g].source = row[g].source
                        /\ row'[g].status = IF g \in done /\ Exists(g) THEN "resolved"
                                            ELSE row[g].status
  BY <1>1, ResolvedRow
<1>4. CancelOK'
  BY DEF CheckAutoResolveOnTaskDone, Resolved, Exists, Known, Settling, tasks, CancelOK
<1>5. KnownOK'
  BY DEF CheckAutoResolveOnTaskDone, Resolved, Exists, Known, tasks, history, TypeOK, KnownOK,
         Own, Live
<1>6. HandsOpen'
  BY DEF CheckAutoResolveOnTaskDone, tasks, HandsOpen
<1>7. DoneOK'
  <2> SUFFICES ASSUME AutoResolve,
                      NEW g \in Items, row'[g].status = "pending", NEW s \in row[g].tasks
               PROVE  \E u \in row[g].tasks : task[u] # "closed" \/ u \in closed' \/ u \in missed
    BY <1>1, <1>3 DEF DoneOK
  <2>1. row[g].status = "pending" /\ g \notin done
    BY <1>3 DEF Exists
  <2>2. PICK u \in row[g].tasks : task[u] # "closed" \/ u \in closed \/ u \in missed
    BY <2>1 DEF DoneOK
  <2>3. CASE u = t
    BY <1>2, <2>1, <2>3 DEF candidates, AllClosed
  <2> QED BY <1>1, <2>2, <2>3
<1>8. ASSUME NEW k \in Loops PROVE RunOK(k)'
  BY DEF CheckAutoResolveOnTaskDone, history, RunOK
<1>9. ASSUME NEW k \in Loops PROVE CopyOK(k)'
  BY <1>1, ResolvedCopy
<1>10. TypeInv'
  BY CheckAutoResolveOnTaskDoneTypes
<1> QED BY <1>4, <1>5, <1>6, <1>7, <1>8, <1>9, <1>10

LEMMA CheckFailsKeeps ==
  ASSUME FeedbackAssumption, Orderly, Inv, NEW t \in Tasks, CheckFails(t)
  PROVE  Inv'
<1> USE DEF Inv, TypeInv
<1>1. PICK F : row' = Resolved(F) /\ Undisturbed(F)
  BY DEF CheckFails
<1>2. /\ closed' = closed \ {t} /\ missed' = missed \cup Concerned({t})
      /\ UNCHANGED <<inbox, task, for, chores, run, cancelled, stray>>
  BY DEF CheckFails, tasks
<1>3. \A g \in Items : /\ row'[g].tasks = row[g].tasks /\ row'[g].source = row[g].source
                        /\ row'[g].status = IF g \in F /\ Exists(g) THEN "resolved"
                                            ELSE row[g].status
  BY <1>1, ResolvedRow
<1>4. \A g \in Items : Known(g)' = Known(g)
  BY <1>3 DEF Known, Exists
<1>5. CancelOK'
  BY <1>2, <1>4 DEF CancelOK, Settling
<1>6. KnownOK'
  <2>1. for \in [Tasks -> Items \cup {None}]
    BY DEF TypeOK
  <2> QED BY <1>2, <1>4, <2>1 DEF KnownOK, Own, Live
<1>7. HandsOpen'
  BY <1>2 DEF HandsOpen
<1>8. DoneOK'
  <2> SUFFICES ASSUME AutoResolve,
                      NEW g \in Items, row'[g].status = "pending", NEW s \in row[g].tasks
               PROVE  \E u \in row[g].tasks : task[u] # "closed" \/ u \in closed' \/ u \in missed'
    BY <1>2, <1>3 DEF DoneOK
  <2>1. row[g].status = "pending"
    BY <1>3
  <2>2. PICK u \in row[g].tasks : task[u] # "closed" \/ u \in closed \/ u \in missed
    BY <2>1 DEF DoneOK
  <2>3. u = t => u \in missed'
    BY <1>2 DEF Concerned
  <2> QED BY <1>2, <2>2, <2>3
<1>9. ASSUME NEW k \in Loops PROVE RunOK(k)'
  BY <1>2 DEF RunOK
<1>10. ASSUME NEW k \in Loops PROVE CopyOK(k)'
  BY <1>1, <1>2, ResolvedCopy
<1>11. TypeInv'
  BY CheckFailsTypes
<1> QED BY <1>5, <1>6, <1>7, <1>8, <1>9, <1>10, <1>11

LEMMA ClaimNextPendingFeedbackIdKeeps ==
  ASSUME FeedbackAssumption, Orderly, Inv, NEW l \in Loops, ClaimNextPendingFeedbackId(l)
  PROVE  Inv'
<1> USE DEF Inv, TypeInv
<1>1. CancelOK'
  BY DEF ClaimNextPendingFeedbackId, Exists, Known, Settling, tasks, users, CancelOK
<1>2. KnownOK'
  BY DEF ClaimNextPendingFeedbackId, Exists, Known, tasks, history, Runs, KnownOK, Own, Live,
         RunOK, CopyOK, CancelOK, RunsOK
<1>3. HandsOpen'
  BY DEF ClaimNextPendingFeedbackId, NoRow, Idle, tasks, HandsOpen
<1>4. DoneOK'
  BY DEF ClaimNextPendingFeedbackId, tasks, users, history, DoneOK
<1>5. ASSUME NEW k \in Loops PROVE RunOK(k)'
  BY DEF ClaimNextPendingFeedbackId, NoRow, Idle, Orderly, RunOK
<1>6. ASSUME NEW k \in Loops PROVE CopyOK(k)'
  BY DEF ClaimNextPendingFeedbackId, Orderly, CopyOK
<1>7. TypeInv'
  BY ClaimNextPendingFeedbackIdTypes
<1> QED BY <1>1, <1>2, <1>3, <1>4, <1>5, <1>6, <1>7

LEMMA LoadFeedbackKeeps ==
  ASSUME FeedbackAssumption, Orderly, Inv, NEW l \in Loops, LoadFeedback(l)
  PROVE  Inv'
<1> USE DEF Inv, TypeInv
<1>1. CancelOK'
  BY SMTT(40) DEF LoadFeedback, Exists, Known, Settling, Idle, tables, tasks, users, CancelOK
<1>2. KnownOK'
  BY DEF LoadFeedback, Exists, Known, tables, tasks, history, KnownOK, Own, Live, RunOK, CopyOK,
         CancelOK
<1>3. HandsOpen'
  BY DEF LoadFeedback, NoRow, Idle, Orderly, HandsOpen, RunOK
<1>4. DoneOK'
  BY DEF LoadFeedback, tables, tasks, users, history, DoneOK
<1>5. ASSUME NEW k \in Loops PROVE RunOK(k)'
  BY DEF LoadFeedback, NoRow, Idle, Orderly, RunOK
<1>6. ASSUME NEW k \in Loops PROVE CopyOK(k)'
  <2>1. k = l /\ run[l].id \in Items /\ row' = row
    BY DEF LoadFeedback, Orderly, RunsOK, tables
  <2>2. CASE ~Exists(run[l].id) \/ row[run[l].id].tasks # {}
    BY <2>1, <2>2 DEF LoadFeedback, Idle, CopyOK, TypeOK
  <2>3. CASE Exists(run[l].id) /\ row[run[l].id].tasks = {}
    <3>1. /\ run'[l].pc = "analyst" /\ run'[l].item = row[run[l].id]
          /\ run'[l].id = run[l].id
      BY <2>3 DEF LoadFeedback, TypeOK, Runs
    <3> QED BY <2>1, <2>3, <3>1 DEF CopyOK, Exists, Deciding
  <2> QED BY <2>2, <2>3
<1>7. TypeInv'
  BY LoadFeedbackTypes
<1> QED BY <1>1, <1>2, <1>3, <1>4, <1>5, <1>6, <1>7

\* A run that ends with an error leaves nothing in hand that is not known or
\* has been given up.

LEMMA GivenUp ==
  ASSUME FeedbackAssumption, Orderly, Inv, TypeInv', NEW l \in Loops,
         run' = [run EXCEPT ![l] = Idle], UNCHANGED <<row, tasks, users, missed>>,
         stray \subseteq stray',
         \A t \in Own(l) \ {None} : for[t] = run[l].id => t \in Known(run[l].id) \cup stray'
  PROVE  Inv'
<1> USE DEF Inv, TypeInv
<1>1. UNCHANGED <<task, for, chores, cancelled, closed, booted>>
  BY DEF tasks, users
<1>2. run'[l] = Idle /\ \A k \in Loops : k = l
  BY DEF TypeOK, Orderly
<1>3. Idle.pc = "idle" /\ Idle.made = {} /\ Idle.links = {} /\ Idle.item.tasks = {}
  BY DEF Idle, NoRow
<1> HIDE DEF Idle
<1>4. \A g \in Items : Known(g)' = Known(g)
  BY DEF Known, Exists
<1>5. CancelOK'
  BY <1>1, <1>2, <1>3, <1>4 DEF CancelOK, Settling
<1>6. KnownOK'
  <2> SUFFICES ASSUME NEW t \in Live \ stray', for[t] # None
               PROVE  t \in Known(for[t])
    BY <1>1, <1>4, TypeInv DEF KnownOK, Live, TypeOK
  <2>1. t # None /\ t \in Live \ stray
    BY DEF Live, FeedbackAssumption
  <2>2. t \in Known(for[t]) \/ (run[l].id = for[t] /\ t \in Own(l))
    BY <1>2, <2>1 DEF KnownOK
  <2> QED BY <2>1, <2>2
<1>7. HandsOpen'
  BY <1>2, <1>3 DEF HandsOpen
<1>8. DoneOK'
  BY <1>1 DEF DoneOK
<1>9. RunOK(l)' /\ CopyOK(l)'
  BY <1>2, <1>3 DEF RunOK, CopyOK
<1> QED BY <1>2, <1>5, <1>6, <1>7, <1>8, <1>9

LEMMA LoadFailsKeeps ==
  ASSUME FeedbackAssumption, Orderly, Inv, NEW l \in Loops, LoadFails(l)
  PROVE  Inv'
<1>1. TypeInv'
  BY LoadFailsTypes DEF Inv
<1>2. Own(l) = {}
  BY DEF LoadFails, Own
<1>3. UNCHANGED <<row, tasks, users, missed, stray>> /\ run' = [run EXCEPT ![l] = Idle]
  BY DEF LoadFails, tables
<1> QED BY <1>1, <1>2, <1>3, GivenUp

LEMMA AskBackKeeps ==
  ASSUME FeedbackAssumption, Orderly, Inv, NEW l \in Loops, AskBack(l)
  PROVE  Inv'
<1> USE DEF Inv, TypeInv
<1>1. CancelOK'
  BY DEF AskBack, Known, Settling, Idle, tasks, users, CancelOK, RowsOK
<1>2. KnownOK'
  BY DEF AskBack, Answers, Exists, Known, tasks, history, KnownOK, Own, Live
<1>3. HandsOpen'
  BY DEF AskBack, NoRow, Idle, tasks, HandsOpen
<1>4. DoneOK'
  BY DEF AskBack, tasks, users, history, DoneOK
<1>5. ASSUME NEW k \in Loops PROVE RunOK(k)'
  BY DEF AskBack, Answers, NoRow, Idle, Orderly, RunOK
<1>6. ASSUME NEW k \in Loops PROVE CopyOK(k)'
  BY DEF AskBack, Answers, Exists, Idle, Orderly, CopyOK
<1>7. TypeInv'
  BY AskBackTypes
<1> QED BY <1>1, <1>2, <1>3, <1>4, <1>5, <1>6, <1>7

LEMMA ProposeKeeps ==
  ASSUME FeedbackAssumption, Orderly, Inv, NEW l \in Loops, NEW L \in SUBSET Tasks,
         NEW s \in Tasks \cup {None}, Propose(l, L, s)
  PROVE  Inv'
<1> USE DEF Inv, TypeInv
<1>1. CancelOK'
  BY DEF Propose, Answers, Undisturbed, Exists, Known, Orderly, tables, tasks, users, TypeOK,
         CancelOK
<1>2. KnownOK'
  BY DEF Propose, Answers, Exists, Known, Orderly, tables, tasks, history, Runs, KnownOK, Own,
         Live, RunOK, CopyOK, RunsOK
<1>3. HandsOpen'
  BY DEF Propose, tables, tasks, TypeOK, HandsOpen
<1>4. DoneOK'
  BY DEF Propose, tables, tasks, users, history, DoneOK
<1>5. ASSUME NEW k \in Loops PROVE RunOK(k)'
  BY DEF Propose, Answers, history, TypeOK, RunOK
<1>6. ASSUME NEW k \in Loops PROVE CopyOK(k)'
  BY SMTT(60)
  DEF Propose, Answers, Exists, Settling, Orderly, tables, Deciding, TypeOK, Runs, RunOK, CopyOK
<1>7. TypeInv'
  BY ProposeTypes
<1> QED BY <1>1, <1>2, <1>3, <1>4, <1>5, <1>6, <1>7

LEMMA RejectScopeChangeKeeps ==
  ASSUME FeedbackAssumption, Orderly, Inv, NEW l \in Loops, RejectScopeChange(l)
  PROVE  Inv'
<1> USE DEF Inv, TypeInv
<1>1. PICK id \in Items : id = run[l].id
  BY DEF RejectScopeChange, RunsOK, Answers
<1>2. run' = [run EXCEPT ![l] = Idle] /\ UNCHANGED <<task, for, stray>>
  BY DEF RejectScopeChange, Answers, tasks
<1>3. \A g \in Items : Known(g) \subseteq Known(g)'
  <2>1. \A g \in Items : g # id \/ ~Exists(g) => row'[g] = row[g]
    BY <1>1 DEF RejectScopeChange, SaveRow, TypeOK
  <2>2. Exists(id) => row'[id].status = "pending" /\ row'[id].source = run[l].item.source
    BY <1>1, <1>2, Fields DEF RejectScopeChange, SaveRow, TypeOK, Rows
  <2>3. row[id].tasks = {} /\ (Exists(id) => run[l].item.source = row[id].source)
    BY <1>1 DEF RejectScopeChange, Answers, CopyOK
  <2> QED BY <1>1, <1>2, <2>1, <2>2, <2>3 DEF Known, Exists
<1>4. CancelOK'
  BY DEF RejectScopeChange, Answers, Undisturbed, SaveRow, Exists, Known,
         Settling, Idle, Orderly, tasks, users, CancelOK
<1>5. KnownOK'
  <2>1. \A k \in Loops : Own(k)' = {} /\ Own(k) = {}
    BY <1>1, <1>2 DEF RejectScopeChange, Answers, Own, Orderly, Idle
  <2>2. for \in [Tasks -> Items \cup {None}]
    BY DEF TypeOK
  <2> QED BY <1>1, <1>2, <1>3, <2>1, <2>2 DEF KnownOK, Live
<1>6. HandsOpen'
  BY DEF RejectScopeChange, Answers, NoRow, Idle, Orderly, HandsOpen, RunOK
<1>7. DoneOK'
  BY DEF RejectScopeChange, SaveRow, tasks, users, DoneOK, HandsOpen
<1>8. ASSUME NEW k \in Loops PROVE RunOK(k)'
  BY DEF RejectScopeChange, NoRow, Idle, RunOK
<1>9. ASSUME NEW k \in Loops PROVE CopyOK(k)'
  BY DEF RejectScopeChange, Idle, Orderly, TypeOK, CopyOK
<1>10. TypeInv'
  BY RejectScopeChangeTypes
<1> QED BY <1>4, <1>5, <1>6, <1>7, <1>8, <1>9, <1>10

LEMMA GeneratePlanKeeps ==
  ASSUME FeedbackAssumption, Orderly, Inv, NEW l \in Loops, NEW n \in 1..MaxProposed,
         GeneratePlan(l, n)
  PROVE  Inv'
<1> USE DEF Inv, TypeInv
<1>1. CanMake(n) /\ Fresh(n) \subseteq Free
  BY FreshIsFree DEF GeneratePlan
<1>2. /\ run'[l].pc = "approval" /\ run'[l].made = run[l].made /\ run'[l].id = run[l].id
      /\ run'[l].links = run[l].links
      /\ run'[l].item.source = run[l].item.source
  BY DEF GeneratePlan, TypeOK, Runs, Rows
<1>3. run[l].pc = "analyst" /\ row' = row /\ \A k \in Loops : k = l
  BY DEF GeneratePlan, Answers, Orderly
<1>4. CancelOK'
  BY <1>1 DEF GeneratePlan, Make, Exists, Known, Settling, Free, users, TypeOK, Rows, CancelOK
<1>5. KnownOK'
  <2>1. Own(l) = {} /\ run'[l].item.tasks = Fresh(n) /\ row' = row /\ stray' = stray
    BY <1>3 DEF GeneratePlan, Own, TypeOK, Runs, Rows, history
  <2>2. Fresh(n) \subseteq Own(l)'
    BY <1>2, <2>1 DEF Own
  <2>3. \A g \in Items : Known(g)' = Known(g)
    BY <2>1 DEF Known, Exists
  <2>4. /\ task' = [t \in Tasks |-> IF t \in Fresh(n) THEN "open" ELSE task[t]]
        /\ for' = [t \in Tasks |-> IF t \in Fresh(n) THEN run[l].id ELSE for[t]]
    BY DEF GeneratePlan, Make
  <2>5. for \in [Tasks -> Items \cup {None}]
    BY DEF TypeOK
  <2> QED BY <1>2, <1>3, <2>1, <2>2, <2>3, <2>4, <2>5 DEF KnownOK, Live
<1>6. HandsOpen'
  BY <1>1 DEF GeneratePlan, Make, Free, TypeOK, Rows, Runs, HandsOpen
<1>7. DoneOK'
  BY <1>1 DEF GeneratePlan, Make, users, history, TypeOK, Rows, DoneOK
<1>8. ASSUME NEW k \in Loops PROVE RunOK(k)'
  BY <1>2, <1>3 DEF RunOK
<1>9. ASSUME NEW k \in Loops PROVE CopyOK(k)'
  BY <1>2, <1>3 DEF CopyOK, Exists, Deciding
<1>10. TypeInv'
  BY GeneratePlanTypes
<1> QED BY <1>4, <1>5, <1>6, <1>7, <1>8, <1>9, <1>10

LEMMA SavePlanKeeps ==
  ASSUME FeedbackAssumption, Orderly, Inv, NEW l \in Loops, SavePlan(l)
  PROVE  Inv'
<1> USE DEF Inv, TypeInv
<1>1. PICK id \in Items : id = run[l].id
  BY DEF SavePlan, RunsOK
<1>2. run' = [run EXCEPT ![l] = Idle] /\ UNCHANGED <<task, for>>
  BY DEF SavePlan, tasks
<1>3. /\ \A g \in Items : Known(g) \subseteq Known(g)'
      /\ run[l].item.tasks \subseteq Known(id)' \cup stray'
  <2>1. \A g \in Items : g # id \/ ~Exists(g) => row'[g] = row[g]
    BY <1>1 DEF SavePlan, SaveRow, TypeOK
  <2>2. Exists(id) => /\ row'[id].status = "pending" /\ row'[id].source = run[l].item.source
                      /\ row'[id].tasks = run[l].item.tasks
    BY <1>1, <1>2, Fields DEF SavePlan, SaveRow, TypeOK, Rows
  <2>3. row[id].tasks = {} /\ (Exists(id) => run[l].item.source = row[id].source)
    BY <1>1 DEF SavePlan, CopyOK
  <2>4. Known(id) \subseteq Known(id)' /\ run[l].item.tasks \subseteq Known(id)' \cup stray'
    BY <1>1, <1>2, <2>1, <2>2, <2>3, Fields DEF Known, Exists, SavePlan, FeedbackAssumption
  <2>5. \A g \in Items : g # id => Known(g)' = Known(g)
    BY <1>1, <2>1 DEF Known, Exists
  <2> QED BY <1>1, <2>4, <2>5
<1>4. CancelOK'
  BY DEF SavePlan, Undisturbed, SaveRow, Exists, Known, Settling, Idle, Orderly, tasks, users,
         CancelOK
<1>5. KnownOK'
  <2>1. \A k \in Loops : Own(k)' = {} /\ Own(k) = run[l].item.tasks /\ run[k].id = id
    BY <1>1, <1>2 DEF SavePlan, Own, Orderly, TypeOK, Idle
  <2>2. for \in [Tasks -> Items \cup {None}] /\ stray \subseteq stray'
    BY DEF TypeOK, SavePlan
  <2> QED BY <1>1, <1>2, <1>3, <2>1, <2>2 DEF KnownOK, Live
<1>6. HandsOpen'
  BY DEF SavePlan, NoRow, Idle, tasks, HandsOpen
<1>7. DoneOK'
  BY DEF SavePlan, SaveRow, tasks, users, DoneOK, HandsOpen
<1>8. ASSUME NEW k \in Loops PROVE RunOK(k)'
  BY DEF SavePlan, NoRow, Idle, RunOK
<1>9. ASSUME NEW k \in Loops PROVE CopyOK(k)'
  BY DEF SavePlan, Idle, Orderly, TypeOK, CopyOK
<1>10. TypeInv'
  BY SavePlanTypes
<1> QED BY <1>4, <1>5, <1>6, <1>7, <1>8, <1>9, <1>10

LEMMA PlanFailsKeeps ==
  ASSUME FeedbackAssumption, Orderly, Inv, NEW l \in Loops, PlanFails(l)
  PROVE  Inv'
<1> USE DEF Inv, TypeInv
<1>1. CancelOK'
  BY DEF PlanFails, Undisturbed, Exists, Known, Orderly, tasks, users, CancelOK
<1>2. KnownOK'
  BY DEF PlanFails, Answers, Exists, Known, tasks, KnownOK, Own, Live
<1>3. HandsOpen'
  BY DEF PlanFails, tasks, HandsOpen
<1>4. DoneOK'
  BY DEF PlanFails, tasks, users, DoneOK
<1>5. ASSUME NEW k \in Loops PROVE RunOK(k)'
  BY DEF PlanFails, Answers, RunOK
<1>6. ASSUME NEW k \in Loops PROVE CopyOK(k)'
  BY DEF PlanFails, Answers, Exists, Deciding, CopyOK, RunsOK
<1>7. TypeInv'
  BY PlanFailsTypes
<1> QED BY <1>1, <1>2, <1>3, <1>4, <1>5, <1>6, <1>7

LEMMA RecheckKeeps ==
  ASSUME FeedbackAssumption, Orderly, Inv, NEW l \in Loops, Recheck(l)
  PROVE  Inv'
<1> USE DEF Inv, TypeInv
<1>1. CancelOK'
  BY DEF Recheck, Exists, Known, Settling, Idle, tables, tasks, users, CancelOK
<1>2. KnownOK'
  BY DEF Recheck, Exists, Known, tables, tasks, history, Runs, KnownOK, Own, Live, RunOK,
         CopyOK, CancelOK
<1>3. HandsOpen'
  BY DEF Recheck, NoRow, Idle, tables, tasks, HandsOpen
<1>4. DoneOK'
  BY DEF Recheck, tables, tasks, users, history, DoneOK
<1>5. ASSUME NEW k \in Loops PROVE RunOK(k)'
  BY SMTT(40) DEF Recheck, NoRow, Idle, history, RunOK
<1>6. ASSUME NEW k \in Loops PROVE CopyOK(k)'
  BY DEF Recheck, stillPending, Exists, Idle, Orderly, tables, CopyOK
<1>7. TypeInv'
  BY RecheckTypes
<1> QED BY <1>1, <1>2, <1>3, <1>4, <1>5, <1>6, <1>7

\* Counting an invalid link changes no task of a feedback.

LEMMA RetriedKnown ==
  ASSUME FeedbackAssumption, Inv, NEW l \in Loops, LinksRetried(l), SaveRetry(l)
  PROVE  /\ \A g \in Items : Known(g)' = Known(g)
         /\ \A g \in Items : row'[g].tasks = row[g].tasks
         /\ \A g \in Items : row'[g].status = "pending" =>
                               row[g].status = "pending" \/ row[g].tasks = {}
         /\ row'[run[l].id].status = run[l].item.status
         /\ row'[run[l].id].source = run[l].item.source
         /\ \A g \in Items : g # run[l].id => row'[g] = row[g]
<1> USE DEF Inv, TypeInv
<1>1. PICK id \in Items : id = run[l].id
  BY DEF LinksRetried, RunsOK
<1>2. /\ Exists(id) /\ row[id].tasks = {} /\ run[l].item.source = row[id].source
      /\ run[l].item.tasks = {}
  BY <1>1 DEF LinksRetried, InvalidLinks, CopyOK, RunOK
<1>3. run[l].item.status \in {"pending", "resolved"}
  BY DEF LinksRetried, RunsOK
<1>4. /\ row'[id].tasks = run[l].item.tasks /\ row'[id].source = run[l].item.source
      /\ row'[id].status = run[l].item.status
      /\ \A g \in Items : g # id => row'[g] = row[g]
  BY <1>1, RetriedRow
<1>5. Known(id)' = Known(id)
  BY <1>2, <1>3, <1>4 DEF Known, Exists
<1>6. \A g \in Items : g # id => Known(g)' = Known(g)
  BY <1>4 DEF Known, Exists
<1> QED BY <1>1, <1>2, <1>4, <1>5, <1>6

LEMMA RetryLinksKeeps ==
  ASSUME FeedbackAssumption, Orderly, Inv, NEW l \in Loops, RetryLinks(l)
  PROVE  Inv'
<1> USE DEF Inv, TypeInv
<1>1. PICK id \in Items : id = run[l].id
  BY DEF RetryLinks, LinksRetried, RunsOK
<1>2. /\ run' = [run EXCEPT ![l] = Idle] /\ UNCHANGED <<task, for, stray>>
      /\ run[l].pc = "apply"
  BY DEF RetryLinks, LinksRetried, tasks, history
<1>3. \A g \in Items : Known(g) \subseteq Known(g)'
  BY RetriedKnown DEF RetryLinks
<1>4. CancelOK'
  <2>1. \A g \in Items : Known(g)' = Known(g)
    BY RetriedKnown DEF RetryLinks
  <2> QED BY <1>2, <2>1 DEF RetryLinks, Settling, Idle, tasks, users, CancelOK
<1>5. KnownOK'
  <2>1. \A k \in Loops : Own(k)' = {} /\ Own(k) = {}
    BY <1>1, <1>2 DEF Own, Orderly, TypeOK, Idle
  <2>2. for \in [Tasks -> Items \cup {None}]
    BY DEF TypeOK
  <2> QED BY <1>1, <1>2, <1>3, <2>1, <2>2 DEF KnownOK, Live
<1>6. HandsOpen'
  BY DEF RetryLinks, NoRow, Idle, tasks, HandsOpen
<1>7. DoneOK'
  BY RetriedKnown DEF RetryLinks, tasks, users, history, DoneOK
<1>8. ASSUME NEW k \in Loops PROVE RunOK(k)'
  BY DEF RetryLinks, NoRow, Idle, history, RunOK
<1>9. ASSUME NEW k \in Loops PROVE CopyOK(k)'
  BY DEF RetryLinks, Idle, Orderly, TypeOK, CopyOK
<1>10. TypeInv'
  BY RetryLinksTypes
<1> QED BY <1>4, <1>5, <1>6, <1>7, <1>8, <1>9, <1>10

LEMMA ApplyFailsKeeps ==
  ASSUME FeedbackAssumption, Orderly, Inv, NEW l \in Loops, ApplyFails(l)
  PROVE  Inv'
<1> USE DEF Inv, TypeInv
<1>1. PICK id \in Items : id = run[l].id
  BY DEF ApplyFails, RunsOK
<1>2. /\ run'[l].pc = "save" /\ run'[l].id = id /\ run'[l].made = {}
      /\ run'[l].item.tasks = run[l].item.tasks /\ run'[l].item.source = run[l].item.source
      /\ run'[l].item.status = run[l].item.status
  <2> DEFINE next == [run[l].item EXCEPT !.tries = row[run[l].id].tries + 1]
  <2>1. run[l].made = {} /\ run[l] \in Runs
    BY Fields DEF ApplyFails, RunOK
  <2>2. CASE run' = [run EXCEPT ![l].pc = "save"]
    BY <1>1, <2>1, <2>2 DEF TypeOK, Runs
  <2>3. CASE LinksRetried(l) /\ run' = [run EXCEPT ![l].pc = "save",
                                                  ![l].item.tries = row[run[l].id].tries + 1]
    <3>1. /\ next.tasks = run[l].item.tasks /\ next.source = run[l].item.source
          /\ next.status = run[l].item.status
      BY <2>3, RetriedType
    <3>2. run'[l] = [run[l] EXCEPT !.pc = "save", !.item = next]
      BY <2>3 DEF TypeOK
    <3> HIDE DEF next
    <3>3. /\ run'[l].pc = "save" /\ run'[l].id = run[l].id /\ run'[l].made = run[l].made
          /\ run'[l].item = next
      BY <2>1, <3>2 DEF Runs
    <3> QED BY <1>1, <2>1, <3>1, <3>3
  <2> QED BY <2>2, <2>3 DEF ApplyFails
<1>3. /\ \A g \in Items : /\ Known(g)' = Known(g) /\ row'[g].tasks = row[g].tasks
                          /\ row'[g].status = "pending" =>
                               row[g].status = "pending" \/ row[g].tasks = {}
      /\ \/ row' = row
         \/ /\ row'[id].status = run[l].item.status /\ row'[id].source = run[l].item.source
            /\ Exists(id)
  <2>1. CASE row' = row
    BY <2>1 DEF Known, Exists
  <2>2. CASE LinksRetried(l) /\ SaveRetry(l)
    BY <1>1, <2>2, RetriedKnown DEF LinksRetried
  <2> QED BY <2>1, <2>2 DEF ApplyFails
<1>4. /\ UNCHANGED <<task, for, chores, cancelled, closed, booted, stray, missed>>
      /\ run[l].pc = "apply" /\ \A k \in Loops : k = l
  BY DEF ApplyFails, tasks, users, history, Orderly
<1>5. CancelOK'
  BY <1>1, <1>2, <1>3, <1>4 DEF CancelOK, Settling
<1>6. KnownOK'
  <2>1. Own(l) = {}
    BY <1>4 DEF Own
  <2>2. for \in [Tasks -> Items \cup {None}]
    BY DEF TypeOK
  <2> QED BY <1>3, <1>4, <2>1, <2>2 DEF KnownOK, Live
<1>7. HandsOpen'
  BY <1>2, <1>4 DEF HandsOpen
<1>8. DoneOK'
  BY <1>3, <1>4 DEF DoneOK
<1>9. RunOK(l)'
  BY <1>2 DEF RunOK
<1>10. CopyOK(l)'
  <2>1. /\ row[id].tasks = {} /\ (Exists(id) => run[l].item.source = row[id].source)
        /\ \/ row[id].status = "pending"
           \/ row[id].status = "resolved" /\ run[l].item.status = "resolved"
    BY <1>1, <1>4 DEF CopyOK, Deciding
  <2>2. run[l].item.status \in {"pending", "resolved"}
    BY <1>4 DEF RunsOK
  <2> QED BY <1>2, <1>3, <2>1, <2>2 DEF CopyOK, Exists
<1>11. TypeInv'
  BY ApplyFailsTypes
<1> QED BY <1>4, <1>5, <1>6, <1>7, <1>8, <1>9, <1>10, <1>11

LEMMA UseExistingKeeps ==
  ASSUME FeedbackAssumption, Orderly, Inv, NEW l \in Loops, run[l].pc = "apply", UseExisting(l)
  PROVE  Inv'
<1> USE DEF Inv, TypeInv
<1>1. /\ run'[l].pc = "save" /\ run'[l].made = {}
      /\ run'[l].item.tasks \subseteq run[l].item.tasks
  <2> DEFINE T == IF Exists(run[l].id) THEN row[run[l].id].tasks ELSE run[l].item.tasks
  <2>1. row[run[l].id].tasks = {}
    BY DEF CopyOK
  <2>2. T \subseteq run[l].item.tasks
    BY <2>1
  <2>3. run' = [run EXCEPT ![l].pc = "save", ![l].item.tasks = T]
    BY DEF UseExisting
  <2> HIDE DEF T
  <2>4. run'[l].item.tasks = T /\ run'[l].pc = "save" /\ run'[l].made = run[l].made
    BY <2>3 DEF TypeOK, Runs, Rows
  <2> QED BY <2>2, <2>4 DEF RunOK
<1>2. CancelOK'
  BY DEF UseExisting, Exists, Known, Settling, tables, tasks, users, TypeOK, CancelOK
<1>3. KnownOK'
  BY DEF UseExisting, Exists, Known, Orderly, tables, tasks, history, Runs, KnownOK, Own, Live,
         RunOK
<1>4. HandsOpen'
  BY <1>1 DEF HandsOpen, UseExisting, Orderly, tables, tasks
<1>5. DoneOK'
  BY DEF UseExisting, tables, tasks, users, history, DoneOK
<1>6. ASSUME NEW k \in Loops PROVE RunOK(k)'
  BY <1>1 DEF RunOK, Orderly
<1>7. ASSUME NEW k \in Loops PROVE CopyOK(k)'
  BY SMTT(40) DEF UseExisting, Orderly, tables, tasks, Deciding, TypeOK, CopyOK, RowsOK, RunsOK
<1>8. TypeInv'
  BY UseExistingTypes
<1> QED BY <1>2, <1>3, <1>4, <1>5, <1>6, <1>7, <1>8

LEMMA MergeIntoSimilarKeeps ==
  ASSUME FeedbackAssumption, Orderly, Inv, NEW l \in Loops, run[l].pc = "apply", MergeIntoSimilar(l)
  PROVE  Inv'
<1> USE DEF Inv, TypeInv
<1>1. CancelOK'
  BY DEF MergeIntoSimilar, Exists, Known, Settling, tables, tasks, users, TypeOK, CancelOK
<1>2. KnownOK'
  BY DEF MergeIntoSimilar, Exists, Known, Orderly, tables, tasks, history, Runs, KnownOK, Own,
         Live, RunOK
<1>3. HandsOpen'
  BY DEF MergeIntoSimilar, Linkable, tables, tasks, TypeOK, HandsOpen
<1>4. DoneOK'
  BY DEF MergeIntoSimilar, tables, tasks, users, history, DoneOK
<1>5. ASSUME NEW k \in Loops PROVE RunOK(k)'
  <2>1. run'[l].pc = "save" /\ run'[l].made = {} /\ k = l
    BY DEF MergeIntoSimilar, TypeOK, RunOK, Runs, Orderly
  <2> QED BY <2>1 DEF RunOK
<1>6. ASSUME NEW k \in Loops PROVE CopyOK(k)'
  BY DEF MergeIntoSimilar, Exists, Orderly, tables, Deciding, TypeOK, CopyOK, RunsOK
<1>7. TypeInv'
  BY MergeIntoSimilarTypes
<1> QED BY <1>1, <1>2, <1>3, <1>4, <1>5, <1>6, <1>7

LEMMA CreateTaskKeeps ==
  ASSUME FeedbackAssumption, Orderly, Inv, NEW l \in Loops, CreateTask(l)
  PROVE  Inv'
<1> USE DEF Inv, TypeInv
<1>1. CanMake(1) /\ \E t \in Free : Fresh(1) = {t}
  BY FreshOne DEF CreateTask
<1>2. CancelOK'
  BY <1>1, SMTT(40) DEF CreateTask, Make, Exists, Known, Settling, Free, users, TypeOK,
      Rows, CancelOK
<1>3. KnownOK'
  BY <1>1
  DEF CreateTask, Make, Exists, Known, Orderly, history, TypeOK, Runs, KnownOK, Own, Live, RunOK,
      CopyOK, CancelOK, RunsOK
<1>4. HandsOpen'
  BY <1>1 DEF CreateTask, Make, Free, TypeOK, Rows, Runs, HandsOpen
<1>5. DoneOK'
  BY <1>1 DEF CreateTask, Make, users, history, TypeOK, Rows, DoneOK
<1>6. ASSUME NEW k \in Loops PROVE RunOK(k)'
  BY <1>1, SMTT(40) DEF CreateTask, history, TypeOK, RunOK
<1>7. ASSUME NEW k \in Loops PROVE CopyOK(k)'
  BY <1>1 DEF CreateTask, Exists, Orderly, history, Deciding, TypeOK, CopyOK
<1>8. TypeInv'
  BY CreateTaskTypes
<1> QED BY <1>2, <1>3, <1>4, <1>5, <1>6, <1>7, <1>8

LEMMA CreateStandaloneKeeps ==
  ASSUME FeedbackAssumption, Orderly, Inv, NEW l \in Loops, CreateStandalone(l)
  PROVE  Inv'
<1> USE DEF Inv, TypeInv
<1>1. CanMake(1) /\ \E t \in Free : Fresh(1) = {t}
  BY FreshOne DEF CreateStandalone
<1>2. CancelOK'
  BY <1>1 DEF CreateStandalone, Make, Exists, Known, Settling, Free, users, TypeOK, Rows, CancelOK
<1>3. KnownOK'
  BY <1>1 DEF CreateStandalone, Make, Exists, Known, KnownOK, Own, Live
<1>4. HandsOpen'
  BY <1>1 DEF CreateStandalone, Make, TypeOK, Rows, Runs, HandsOpen
<1>5. DoneOK'
  BY <1>1 DEF CreateStandalone, Make, users, TypeOK, Rows, DoneOK
<1>6. ASSUME NEW k \in Loops PROVE RunOK(k)'
  BY <1>1 DEF CreateStandalone, RunOK
<1>7. ASSUME NEW k \in Loops PROVE CopyOK(k)'
  BY <1>1 DEF CreateStandalone, Exists, CopyOK
<1>8. TypeInv'
  BY CreateStandaloneTypes
<1> QED BY <1>2, <1>3, <1>4, <1>5, <1>6, <1>7, <1>8

LEMMA CreateFailsKeeps ==
  ASSUME FeedbackAssumption, Orderly, Inv, NEW l \in Loops, CreateFails(l)
  PROVE  Inv'
<1> USE DEF Inv, TypeInv
<1>1. CancelOK'
  BY DEF CreateFails, Exists, Known, Settling, tables, tasks, users, CancelOK
<1>2. KnownOK'
  BY DEF CreateFails, Exists, Known, tables, tasks, history, Runs, KnownOK, Own, Live
<1>3. HandsOpen'
  BY DEF CreateFails, tables, tasks, HandsOpen
<1>4. DoneOK'
  BY DEF CreateFails, tables, tasks, users, history, DoneOK
<1>5. ASSUME NEW k \in Loops PROVE RunOK(k)'
  BY DEF CreateFails, history, RunOK
<1>6. ASSUME NEW k \in Loops PROVE CopyOK(k)'
  BY DEF CreateFails, Exists, tables, history, CopyOK
<1>7. TypeInv'
  BY CreateFailsTypes
<1> QED BY <1>1, <1>2, <1>3, <1>4, <1>5, <1>6, <1>7

LEMMA TasksCreatedKeeps ==
  ASSUME FeedbackAssumption, Orderly, Inv, NEW l \in Loops, TasksCreated(l)
  PROVE  Inv'
<1> USE DEF Inv, TypeInv
<1>1. CancelOK'
  BY DEF TasksCreated, Exists, Known, Settling, tables, tasks, users, TypeOK, CancelOK
<1>2. KnownOK'
  <2>1. /\ run'[l].pc = "save" /\ run'[l].made = run[l].made /\ run'[l].id = run[l].id
        /\ run'[l].item.source = run[l].item.source /\ run'[l].item.tasks = run[l].made
        /\ run[l].pc = "create"
    BY DEF TasksCreated, TypeOK, Runs, Rows
  <2>2. UNCHANGED <<row, task, for, stray>> /\ \A k \in Loops : k = l
    BY DEF TasksCreated, tables, tasks, history, Orderly
  <2>3. \A t \in Own(l) : t \in Own(l)' \/ t \in stray
    BY <2>1 DEF Own, RunOK
  <2>4. \A g \in Items : Known(g)' = Known(g)
    BY <2>2 DEF Known, Exists
  <2>5. for \in [Tasks -> Items \cup {None}]
    BY DEF TypeOK
  <2> QED BY <2>1, <2>2, <2>3, <2>4, <2>5 DEF KnownOK, Live
<1>3. HandsOpen'
  BY DEF TasksCreated, tables, tasks, TypeOK, HandsOpen
<1>4. DoneOK'
  BY DEF TasksCreated, tables, tasks, users, history, DoneOK
<1>5. ASSUME NEW k \in Loops PROVE RunOK(k)'
  BY DEF TasksCreated, history, TypeOK, RunOK
<1>6. ASSUME NEW k \in Loops PROVE CopyOK(k)'
  BY DEF TasksCreated, Exists, tables, history, Deciding, TypeOK, CopyOK, RunsOK
<1>7. TypeInv'
  BY TasksCreatedTypes
<1> QED BY <1>1, <1>2, <1>3, <1>4, <1>5, <1>6, <1>7

LEMMA SaveFeedbackKeeps ==
  ASSUME FeedbackAssumption, Orderly, Inv, NEW l \in Loops, SaveFeedback(l)
  PROVE  Inv'
<1> USE DEF Inv, TypeInv
<1>1. PICK id \in Items : id = run[l].id
  BY DEF SaveFeedback, RunsOK
<1>2. run' = [run EXCEPT ![l] = Idle] /\ UNCHANGED <<task, for, stray>>
  BY DEF SaveFeedback, tasks
<1>3. /\ \A g \in Items : Known(g) \ stray \subseteq Known(g)'
      /\ Own(l) \ {None} \subseteq Known(id)'
  <2>1. row[id].status \in {"pending", "resolved"} /\ row[id].tasks = {}
    BY <1>1 DEF SaveFeedback, CopyOK, Deciding
  <2>2. run[l].item.source = row[id].source \/ row[id].source \in stray \cup {None}
    BY <1>1, <2>1 DEF SaveFeedback, CopyOK, Exists
  <2>3. /\ row'[id].status = "pending" /\ row'[id].source = run[l].item.source
        /\ row'[id].tasks = run[l].item.tasks
        /\ \A g \in Items : g # id => row'[g] = row[g]
    BY <1>1, <1>2, <2>1, Fields DEF SaveFeedback, SaveRow, TypeOK, Rows, Exists
  <2>4. run[l].made \subseteq run[l].item.tasks
    BY <1>1 DEF SaveFeedback, RunOK
  <2>5. Known(id) \ stray \subseteq Known(id)'
    BY <1>1, <2>1, <2>2, <2>3 DEF Known, Exists
  <2>6. Own(l) \ {None} \subseteq Known(id)'
    BY <1>1, <2>3, <2>4 DEF Known, Exists, Own, SaveFeedback
  <2>7. \A g \in Items : g # id => Known(g)' = Known(g)
    BY <1>1, <2>3 DEF Known, Exists
  <2> QED BY <1>1, <2>5, <2>6, <2>7
<1>4. CancelOK'
  BY DEF SaveFeedback, SaveRow, Exists, Known, Settling, Idle, tasks, users, CancelOK
<1>5. KnownOK'
  <2>1. \A k \in Loops : k = l
    BY DEF Orderly
  <2>2. for \in [Tasks -> Items \cup {None}]
    BY DEF TypeOK
  <2> QED BY <1>1, <1>2, <1>3, <2>1, <2>2 DEF KnownOK, Live, FeedbackAssumption
<1>6. HandsOpen'
  BY DEF SaveFeedback, NoRow, Idle, tasks, HandsOpen
<1>7. DoneOK'
  BY DEF SaveFeedback, SaveRow, tasks, users, DoneOK, HandsOpen
<1>8. ASSUME NEW k \in Loops PROVE RunOK(k)'
  BY DEF SaveFeedback, NoRow, Idle, RunOK
<1>9. ASSUME NEW k \in Loops PROVE CopyOK(k)'
  BY DEF SaveFeedback, Idle, Orderly, TypeOK, CopyOK
<1>10. TypeInv'
  BY SaveFeedbackTypes
<1> QED BY <1>4, <1>5, <1>6, <1>7, <1>8, <1>9, <1>10

LEMMA RunFailsKeeps ==
  ASSUME FeedbackAssumption, Orderly, Inv, NEW l \in Loops, RunFails(l)
  PROVE  Inv'
<1>1. TypeInv'
  BY RunFailsTypes DEF Inv
<1>2. /\ UNCHANGED <<row, tasks, users, missed>> /\ run' = [run EXCEPT ![l] = Idle]
      /\ stray' = stray \cup Forgotten(l)
  BY DEF RunFails
<1>3. Own(l) \ {None} \subseteq InHand(l)
  BY DEF Own, InHand
<1>4. \A t \in Own(l) \ {None} : for[t] = run[l].id => t \in Known(run[l].id) \cup stray'
  BY <1>2, <1>3 DEF Forgotten
<1> QED BY <1>1, <1>2, <1>4, GivenUp

LEMMA CrashKeeps ==
  ASSUME FeedbackAssumption, Orderly, Inv, Crash
  PROVE  Inv'
<1> USE DEF Inv, TypeInv
<1>1. /\ \A g \in Items : /\ row'[g].tasks = row[g].tasks /\ row'[g].source = row[g].source
                          /\ row[g].status # "none" => row'[g] = row[g]
      /\ UNCHANGED <<task, for>>
  <2>1. CASE UNCHANGED row
    BY <2>1 DEF Crash, tasks
  <2>2. CASE \E f \in Items : Submittable(f) /\ row' = [row EXCEPT ![f].status = "pending"]
    BY <2>2 DEF Submittable, TypeOK, Rows, Crash, tasks
  <2> QED BY <2>1, <2>2 DEF Crash
<1>2. CancelOK'
  BY DEF Crash, Settling, Idle, CancelOK
<1>3. KnownOK'
  <2>1. \A g \in Items : Known(g) \subseteq Known(g)'
    BY <1>1 DEF Known, Exists
  <2>2. for \in [Tasks -> Items \cup {None}]
    BY DEF TypeOK
  <2>3. \A l \in Loops : Own(l) \ {None} \subseteq InHand(l)
    BY DEF Own, InHand
  <2>4. ASSUME NEW t \in Live', t \notin stray', for[t] # None
        PROVE  t \in Known(for[t])
    <3>1. t \in Live /\ t \in Tasks /\ t \notin stray /\ t # None
      BY <1>1, <2>4 DEF Live, Crash, FeedbackAssumption
    <3>2. \A l \in Loops : t \in InHand(l) => t \in Known(for[t])
      BY <2>4 DEF Crash
    <3> QED BY <2>3, <2>4, <3>1, <3>2 DEF KnownOK
  <2> QED BY <1>1, <2>1, <2>2, <2>4 DEF KnownOK, Live
<1>4. HandsOpen'
  BY DEF Crash, NoRow, Idle, HandsOpen
<1>5. DoneOK'
  <2> SUFFICES ASSUME AutoResolve,
                      NEW g \in Items, row'[g].status = "pending", NEW s \in row[g].tasks
               PROVE  \E t \in row[g].tasks : task[t] # "closed" \/ t \in missed'
    BY <1>1 DEF DoneOK
  <2>1. row[g].status = "pending"
    BY <1>1 DEF RowsOK, Exists
  <2>2. PICK t \in row[g].tasks : task[t] # "closed" \/ t \in closed \/ t \in missed
    BY <2>1 DEF DoneOK
  <2> QED BY <2>2 DEF Crash, Concerned
<1>6. ASSUME NEW k \in Loops PROVE RunOK(k)'
  BY DEF Crash, NoRow, Idle, RunOK
<1>7. ASSUME NEW k \in Loops PROVE CopyOK(k)'
  BY DEF Crash, Idle, CopyOK
<1>8. TypeInv'
  BY CrashTypes
<1> QED BY <1>2, <1>3, <1>4, <1>5, <1>6, <1>7, <1>8

LEMMA RetryPendingCategorizationsKeeps ==
  ASSUME FeedbackAssumption, Orderly, Inv, RetryPendingCategorizations
  PROVE  Inv'
<1> USE DEF Inv, TypeInv
<1>1. CancelOK'
  BY DEF RetryPendingCategorizations, Exists, Known, Settling, tasks, CancelOK
<1>2. KnownOK'
  BY DEF RetryPendingCategorizations, Exists, Known, tasks, KnownOK, Own, Live
<1>3. HandsOpen'
  BY DEF RetryPendingCategorizations, tasks, HandsOpen
<1>4. DoneOK'
  BY DEF RetryPendingCategorizations, tasks, DoneOK
<1>5. ASSUME NEW k \in Loops PROVE RunOK(k)'
  BY DEF RetryPendingCategorizations, RunOK
<1>6. ASSUME NEW k \in Loops PROVE CopyOK(k)'
  BY DEF RetryPendingCategorizations, Exists, CopyOK, RunsOK
<1>7. TypeInv'
  BY RetryPendingCategorizationsTypes
<1> QED BY <1>1, <1>2, <1>3, <1>4, <1>5, <1>6, <1>7

LEMMA MakeSourceKeeps ==
  ASSUME FeedbackAssumption, Orderly, Inv, TypeInv', NEW l \in Loops, run[l].pc = "apply",
         CanMake(1), NEW next \in Runs, next.id = run[l].id, next.pc \in {"create", "save"},
         next.made = {}, next.item.status = run[l].item.status,
         \A t \in next.item.tasks : task[t] # "closed",
         next.pc = "create" => next.item.tasks \subseteq stray,
         MakeSource(l, next), UNCHANGED <<row, inbox, users, upsets, declined, missed>>
  PROVE  Inv'
<1> USE DEF Inv, TypeInv
<1>1. PICK s \in Free : Fresh(1) = {s}
  BY FreshOne
<1>2. PICK id \in Items : id = run[l].id
  BY DEF RunsOK
<1>3. /\ run'[l].id = id /\ run'[l].pc = next.pc /\ run'[l].made = {}
      /\ run'[l].item.tasks = next.item.tasks /\ run'[l].item.source = s
      /\ run'[l].item.status = run[l].item.status
  <2> DEFINE item == [next.item EXCEPT !.source = s]
  <2>1. (CHOOSE t \in Fresh(1) : TRUE) = s
    BY <1>1
  <2>2. run' = [run EXCEPT ![l] = [next EXCEPT !.item.source = s]]
    BY <2>1 DEF MakeSource
  <2>3. run'[l] = [next EXCEPT !.item = item]
    BY <2>2 DEF TypeOK
  <2>4. next.item \in Rows
    BY DEF Runs
  <2>5. item.tasks = next.item.tasks /\ item.source = s /\ item.status = next.item.status
    BY <2>4 DEF Rows
  <2> HIDE DEF item
  <2>6. /\ run'[l].id = next.id /\ run'[l].pc = next.pc /\ run'[l].made = next.made
        /\ run'[l].item = item
    BY <2>3 DEF Runs
  <2> QED BY <1>2, <2>5, <2>6
<1>4. /\ s \in Tasks /\ task[s] = "free"
      /\ task' = [t \in Tasks |-> IF t = s THEN "open" ELSE task[t]]
      /\ for' = [t \in Tasks |-> IF t = s THEN id ELSE for[t]]
      /\ stray' = stray \cup ({run[l].item.source} \ {None})
  BY <1>1, <1>2 DEF MakeSource, Make, Free
<1>5. /\ row[id].tasks = {} /\ run[l].item.source = row[id].source
      /\ \/ row[id].status = "pending"
         \/ row[id].status = "resolved" /\ run[l].item.status = "resolved"
  BY <1>2 DEF CopyOK, Deciding, Exists
<1>6. CancelOK'
  <2>1. cancelled' = cancelled /\ \A g \in Items : Known(g)' = Known(g)
    BY DEF Known, Exists, users
  <2>2. \A g \in Items : cancelled[g] # None =>
          \A t \in Known(g) : t \in cancelled[g] \/ task'[t] = "deleted"
    <3>1. \A g \in Items : Known(g) \subseteq Tasks
      BY Fields DEF Known
    <3> QED BY <1>4, <3>1 DEF CancelOK
  <2>3. Settling(l) /\ \A k \in Loops : k = l
    BY DEF Settling, Orderly
  <2> QED BY <1>2, <1>3, <2>1, <2>2, <2>3 DEF CancelOK
<1>7. KnownOK'
  <2>1. Own(l) = {} /\ s \in Own(l)'
    BY <1>3 DEF Own
  <2>2. \A g \in Items : Known(g)' = Known(g)
    BY DEF Known, Exists
  <2>3. for \in [Tasks -> Items \cup {None}]
    BY DEF TypeOK
  <2>4. \A k \in Loops : k = l
    BY DEF Orderly
  <2> QED BY <1>3, <1>4, <2>1, <2>2, <2>3, <2>4 DEF KnownOK, Live
<1>8. HandsOpen'
  <2>1. \A k \in Loops : k = l
    BY DEF Orderly
  <2>2. next.item.tasks \subseteq Tasks
    BY DEF Runs, Rows
  <2> QED BY <1>3, <1>4, <2>1, <2>2 DEF HandsOpen
<1>9. DoneOK'
  <2>1. closed' = closed /\ missed' = missed /\ row' = row
    BY DEF users
  <2>2. \A f \in Items : row[f].tasks \subseteq Tasks
    BY Fields
  <2> QED BY <1>4, <2>1, <2>2 DEF DoneOK
<1>10. RunOK(l)' /\ CopyOK(l)'
  BY <1>2, <1>3, <1>4, <1>5 DEF RunOK, CopyOK, Exists, Deciding
<1> QED BY <1>6, <1>7, <1>8, <1>9, <1>10 DEF Orderly

\* Without a source.

LEMMA AdvanceKeeps ==
  ASSUME FeedbackAssumption, Orderly, Inv, TypeInv', NEW l \in Loops, run[l].pc = "apply",
         run'[l].pc \in {"create", "save"}, run'[l].id = run[l].id, run'[l].item = run[l].item,
         run'[l].made = run[l].made,
         UNCHANGED <<tables, users, stray, declined, missed>>
  PROVE  Inv'
<1> USE DEF Inv, TypeInv
<1>1. PICK id \in Items : id = run[l].id
  BY DEF RunsOK
<1>2. CancelOK'
  BY <1>1 DEF CancelOK, Settling, Known, Exists, Orderly, tables, tasks, users
<1>3. KnownOK'
  <2>1. Own(l) = {}
    BY DEF Own
  <2>2. \A g \in Items : Known(g)' = Known(g)
    BY DEF Known, Exists, tables
  <2>3. for \in [Tasks -> Items \cup {None}]
    BY DEF TypeOK
  <2> QED BY <2>1, <2>2, <2>3 DEF KnownOK, Live, tables, tasks, Orderly
<1>4. HandsOpen'
  BY DEF HandsOpen, Orderly, tables, tasks
<1>5. DoneOK'
  BY DEF DoneOK, users, tables, tasks
<1>6. RunOK(l)' /\ CopyOK(l)'
  BY <1>1 DEF RunOK, CopyOK, Exists, Deciding, tables
<1> QED BY <1>2, <1>3, <1>4, <1>5, <1>6 DEF Orderly

LEMMA LinkTasksKeeps ==
  ASSUME FeedbackAssumption, Orderly, Inv, NEW l \in Loops, run[l].pc = "apply", LinkTasks(l)
  PROVE  Inv'
<1> USE DEF Inv, TypeInv
<1>1. TypeInv'
  BY LinkTasksTypes
<1>2. ASSUME CanMake(1), NEW linked \in {run[l].links, {}},
             MakeSource(l, [run[l] EXCEPT !.pc = "save", !.item.tasks = linked])
      PROVE  Inv'
  <2> DEFINE next == [run[l] EXCEPT !.pc = "save", !.item.tasks = linked]
  <2>0. run[l].links \in SUBSET Tasks /\ {} \in SUBSET Tasks
    BY Fields
  <2>1. linked \in SUBSET Tasks
    BY <2>0, ZenonT(60)
  <2>2. next \in Runs
    BY <2>1, TasksType DEF Pcs
  <2>3. next.id = run[l].id /\ next.pc = "save"
        /\ next.made = run[l].made /\ next.item.tasks = linked
        /\ next.item.status = run[l].item.status
    BY Fields DEF Runs, Rows
  <2>4. \A t \in linked : task[t] # "closed"
    BY <1>2 DEF LinkTasks, InvalidLinks, Linkable
  <2> HIDE DEF next
  <2>5. MakeSource(l, next)
    BY <1>2 DEF next
  <2>6. next.made = {}
    BY <2>3 DEF RunOK
  <2> QED BY <1>1, <1>2, <2>2, <2>3, <2>4, <2>5, <2>6, MakeSourceKeeps DEF LinkTasks
<1>3. CASE run' = [run EXCEPT ![l].pc = "save"] /\ UNCHANGED <<tasks, stray>>
  <2>1. /\ run'[l].pc = "save" /\ run'[l].id = run[l].id /\ run'[l].item = run[l].item
        /\ run'[l].made = run[l].made
    BY <1>3 DEF TypeOK, Runs
  <2> QED BY <1>1, <1>3, <2>1, AdvanceKeeps DEF LinkTasks, tables
<1> QED BY <1>2, <1>3 DEF LinkTasks

LEMMA StartTasksKeeps ==
  ASSUME FeedbackAssumption, Orderly, Inv, NEW l \in Loops, run[l].pc = "apply", StartTasks(l)
  PROVE  Inv'
<1> USE DEF Inv, TypeInv
<1>1. TypeInv'
  BY StartTasksTypes
<1>2. PICK n \in 1..MaxProposed :
        \/ CanMake(1) /\ MakeSource(l, [run[l] EXCEPT !.pc = "create", !.left = n])
        \/ /\ run' = [run EXCEPT ![l] = [run[l] EXCEPT !.pc = "create", !.left = n]]
           /\ UNCHANGED <<tasks, stray>>
  BY Zenon DEF StartTasks
<1> DEFINE next == [run[l] EXCEPT !.pc = "create", !.left = n]
<1>3. next \in Runs
  <2>1. n \in 0..MaxProposed
    BY DEF FeedbackAssumption
  <2>2. "create" \in Pcs
    BY DEF Pcs
  <2> QED BY <2>1, <2>2, StepTypes
<1>4. /\ next.id = run[l].id /\ next.pc = "create" /\ next.item = run[l].item
      /\ next.made = run[l].made
  BY Fields DEF Runs
<1>5. run[l].made = {} /\ run[l].item.tasks \subseteq stray
  BY DEF RunOK
<1>6. \A t \in run[l].item.tasks : task[t] # "closed"
  BY DEF HandsOpen
<1> HIDE DEF next
<1>7. CASE CanMake(1) /\ MakeSource(l, next)
  BY <1>1, <1>3, <1>4, <1>5, <1>6, <1>7, MakeSourceKeeps DEF StartTasks
<1>8. CASE run' = [run EXCEPT ![l] = next] /\ UNCHANGED <<tasks, stray>>
  <2>1. run'[l] = next
    BY <1>8 DEF TypeOK
  <2> QED BY <1>1, <1>4, <1>8, <2>1, AdvanceKeeps DEF StartTasks, tables
<1> QED BY <1>2, <1>7, <1>8 DEF next

LEMMA Step ==
  ASSUME FeedbackAssumption, Orderly, Inv, [Next]_vars
  PROVE  Inv'
<1>1. CASE User
  BY <1>1, SubmitFeedbackKeeps, RecategorizeFeedbackKeeps, ResolveFeedbackKeeps,
     CancelFeedbackKeeps, CloseTaskKeeps DEF User
<1>2. CASE Service
  BY <1>2, DeleteTasksKeeps, DeleteFeedbackKeeps, CheckAutoResolveOnTaskDoneKeeps,
     CancelFailsKeeps, CheckFailsKeeps, RetryPendingCategorizationsKeeps DEF Service
<1>3. ASSUME NEW l \in Loops, Loop(l)
      PROVE  Inv'
  <2>1. CASE ClaimNextPendingFeedbackId(l) \/ LoadFeedback(l)
    BY <2>1, ClaimNextPendingFeedbackIdKeeps, LoadFeedbackKeeps
  <2>2. CASE Proposal(l)
    BY <2>2, ProposeKeeps DEF Proposal
  <2>3. CASE AskBack(l) \/ RejectScopeChange(l) \/ \E n \in 1..MaxProposed : GeneratePlan(l, n)
    BY <2>3, AskBackKeeps, RejectScopeChangeKeeps, GeneratePlanKeeps
  <2>4. CASE Planned(l)
    BY <2>4, SavePlanKeeps, PlanFailsKeeps DEF Planned
  <2>5. CASE Recheck(l) \/ RetryLinks(l)
    BY <2>5, RecheckKeeps, RetryLinksKeeps
  <2>6. CASE ApplyCategorizationResult(l)
    BY <2>6, UseExistingKeeps, LinkTasksKeeps, MergeIntoSimilarKeeps, StartTasksKeeps
    DEF ApplyCategorizationResult
  <2>7. CASE CreateTask(l) \/ CreateStandalone(l) \/ CreateFails(l) \/ TasksCreated(l)
    BY <2>7, CreateTaskKeeps, CreateStandaloneKeeps, CreateFailsKeeps, TasksCreatedKeeps
  <2>8. CASE SaveFeedback(l)
    BY <2>8, SaveFeedbackKeeps
  <2>9. CASE LoadFails(l) \/ ApplyFails(l) \/ RunFails(l)
    BY <2>9, LoadFailsKeeps, ApplyFailsKeeps, RunFailsKeeps
  <2> QED BY <1>3, <2>1, <2>2, <2>3, <2>4, <2>5, <2>6, <2>7, <2>8, <2>9 DEF Loop, Analyst, Apply
<1>4. CASE Crash
  BY <1>4, CrashKeeps
<1>5. CASE UNCHANGED vars
  <2> USE <1>5 DEF vars, tables, tasks, users, history, Inv
  <2>1. TypeInv'
    BY TypeStep
  <2>2. CancelOK' /\ HandsOpen' /\ DoneOK'
    BY DEF CancelOK, HandsOpen, DoneOK, Known, Exists, Settling
  <2>3. KnownOK'
    BY DEF KnownOK, Known, Own, Exists, Live
  <2>4. \A l \in Loops : RunOK(l)' /\ CopyOK(l)'
    BY DEF RunOK, CopyOK, Exists
  <2> QED BY <2>1, <2>2, <2>3, <2>4
<1> QED BY <1>1, <1>2, <1>3, <1>4, <1>5 DEF Next

(* The inductive invariant: what a run knows agrees with the tables.         *)
THEOREM Invariance ==
  ASSUME Orderly
  PROVE  Spec => []Inv
<1>1. Init => Inv
  <2> SUFFICES ASSUME Init
               PROVE  Inv
    OBVIOUS
  <2>1. TypeInv
    BY TypeInit, FeedbackAssumption
  <2>2. CancelOK /\ HandsOpen /\ DoneOK
    BY DEF Init, CancelOK, HandsOpen, DoneOK, Settling, Idle, NoRow
  <2>3. KnownOK
    BY DEF Init, KnownOK, Live
  <2>4. \A l \in Loops : RunOK(l) /\ CopyOK(l)
    BY DEF Init, RunOK, CopyOK, Idle, NoRow
  <2> QED BY <2>1, <2>2, <2>3, <2>4 DEF Inv
<1>2. Inv /\ [Next]_vars => Inv'
  BY Step, FeedbackAssumption
<1> QED BY <1>1, <1>2, PTL DEF Spec

(* TasksAreKnown: what is made for a feedback is among its tasks or in the   *)
(* hands of the run that works on it, as long as it lives.                   *)
THEOREM TasksKnown ==
  ASSUME Orderly
  PROVE  Spec => []TasksAreKnown
<1>1. Inv => TasksAreKnown
  <2> SUFFICES ASSUME Inv, NEW t \in Live \ stray, for[t] # None
               PROVE  \/ t \in Known(for[t])
                      \/ \E l \in Loops : run[l].id = for[t] /\ t \in InHand(l)
    BY DEF TasksAreKnown
  <2>1. t # None
    BY FeedbackAssumption DEF Live, FeedbackAssumption
  <2> QED BY <2>1 DEF Inv, KnownOK, Own, InHand
<1> QED BY <1>1, Invariance, PTL

(* DoneIsResolved: where the setting asks for it, no feedback is left        *)
(* pending with all its tasks closed and no check to come, unless a crash or *)
(* an error took the check.                                                  *)
THEOREM DoneResolved ==
  ASSUME Orderly
  PROVE  Spec => []DoneIsResolved
<1>1. Inv => DoneIsResolved
  BY DEF Inv, DoneOK, DoneIsResolved, AllClosed
<1> QED BY <1>1, Invariance, PTL

\* What a step but those of the exceptions does to a resolved feedback.
LEMMA ResolvedKept ==
  ASSUME FeedbackAssumption, Orderly, Inv, Next, NEW f \in Items,
         row[f].status = "resolved", row'[f].status = "pending"
  PROVE  \/ RecategorizeFeedback(f)
         \/ \E l \in Loops : /\ run[l].id = f
                           /\ \/ SavePlan(l) \/ RejectScopeChange(l)
                              \/ run[l].item.status = "resolved"
<1> USE DEF Inv, TypeInv
<1>1. CASE User
  <2>1. ASSUME NEW g \in Items, SubmitFeedback(g)
        PROVE  FALSE
    BY <2>1 DEF SubmitFeedback, Submittable, TypeOK, Rows
  <2>2. ASSUME NEW g \in Items, RecategorizeFeedback(g)
        PROVE  g = f
    BY <2>2 DEF RecategorizeFeedback, TypeOK, Rows
  <2>3. ASSUME NEW g \in Items, ResolveFeedback(g)
        PROVE  FALSE
    <3>1. row'[f].status \in {"resolved", row[f].status}
      BY <2>3, ResolvedRow DEF ResolveFeedback
    <3> QED BY <3>1
  <2>4. ASSUME NEW g \in Items, CancelFeedback(g)
        PROVE  FALSE
    BY <2>4 DEF CancelFeedback, tables
  <2>5. ASSUME NEW t \in Tasks, CloseTask(t)
        PROVE  FALSE
    BY <2>5 DEF CloseTask
  <2> QED BY <1>1, <2>1, <2>2, <2>3, <2>4, <2>5 DEF User
<1>2. CASE Service
  <2>1. ASSUME NEW g \in Items, DeleteTasks(g)
        PROVE  FALSE
    BY <2>1 DEF DeleteTasks
  <2>2. ASSUME NEW g \in Items, DeleteFeedback(g)
        PROVE  FALSE
    BY <2>2 DEF DeleteFeedback, TypeOK, NoRow
  <2>3. ASSUME NEW t \in Tasks, CheckAutoResolveOnTaskDone(t)
        PROVE  FALSE
    <3>1. row'[f].status \in {"resolved", row[f].status}
      BY <2>3, ResolvedRow DEF CheckAutoResolveOnTaskDone
    <3> QED BY <3>1
  <2>4. ASSUME NEW t \in Tasks, CheckFails(t)
        PROVE  FALSE
    <3>1. row'[f].status \in {"resolved", row[f].status}
      BY <2>4, ResolvedRow DEF CheckFails
    <3> QED BY <3>1
  <2>5. ASSUME NEW g \in Items, CancelFails(g)
        PROVE  FALSE
    BY <2>5 DEF CancelFails, tables
  <2> QED BY <1>2, <2>1, <2>2, <2>3, <2>4, <2>5 DEF Service, RetryPendingCategorizations
<1>3. ASSUME NEW l \in Loops, Loop(l)
      PROVE  /\ run[l].id = f
             /\ \/ SavePlan(l) \/ RejectScopeChange(l)
                \/ run[l].item.status = "resolved"
  <2>1. CASE SavePlan(l) \/ RejectScopeChange(l)
    BY <2>1 DEF SavePlan, RejectScopeChange, SaveRow, TypeOK
  <2>2. CASE (LinksRetried(l) /\ SaveRetry(l)) \/ SaveFeedback(l)
    <3>1. \/ row[run[l].id].status = "pending"
          \/ run[l].item.status = "resolved"
      BY <2>2 DEF LinksRetried, SaveFeedback, CopyOK, Deciding
    <3>2. run[l].id # f => row'[f] = row[f]
      BY <2>2 DEF SaveRetry, SaveFeedback, SaveRow, TypeOK
    <3> QED BY <3>1, <3>2
  <2>3. CASE row' = row
    BY <2>3
  <2>4. \/ SavePlan(l) \/ RejectScopeChange(l) \/ SaveFeedback(l)
        \/ LinksRetried(l) /\ SaveRetry(l)
        \/ row' = row
    <3>1. CASE ClaimNextPendingFeedbackId(l) \/ LoadFeedback(l) \/ Planned(l)
      BY <3>1 DEF ClaimNextPendingFeedbackId, LoadFeedback, Planned, PlanFails, tables
    <3>2. CASE Analyst(l)
      BY <3>2, ZenonT(60) DEF Analyst, AskBack, Proposal, Propose, GeneratePlan, tables
    <3>3. CASE ApplyCategorizationResult(l)
      BY <3>3 DEF ApplyCategorizationResult, UseExisting, LinkTasks, MergeIntoSimilar,
                  StartTasks, tables
    <3>4. CASE Recheck(l) \/ CreateTask(l) \/ CreateStandalone(l) \/ CreateFails(l)
               \/ TasksCreated(l)
      BY <3>4 DEF Recheck, CreateTask, CreateStandalone, CreateFails, TasksCreated, tables
    <3>5. CASE LoadFails(l) \/ ApplyFails(l) \/ RunFails(l) \/ RetryLinks(l)
      BY <3>5 DEF LoadFails, ApplyFails, RunFails, RetryLinks, tables
    <3> QED BY <1>3, <3>1, <3>2, <3>3, <3>4, <3>5 DEF Loop, Apply
  <2> QED BY <2>1, <2>2, <2>3, <2>4
<1>4. CASE Crash
  <2>1. CASE UNCHANGED row
    BY <2>1
  <2>2. CASE \E g \in Items : Submittable(g) /\ row' = [row EXCEPT ![g].status = "pending"]
    BY <2>2 DEF Submittable, TypeOK, Rows
  <2> QED BY <1>4, <2>1, <2>2 DEF Crash
<1> QED BY <1>1, <1>2, <1>3, <1>4 DEF Next

(* ResolvedStaysResolved: nothing that a run saves late takes a feedback out *)
(* of its resolved state, but a plan, a rejected scope change and a run that *)
(* took the feedback up resolved.                                            *)
THEOREM ResolvedStays ==
  ASSUME Orderly
  PROVE  Spec => ResolvedStaysResolved
<1> DEFINE Kept == \A f \in Items : row[f].status = "resolved" /\ row'[f].status = "pending" =>
                     \/ RecategorizeFeedback(f)
                     \/ \E l \in Loops : /\ run[l].id = f
                                         /\ \/ SavePlan(l) \/ RejectScopeChange(l)
                                            \/ run[l].item.status = "resolved"
<1>1. Inv /\ [Next]_vars => [Kept]_vars
  <2> SUFFICES ASSUME Inv, Next
               PROVE  Kept
    OBVIOUS
  <2> QED BY ResolvedKept, FeedbackAssumption
<1>2. Spec => [][Kept]_vars
  BY <1>1, Invariance, PTL DEF Spec
<1> QED BY <1>2 DEF ResolvedStaysResolved

=============================================================================
