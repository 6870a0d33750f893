------------------------------ MODULE SlotPool ------------------------------
(* What the orchestrator's slots promise, whatever it does to fill them: a   *)
(* bounded pool in which a task holds at most one slot, no two slots share a *)
(* worktree, and a slot is given up before it is given to another holder.    *)
EXTENDS Integers, FiniteSets

CONSTANTS Tasks, Holders, Free, MaxSlots, WorktreeKey

VARIABLE pool  \* the holder of each task's slot, or Free

occupied(p) == {t \in Tasks : p[t] # Free}

Init == pool = [t \in Tasks |-> Free]

Acquire(t, h) ==
  /\ pool[t] = Free
  /\ Cardinality(occupied(pool)) < MaxSlots
  /\ \A u \in occupied(pool) : WorktreeKey[u] # WorktreeKey[t]
  /\ pool' = [pool EXCEPT ![t] = h]

Release(t) ==
  /\ pool[t] # Free
  /\ pool' = [pool EXCEPT ![t] = Free]

Next == \E t \in Tasks : Release(t) \/ \E h \in Holders : Acquire(t, h)

Spec == Init /\ [][Next]_pool
=============================================================================
