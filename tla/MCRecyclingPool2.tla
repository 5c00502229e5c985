-------------------------- MODULE MCRecyclingPool2 --------------------------
(* Small instances of RecyclingPool2 for TLC. *)
EXTENDS RecyclingPool2, TLC

CONSTANTS p1, p2, t1, t2, t3

(* No done-callbacks, or t1's callback submits t3. *)
NoCallbacks == [t \in Tasks |-> NoTask]
OneCallback == [t \in Tasks |-> IF t = t1 THEN t3 ELSE NoTask]

TaskSymmetry == Permutations(Tasks)
=============================================================================
