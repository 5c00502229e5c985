---------------------------- MODULE PrefixCounter ----------------------------
(***************************************************************************)
(* util/prefix_counter.py: a tree that counts tuples by prefix, with a     *)
(* sample of last elements at each node.  A node is named by its prefix;   *)
(* a node that add() has not made has count 0.  add() may be given any     *)
(* tuple; one with an element that cannot be hashed raises half way, after *)
(* the nodes above have counted it.                                        *)
(***************************************************************************)
EXTENDS Naturals, Sequences, FiniteSets, FiniteSetsExt, SequencesExt

CONSTANTS
    Tuples,         \* the tuples that may be added
    Unhashable,     \* elements that raise when they are used as a key
    Capacity,       \* size of a reservoir (10)
    MaxAdds         \* bound: calls of add

VARIABLES
    count,          \* count[p]: count of the node of prefix p
    samples,        \* samples[p]: its leaf_samples
    added           \* history: the tuples given to add, those that raised too

counterVars == <<count, samples, added>>

Nodes == UNION {{SubSeq(t, 1, k) : k \in 0 .. Len(t)} : t \in Tuples}

TypeOK ==
    /\ count \in [Nodes -> 0 .. MaxAdds]
    /\ \A p \in Nodes : Len(samples[p]) <= Capacity
    /\ Len(added) <= MaxAdds

Init ==
    /\ count = [p \in Nodes |-> 0]
    /\ samples = [p \in Nodes |-> <<>>]
    /\ added = <<>>

(* How far down a tuple gets: every element but the last is a key. *)
Depth(t) ==
    LET bad == {k \in 1 .. Len(t) - 1 : t[k] \in Unhashable}
    IN  IF t = <<>> THEN 0 ELSE IF bad = {} THEN Len(t) - 1 ELSE Min(bad) - 1

(* The nodes that count the tuple, and the one where it stops. *)
Path(t) == {SubSeq(t, 1, k) : k \in 0 .. Depth(t)}
Home(t) == SubSeq(t, 1, Depth(t))

Arrives(t) == t # <<>> /\ Depth(t) = Len(t) - 1

(* Once the reservoir is full the new element replaces any of the others:
   idx < capacity always holds. *)
Reservoir(old, v) ==
    IF Len(old) < Capacity THEN {Append(old, v)}
    ELSE {[old EXCEPT ![i] = v] : i \in DOMAIN old}

(* Mutant: a node is counted when its child has taken the tuple. *)
AddCountsAfter(t) ==
    /\ Len(added) < MaxAdds
    /\ added' = Append(added, t)
    /\ count' = [p \in Nodes |-> count[p] + IF Arrives(t) /\ p \in Path(t) THEN 1 ELSE 0]
    /\ IF Arrives(t)
       THEN \E s \in Reservoir(samples[Home(t)], t[Len(t)]) : samples' = [samples EXCEPT ![Home(t)] = s]
       ELSE UNCHANGED samples

Add(t) ==
    /\ Len(added) < MaxAdds
    /\ added' = Append(added, t)
    /\ count' = [p \in Nodes |-> count[p] + IF p \in Path(t) THEN 1 ELSE 0]
    /\ IF Arrives(t)
       THEN \E s \in Reservoir(samples[Home(t)], t[Len(t)]) : samples' = [samples EXCEPT ![Home(t)] = s]
       ELSE UNCHANGED samples

Next == \E t \in Tuples : Add(t)

Spec == Init /\ [][Next]_counterVars

-----------------------------------------------------------------------------
Children(p) == {q \in Nodes : Len(q) = Len(p) + 1 /\ SubSeq(q, 1, Len(p)) = p}

(* own_count of a node; a leaf has no children to subtract. *)
OwnCount(p) == count[p] - MapThenSumSet(LAMBDA q : count[q], Children(p))

Times(Holds(_)) == Cardinality({i \in DOMAIN added : Holds(added[i])})

(* own_count is the number of tuples that stopped at the node, also when adds
   raised half way down: a tuple is counted on every node of one path and on
   no other.  The samples are last elements of tuples that stopped there
   without raising, as many as there were until the reservoir is full. *)
CountsAddUp ==
    \A p \in Nodes :
        /\ OwnCount(p) = Times(LAMBDA t : Home(t) = p)
        /\ Len(samples[p]) = Min({Capacity, Times(LAMBDA t : Arrives(t) /\ Home(t) = p)})
        /\ \A v \in Range(samples[p]) : \E t \in Range(added) : Arrives(t) /\ Home(t) = p /\ Last(t) = v
=============================================================================
