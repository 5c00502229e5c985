------------------------------ MODULE Partition ------------------------------
(***************************************************************************)
(* What a union-find promises (abstract): every element is in one class,   *)
(* and a pair that is joined merges the classes of its two elements and    *)
(* touches no other class.                                                 *)
(***************************************************************************)
CONSTANT Elements

VARIABLES
    class,      \* class[x]: the elements that are in one class with x
    joined      \* the pairs joined so far

Init == class = [x \in Elements |-> {x}] /\ joined = {}

Merged(c, a, b) ==
    [x \in Elements |-> IF c[x] \in {c[a], c[b]} THEN c[a] \cup c[b] ELSE c[x]]

Join(a, b) ==
    /\ joined' = joined \cup {{a, b}}
    /\ class' = Merged(class, a, b)

Next == \E a, b \in Elements : a # b /\ Join(a, b)

Spec == Init /\ [][Next]_<<class, joined>>

-----------------------------------------------------------------------------
(* S cuts through no pair of P. *)
Respects(P, S) == \A e \in P : e \subseteq S \/ e \cap S = {}

(* The elements connected with x by the pairs P: what no set that respects P
   can separate from x. *)
Connected(P, x) ==
    {y \in Elements : \A S \in SUBSET Elements : Respects(P, S) /\ x \in S => y \in S}
=============================================================================
