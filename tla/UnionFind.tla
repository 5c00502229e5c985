------------------------------ MODULE UnionFind ------------------------------
(***************************************************************************)
(* util/nlp/cjk_variants/build_dict.py: _UnionFind, with path halving in   *)
(* find and union by rank, driven as _build drives it: unions of pairs of  *)
(* different characters, then clusters().  One iteration of find's loop is *)
(* one step, because every iteration rewrites the forest that clusters()   *)
(* and the next unions walk.                                               *)
(***************************************************************************)
EXTENDS Naturals

CONSTANTS
    Chars,
    NoChar      \* a local variable that is not in use

VARIABLES
    parent,     \* _parent; a character that is not in the dict is its own
    rank,       \* _rank
    known,      \* keys of _parent
    joined,     \* history: the pairs union() has returned from
    step,       \* what runs: "idle", a find, "clusters" or "done"
    pair,       \* the arguments of union
    cursor,     \* x in find
    ra,         \* root of the first argument
    unvisited,  \* keys that clusters() has yet to visit
    visiting,   \* the key whose root it looks for
    groups      \* groups, by root

vars == <<parent, rank, known, joined, step, pair, cursor, ra, unvisited, visiting, groups>>

Finds == {"find_a", "find_b", "find_key"}

TypeOK ==
    /\ parent \in [Chars -> Chars]
    /\ rank \in [Chars -> Nat]
    /\ known \in SUBSET Chars
    /\ joined \in SUBSET SUBSET Chars
    /\ step \in {"idle", "clusters", "done"} \cup Finds
    /\ pair \in (Chars \cup {NoChar}) \X (Chars \cup {NoChar})
    /\ {cursor, ra, visiting} \subseteq Chars \cup {NoChar}
    /\ unvisited \in SUBSET known
    /\ groups \in [Chars -> SUBSET known]

Init ==
    /\ parent = [x \in Chars |-> x]
    /\ rank = [x \in Chars |-> 0]
    /\ known = {} /\ joined = {} /\ unvisited = {}
    /\ step = "idle"
    /\ pair = <<NoChar, NoChar>> /\ cursor = NoChar /\ ra = NoChar /\ visiting = NoChar
    /\ groups = [x \in Chars |-> {}]

IsRoot(x) == parent[x] = x

(* union(a, b), whose first find begins; a pair never repeats a character. *)
UnionBegins(a, b) ==
    /\ step = "idle" /\ a # b
    /\ step' = "find_a"
    /\ pair' = <<a, b>> /\ cursor' = a
    /\ known' = known \cup {a}
    /\ UNCHANGED <<parent, rank, joined, ra, unvisited, visiting, groups>>

(* One iteration of find: the node is hung below its grandparent. *)
Climb ==
    /\ step \in Finds /\ ~IsRoot(cursor)
    /\ parent' = [parent EXCEPT ![cursor] = parent[parent[cursor]]]
    /\ cursor' = parent[parent[cursor]]
    /\ UNCHANGED <<rank, known, joined, step, pair, ra, unvisited, visiting, groups>>

(* The first find returns and the second begins. *)
FoundFirst ==
    /\ step = "find_a" /\ IsRoot(cursor)
    /\ step' = "find_b"
    /\ ra' = cursor /\ cursor' = pair[2]
    /\ known' = known \cup {pair[2]}
    /\ UNCHANGED <<parent, rank, joined, pair, unvisited, visiting, groups>>

(* The root lo goes below the root hi. *)
Hang(lo, hi) ==
    /\ parent' = [parent EXCEPT ![lo] = hi]
    /\ rank' = IF rank[hi] = rank[lo] THEN [rank EXCEPT ![hi] = @ + 1] ELSE rank

(* Mutants -- wrong variants of the definition that follows, used to show that
   a property can fail -- are marked so.  Mutant: the arguments are
   hung below each other, not their roots. *)
UnionOfArguments ==
    /\ step = "find_b" /\ IsRoot(cursor)
    /\ step' = "idle"
    /\ joined' = joined \cup {{pair[1], pair[2]}}
    /\ IF ra = cursor THEN UNCHANGED <<parent, rank>>
       ELSE IF rank[ra] < rank[cursor] THEN Hang(pair[1], cursor) ELSE Hang(pair[2], ra)
    /\ pair' = <<NoChar, NoChar>> /\ cursor' = NoChar /\ ra' = NoChar
    /\ UNCHANGED <<known, unvisited, visiting, groups>>

(* The second find returns, and union links the roots. *)
UnionEnds ==
    /\ step = "find_b" /\ IsRoot(cursor)
    /\ step' = "idle"
    /\ joined' = joined \cup {{pair[1], pair[2]}}
    /\ IF ra = cursor THEN UNCHANGED <<parent, rank>>
       ELSE IF rank[ra] < rank[cursor] THEN Hang(ra, cursor) ELSE Hang(cursor, ra)
    /\ pair' = <<NoChar, NoChar>> /\ cursor' = NoChar /\ ra' = NoChar
    /\ UNCHANGED <<known, unvisited, visiting, groups>>

(* Mutant: characters that were never given to find are visited too. *)
ClustersOfAll ==
    /\ step = "idle"
    /\ step' = "clusters"
    /\ unvisited' = Chars
    /\ UNCHANGED <<parent, rank, known, joined, pair, cursor, ra, visiting, groups>>

(* clusters() goes over the keys. *)
ClustersBegins ==
    /\ step = "idle"
    /\ step' = "clusters"
    /\ unvisited' = known
    /\ UNCHANGED <<parent, rank, known, joined, pair, cursor, ra, visiting, groups>>

(* The next key, in whatever order the dict holds them. *)
Visit(x) ==
    /\ step = "clusters" /\ x \in unvisited
    /\ step' = "find_key"
    /\ visiting' = x /\ cursor' = x
    /\ unvisited' = unvisited \ {x}
    /\ UNCHANGED <<parent, rank, known, joined, pair, ra, groups>>

(* Mutant: the key goes to the group of its parent, which need not be a root. *)
GroupByParent ==
    /\ step = "find_key"
    /\ step' = "clusters"
    /\ groups' = [groups EXCEPT ![parent[cursor]] = @ \cup {visiting}]
    /\ cursor' = NoChar /\ visiting' = NoChar
    /\ UNCHANGED <<parent, rank, known, joined, pair, ra, unvisited>>

(* find returns the key's root: the key joins the group of that root. *)
FoundKey ==
    /\ step = "find_key" /\ IsRoot(cursor)
    /\ step' = "clusters"
    /\ groups' = [groups EXCEPT ![cursor] = @ \cup {visiting}]
    /\ cursor' = NoChar /\ visiting' = NoChar
    /\ UNCHANGED <<parent, rank, known, joined, pair, ra, unvisited>>

ClustersEnds ==
    /\ step = "clusters" /\ unvisited = {}
    /\ step' = "done"
    /\ UNCHANGED <<parent, rank, known, joined, pair, cursor, ra, unvisited, visiting, groups>>

Next ==
    \/ \E a, b \in Chars : UnionBegins(a, b)
    \/ Climb \/ FoundFirst \/ UnionEnds
    \/ ClustersBegins \/ \E x \in Chars : Visit(x)
    \/ FoundKey \/ ClustersEnds

Spec == Init /\ [][Next]_vars

-----------------------------------------------------------------------------
(* A set of whole trees of the forest. *)
Closed(S) == \A x \in Chars : x \in S <=> parent[x] \in S

(* The characters of the tree that x is in. *)
Tree(x) == {y \in Chars : \A S \in SUBSET Chars : Closed(S) /\ x \in S => y \in S}

Abstract == INSTANCE Partition WITH Elements <- Chars, class <- [x \in Chars |-> Tree(x)]

(* The trees are a partition that a union refines as it should, at its last
   step and not before: path halving, and a find that stops half way through
   the forest, move no character from one class to another. *)
ImplementsPartition == Abstract!Spec

(* A parent has a larger rank than its child, so every climb ends. *)
RanksGrow == \A x \in Chars : ~IsRoot(x) => rank[x] < rank[parent[x]]

(* clusters() returns the connected components of the pairs that were given to
   union: each once, none split and none missing. *)
Clusters == {groups[r] : r \in Chars} \ {{}}
ClustersAreClasses ==
    step = "done" => Clusters = {Abstract!Connected(joined, x) : x \in UNION joined}
=============================================================================
