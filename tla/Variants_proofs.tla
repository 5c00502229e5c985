---------------------------- MODULE Variants_proofs ----------------------------
(***************************************************************************)
(* UnionFind for every set of characters, and VariantBuild for any         *)
(* characters and dictionaries and any interruption: the clusters are the  *)
(* classes of the pairs joined, every map that is loaded is a              *)
(* normalisation, and a build that ends has written the clusters.  At the  *)
(* end the types of both together, as in MCVariants.                       *)
(*                                                                         *)
(* The inductive invariant of UnionFind names the root of every character: *)
(* a function f that path halving leaves as it is and a union changes for  *)
(* the characters of one tree.  Trees are defined by closed sets, so no    *)
(* induction over paths is needed: a closed set holds x exactly when it    *)
(* holds f[x], and the closed sets are exactly those that respect the      *)
(* pairs joined so far.                                                    *)
(*                                                                         *)
(* Once a build has opened its output the files do not change, so the      *)
(* lines that it can hold are known: an initial part of one list; before,  *)
(* the output is the shipped one.  From the state the invariant takes only *)
(* that; the rest is about the list.                                       *)
(***************************************************************************)
EXTENDS MCVariants, FiniteSetTheorems, WellFoundedInduction, TLAPS

(* The types, and that the locals in use hold characters. *)
InUse ==
    /\ step \in Finds => cursor \in Chars
    /\ step \in {"find_a", "find_b"} => pair \in Chars \X Chars /\ pair[1] # pair[2]
    /\ step = "find_b" => ra \in Chars
    /\ step = "find_key" => visiting \in known \ unvisited
    /\ step = "done" => unvisited = {}

(* f names the root of every character. *)
Roots(f) ==
    /\ f \in [Chars -> Chars]
    /\ \A x \in Chars : IsRoot(f[x]) /\ f[parent[x]] = f[x] /\ (IsRoot(x) => f[x] = x)
    /\ \A S \in SUBSET Chars : Closed(S) => \A x \in Chars : x \in S <=> f[x] \in S

(* A find stays in the tree that it began in. *)
Climbing(f) ==
    /\ step = "find_a" => f[cursor] = f[pair[1]]
    /\ step = "find_b" => f[cursor] = f[pair[2]] /\ ra = f[pair[1]]
    /\ step = "find_key" => f[cursor] = f[visiting]

(* The keys that clusters() is done with. *)
Grouped ==
    CASE step \in {"clusters", "done"} -> known \ unvisited
      [] step = "find_key" -> known \ (unvisited \cup {visiting})
      [] OTHER -> {}

GroupsRight(f) ==
    \A r, y \in Chars : y \in groups[r] <=> y \in Grouped /\ f[y] = r

(* A closed set cuts through no pair, and a set that cuts through no pair is
   closed. *)
ClosedRespects == \A S \in SUBSET Chars : Closed(S) <=> Abstract!Respects(joined, S)

Underway ==
    CASE step = "find_a" -> {pair[1]}
      [] step = "find_b" -> {pair[1], pair[2]}
      [] OTHER -> {}

(* The keys are whole trees, and a character that is no key is alone. *)
KeysAreTrees == Closed(known) /\ \A x \in Chars \ known : IsRoot(x)

KeysArePaired == known = (UNION joined) \cup Underway

IInv ==
    /\ TypeOK /\ InUse /\ RanksGrow
    /\ ClosedRespects /\ KeysAreTrees /\ KeysArePaired
    /\ \E f : Roots(f) /\ Climbing(f) /\ GroupsRight(f)

-----------------------------------------------------------------------------
(* Path halving changes no tree. *)
LEMMA ClimbKeepsClosed ==
    ASSUME TypeOK, cursor \in Chars, NEW S \in SUBSET Chars,
           parent' = [parent EXCEPT ![cursor] = parent[parent[cursor]]]
    PROVE  Closed(S)' <=> Closed(S)
<1>1. parent[cursor] \in Chars /\ parent[parent[cursor]] \in Chars
  BY DEF TypeOK
<1>2. \A x \in Chars : parent'[x] = IF x = cursor THEN parent[parent[cursor]] ELSE parent[x]
  BY DEF TypeOK
<1>3. ASSUME Closed(S) PROVE Closed(S)'
  <2>1. \A x \in Chars : x \in S <=> parent[x] \in S
    BY <1>3 DEF Closed
  <2>2. SUFFICES ASSUME NEW x \in Chars PROVE x \in S <=> parent'[x] \in S
    BY DEF Closed
  <2>. QED BY <1>1, <1>2, <2>1
<1>4. ASSUME Closed(S)' PROVE Closed(S)
  <2>1. \A x \in Chars : x \in S <=> parent'[x] \in S
    BY <1>4 DEF Closed
  <2>2. SUFFICES ASSUME NEW x \in Chars PROVE x \in S <=> parent[x] \in S
    BY DEF Closed
  <2>3. CASE x # cursor
    BY <2>1, <2>3, <1>2
  <2>4. CASE x = cursor /\ parent[cursor] # cursor
    BY <2>1, <2>4, <1>1, <1>2
  <2>5. CASE x = cursor /\ parent[cursor] = cursor
    BY <2>5
  <2>. QED BY <2>3, <2>4, <2>5
<1>. QED BY <1>3, <1>4

(* Hanging one root below another merges their trees and changes no other. *)
LEMMA HangMerges ==
    ASSUME TypeOK, NEW lo \in Chars, NEW hi \in Chars, IsRoot(lo), lo # hi,
           NEW S \in SUBSET Chars, parent' = [parent EXCEPT ![lo] = hi]
    PROVE  Closed(S)' <=> Closed(S) /\ (lo \in S <=> hi \in S)
<1>1. \A x \in Chars : parent'[x] = IF x = lo THEN hi ELSE parent[x]
  BY DEF TypeOK
<1>2. parent[lo] = lo
  BY DEF IsRoot
<1>3. Closed(S)' <=> \A x \in Chars : x \in S <=> parent'[x] \in S
  BY DEF Closed
<1>4. Closed(S) <=> \A x \in Chars : x \in S <=> parent[x] \in S
  BY DEF Closed
<1>5. ASSUME Closed(S)' PROVE Closed(S) /\ (lo \in S <=> hi \in S)
  BY <1>1, <1>2, <1>3, <1>4, <1>5
<1>6. ASSUME Closed(S), lo \in S <=> hi \in S PROVE Closed(S)'
  <2>1. ASSUME NEW x \in Chars PROVE x \in S <=> parent'[x] \in S
    <3>1. CASE x = lo
      BY <1>1, <1>6, <3>1
    <3>2. CASE x # lo
      BY <1>1, <1>4, <1>6, <3>2
    <3>. QED BY <3>1, <3>2
  <2>. QED BY <1>3, <2>1
<1>. QED BY <1>5, <1>6

(* A set respects a pair when it holds both its characters or none. *)
LEMMA PairRespected ==
    \A a, b, S : {a, b} \subseteq S \/ {a, b} \cap S = {} <=> (a \in S <=> b \in S)
<1>. SUFFICES ASSUME NEW a, NEW b, NEW S
              PROVE  {a, b} \subseteq S \/ {a, b} \cap S = {} <=> (a \in S <=> b \in S)
  OBVIOUS
<1>1. {a, b} \subseteq S <=> a \in S /\ b \in S
  OBVIOUS
<1>2. {a, b} \cap S = {} <=> a \notin S /\ b \notin S
  OBVIOUS
<1>. QED BY <1>1, <1>2

(* The tree of x: the characters that have its root. *)
LEMMA TreeByRoot ==
    ASSUME TypeOK, NEW f, Roots(f), NEW x \in Chars
    PROVE  Tree(x) = {y \in Chars : f[y] = f[x]}
<1>. DEFINE C == {y \in Chars : f[y] = f[x]}
<1>1. \A y \in Chars : f[y] \in Chars /\ parent[y] \in Chars /\ f[parent[y]] = f[y]
  BY DEF Roots, TypeOK
<1>2. C \in SUBSET Chars /\ Closed(C) /\ x \in C
  BY <1>1 DEF Closed
<1>3. ASSUME NEW y \in Tree(x) PROVE y \in C
  BY <1>2, <1>3 DEF Tree
<1>4. ASSUME NEW y \in C, NEW S \in SUBSET Chars, Closed(S), x \in S PROVE y \in S
  BY <1>4 DEF Roots
<1>5. C \subseteq Tree(x)
  BY <1>4 DEF Tree
<1>. QED BY <1>3, <1>5

(* A tree is a class of the pairs joined so far. *)
LEMMA TreeIsClass ==
    ASSUME ClosedRespects, NEW x \in Chars
    PROVE  Tree(x) = Abstract!Connected(joined, x)
BY DEF Tree, ClosedRespects, Abstract!Connected

-----------------------------------------------------------------------------

(* Initially no character is known. *)
LEMMA InitOK == NoChar \notin Chars /\ Init => IInv
<1>. SUFFICES ASSUME NoChar \notin Chars, Init PROVE IInv
  OBVIOUS
<1>1. TypeOK
  BY DEF Init, TypeOK, Finds
<1>2. InUse
  BY DEF Init, InUse, Finds
<1>3. RanksGrow
  BY DEF Init, RanksGrow, IsRoot
<1>4. \A S : Closed(S) /\ Abstract!Respects(joined, S)
  BY DEF Init, Closed, Abstract!Respects
<1>5. ClosedRespects /\ KeysAreTrees
  BY <1>4 DEF ClosedRespects, KeysAreTrees, Init, IsRoot
<1>6. KeysArePaired
  BY DEF Init, KeysArePaired, Underway
<1>. DEFINE f == [x \in Chars |-> x]
<1>7. Roots(f)
  BY DEF Init, Roots, IsRoot
<1>8. Climbing(f)
  BY DEF Init, Climbing
<1>9. GroupsRight(f)
  BY DEF Init, GroupsRight, Grouped
<1>. QED BY <1>1, <1>2, <1>3, <1>5, <1>6, <1>7, <1>8, <1>9 DEF IInv

(* A step that leaves the forest as it is keeps what is said of the forest. *)
LEMMA SameForest ==
    ASSUME RanksGrow, NEW f, Roots(f), UNCHANGED <<parent, rank>>
    PROVE  RanksGrow' /\ Roots(f)' /\ \A S : Closed(S)' <=> Closed(S)
BY DEF RanksGrow, Roots, IsRoot, Closed

(* union makes its two characters roots of their own, if they are new. *)
LEMMA UnionBeginsOK ==
    ASSUME NoChar \notin Chars, IInv, NEW a \in Chars, NEW b \in Chars, UnionBegins(a, b)
    PROVE  IInv'
<1>. USE DEF UnionBegins
<1>1. PICK f : Roots(f) /\ Climbing(f) /\ GroupsRight(f)
  BY DEF IInv
<1>2. RanksGrow' /\ Roots(f)' /\ \A S : Closed(S)' <=> Closed(S)
  BY <1>1, SameForest DEF IInv
<1>3. TypeOK'
  BY DEF IInv, TypeOK, Finds
<1>4. InUse'
  BY DEF IInv, InUse, TypeOK, Finds
<1>5. ClosedRespects'
  BY <1>2 DEF IInv, ClosedRespects, Abstract!Respects
<1>6. KeysAreTrees'
  BY DEF IInv, TypeOK, KeysAreTrees, Closed, IsRoot
<1>7. KeysArePaired'
  BY DEF IInv, KeysArePaired, Underway
<1>8. Climbing(f)'
  BY DEF Climbing
<1>9. GroupsRight(f)'
  BY <1>1 DEF GroupsRight, Grouped
<1>. QED BY <1>2, <1>3, <1>4, <1>5, <1>6, <1>7, <1>8, <1>9 DEF IInv

(* A turn of the loop of find, which halves the path. *)
LEMMA ClimbOK == ASSUME NoChar \notin Chars, IInv, Climb PROVE IInv'
<1>. USE DEF Climb
<1>1. PICK f : Roots(f) /\ Climbing(f) /\ GroupsRight(f)
  BY DEF IInv
<1>. DEFINE up == parent[cursor]  top == parent[up]
<1>2. cursor \in Chars /\ up \in Chars /\ top \in Chars /\ cursor # up
  BY DEF IInv, InUse, TypeOK, IsRoot
<1>3. \A x \in Chars : parent'[x] = IF x = cursor THEN top ELSE parent[x]
  BY DEF IInv, TypeOK
<1>4. \A S \in SUBSET Chars : Closed(S)' <=> Closed(S)
  BY <1>2, ClimbKeepsClosed DEF IInv
<1>5. TypeOK'
  BY <1>2 DEF IInv, TypeOK
<1>6. InUse'
  BY <1>2 DEF IInv, InUse
<1>7. RanksGrow'
  <2>1. \A x \in Chars : rank[x] \in Nat
    BY DEF IInv, TypeOK
  <2>2. rank[cursor] < rank[up] /\ (up # top => rank[up] < rank[top])
    BY <1>2 DEF IInv, RanksGrow, IsRoot
  <2>3. rank[cursor] < rank[top]
    BY <1>2, <2>1, <2>2
  <2>. QED BY <1>3, <2>3 DEF IInv, RanksGrow, IsRoot
<1>8. Roots(f)'
  <2>1. f[cursor] = f[up] /\ f[up] = f[top]
    BY <1>1, <1>2 DEF Roots
  <2>2. \A x \in Chars : f[parent'[x]] = f[x]
    BY <1>1, <1>3, <2>1 DEF Roots
  <2>3. \A x \in Chars : IsRoot(x) => IsRoot(x)'
    BY <1>3 DEF IsRoot
  <2>4. \A x \in Chars : IsRoot(x)' => f[x] = x
    <3>. SUFFICES ASSUME NEW x \in Chars, IsRoot(x)' PROVE f[x] = x
      OBVIOUS
    <3>1. CASE x # cursor
      BY <1>1, <1>3, <3>1 DEF IsRoot, Roots
    <3>2. CASE x = cursor
      <4>1. top = cursor
        BY <1>3, <3>2 DEF IsRoot
      <4>2. rank[cursor] < rank[up] /\ rank[up] < rank[cursor]
        BY <1>2, <4>1 DEF IInv, RanksGrow, IsRoot
      <4>. QED BY <1>2, <4>2 DEF IInv, TypeOK
    <3>. QED BY <3>1, <3>2
  <2>. QED BY <1>1, <1>4, <2>2, <2>3, <2>4 DEF Roots
<1>9. ClosedRespects'
  BY <1>4 DEF IInv, ClosedRespects
<1>10. KeysAreTrees'
  BY <1>2, <1>3, <1>4 DEF IInv, KeysAreTrees, TypeOK, IsRoot
<1>11. KeysArePaired'
  BY DEF IInv, KeysArePaired, Underway
<1>12. Climbing(f)'
  <2>1. f[cursor'] = f[cursor]
    BY <1>1, <1>2 DEF Roots
  <2>. QED BY <1>1, <2>1 DEF Climbing
<1>13. GroupsRight(f)'
  BY <1>1 DEF GroupsRight, Grouped
<1>. QED BY <1>5, <1>6, <1>7, <1>8, <1>9, <1>10, <1>11, <1>12, <1>13 DEF IInv

(* find of the first character ends at a root. *)
LEMMA FoundFirstOK == ASSUME NoChar \notin Chars, IInv, FoundFirst PROVE IInv'
<1>. USE DEF FoundFirst
<1>1. PICK f : Roots(f) /\ Climbing(f) /\ GroupsRight(f)
  BY DEF IInv
<1>2. RanksGrow' /\ Roots(f)' /\ \A S : Closed(S)' <=> Closed(S)
  BY <1>1, SameForest DEF IInv
<1>3. pair \in Chars \X Chars /\ pair[1] # pair[2] /\ cursor \in Chars
  BY DEF IInv, InUse, Finds
<1>4. TypeOK'
  BY <1>3 DEF IInv, TypeOK, Finds
<1>5. InUse'
  BY <1>3 DEF IInv, InUse, Finds
<1>6. ClosedRespects'
  BY <1>2 DEF IInv, ClosedRespects, Abstract!Respects
<1>7. KeysAreTrees'
  BY <1>3 DEF IInv, TypeOK, KeysAreTrees, Closed, IsRoot
<1>8. KeysArePaired'
  BY DEF IInv, KeysArePaired, Underway
<1>9. Climbing(f)'
  BY <1>1, <1>3 DEF Climbing, Roots
<1>10. GroupsRight(f)'
  BY <1>1 DEF GroupsRight, Grouped
<1>. QED BY <1>2, <1>4, <1>5, <1>6, <1>7, <1>8, <1>9, <1>10 DEF IInv

(* The roots of a union's arguments, when its second find returns. *)
LEMMA RootsFound ==
    ASSUME IInv, step = "find_b", IsRoot(cursor), NEW f, Roots(f), Climbing(f)
    PROVE  /\ pair \in Chars \X Chars /\ pair[1] # pair[2]
           /\ ra \in Chars /\ cursor \in Chars /\ IsRoot(ra)
           /\ ra = f[pair[1]] /\ cursor = f[pair[2]]
           /\ {pair[1], pair[2], ra, cursor} \subseteq known
<1>1. pair \in Chars \X Chars /\ pair[1] # pair[2] /\ ra \in Chars /\ cursor \in Chars
  BY DEF IInv, InUse, Finds
<1>2. ra = f[pair[1]] /\ cursor = f[pair[2]] /\ IsRoot(ra)
  BY <1>1 DEF Climbing, Roots
<1>3. {pair[1], pair[2]} \subseteq known
  BY DEF IInv, KeysArePaired, Underway
<1>4. known \in SUBSET Chars /\ Closed(known)
  BY DEF IInv, TypeOK, KeysAreTrees
<1>5. ra \in known /\ cursor \in known
  BY <1>1, <1>2, <1>3, <1>4 DEF Roots
<1>. QED BY <1>1, <1>2, <1>3, <1>5

(* What a union that links two roots makes of the forest. *)
LEMMA LinkOK ==
    ASSUME NoChar \notin Chars, IInv, step = "find_b", IsRoot(cursor), ra # cursor,
           NEW f, Roots(f), Climbing(f),
           NEW lo, NEW hi, {lo, hi} = {ra, cursor}, rank[lo] <= rank[hi], Hang(lo, hi),
           joined' = joined \cup {{pair[1], pair[2]}}, UNCHANGED known
    PROVE  /\ parent' \in [Chars -> Chars] /\ rank' \in [Chars -> Nat]
           /\ RanksGrow' /\ ClosedRespects' /\ KeysAreTrees'
           /\ Roots([x \in Chars |-> IF f[x] = lo THEN hi ELSE f[x]])'
<1>. DEFINE g == [x \in Chars |-> IF f[x] = lo THEN hi ELSE f[x]]
<1>1. /\ pair \in Chars \X Chars /\ ra \in Chars /\ cursor \in Chars /\ IsRoot(ra)
      /\ ra = f[pair[1]] /\ cursor = f[pair[2]] /\ ra \in known /\ cursor \in known
  BY RootsFound
<1>2. lo \in Chars /\ hi \in Chars /\ lo # hi /\ IsRoot(lo) /\ IsRoot(hi) /\ lo \in known /\ hi \in known
  BY <1>1
<1>3. \A x \in Chars : parent[x] \in Chars /\ rank[x] \in Nat
  BY DEF IInv, TypeOK
<1>4. \A x \in Chars : parent'[x] = IF x = lo THEN hi ELSE parent[x]
  BY <1>2 DEF IInv, TypeOK, Hang
<1>5. parent' \in [Chars -> Chars] /\ rank' \in [Chars -> Nat]
  BY <1>2, <1>3 DEF IInv, TypeOK, Hang
<1>6. \A x \in Chars : rank'[x] = IF x = hi /\ rank[hi] = rank[lo] THEN rank[hi] + 1 ELSE rank[x]
  BY <1>2, <1>3 DEF IInv, TypeOK, Hang
<1>7. \A S \in SUBSET Chars : Closed(S)' <=> Closed(S) /\ (lo \in S <=> hi \in S)
  <2>. SUFFICES ASSUME NEW S \in SUBSET Chars
                PROVE  Closed(S)' <=> Closed(S) /\ (lo \in S <=> hi \in S)
    OBVIOUS
  <2>. QED BY <1>2, HangMerges DEF IInv, Hang
<1>8. RanksGrow'
  <2>. SUFFICES ASSUME NEW x \in Chars, parent'[x] # x PROVE rank'[x] < rank'[parent'[x]]
    BY DEF RanksGrow, IsRoot
  <2>1. CASE x = lo
    BY <2>1, <1>2, <1>3, <1>4, <1>6
  <2>2. CASE x # lo
    <3>1. parent'[x] = parent[x] /\ parent[x] # x
      BY <2>2, <1>4
    <3>2. x # hi
      BY <3>1, <1>2 DEF IsRoot
    <3>3. rank[x] < rank[parent[x]] /\ rank'[x] = rank[x]
      BY <3>1, <3>2, <1>6 DEF IInv, RanksGrow, IsRoot
    <3>4. rank[parent[x]] <= rank'[parent[x]]
      BY <1>3, <1>6
    <3>5. rank'[parent[x]] \in Nat
      BY <1>3, <1>5
    <3>. QED BY <3>1, <3>3, <3>4, <3>5, <1>3
  <2>. QED BY <2>1, <2>2
<1>9. ClosedRespects'
  <2>. SUFFICES ASSUME NEW S \in SUBSET Chars
                PROVE  Closed(S)' <=> Abstract!Respects(joined', S)
    BY DEF ClosedRespects, Abstract!Respects
  <2>. DEFINE e == {pair[1], pair[2]}
  <2>0. e \subseteq S \/ e \cap S = {} <=> (pair[1] \in S <=> pair[2] \in S)
    BY PairRespected
  <2>1. Abstract!Respects(joined', S)
          <=> Abstract!Respects(joined, S) /\ (pair[1] \in S <=> pair[2] \in S)
    <3>. HIDE DEF e
    <3>1. joined' = joined \cup {e}
      BY DEF e
    <3>. QED BY <2>0, <3>1 DEF Abstract!Respects
  <2>2. Closed(S) <=> Abstract!Respects(joined, S)
    BY DEF IInv, ClosedRespects
  <2>3. Closed(S) => (pair[1] \in S <=> ra \in S) /\ (pair[2] \in S <=> cursor \in S)
    BY <1>1 DEF Roots
  <2>4. (lo \in S <=> hi \in S) <=> (ra \in S <=> cursor \in S)
    OBVIOUS
  <2>. QED BY <1>7, <2>1, <2>2, <2>3, <2>4
<1>10. KeysAreTrees'
  BY <1>2, <1>4, <1>7 DEF IInv, KeysAreTrees, TypeOK, IsRoot
<1>11. Roots(g)'
  <2>1. \A x \in Chars : f[x] \in Chars
    BY DEF Roots
  <2>2. g \in [Chars -> Chars] /\ \A x \in Chars : g[x] = IF f[x] = lo THEN hi ELSE f[x]
    BY <1>2, <2>1
  <2>3. \A x \in Chars : IsRoot(x)' <=> IsRoot(x) /\ x # lo
    BY <1>2, <1>4 DEF IsRoot
  <2>4. ASSUME NEW x \in Chars
        PROVE  IsRoot(g[x])' /\ g[parent'[x]] = g[x] /\ (IsRoot(x)' => g[x] = x)
    <3>1. IsRoot(f[x]) /\ f[parent[x]] = f[x] /\ (IsRoot(x) => f[x] = x)
      BY DEF Roots
    <3>2. f[lo] = lo /\ f[hi] = hi
      BY <1>2 DEF Roots
    <3>3. IsRoot(g[x])'
      BY <1>2, <2>1, <2>2, <2>3, <3>1
    <3>4. g[parent'[x]] = g[x]
      BY <1>2, <1>3, <1>4, <2>2, <3>1, <3>2
    <3>5. IsRoot(x)' => g[x] = x
      BY <2>2, <2>3, <3>1
    <3>. QED BY <3>3, <3>4, <3>5
  <2>5. ASSUME NEW S \in SUBSET Chars, Closed(S)', NEW x \in Chars PROVE x \in S <=> g[x] \in S
    <3>1. Closed(S) /\ (lo \in S <=> hi \in S)
      BY <1>7, <2>5
    <3>2. x \in S <=> f[x] \in S
      BY <3>1 DEF Roots
    <3>. QED BY <2>2, <3>1, <3>2
  <2>. HIDE DEF g
  <2>. QED BY <2>2, <2>4, <2>5 DEF Roots
<1>. QED BY <1>5, <1>8, <1>9, <1>10, <1>11

(* The two roots are linked, the lower below the higher. *)
LEMMA UnionEndsOK == ASSUME NoChar \notin Chars, IInv, UnionEnds PROVE IInv'
<1>1. PICK f : Roots(f) /\ Climbing(f) /\ GroupsRight(f)
  BY DEF IInv
<1>2. step = "find_b" /\ IsRoot(cursor) /\ step' = "idle" /\ UNCHANGED <<known, unvisited, visiting, groups>>
      /\ joined' = joined \cup {{pair[1], pair[2]}}
      /\ pair' = <<NoChar, NoChar>> /\ cursor' = NoChar /\ ra' = NoChar
  BY DEF UnionEnds
<1>3. /\ pair \in Chars \X Chars /\ ra \in Chars /\ cursor \in Chars /\ pair[1] # pair[2]
      /\ ra = f[pair[1]] /\ cursor = f[pair[2]] /\ {pair[1], pair[2]} \subseteq known
  BY <1>1, <1>2, RootsFound
<1>4. KeysArePaired'
  <2>1. Underway = {pair[1], pair[2]} /\ Underway' = {}
    BY <1>2 DEF Underway
  <2>2. UNION joined' = (UNION joined) \cup {pair[1], pair[2]}
    BY <1>2
  <2>. QED BY <1>2, <2>1, <2>2 DEF IInv, KeysArePaired
<1>5. InUse'
  BY <1>2 DEF IInv, InUse, Finds
<1>6. ASSUME parent' \in [Chars -> Chars], rank' \in [Chars -> Nat] PROVE TypeOK'
  BY <1>2, <1>3, <1>6 DEF IInv, TypeOK
<1>7. \A g : Climbing(g)'
  BY <1>2 DEF Climbing
<1>8. \A g : GroupsRight(g)'
  <2>1. Grouped' = {} /\ Grouped = {}
    BY <1>2 DEF Grouped
  <2>. QED BY <1>1, <1>2, <2>1 DEF GroupsRight
<1>9. CASE ra = cursor
  <2>1. UNCHANGED <<parent, rank>>
    BY <1>9 DEF UnionEnds
  <2>2. RanksGrow' /\ Roots(f)' /\ \A S : Closed(S)' <=> Closed(S)
    BY <1>1, <2>1, SameForest DEF IInv
  <2>3. TypeOK'
    BY <1>6, <2>1 DEF IInv, TypeOK
  <2>4. ClosedRespects'
    <3>. SUFFICES ASSUME NEW S \in SUBSET Chars
                  PROVE  Closed(S)' <=> Abstract!Respects(joined', S)
      BY DEF ClosedRespects, Abstract!Respects
    <3>. DEFINE e == {pair[1], pair[2]}
    <3>1. e \subseteq S \/ e \cap S = {} <=> (pair[1] \in S <=> pair[2] \in S)
      <4>. DEFINE a == pair[1]
                  b == pair[2]
      <4>. HIDE DEF a, b
      <4>1. {a, b} \subseteq S \/ {a, b} \cap S = {} <=> (a \in S <=> b \in S)
        BY PairRespected
      <4>. QED BY <4>1 DEF a, b
    <3>2. Closed(S) => (pair[1] \in S <=> pair[2] \in S)
      <4>1. pair[1] \in Chars /\ pair[2] \in Chars /\ f[pair[1]] = f[pair[2]]
        BY <1>3, <1>9
      <4>2. Closed(S) => \A x \in Chars : x \in S <=> f[x] \in S
        BY <1>1 DEF Roots
      <4>. QED BY <4>1, <4>2
    <3>3. Closed(S) <=> Abstract!Respects(joined, S)
      BY DEF IInv, ClosedRespects
    <3>. HIDE DEF e
    <3>4. joined' = joined \cup {e}
      BY <1>2 DEF e
    <3>5. Abstract!Respects(joined', S) <=> Abstract!Respects(joined, S) /\ (e \subseteq S \/ e \cap S = {})
      BY <3>4 DEF Abstract!Respects
    <3>6. Closed(S)' <=> Closed(S)
      BY <2>2
    <3>. QED BY <3>1, <3>2, <3>3, <3>5, <3>6
  <2>5. KeysAreTrees'
    BY <1>2, <2>1, <2>2 DEF IInv, KeysAreTrees, IsRoot
  <2>. QED BY <1>4, <1>5, <1>7, <1>8, <2>2, <2>3, <2>4, <2>5 DEF IInv
<1>10. CASE ra # cursor
  <2>1. \E lo, hi : {lo, hi} = {ra, cursor} /\ rank[lo] <= rank[hi] /\ Hang(lo, hi)
    <3>1. rank[ra] \in Nat /\ rank[cursor] \in Nat
      BY <1>3 DEF IInv, TypeOK
    <3>2. CASE rank[ra] < rank[cursor]
      <4>1. Hang(ra, cursor) /\ rank[ra] <= rank[cursor]
        BY <1>10, <3>1, <3>2 DEF UnionEnds
      <4>. QED BY <4>1
    <3>3. CASE ~(rank[ra] < rank[cursor])
      <4>1. Hang(cursor, ra) /\ rank[cursor] <= rank[ra]
        BY <1>10, <3>1, <3>3 DEF UnionEnds
      <4>2. {cursor, ra} = {ra, cursor}
        OBVIOUS
      <4>. QED BY <4>1, <4>2
    <3>. QED BY <3>2, <3>3
  <2>2. PICK lo, hi : {lo, hi} = {ra, cursor} /\ rank[lo] <= rank[hi] /\ Hang(lo, hi)
    BY <2>1
  <2>. DEFINE g == [x \in Chars |-> IF f[x] = lo THEN hi ELSE f[x]]
  <2>3. /\ parent' \in [Chars -> Chars] /\ rank' \in [Chars -> Nat]
        /\ RanksGrow' /\ ClosedRespects' /\ KeysAreTrees' /\ Roots(g)'
    BY <1>1, <1>2, <1>10, <2>2, LinkOK
  <2>4. TypeOK'
    BY <1>6, <2>3
  <2>. QED BY <1>4, <1>5, <1>7, <1>8, <2>3, <2>4 DEF IInv
<1>. QED BY <1>9, <1>10

(* clusters() begins with no group. *)
LEMMA ClustersBeginsOK == ASSUME NoChar \notin Chars, IInv, ClustersBegins PROVE IInv'
<1>. USE DEF ClustersBegins
<1>1. PICK f : Roots(f) /\ Climbing(f) /\ GroupsRight(f)
  BY DEF IInv
<1>2. RanksGrow' /\ Roots(f)' /\ \A S : Closed(S)' <=> Closed(S)
  BY <1>1, SameForest DEF IInv
<1>3. TypeOK' /\ InUse'
  BY DEF IInv, TypeOK, InUse, Finds
<1>4. ClosedRespects' /\ KeysAreTrees' /\ KeysArePaired'
  BY <1>2 DEF IInv, ClosedRespects, KeysAreTrees, KeysArePaired, Underway, IsRoot, Abstract!Respects
<1>5. Climbing(f)' /\ GroupsRight(f)'
  BY <1>1 DEF Climbing, GroupsRight, Grouped
<1>. QED BY <1>2, <1>3, <1>4, <1>5 DEF IInv

(* clusters() asks for the root of its next key. *)
LEMMA VisitOK == ASSUME NoChar \notin Chars, IInv, NEW k \in Chars, Visit(k) PROVE IInv'
<1>. USE DEF Visit
<1>1. PICK f : Roots(f) /\ Climbing(f) /\ GroupsRight(f)
  BY DEF IInv
<1>2. RanksGrow' /\ Roots(f)' /\ \A S : Closed(S)' <=> Closed(S)
  BY <1>1, SameForest DEF IInv
<1>3. TypeOK' /\ InUse'
  BY DEF IInv, TypeOK, InUse, Finds
<1>4. ClosedRespects' /\ KeysAreTrees' /\ KeysArePaired'
  BY <1>2 DEF IInv, ClosedRespects, KeysAreTrees, KeysArePaired, Underway, IsRoot, Abstract!Respects
<1>5. Climbing(f)'
  BY DEF Climbing
<1>6. GroupsRight(f)'
  <2>1. Grouped' = Grouped
    BY DEF Grouped, IInv, TypeOK
  <2>. QED BY <1>1, <2>1 DEF GroupsRight
<1>. QED BY <1>2, <1>3, <1>4, <1>5, <1>6 DEF IInv

(* The key joins the group of its root. *)
LEMMA FoundKeyOK == ASSUME NoChar \notin Chars, IInv, FoundKey PROVE IInv'
<1>. USE DEF FoundKey
<1>1. PICK f : Roots(f) /\ Climbing(f) /\ GroupsRight(f)
  BY DEF IInv
<1>2. RanksGrow' /\ Roots(f)' /\ \A S : Closed(S)' <=> Closed(S)
  BY <1>1, SameForest DEF IInv
<1>3. visiting \in known \ unvisited /\ cursor \in Chars /\ visiting \in Chars
  BY DEF IInv, InUse, Finds, TypeOK
<1>4. TypeOK' /\ InUse'
  BY <1>3 DEF IInv, TypeOK, InUse, Finds
<1>5. ClosedRespects' /\ KeysAreTrees' /\ KeysArePaired'
  BY <1>2 DEF IInv, ClosedRespects, KeysAreTrees, KeysArePaired, Underway, IsRoot, Abstract!Respects
<1>6. Climbing(f)'
  BY DEF Climbing
<1>7. GroupsRight(f)'
  <2>1. Grouped' = Grouped \cup {visiting} /\ visiting \notin Grouped
    BY <1>3 DEF Grouped
  <2>2. f[visiting] = cursor
    BY <1>1, <1>3 DEF Climbing, Roots
  <2>3. \A r \in Chars : groups'[r] = IF r = cursor THEN groups[r] \cup {visiting} ELSE groups[r]
    BY <1>3 DEF IInv, TypeOK
  <2>. QED BY <1>1, <1>3, <2>1, <2>2, <2>3 DEF GroupsRight
<1>. QED BY <1>2, <1>4, <1>5, <1>6, <1>7 DEF IInv

(* clusters() has visited every key. *)
LEMMA ClustersEndsOK == ASSUME NoChar \notin Chars, IInv, ClustersEnds PROVE IInv'
<1>. USE DEF ClustersEnds
<1>1. PICK f : Roots(f) /\ Climbing(f) /\ GroupsRight(f)
  BY DEF IInv
<1>2. RanksGrow' /\ Roots(f)' /\ \A S : Closed(S)' <=> Closed(S)
  BY <1>1, SameForest DEF IInv
<1>3. TypeOK' /\ InUse'
  BY DEF IInv, TypeOK, InUse, Finds
<1>4. ClosedRespects' /\ KeysAreTrees' /\ KeysArePaired'
  BY <1>2 DEF IInv, ClosedRespects, KeysAreTrees, KeysArePaired, Underway, IsRoot, Abstract!Respects
<1>5. Climbing(f)' /\ GroupsRight(f)'
  BY <1>1 DEF Climbing, GroupsRight, Grouped
<1>. QED BY <1>2, <1>3, <1>4, <1>5 DEF IInv

(* What changes no variable keeps the invariant. *)
LEMMA StutterOK == ASSUME IInv, UNCHANGED vars PROVE IInv'
<1>. USE DEF vars
<1>1. PICK f : Roots(f) /\ Climbing(f) /\ GroupsRight(f)
  BY DEF IInv
<1>2. RanksGrow' /\ Roots(f)' /\ \A S : Closed(S)' <=> Closed(S)
  BY <1>1, SameForest DEF IInv
<1>3. TypeOK' /\ InUse'
  BY DEF IInv, TypeOK, InUse
<1>4. ClosedRespects' /\ KeysAreTrees' /\ KeysArePaired'
  BY <1>2 DEF IInv, ClosedRespects, KeysAreTrees, KeysArePaired, Underway, IsRoot, Abstract!Respects
<1>5. Climbing(f)' /\ GroupsRight(f)'
  BY <1>1 DEF Climbing, GroupsRight, Grouped
<1>. QED BY <1>2, <1>3, <1>4, <1>5 DEF IInv

(* Every step keeps the invariant. *)
LEMMA NextOK == NoChar \notin Chars /\ IInv /\ [Next]_vars => IInv'
BY UnionBeginsOK, ClimbOK, FoundFirstOK, UnionEndsOK, ClustersBeginsOK, VisitOK, FoundKeyOK,
   ClustersEndsOK, StutterOK DEF Next

(* The invariant holds in every reachable state of the union-find. *)
THEOREM Invariance == ASSUME NoChar \notin Chars PROVE Spec => []IInv
BY InitOK, NextOK, PTL DEF Spec

-----------------------------------------------------------------------------
(* The types hold. *)
THEOREM Typed == ASSUME NoChar \notin Chars PROVE Spec => []TypeOK
<1>1. IInv => TypeOK
  BY DEF IInv
<1>. QED BY <1>1, Invariance, PTL

(* A parent has a larger rank than its child: the forest has no cycle, and the
   loop of find (build_dict.py:52) ends whatever was joined before. *)
THEOREM FindEnds == ASSUME NoChar \notin Chars PROVE Spec => []RanksGrow
<1>1. IInv => RanksGrow
  BY DEF IInv
<1>. QED BY <1>1, Invariance, PTL

(* clusters() returns the connected components of the pairs that were joined,
   for every set of characters and every order of the unions. *)
THEOREM ClustersSound == ASSUME NoChar \notin Chars PROVE Spec => []ClustersAreClasses
<1>1. IInv => ClustersAreClasses
  <2>. SUFFICES ASSUME IInv, step = "done"
                PROVE  Clusters = {Abstract!Connected(joined, x) : x \in UNION joined}
    BY DEF ClustersAreClasses
  <2>1. PICK f : Roots(f) /\ GroupsRight(f)
    BY DEF IInv
  <2>2. known = UNION joined /\ known \subseteq Chars /\ Closed(known) /\ unvisited = {}
    BY DEF IInv, KeysArePaired, Underway, TypeOK, KeysAreTrees, InUse
  <2>3. \A x \in Chars : f[x] \in Chars /\ (x \in known <=> f[x] \in known) /\ f[f[x]] = f[x]
    BY <2>1, <2>2 DEF Roots
  <2>4. \A r, y \in Chars : y \in groups[r] <=> y \in known /\ f[y] = r
    BY <2>1, <2>2 DEF GroupsRight, Grouped
  <2>5. \A r \in Chars : groups[r] \subseteq Chars
    BY <2>2 DEF IInv, TypeOK
  <2>6. ASSUME NEW x \in known PROVE groups[f[x]] = Abstract!Connected(joined, x)
    <3>1. Tree(x) = {y \in Chars : f[y] = f[x]}
      BY <2>1, <2>2, TreeByRoot DEF IInv
    <3>2. Tree(x) = Abstract!Connected(joined, x)
      BY <2>2, TreeIsClass DEF IInv
    <3>3. groups[f[x]] = {y \in Chars : f[y] = f[x]}
      BY <2>2, <2>3, <2>4, <2>5
    <3>. QED BY <3>1, <3>2, <3>3
  <2>7. ASSUME NEW x \in known PROVE f[x] \in Chars /\ groups[f[x]] # {}
    BY <2>2, <2>3, <2>4
  <2>8. ASSUME NEW r \in Chars, groups[r] # {} PROVE \E x \in known : f[x] = r
    BY <2>4, <2>5, <2>8
  <2>. QED BY <2>2, <2>6, <2>7, <2>8 DEF Clusters
<1>. QED BY <1>1, Invariance, PTL

-----------------------------------------------------------------------------
(* A step that changes no closed set changes no tree. *)
LEMMA SameTrees ==
    ASSUME \A S \in SUBSET Chars : Closed(S)' <=> Closed(S)
    PROVE  [x \in Chars |-> Tree(x)]' = [x \in Chars |-> Tree(x)]
BY DEF Tree

(* The trees after a union are the classes merged as Partition merges them. *)
LEMMA LinkMerges ==
    ASSUME TypeOK, NEW f, Roots(f), NEW a \in Chars, NEW b \in Chars,
           NEW lo \in Chars, NEW hi \in Chars, IsRoot(lo), lo # hi,
           {lo, hi} = {f[a], f[b]}, parent' = [parent EXCEPT ![lo] = hi]
    PROVE  [x \in Chars |-> Tree(x)]' = Abstract!Merged([x \in Chars |-> Tree(x)], a, b)
<1>. DEFINE T == [x \in Chars |-> Tree(x)]
            One(x) == {y \in Chars : f[y] = f[x]}
<1>1. \A S \in SUBSET Chars : Closed(S)' <=> Closed(S) /\ (lo \in S <=> hi \in S)
  BY HangMerges
<1>2. \A x \in Chars : T[x] = One(x)
  BY TreeByRoot
<1>3. \A x \in Chars : f[x] \in Chars /\ parent[x] \in Chars /\ f[parent[x]] = f[x] /\ f[f[x]] = f[x]
  BY DEF Roots, TypeOK
<1>4. f[lo] = lo /\ f[hi] = hi
  <2>1. f[f[a]] = f[a] /\ f[f[b]] = f[b]
    BY <1>3
  <2>2. (lo = f[a] \/ lo = f[b]) /\ (hi = f[a] \/ hi = f[b])
    OBVIOUS
  <2>. QED BY <2>1, <2>2
<1>5. ASSUME NEW x \in Chars
      PROVE  T'[x] = IF f[x] \in {lo, hi} THEN One(lo) \cup One(hi) ELSE One(x)
  <2>. DEFINE R == IF f[x] \in {lo, hi} THEN One(lo) \cup One(hi) ELSE One(x)
  <2>1. x \in R /\ R \in SUBSET Chars /\ Closed(R) /\ (lo \in R <=> hi \in R)
    BY <1>3, <1>4 DEF Closed
  <2>2. T'[x] = {y \in Chars : \A S \in SUBSET Chars : Closed(S)' /\ x \in S => y \in S}
    BY DEF Tree
  <2>3. T'[x] \subseteq R
    <3>. HIDE DEF R
    <3>. QED BY <1>1, <2>1, <2>2
  <2>4. ASSUME NEW y \in R, NEW S \in SUBSET Chars, Closed(S)', x \in S PROVE y \in S
    <3>1. Closed(S) /\ (lo \in S <=> hi \in S)
      BY <1>1, <2>4
    <3>2. \A z \in Chars : z \in S <=> f[z] \in S
      BY <3>1 DEF Roots
    <3>. QED BY <1>4, <2>4, <3>1, <3>2
  <2>. HIDE DEF R, T
  <2>5. R \subseteq T'[x]
    BY <2>1, <2>2, <2>4
  <2>. QED BY <2>3, <2>5 DEF R
<1>6. ASSUME NEW x \in Chars
      PROVE  Abstract!Merged(T, a, b)[x] = IF f[x] \in {lo, hi} THEN One(lo) \cup One(hi) ELSE One(x)
  <2>1. Abstract!Merged(T, a, b)[x] = IF T[x] \in {T[a], T[b]} THEN T[a] \cup T[b] ELSE T[x]
    BY DEF Abstract!Merged
  <2>2. ASSUME NEW c \in Chars PROVE One(x) = One(c) <=> f[x] = f[c]
    OBVIOUS
  <2>3. T[x] \in {T[a], T[b]} <=> f[x] \in {lo, hi}
    <3>1. T[x] = One(x) /\ T[a] = One(a) /\ T[b] = One(b)
      BY <1>2
    <3>2. (One(x) = One(a) <=> f[x] = f[a]) /\ (One(x) = One(b) <=> f[x] = f[b])
      BY <2>2
    <3>. HIDE DEF T, One
    <3>. QED BY <3>1, <3>2
  <2>4. One(a) \cup One(b) = One(lo) \cup One(hi)
    BY <1>4
  <2>. HIDE DEF T, One
  <2>. QED BY <1>2, <2>1, <2>3, <2>4
<1>. HIDE DEF One
<1>. QED BY <1>5, <1>6 DEF Abstract!Merged

(* No character is known to the union-find, and no class to the partition. *)
LEMMA InitRefines == ASSUME Init PROVE Abstract!Init
<1>1. ASSUME NEW x \in Chars PROVE Tree(x) = {x}
  <2>1. \A S \in SUBSET Chars : Closed(S)
    BY DEF Init, Closed
  <2>2. {x} \in SUBSET Chars
    OBVIOUS
  <2>. QED BY <2>1, <2>2 DEF Tree
<1>. QED BY <1>1 DEF Abstract!Init, Init

(* The last step of a union joins its pair in Partition. *)
LEMMA UnionEndsRefines ==
    ASSUME NoChar \notin Chars, IInv, UnionEnds
    PROVE  \E a, b \in Chars : a # b /\ Abstract!Join(a, b)
<1>. DEFINE T == [x \in Chars |-> Tree(x)]
            a == pair[1]
            b == pair[2]
<1>1. PICK f : Roots(f) /\ Climbing(f)
  BY DEF IInv
<1>2. step = "find_b" /\ IsRoot(cursor) /\ joined' = joined \cup {{a, b}}
  BY DEF UnionEnds
<1>3. /\ a \in Chars /\ b \in Chars /\ a # b
      /\ ra \in Chars /\ cursor \in Chars /\ IsRoot(ra) /\ ra = f[a] /\ cursor = f[b]
  BY <1>1, <1>2, RootsFound
<1>4. T' = Abstract!Merged(T, a, b)
  <2>1. CASE ra = cursor
    <3>1. UNCHANGED parent
      BY <2>1 DEF UnionEnds
    <3>2. T' = T
      BY <3>1, SameTrees DEF Closed
    <3>3. Tree(a) = Tree(b)
      <4>1. \A x \in Chars : Tree(x) = {y \in Chars : f[y] = f[x]}
        BY <1>1, TreeByRoot DEF IInv
      <4>2. f[a] = f[b]
        BY <1>3, <2>1
      <4>. HIDE DEF a, b
      <4>. QED BY <1>3, <4>1, <4>2
    <3>4. T[a] = T[b]
      BY <1>3, <3>3
    <3>. HIDE DEF T
    <3>5. ASSUME NEW x \in Chars
          PROVE  (IF T[x] \in {T[a], T[b]} THEN T[a] \cup T[b] ELSE T[x]) = T[x]
      BY <3>4
    <3>6. Abstract!Merged(T, a, b) = [x \in Chars |-> T[x]]
      BY <3>5, Zenon DEF Abstract!Merged
    <3>. QED BY <3>2, <3>6 DEF T
  <2>2. CASE ra # cursor
    <3>1. \E lo, hi \in Chars : {lo, hi} = {ra, cursor} /\ lo # hi /\ parent' = [parent EXCEPT ![lo] = hi]
      <4>1. CASE rank[ra] < rank[cursor]
        BY <1>3, <2>2, <4>1 DEF UnionEnds, Hang
      <4>2. CASE ~(rank[ra] < rank[cursor])
        <5>1. parent' = [parent EXCEPT ![cursor] = ra]
          BY <2>2, <4>2 DEF UnionEnds, Hang
        <5>2. {cursor, ra} = {ra, cursor}
          OBVIOUS
        <5>. QED BY <1>3, <2>2, <5>1, <5>2
      <4>. QED BY <4>1, <4>2
    <3>2. PICK lo \in Chars, hi \in Chars :
            {lo, hi} = {ra, cursor} /\ lo # hi /\ parent' = [parent EXCEPT ![lo] = hi]
      BY <3>1
    <3>3. IsRoot(lo) /\ {lo, hi} = {f[a], f[b]}
      BY <1>2, <1>3, <3>2
    <3>4. TypeOK
      BY DEF IInv
    <3>. QED BY <1>1, <1>3, <3>2, <3>3, <3>4, LinkMerges
  <2>. QED BY <2>1, <2>2
<1>. QED BY <1>2, <1>3, <1>4 DEF Abstract!Join

(* Every other step leaves the partition as it is. *)
LEMMA OtherStepsStutter ==
    ASSUME NoChar \notin Chars, IInv, [Next]_vars, ~UnionEnds
    PROVE  UNCHANGED <<[x \in Chars |-> Tree(x)], joined>>
<1>1. CASE Climb
  <2>1. cursor \in Chars
    BY <1>1 DEF IInv, InUse, Climb
  <2>2. \A S \in SUBSET Chars : Closed(S)' <=> Closed(S)
    BY <1>1, <2>1, ClimbKeepsClosed DEF IInv, Climb
  <2>. QED BY <1>1, <2>2, SameTrees DEF Climb
<1>2. CASE ~Climb
  <2>1. UNCHANGED <<parent, joined>>
    BY <1>2 DEF Next, vars, UnionBegins, FoundFirst, ClustersBegins, Visit, FoundKey, ClustersEnds
  <2>2. \A S \in SUBSET Chars : Closed(S)' <=> Closed(S)
    BY <2>1 DEF Closed
  <2>. QED BY <2>1, <2>2, SameTrees
<1>. QED BY <1>1, <1>2

(* The union-find implements Partition: unions merge exactly the classes of
   their arguments, and neither path halving nor a half finished find moves a
   character. *)
THEOREM Refinement == ASSUME NoChar \notin Chars PROVE Spec => ImplementsPartition
<1>1. Init => Abstract!Init
  BY InitRefines
<1>2. IInv /\ [Next]_vars => [Abstract!Next]_<<[x \in Chars |-> Tree(x)], joined>>
  BY UnionEndsRefines, OtherStepsStutter DEF Abstract!Next
<1>. QED BY <1>1, <1>2, Invariance, PTL DEF Spec, ImplementsPartition, Abstract!Spec

-----------------------------------------------------------------------------
(* The values that the proofs are about: finitely many code points, at least
   one dictionary, and a mark of a missing file that is no file. *)
Arguments ==
    /\ IsFiniteSet(Points) /\ Points \subseteq Nat
    /\ Source \in Seq(Seq(Seq(Seq(Points)))) /\ Source # <<>>
    /\ Earlier \in SUBSET (Points \X Points)
    /\ \A lines, torn : NoFile # Build!Text(lines, torn)

Texts == [lines : Seq(Seq(Seq(Points))), torn : BOOLEAN]

(* Every dictionary is there.  From then on none changes. *)
Present(fs) == \A i \in Build!Dicts : fs[i] # NoFile

(* The pairs in the first n of the files fs, and the lines made of them all. *)
PairsOf(fs, n) == UNION {Build!parse_opencc_tsv(fs[i].lines) : i \in 1 .. n}
LinesOf(fs) == Build!OutputLines(PairsOf(fs, Build!LastDict - 1))

(* What was written so far, or read of it. *)
Initial(lines, list) == \E n \in 0 .. Len(list) : lines = SubSeq(list, 1, n)
PartOf(lines, fs) == Present(fs) /\ Initial(lines, LinesOf(fs))

Files ==
    /\ DOMAIN raw = Build!Dicts
    /\ \A i \in Build!Dicts : raw[i] # NoFile => raw[i] \in Texts
    /\ intact => \A i \in Build!Dicts : raw[i] \in {NoFile, Build!Text(Source[i], FALSE)}

Building ==
    /\ phase \in {"idle", "download", "parse", "cluster", "write"}
    /\ at \in Build!Dicts
    /\ found \subseteq Points \X Points
    /\ phase = "download" => found = {} /\ \A i \in 1 .. at - 1 : raw[i] # NoFile
    /\ phase \in {"parse", "cluster", "write"} => Present(raw)
    /\ phase = "parse" => found = PairsOf(raw, at - 1)
    /\ phase \in {"cluster", "write"} => found = PairsOf(raw, Build!LastDict - 1)
    /\ phase = "write" => /\ pending = LinesOf(raw) /\ out # NoFile /\ ~complete
                          /\ PartOf(out.lines, raw)

Written ==
    /\ {intact, complete} \subseteq BOOLEAN
    /\ out # NoFile => out = Build!Text(out.lines, out.torn) /\ out.torn \in BOOLEAN
    /\ out # NoFile => out = Build!Shipped \/ PartOf(out.lines, raw)
    /\ complete => out = Build!Text(LinesOf(raw), FALSE) /\ Present(raw)

(* What was read, if the file was not emptied under the reader. *)
Read ==
    /\ loaded.kind \in {"none", "reading", "raised", "map"} /\ loaded.replaced \in BOOLEAN
    /\ loaded.kind = "map" /\ ~loaded.replaced =>
           \/ loaded.lines = <<>> \/ Initial(loaded.lines, Build!OutputLines(Earlier))
           \/ PartOf(loaded.lines, raw)
    /\ loaded.kind = "reading" => out # NoFile
    /\ loaded.kind = "reading" /\ ~loaded.replaced =>
           loaded.place \in 0 .. Len(out.lines) /\ loaded.lines = SubSeq(out.lines, 1, loaded.place)

BuildInv == Files /\ Building /\ Written /\ Read
-----------------------------------------------------------------------------
(* The clusters of some pairs and the lines made of them. *)

(* VariantBuild counts as this module does. *)
LEMMA CountsAgree == ASSUME NEW S PROVE Build!Cardinality(S) = Cardinality(S)
BY DEF Cardinality, Build!Cardinality, IsFiniteSet, Build!IsFiniteSet

(* Min finds the least of some numbers. *)
LEMMA LeastIsMember ==
    ASSUME NEW S \in SUBSET Nat, S # {}
    PROVE  Build!Min(S) \in S
<1>1. PICK n \in S : TRUE
    OBVIOUS
<1>2. \E c \in S : \A d \in S : c <= d
    <2> DEFINE R == OpToRel(<, Nat)
    <2>1. R = {ss \in Nat \X Nat : ss[1] < ss[2]}
        BY DEF OpToRel
    <2>2. IsWellFoundedOn(R, Nat)
        BY NatLessThanWellFounded, Zenon
    <2> HIDE DEF R
    <2>3. PICK c \in S : \A d \in S : ~(<<d, c>> \in R)
        BY <1>1, <2>2, WFMin
    <2>4. ASSUME NEW d \in S PROVE c <= d
        <3>1. c \in Nat /\ d \in Nat /\ ~(<<d, c>> \in R)
            BY <2>3
        <3>2. ~(d < c)
            BY <2>1, <3>1
        <3> QED
            BY <3>1, <3>2
    <2> QED
        BY <2>4
<1> QED
    BY <1>2 DEF Build!Min

(* The greatest of one number. *)
LEMMA GreatestOfOne == ASSUME NEW n \in Nat PROVE Build!Max({n}) = n
<1>1. \E x \in {n} : \A y \in {n} : x >= y
    OBVIOUS
<1> QED
    BY <1>1 DEF Build!Max

(* The lines, and the line of one cluster. *)
Big(pairs) == {D \in Build!ClustersOf(pairs) : Cardinality(D) > 1}
LineOf(C) == [rep |-> Build!Min(C), members |-> C \ {Build!Min(C)}]
Lines(pairs) == {LineOf(C) : C \in Big(pairs)}

(* Clusters do not overlap: a set that respects the edges does so with its
   complement, so none separates two elements of a cluster. *)
LEMMA ConnectedIsClass ==
    ASSUME NEW E \in SUBSET SUBSET Points, NEW x \in Points, NEW y \in Points,
           y \in Build!Classes!Connected(E, x)
    PROVE  Build!Classes!Connected(E, y) = Build!Classes!Connected(E, x)
<1> USE DEF Build!Classes!Connected
<1>1. ASSUME NEW S \in SUBSET Points, Build!Classes!Respects(E, S)
      PROVE  Build!Classes!Respects(E, Points \ S)
    BY <1>1 DEF Build!Classes!Respects
<1>2. ASSUME NEW S \in SUBSET Points, Build!Classes!Respects(E, S)
      PROVE  x \in S <=> y \in S
    <2>1. Points \ S \in SUBSET Points /\ Build!Classes!Respects(E, Points \ S)
        BY <1>1, <1>2
    <2>2. x \in S => y \in S
        BY <1>2
    <2>3. x \in Points \ S => y \in Points \ S
        BY <2>1
    <2> QED
        BY <2>2, <2>3
<1> QED
    BY <1>2

(* Clusters are non-empty sets of characters and disjoint: the complement of a set
   that cuts no pair cuts none. *)
LEMMA ClusterFacts ==
    ASSUME NEW pairs \in SUBSET (Points \X Points)
    PROVE  /\ \A C \in Build!ClustersOf(pairs) : C \subseteq Points /\ C # {}
           /\ \A C, D \in Build!ClustersOf(pairs) : C \cap D # {} => C = D
<1> DEFINE E == {{p[1], p[2]} : p \in pairs}
<1>1. E \in SUBSET SUBSET Points
    OBVIOUS
<1>2. Build!ClustersOf(pairs) = {Build!Classes!Connected(E, x) : x \in UNION E}
    BY DEF Build!ClustersOf
<1> HIDE DEF E
<1>3. ASSUME NEW C \in Build!ClustersOf(pairs)
      PROVE  \E x \in Points : C = Build!Classes!Connected(E, x) /\ x \in C /\ C \subseteq Points
    BY <1>1, <1>2 DEF Build!Classes!Connected
<1>4. ASSUME NEW C \in Build!ClustersOf(pairs), NEW D \in Build!ClustersOf(pairs), C \cap D # {}
      PROVE  C = D
    <2>1. PICK x \in Points : C = Build!Classes!Connected(E, x) /\ C \subseteq Points
        BY <1>3
    <2>2. PICK y \in Points : D = Build!Classes!Connected(E, y)
        BY <1>3
    <2>3. PICK z \in Points : z \in C /\ z \in D
        BY <1>4, <2>1
    <2> QED
        BY <1>1, <2>1, <2>2, <2>3, ConnectedIsClass
<1> QED
    BY <1>3, <1>4

(* Different clusters have different representatives. *)
LEMMA LineFacts ==
    ASSUME Arguments, NEW pairs \in SUBSET (Points \X Points)
    PROVE  /\ \A C \in Big(pairs) : C \subseteq Points /\ Build!Min(C) \in C /\ IsFiniteSet(C)
           /\ \A C, D \in Big(pairs) : LineOf(C) = LineOf(D) => C = D
           /\ \A C, D \in Big(pairs) : Build!Min(C) = Build!Min(D) => C = D
           /\ IsFiniteSet(Big(pairs))
<1>1. \A C \in Big(pairs) : C \subseteq Points /\ C # {}
    BY ClusterFacts DEF Big
<1>2. ASSUME NEW C \in Big(pairs) PROVE C \subseteq Points /\ Build!Min(C) \in C /\ IsFiniteSet(C)
    <2>1. C \in SUBSET Nat /\ C # {}
        BY <1>1 DEF Arguments
    <2> QED
        BY <1>1, <2>1, LeastIsMember, FS_Subset DEF Arguments
<1>3. ASSUME NEW C \in Big(pairs), NEW D \in Big(pairs), Build!Min(C) = Build!Min(D) PROVE C = D
    BY <1>2, <1>3, ClusterFacts DEF Big
<1>4. ASSUME NEW C \in Big(pairs), NEW D \in Big(pairs), LineOf(C) = LineOf(D) PROVE C = D
    BY <1>3, <1>4 DEF LineOf
<1>5. IsFiniteSet(Big(pairs))
    <2>1. Big(pairs) \in SUBSET SUBSET Points
        BY <1>1
    <2> QED
        BY <2>1, FS_SUBSET, FS_Subset DEF Arguments
<1> QED
    BY <1>2, <1>3, <1>4, <1>5

(* Numbers can be listed in order: the place of x is the number of those up to
   it, and places are given out without a gap. *)
LEMMA InOrder ==
    ASSUME NEW L, IsFiniteSet(L), \A l \in L : l.rep \in Nat,
           \A l, m \in L : l.rep = m.rep => l = m
    PROVE  \E s \in [1 .. Cardinality(L) -> L] :
               \A i, j \in DOMAIN s : i < j => s[i].rep < s[j].rep
<1> DEFINE n == Cardinality(L)
           Below(l) == {m \in L : m.rep <= l.rep}
           place == [l \in L |-> Cardinality(Below(l))]
<1>1. n \in Nat /\ IsFiniteSet(1 .. n) /\ Cardinality(1 .. n) = n
    <2>1. n \in Nat
        BY FS_CardinalityType
    <2> HIDE DEF n
    <2>2. 1 \in Int /\ n \in Int
        BY <2>1
    <2> QED
        BY <2>1, <2>2, FS_Interval
<1>2. ASSUME NEW l \in L PROVE IsFiniteSet(Below(l)) /\ Cardinality(Below(l)) \in 1 .. n
    <2>1. Below(l) \in SUBSET L /\ l \in Below(l)
        OBVIOUS
    <2> HIDE DEF Below
    <2>2. IsFiniteSet(Below(l)) /\ Cardinality(Below(l)) <= n
        BY <2>1, FS_Subset
    <2>3. Cardinality(Below(l)) \in Nat /\ Cardinality(Below(l)) # 0
        BY <2>1, <2>2, FS_CardinalityType, FS_EmptySet
    <2> QED
        BY <1>1, <2>2, <2>3
<1>3. ASSUME NEW l \in L, NEW m \in L, l.rep <= m.rep, place[l] = place[m] PROVE l = m \/ m.rep = l.rep
    <2>1. Below(l) \in SUBSET Below(m)
        BY <1>3
    <2>2. Cardinality(Below(l)) = Cardinality(Below(m))
        BY <1>3
    <2>3. m \in Below(m)
        OBVIOUS
    <2>4. Below(l) = Below(m)
        <3> HIDE DEF Below
        <3> QED
            BY <1>2, <2>1, <2>2, FS_Subset
    <2>5. m \in Below(l)
        BY <2>3, <2>4
    <2>6. m.rep <= l.rep
        BY <2>5
    <2> QED
        BY <1>3, <2>6
<1>4. place \in Injection(L, 1 .. n)
    <2>1. place \in [L -> 1 .. n]
        BY <1>2
    <2>2. ASSUME NEW l \in L, NEW m \in L, place[l] = place[m] PROVE l = m
        <3> HIDE DEF place
        <3>1. l.rep <= m.rep \/ m.rep <= l.rep
            OBVIOUS
        <3>2. l.rep = m.rep
            BY <1>3, <2>2, <3>1
        <3> QED
            BY <3>2
    <2> HIDE DEF place
    <2> QED
        BY <2>1, <2>2 DEF Injection, IsInjective
<1>5. place \in Surjection(L, 1 .. n)
    <2> HIDE DEF place
    <2> QED
        BY <1>1, <1>4, FS_Injection
<1>6. \A i \in 1 .. n : \E l \in L : place[l] = i
    <2> HIDE DEF place
    <2> QED
        BY <1>5 DEF Surjection
<1> DEFINE s == [i \in 1 .. n |-> CHOOSE l \in L : place[l] = i]
<1>7. s \in [1 .. n -> L] /\ \A i \in 1 .. n : place[s[i]] = i
    BY <1>6
<1>8. ASSUME NEW i \in 1 .. n, NEW j \in 1 .. n, i < j PROVE s[i].rep < s[j].rep
    <2> HIDE DEF s
    <2>1. PICK a \in L : a = s[i] /\ place[a] = i
        BY <1>7
    <2>2. PICK b \in L : b = s[j] /\ place[b] = j
        BY <1>7
    <2>3. ASSUME b.rep <= a.rep PROVE FALSE
        <3>1. Below(b) \in SUBSET Below(a)
            BY <2>3
        <3>2. IsFiniteSet(Below(a)) /\ Cardinality(Below(a)) = i /\ Cardinality(Below(b)) = j
            BY <1>2, <2>1, <2>2
        <3> HIDE DEF Below
        <3>3. Cardinality(Below(b)) <= Cardinality(Below(a))
            BY <3>1, <3>2, FS_Subset
        <3> QED
            BY <1>1, <1>8, <3>2, <3>3
    <2>4. a.rep \in Nat /\ b.rep \in Nat
        OBVIOUS
    <2> QED
        BY <2>1, <2>2, <2>3, <2>4
<1>9. DOMAIN s = 1 .. n
    OBVIOUS
<1> HIDE DEF s, n
<1>10. s \in [1 .. Cardinality(L) -> L] /\ \A i, j \in DOMAIN s : i < j => s[i].rep < s[j].rep
    BY <1>7, <1>8, <1>9 DEF n
<1> QED
    BY <1>10

(* What _build writes: a line for every cluster of more than one character, no
   two for one. *)
LEMMA OutputFacts ==
    ASSUME Arguments, NEW pairs \in SUBSET (Points \X Points)
    PROVE  /\ Len(Build!OutputLines(pairs)) = Cardinality(Big(pairs))
           /\ Len(Build!OutputLines(pairs)) \in Nat
           /\ Build!OutputLines(pairs) \in [1 .. Len(Build!OutputLines(pairs)) -> Lines(pairs)]
           /\ \A C \in Big(pairs) : \E i \in 1 .. Len(Build!OutputLines(pairs)) :
                  Build!OutputLines(pairs)[i] = LineOf(C)
           /\ \A i, j \in 1 .. Len(Build!OutputLines(pairs)) :
                  Build!OutputLines(pairs)[i] = Build!OutputLines(pairs)[j] => i = j
<1> DEFINE L == Lines(pairs)
           n == Cardinality(L)
           s == Build!OutputLines(pairs)
           line == [C \in Big(pairs) |-> LineOf(C)]
<1>1. line \in Surjection(Big(pairs), L) /\ line \in Injection(Big(pairs), L)
    BY LineFacts DEF Surjection, Injection, IsInjective, Lines
<1>2. IsFiniteSet(L) /\ n = Cardinality(Big(pairs))
    <2> HIDE DEF line
    <2> QED
        BY <1>1, LineFacts, FS_Surjection
<1>3. \A l \in L : l.rep \in Nat
    <2>1. ASSUME NEW C \in Big(pairs) PROVE LineOf(C).rep \in Nat
        BY LineFacts DEF LineOf, Arguments
    <2> QED
        BY <2>1 DEF Lines
<1>4. \A l, m \in L : l.rep = m.rep => l = m
    <2>1. ASSUME NEW C \in Big(pairs), NEW D \in Big(pairs), LineOf(C).rep = LineOf(D).rep
          PROVE  LineOf(C) = LineOf(D)
        BY <2>1, LineFacts DEF LineOf
    <2> QED
        BY <2>1 DEF Lines
<1>5. L = {[rep |-> Build!Min(C), members |-> C \ {Build!Min(C)}] :
              C \in {D \in Build!ClustersOf(pairs) : Build!Cardinality(D) > 1}}
    BY CountsAgree DEF Lines, LineOf, Big
<1>6. s = CHOOSE q \in [1 .. n -> L] : \A i, j \in DOMAIN q : i < j => q[i].rep < q[j].rep
    <2> HIDE DEF L
    <2>1. Build!Cardinality(L) = n
        BY CountsAgree
    <2> QED
        BY <1>5, <2>1 DEF Build!OutputLines
<1> HIDE DEF s, L
<1>7. \E q \in [1 .. n -> L] : \A i, j \in DOMAIN q : i < j => q[i].rep < q[j].rep
    BY <1>2, <1>3, <1>4, InOrder
<1>8. n \in Nat
    BY <1>2, FS_CardinalityType
<1> HIDE DEF n
<1>9. s \in [1 .. n -> L] /\ \A i, j \in DOMAIN s : i < j => s[i].rep < s[j].rep
    BY <1>6, <1>7
<1>10. Len(s) = n
    BY <1>8, <1>9
<1>11. ASSUME NEW i \in 1 .. n, NEW j \in 1 .. n, s[i] = s[j] PROVE i = j
    <2>1. ~(i < j) /\ ~(j < i)
        <3>1. s[i].rep \in Nat /\ s[j].rep \in Nat
            BY <1>3, <1>9
        <3>2. i < j => s[i].rep < s[j].rep
            BY <1>9
        <3>3. j < i => s[j].rep < s[i].rep
            BY <1>9
        <3> QED
            BY <1>11, <3>1, <3>2, <3>3
    <2> QED
        BY <1>8, <2>1
<1>12. IsFiniteSet(1 .. n) /\ Cardinality(1 .. n) = n
    <2>1. 1 \in Int /\ n \in Int
        BY <1>8
    <2> QED
        BY <1>8, <2>1, FS_Interval
<1>13. s \in Injection(1 .. n, L)
    BY <1>9, <1>11 DEF Injection, IsInjective
<1>14. s \in Surjection(1 .. n, L)
    BY <1>2, <1>12, <1>13, FS_Injection DEF n
<1>15. ASSUME NEW C \in Big(pairs) PROVE \E i \in 1 .. n : s[i] = LineOf(C)
    <2>1. LineOf(C) \in L
        BY DEF L, Lines
    <2> QED
        BY <1>14, <2>1 DEF Surjection
<1>16. /\ Len(s) = Cardinality(Big(pairs)) /\ Len(s) \in Nat
       /\ s \in [1 .. Len(s) -> L]
       /\ \A C \in Big(pairs) : \E i \in 1 .. Len(s) : s[i] = LineOf(C)
       /\ \A i, j \in 1 .. Len(s) : s[i] = s[j] => i = j
    BY <1>2, <1>8, <1>9, <1>10, <1>11, <1>15
<1> QED
    BY <1>16 DEF s, L

-----------------------------------------------------------------------------
(* The files hold pairs of characters. *)
LEMMA ParsedPairs ==
    ASSUME NEW text \in Seq(Seq(Seq(Points)))
    PROVE  Build!parse_opencc_tsv(text) \in SUBSET (Points \X Points)
<1>1. ASSUME NEW line \in Seq(Seq(Points))
      PROVE  Build!ParseLine(line) \in SUBSET (Points \X Points)
    <2>1. ASSUME NEW i \in 2 .. Len(line), Len(line[1]) = 1, Len(line[i]) = 1
          PROVE  line[1][1] \in Points /\ line[i][1] \in Points
        <3>1. Len(line) \in Nat /\ i \in 1 .. Len(line) /\ 1 \in 1 .. Len(line)
            BY <2>1
        <3>2. line[1] \in Seq(Points) /\ line[i] \in Seq(Points)
            BY <3>1
        <3> QED
            BY <2>1, <3>2
    <2> QED
        BY <2>1 DEF Build!ParseLine
<1>2. ASSUME NEW i \in DOMAIN text PROVE text[i] \in Seq(Seq(Points))
    OBVIOUS
<1> QED
    BY <1>1, <1>2 DEF Build!parse_opencc_tsv

(* The pairs of the files are pairs of characters. *)
LEMMA PairsArePairs ==
    ASSUME Arguments, NEW fs, NEW n \in Nat, \A i \in 1 .. n : fs[i].lines \in Seq(Seq(Seq(Points)))
    PROVE  PairsOf(fs, n) \in SUBSET (Points \X Points)
BY ParsedPairs DEF PairsOf

(* Dictionaries are numbered, and their lines are sequences of words. *)
LEMMA DictFacts ==
    ASSUME Arguments
    PROVE  /\ Build!Dicts = 1 .. Build!LastDict /\ Build!LastDict \in Nat /\ Build!LastDict > 0
           /\ \A i \in Build!Dicts : Source[i] \in Seq(Seq(Seq(Points)))
<1>1. Len(Source) \in Nat /\ Len(Source) > 0 /\ DOMAIN Source = 1 .. Len(Source)
    <2> DEFINE T == Seq(Seq(Seq(Points)))
    <2>1. Source \in Seq(T) /\ Source # <<>>
        BY DEF Arguments
    <2> HIDE DEF T
    <2> QED
        BY <2>1
<1>2. ASSUME NEW i \in DOMAIN Source PROVE Source[i] \in Seq(Seq(Seq(Points)))
    <2> DEFINE T == Seq(Seq(Seq(Points)))
    <2>1. Source \in Seq(T)
        BY DEF Arguments
    <2> HIDE DEF T
    <2>2. Source[i] \in T
        BY <2>1
    <2> QED
        BY <2>2 DEF T
<1> QED
    BY <1>1, <1>2 DEF Build!Dicts, Build!LastDict

(* What is left of a download that was cut off is text still. *)
LEMMA CutIsText ==
    ASSUME NEW text \in Seq(Seq(Seq(Points))), NEW n \in 0 .. Len(text) - 1,
           NEW rest, rest \in {<<>>} \cup {<<l>> : l \in Build!Cuts(text[n + 1])}
    PROVE  SubSeq(text, 1, n) \o rest \in Seq(Seq(Seq(Points)))
<1>1. text[n + 1] \in Seq(Seq(Points))
    <2> DEFINE T == Seq(Seq(Points))
    <2>1. text \in Seq(T) /\ n + 1 \in 1 .. Len(text)
        OBVIOUS
    <2> HIDE DEF T
    <2>2. text[n + 1] \in T
        BY <2>1
    <2> QED
        BY <2>2 DEF T
<1>2. ASSUME NEW line \in Seq(Seq(Points)), NEW i \in DOMAIN line, NEW k \in 1 .. Len(line[i])
      PROVE  Append(SubSeq(line, 1, i - 1), SubSeq(line[i], 1, k)) \in Seq(Seq(Points))
    <2>1. line[i] \in Seq(Points)
        <3> DEFINE W == Seq(Points)
        <3>1. line \in Seq(W)
            OBVIOUS
        <3> HIDE DEF W
        <3>2. line[i] \in W
            BY <3>1
        <3> QED
            BY <3>2 DEF W
    <2>2. SubSeq(line[i], 1, k) \in Seq(Points)
        <3> DEFINE w == line[i]
        <3>1. w \in Seq(Points) /\ k \in 1 .. Len(w)
            BY <2>1
        <3> HIDE DEF w
        <3>2. SubSeq(w, 1, k) \in Seq(Points)
            BY <3>1
        <3> QED
            BY <3>2 DEF w
    <2> DEFINE W == Seq(Points)
               w == SubSeq(line[i], 1, k)
    <2>3. line \in Seq(W) /\ w \in W /\ i \in 1 .. Len(line)
        BY <2>2
    <2> HIDE DEF W, w
    <2>4. Append(SubSeq(line, 1, i - 1), w) \in Seq(W)
        BY <2>3
    <2> QED
        BY <2>4 DEF W, w
<1> DEFINE T == Seq(Seq(Points))
           cut == text[n + 1]
<1>3. \A l \in Build!Cuts(cut) : l \in T
    <2>1. cut \in T
        BY <1>1
    <2>2. ASSUME NEW i \in DOMAIN cut, NEW k \in 1 .. Len(cut[i])
          PROVE  Append(SubSeq(cut, 1, i - 1), SubSeq(cut[i], 1, k)) \in T
        <3> HIDE DEF cut
        <3> QED
            BY <1>2, <2>1, <2>2
    <2>3. ASSUME NEW l \in Build!Cuts(cut) PROVE l \in T
        <3> HIDE DEF T, cut
        <3>1. \E i \in DOMAIN cut : \E k \in 1 .. Len(cut[i]) :
                  l = Append(SubSeq(cut, 1, i - 1), SubSeq(cut[i], 1, k))
            BY Zenon DEF Build!Cuts
        <3> QED
            BY <2>2, <3>1
    <2> QED
        BY <2>3
<1>4. text \in Seq(T) /\ rest \in Seq(T)
    <2>1. rest \in {<<>>} \cup {<<l>> : l \in Build!Cuts(cut)}
        OBVIOUS
    <2>2. text \in Seq(T)
        OBVIOUS
    <2> HIDE DEF T, cut
    <2>3. CASE rest = <<>>
        BY <2>2, <2>3
    <2>4. ASSUME NEW l \in Build!Cuts(cut), rest = <<l>> PROVE rest \in Seq(T)
        <3>1. l \in T
            BY <1>3
        <3> QED
            BY <3>1, <2>4
    <2> QED
        BY <2>1, <2>2, <2>3, <2>4
<1> HIDE DEF T, cut
<1>5. SubSeq(text, 1, n) \in Seq(T)
    BY <1>4
<1>6. SubSeq(text, 1, n) \o rest \in Seq(T)
    BY <1>4, <1>5
<1> QED
    BY <1>6 DEF T

-----------------------------------------------------------------------------
(* The invariant of the build. *)

(* Initially nothing is downloaded, and the output is none or the shipped one. *)
LEMMA BuildInit == ASSUME Arguments, Build!Init PROVE BuildInv
<1> USE DEF Build!Init
<1>1. Files
    BY DEF Files
<1>2. Building
    BY DictFacts DEF Building
<1>3. Written
    <2>1. out \in {NoFile, Build!Shipped} /\ intact = TRUE /\ complete = FALSE
        OBVIOUS
    <2>2. Build!Shipped = Build!Text(Build!Shipped.lines, Build!Shipped.torn) /\ Build!Shipped.torn = FALSE
        BY DEF Build!Shipped, Build!Text
    <2> HIDE DEF Build!Init
    <2> QED
        BY <2>1, <2>2 DEF Written
<1>4. Read
    <2>1. loaded.kind = "none" /\ loaded.replaced = FALSE
        BY DEF Build!Loading
    <2> HIDE DEF Build!Init
    <2> QED
        BY <2>1 DEF Read
<1> QED
    BY <1>1, <1>2, <1>3, <1>4 DEF BuildInv

(* Once a build has opened the output the files never change, so neither do its
   lines. *)
LEMMA WrittenKept ==
    ASSUME Arguments, BuildInv, UNCHANGED out, intact' \in BOOLEAN, complete' = complete,
           raw' = raw \/ ~Present(raw)
    PROVE  Written'
BY DEF BuildInv, Written, PartOf

(* What was loaded stays what it was. *)
LEMMA ReadKept ==
    ASSUME BuildInv, UNCHANGED <<loaded, out>>, raw' = raw \/ ~Present(raw)
    PROVE  Read'
BY DEF BuildInv, Read, PartOf

(* The steps of the builder that leave the files alone. *)
LEMMA BuildBeginsOK == ASSUME Arguments, BuildInv, Build!BuildBegins PROVE BuildInv'
<1> USE DEF Build!BuildBegins
<1>1. Files'
    BY DEF BuildInv, Files
<1>2. Building'
    BY DictFacts DEF BuildInv, Building
<1>3. Written' /\ Read'
    BY WrittenKept, ReadKept DEF BuildInv, Written
<1> QED
    BY <1>1, <1>2, <1>3 DEF BuildInv

(* A build that dies loses its buffer and leaves the files. *)
LEMMA BuildDiesOK == ASSUME Arguments, BuildInv, Build!BuildDies PROVE BuildInv'
<1> USE DEF Build!BuildDies
<1>1. Files'
    BY DEF BuildInv, Files
<1>2. Building'
    BY DictFacts DEF BuildInv, Building
<1>3. Written' /\ Read'
    BY WrittenKept, ReadKept DEF BuildInv, Written
<1> QED
    BY <1>1, <1>2, <1>3 DEF BuildInv

(* The last dictionary ends a phase, another leads to the next. *)
LEMMA ProceedFacts ==
    ASSUME Arguments, BuildInv, NEW next, Build!Proceed(next)
    PROVE  /\ at' \in Build!Dicts
           /\ \/ at = Build!LastDict /\ phase' = next /\ at' = 1
              \/ at < Build!LastDict /\ phase' = phase /\ at' = at + 1
<1>1. at \in 1 .. Build!LastDict /\ Build!LastDict \in Nat
    BY DictFacts DEF BuildInv, Building
<1>2. CASE at = Build!LastDict
    BY <1>1, <1>2, DictFacts DEF Build!Proceed
<1>3. CASE at # Build!LastDict
    <2>1. at' = at + 1 /\ phase' = phase
        BY <1>3 DEF Build!Proceed
    <2>2. at \in Nat /\ at < Build!LastDict
        BY <1>1, <1>3
    <2>3. at + 1 \in 1 .. Build!LastDict
        BY <1>1, <2>2
    <2> QED
        BY <2>1, <2>2, <2>3, DictFacts
<1> QED
    BY <1>2, <1>3

(* A download is there when the builder goes on to the next. *)
LEMMA DownloadedBuilding ==
    ASSUME Arguments, BuildInv, phase = "download", Build!Proceed("parse"), raw'[at] # NoFile,
           \A i \in Build!Dicts : i # at => raw'[i] = raw[i],
           UNCHANGED <<found, pending, complete, out>>
    PROVE  Building'
<1>1. PICK n \in 1 .. Build!LastDict : n = at
    BY DictFacts DEF BuildInv, Building
<1>2. /\ found = {} /\ Build!LastDict \in Nat /\ Build!Dicts = 1 .. Build!LastDict
      /\ \A i \in 1 .. n - 1 : raw[i] # NoFile
    BY <1>1, DictFacts DEF BuildInv, Building
<1>3. \A i \in 1 .. n : raw'[i] # NoFile
    BY <1>1, <1>2
<1>4. CASE at = Build!LastDict /\ phase' = "parse" /\ at' = 1
    <2>1. Present(raw)'
        BY <1>1, <1>2, <1>3, <1>4 DEF Present
    <2>2. PairsOf(raw, at - 1)' = {}
        BY <1>4 DEF PairsOf
    <2> QED
        BY <1>2, <1>4, <2>1, <2>2, ProceedFacts DEF Building
<1>5. CASE phase' = phase /\ at' = at + 1
    <2>1. PICK m \in Nat : m = n + 1 /\ m - 1 = n
        BY <1>1, <1>2
    <2>2. at' = m
        BY <1>1, <1>5, <2>1
    <2>3. \A i \in 1 .. m - 1 : raw'[i] # NoFile
        BY <1>3, <2>1
    <2> QED
        BY <1>2, <1>5, <2>2, <2>3, ProceedFacts DEF Building
<1> QED
    BY <1>4, <1>5, ProceedFacts

(* A file that is there is not downloaded again. *)
LEMMA AlreadyDownloadedOK == ASSUME Arguments, BuildInv, Build!AlreadyDownloaded PROVE BuildInv'
<1> USE DEF Build!AlreadyDownloaded
<1>1. Files'
    BY DEF BuildInv, Files
<1>2. Building'
    BY DownloadedBuilding
<1>3. Written' /\ Read'
    BY WrittenKept, ReadKept DEF BuildInv, Written
<1> QED
    BY <1>1, <1>2, <1>3 DEF BuildInv

(* A download that ends makes a file of the source. *)
LEMMA DownloadOK == ASSUME Arguments, BuildInv, Build!Download PROVE BuildInv'
<1> USE DEF Build!Download
<1>1. at \in Build!Dicts /\ DOMAIN raw = Build!Dicts
    BY DEF BuildInv, Building, Files
<1>2. \A i \in Build!Dicts : raw'[i] = IF i = at THEN Build!Text(Source[at], FALSE) ELSE raw[i]
    BY <1>1
<1>3. DOMAIN raw' = Build!Dicts /\ intact' = intact
    BY <1>1
<1>4. Build!Text(Source[at], FALSE) \in Texts
    BY <1>1, DictFacts DEF Texts, Build!Text
<1>5. Files'
    <2>1. \A i \in Build!Dicts : raw'[i] # NoFile => raw'[i] \in Texts
        BY <1>2, <1>4 DEF BuildInv, Files
    <2>2. intact' => \A i \in Build!Dicts : raw'[i] \in {NoFile, Build!Text(Source[i], FALSE)}
        <3> HIDE DEF Build!Download
        <3>1. intact => \A i \in Build!Dicts : raw[i] \in {NoFile, Build!Text(Source[i], FALSE)}
            BY DEF BuildInv, Files
        <3>2. ASSUME intact', NEW i \in Build!Dicts
              PROVE  raw'[i] \in {NoFile, Build!Text(Source[i], FALSE)}
            <4>1. CASE i = at
                BY <1>2, <4>1
            <4>2. CASE i # at
                <5>1. raw'[i] = raw[i] /\ intact
                    BY <1>2, <1>3, <3>2, <4>2
                <5> QED
                    BY <3>1, <5>1
            <4> QED
                BY <4>1, <4>2
        <3> QED
            BY <3>2
    <2> QED
        BY <1>3, <2>1, <2>2 DEF Files
<1>6. raw'[at] # NoFile
    BY <1>1, <1>2 DEF Arguments
<1>7. Building'
    BY <1>2, <1>6, DownloadedBuilding
<1>8. Written' /\ Read'
    <2>1. ~Present(raw)
        BY <1>1 DEF Present
    <2> QED
        BY <2>1, WrittenKept, ReadKept DEF BuildInv, Written
<1> QED
    BY <1>5, <1>7, <1>8 DEF BuildInv

(* A download that is cut off leaves a part of it. *)
LEMMA DownloadCutOK == ASSUME Arguments, BuildInv, Build!DownloadCut PROVE BuildInv'
<1> USE DEF Build!DownloadCut
<1>1. at \in Build!Dicts /\ DOMAIN raw = Build!Dicts
    BY DEF BuildInv, Building, Files
<1>2. PICK n \in 0 .. Len(Source[at]) - 1, torn \in BOOLEAN :
          \E rest \in {<<>>} \cup {<<l>> : l \in Build!Cuts(Source[at][n + 1])} :
              raw' = [raw EXCEPT ![at] = Build!Text(SubSeq(Source[at], 1, n) \o rest, torn)]
    OBVIOUS
<1>3. PICK rest \in {<<>>} \cup {<<l>> : l \in Build!Cuts(Source[at][n + 1])} :
          raw' = [raw EXCEPT ![at] = Build!Text(SubSeq(Source[at], 1, n) \o rest, torn)]
    BY <1>2
<1> DEFINE left == Build!Text(SubSeq(Source[at], 1, n) \o rest, torn)
<1>4. left \in Texts
    <2>1. Source[at] \in Seq(Seq(Seq(Points)))
        BY <1>1, DictFacts
    <2>2. SubSeq(Source[at], 1, n) \o rest \in Seq(Seq(Seq(Points)))
        BY <2>1, CutIsText
    <2> QED
        BY <2>2 DEF Texts, Build!Text
<1>5. DOMAIN raw' = Build!Dicts /\ ~intact'
    BY <1>1, <1>3
<1>6. \A i \in Build!Dicts : raw'[i] = IF i = at THEN left ELSE raw[i]
    BY <1>1, <1>3
<1>7. Files'
    <2> HIDE DEF left
    <2> QED
        BY <1>4, <1>5, <1>6 DEF BuildInv, Files
<1>8. Building'
    BY DictFacts DEF BuildInv, Building
<1>9. Written' /\ Read'
    <2>1. ~Present(raw)
        BY <1>1 DEF Present
    <2> QED
        BY <2>1, WrittenKept, ReadKept DEF BuildInv, Written
<1> QED
    BY <1>7, <1>8, <1>9 DEF BuildInv

(* A file is read, or the build fails at it. *)
LEMMA ParseOK == ASSUME Arguments, BuildInv, Build!Parse PROVE BuildInv'
<1> USE DEF Build!Parse
<1>1. PICK n \in 1 .. Build!LastDict : n = at
    BY DictFacts DEF BuildInv, Building
<1>2. /\ Build!LastDict \in Nat /\ Build!Dicts = 1 .. Build!LastDict
      /\ found = PairsOf(raw, n - 1) /\ Present(raw) /\ found \subseteq Points \X Points
    BY <1>1, DictFacts DEF BuildInv, Building
<1>3. Files'
    BY DEF BuildInv, Files
<1>4. Written' /\ Read'
    BY WrittenKept, ReadKept DEF BuildInv, Written
<1>5. ASSUME at = Build!LastDict, phase' = "cluster", at' = 1 PROVE Building'
    <2>1. found' = found
        BY <1>5
    <2> QED
        BY <1>1, <1>2, <1>5, <2>1, ProceedFacts DEF Building
<1>6. ASSUME at < Build!LastDict, phase' = phase, at' = at + 1 PROVE Building'
    <2>1. found' = found \cup Build!parse_opencc_tsv(raw[n].lines)
        BY <1>1, <1>2, <1>6
    <2>2. PICK m \in Nat : m = n + 1 /\ m - 1 = n /\ n \in Nat
        BY <1>1, <1>2
    <2>3. 1 .. n = (1 .. n - 1) \cup {n}
        BY <2>2, <1>1
    <2>4. PairsOf(raw, n) = PairsOf(raw, n - 1) \cup Build!parse_opencc_tsv(raw[n].lines)
        BY <2>3, Zenon DEF PairsOf
    <2>5. at' = m
        BY <1>1, <1>6, <2>2
    <2>6. found' = PairsOf(raw, m - 1)
        BY <1>2, <2>1, <2>2, <2>4
    <2>7. found' \subseteq Points \X Points
        <3>1. raw[n] \in Texts
            BY <1>2 DEF BuildInv, Files, Present
        <3>2. raw[n].lines \in Seq(Seq(Seq(Points)))
            BY <3>1 DEF Texts
        <3> QED
            BY <1>2, <2>1, <3>2, ParsedPairs
    <2> QED
        BY <1>2, <1>6, <2>5, <2>6, <2>7, ProceedFacts DEF Building
<1>7. Building'
    BY <1>5, <1>6, ProceedFacts
<1> QED
    BY <1>3, <1>4, <1>7 DEF BuildInv

(* The output: emptied, filled line by line in the order of the list, closed. *)
LEMMA SortedLinesFacts ==
    ASSUME Arguments, Files, Present(raw)
    PROVE  /\ PairsOf(raw, Build!LastDict - 1) \in SUBSET (Points \X Points)
           /\ Len(LinesOf(raw)) \in Nat
           /\ LinesOf(raw) \in Seq(Lines(PairsOf(raw, Build!LastDict - 1)))
<1> DEFINE n == Build!LastDict - 1
<1>1. n \in Nat /\ \A i \in 1 .. n : i \in Build!Dicts
    BY DictFacts
<1>2. \A i \in Build!Dicts : raw[i].lines \in Seq(Seq(Seq(Points)))
    BY DEF Files, Present, Texts
<1> HIDE DEF n
<1>3. PairsOf(raw, n) \in SUBSET (Points \X Points)
    BY <1>1, <1>2, PairsArePairs
<1>4. LinesOf(raw) = Build!OutputLines(PairsOf(raw, n))
    BY DEF LinesOf, n
<1>5. Len(LinesOf(raw)) \in Nat /\ LinesOf(raw) \in [1 .. Len(LinesOf(raw)) -> Lines(PairsOf(raw, n))]
    BY <1>3, <1>4, OutputFacts
<1>6. LinesOf(raw) \in Seq(Lines(PairsOf(raw, n)))
    BY <1>5
<1> QED
    BY <1>3, <1>5, <1>6 DEF n

(* The parts of a list. *)
LEMMA PartFacts ==
    ASSUME NEW S, NEW s \in Seq(S), NEW k \in 0 .. Len(s)
    PROVE  /\ SubSeq(s, 1, k) \in Seq(S) /\ Len(SubSeq(s, 1, k)) = k
           /\ \A j \in 0 .. k : SubSeq(SubSeq(s, 1, k), 1, j) = SubSeq(s, 1, j)
           /\ SubSeq(s, 1, Len(s)) = s
<1>1. SubSeq(s, 1, k) \in Seq(S) /\ Len(SubSeq(s, 1, k)) = k
    OBVIOUS
<1>2. SubSeq(s, 1, Len(s)) = s
    OBVIOUS
<1>3. ASSUME NEW j \in 0 .. k PROVE SubSeq(SubSeq(s, 1, k), 1, j) = SubSeq(s, 1, j)
    <2> DEFINE p == SubSeq(s, 1, k)
    <2>1. p \in Seq(S) /\ Len(p) = k /\ \A i \in 1 .. k : p[i] = s[i]
        OBVIOUS
    <2> HIDE DEF p
    <2> QED
        BY <1>3, <2>1 DEF p
<1> QED
    BY <1>1, <1>2, <1>3

(* Reading on from a place of a list. *)
LEMMA ReadOn ==
    ASSUME NEW S, NEW s \in Seq(S), NEW k \in 0 .. Len(s), NEW n \in k + 1 .. Len(s)
    PROVE  SubSeq(s, 1, k) \o SubSeq(s, k + 1, n) = SubSeq(s, 1, n)
OBVIOUS

(* The output is a list, whoever wrote it. *)
LEMMA OutIsList ==
    ASSUME Arguments, BuildInv, out # NoFile
    PROVE  \E S : out.lines \in Seq(S)
<1>1. CASE out = Build!Shipped
    <2> DEFINE list == Build!OutputLines(Earlier)
    <2>1. out.lines = list
        BY <1>1 DEF Build!Shipped, Build!Text
    <2>2. Len(list) \in Nat /\ list \in [1 .. Len(list) -> Lines(Earlier)]
        BY OutputFacts DEF Arguments
    <2> HIDE DEF list
    <2>3. list \in Seq(Lines(Earlier))
        BY <2>2
    <2> QED
        BY <2>1, <2>3
<1>2. CASE PartOf(out.lines, raw)
    <2> DEFINE list == LinesOf(raw)
               S == Lines(PairsOf(raw, Build!LastDict - 1))
    <2>1. list \in Seq(S)
        BY <1>2, SortedLinesFacts DEF BuildInv, PartOf
    <2>2. PICK k \in 0 .. Len(list) : out.lines = SubSeq(list, 1, k)
        BY <1>2 DEF PartOf, Initial
    <2> HIDE DEF list, S
    <2>3. out.lines \in Seq(S)
        BY <2>1, <2>2, PartFacts
    <2> QED
        BY <2>3
<1> QED
    BY <1>1, <1>2 DEF BuildInv, Written

(* The output is emptied once every file was read. *)
LEMMA OpenOutputOK == ASSUME Arguments, BuildInv, Build!OpenOutput PROVE BuildInv'
<1> USE DEF Build!OpenOutput
<1>1. Present(raw) /\ found = PairsOf(raw, Build!LastDict - 1) /\ found \subseteq Points \X Points
    BY DEF BuildInv, Building
<1>2. Files'
    BY DEF BuildInv, Files
<1>3. pending' = LinesOf(raw)
    BY <1>1 DEF LinesOf
<1>4. out' # NoFile
    BY DEF Arguments
<1>5. PartOf(<<>>, raw)
    <2>1. Len(LinesOf(raw)) \in Nat /\ LinesOf(raw) \in Seq(Lines(found))
        BY <1>1, SortedLinesFacts DEF BuildInv
    <2>2. 0 \in 0 .. Len(LinesOf(raw)) /\ SubSeq(LinesOf(raw), 1, 0) = <<>>
        BY <2>1
    <2> QED
        BY <1>1, <2>2 DEF PartOf, Initial
<1>6. out' = Build!Text(<<>>, FALSE) /\ out'.lines = <<>> /\ out'.torn = FALSE /\ raw' = raw
    BY DEF Build!Text
<1>7. Building'
    <2>1. at \in Build!Dicts
        BY DEF BuildInv, Building
    <2> QED
        BY <1>1, <1>3, <1>4, <1>5, <1>6, <2>1 DEF Building
<1>8. Written'
    <2>1. intact' \in BOOLEAN /\ complete' = FALSE
        BY DEF BuildInv, Written
    <2> QED
        BY <1>5, <1>6, <2>1 DEF Written
<1>9. Read'
    <2>1. CASE loaded.kind = "reading" /\ ~loaded.replaced
        <3>1. loaded'.kind = "reading" /\ loaded'.replaced = TRUE
            BY <2>1 DEF Build!Loading
        <3> HIDE DEF Build!OpenOutput
        <3> QED
            BY <1>4, <3>1 DEF Read
    <2>2. CASE ~(loaded.kind = "reading" /\ ~loaded.replaced)
        <3>1. loaded' = loaded
            BY <2>2
        <3> HIDE DEF Build!OpenOutput
        <3> QED
            BY <1>4, <1>6, <2>2, <3>1 DEF BuildInv, Read
    <2> QED
        BY <2>1, <2>2
<1> QED
    BY <1>2, <1>7, <1>8, <1>9 DEF BuildInv

(* What a reader has read is a part of what the file holds later on. *)
LEMMA ReadAhead ==
    ASSUME Arguments, BuildInv, phase = "write", UNCHANGED <<loaded, raw>>, out' # NoFile,
           NEW n \in Len(out.lines) .. Len(LinesOf(raw)), out'.lines = SubSeq(LinesOf(raw), 1, n)
    PROVE  Read'
<1> DEFINE list == LinesOf(raw)
<1>1. PartOf(out.lines, raw) /\ out # NoFile /\ Read
    BY DEF BuildInv, Building
<1>2. list \in Seq(Lines(PairsOf(raw, Build!LastDict - 1))) /\ Len(list) \in Nat
    BY <1>1, SortedLinesFacts DEF BuildInv, PartOf
<1>3. PICK k \in 0 .. Len(list) : out.lines = SubSeq(list, 1, k)
    BY <1>1 DEF PartOf, Initial
<1> HIDE DEF list
<1>4. Len(out.lines) = k /\ n \in 0 .. Len(list) /\ k <= n
    BY <1>2, <1>3, PartFacts DEF list
<1>5. Len(out'.lines) = n /\ \A j \in 0 .. k : SubSeq(out'.lines, 1, j) = SubSeq(out.lines, 1, j)
    <2>1. ASSUME NEW j \in 0 .. k PROVE SubSeq(out'.lines, 1, j) = SubSeq(out.lines, 1, j)
        <3>1. j \in 0 .. n
            BY <1>4
        <3>2. SubSeq(out.lines, 1, j) = SubSeq(list, 1, j)
            BY <1>2, <1>3, PartFacts
        <3>3. SubSeq(out'.lines, 1, j) = SubSeq(list, 1, j)
            BY <1>2, <1>4, <3>1, PartFacts DEF list
        <3> QED
            BY <3>2, <3>3
    <2>2. Len(out'.lines) = n
        BY <1>2, <1>4, PartFacts DEF list
    <2> QED
        BY <2>1, <2>2
<1>6. loaded'.kind = "map" /\ ~loaded'.replaced =>
          \/ loaded'.lines = <<>> \/ Initial(loaded'.lines, Build!OutputLines(Earlier))
          \/ PartOf(loaded'.lines, raw')
    BY <1>1 DEF Read
<1>7. ASSUME loaded'.kind = "reading", ~loaded'.replaced
      PROVE  loaded'.place \in 0 .. Len(out'.lines) /\ loaded'.lines = SubSeq(out'.lines, 1, loaded'.place)
    <2>1. loaded.place \in 0 .. k /\ loaded.lines = SubSeq(out.lines, 1, loaded.place)
        BY <1>1, <1>4, <1>7 DEF Read
    <2>2. loaded.place \in 0 .. n
        BY <1>4, <2>1
    <2> QED
        BY <1>5, <2>1, <2>2
<1>8. loaded'.kind \in {"none", "reading", "raised", "map"} /\ loaded'.replaced \in BOOLEAN
    BY <1>1 DEF Read
<1> QED
    BY <1>6, <1>7, <1>8 DEF Read

(* A line that is flushed is the next one of the list. *)
LEMMA FlushOK == ASSUME Arguments, BuildInv, Build!Flush PROVE BuildInv'
<1> USE DEF Build!Flush
<1>1. Present(raw) /\ pending = LinesOf(raw) /\ out # NoFile /\ ~complete /\ PartOf(out.lines, raw)
    BY DEF BuildInv, Building
<1>2. PICK n \in Len(out.lines) .. Len(pending), torn \in BOOLEAN :
          out' = Build!Text(SubSeq(pending, 1, n), torn)
    OBVIOUS
<1>3. Files'
    BY DEF BuildInv, Files
<1>4. out' # NoFile
    BY <1>2 DEF Arguments
<1>5. n \in 0 .. Len(LinesOf(raw))
    <2>1. Len(LinesOf(raw)) \in Nat /\ LinesOf(raw) \in Seq(Lines(PairsOf(raw, Build!LastDict - 1)))
        BY <1>1, SortedLinesFacts DEF BuildInv
    <2>2. PICK k \in 0 .. Len(LinesOf(raw)) : out.lines = SubSeq(LinesOf(raw), 1, k)
        BY <1>1 DEF PartOf, Initial
    <2>3. Len(out.lines) = k
        BY <2>1, <2>2, PartFacts
    <2> QED
        BY <1>1, <1>2, <2>1, <2>2, <2>3
<1>6. /\ out'.lines = SubSeq(LinesOf(raw), 1, n) /\ out'.torn = torn
      /\ out' = Build!Text(out'.lines, out'.torn) /\ raw' = raw
    BY <1>1, <1>2 DEF Build!Text
<1>7. PartOf(out'.lines, raw)
    BY <1>1, <1>5, <1>6 DEF PartOf, Initial
<1>8. Building'
    BY <1>1, <1>4, <1>6, <1>7 DEF BuildInv, Building
<1>9. Written'
    <2>1. intact' \in BOOLEAN /\ complete' = FALSE
        BY <1>1 DEF BuildInv, Written
    <2> HIDE DEF Build!Flush
    <2> QED
        BY <1>2, <1>6, <1>7, <2>1 DEF Written
<1>10. Read'
    BY <1>1, <1>2, <1>4, <1>6, ReadAhead
<1> QED
    BY <1>3, <1>8, <1>9, <1>10 DEF BuildInv

(* The output is closed with every line. *)
LEMMA CloseOutputOK == ASSUME Arguments, BuildInv, Build!CloseOutput PROVE BuildInv'
<1> USE DEF Build!CloseOutput
<1> DEFINE s == LinesOf(raw)
<1>1. Present(raw) /\ pending = s /\ PartOf(out.lines, raw)
    BY DEF BuildInv, Building
<1>2. Files'
    BY DEF BuildInv, Files
<1>3. Building'
    BY DEF BuildInv, Building
<1>4. Len(s) \in Nat /\ s \in Seq(Lines(PairsOf(raw, Build!LastDict - 1)))
    BY <1>1, SortedLinesFacts DEF BuildInv
<1>5. out' = Build!Text(s, FALSE) /\ raw' = raw /\ out'.lines = s /\ out'.torn = FALSE
    BY <1>1 DEF Build!Text
<1>6. out' # NoFile
    BY <1>5 DEF Arguments
<1>7. s = SubSeq(s, 1, Len(s)) /\ Len(s) \in Len(out.lines) .. Len(s)
    <2>1. PICK k \in 0 .. Len(s) : out.lines = SubSeq(s, 1, k)
        BY <1>1 DEF PartOf, Initial
    <2> HIDE DEF s
    <2>2. Len(out.lines) = k
        BY <1>4, <2>1, PartFacts
    <2> QED
        BY <1>4, <2>1, <2>2
<1>8. PartOf(s, raw)
    <2> HIDE DEF s
    <2>1. Len(s) \in 0 .. Len(s)
        BY <1>4
    <2> QED
        BY <1>1, <1>7, <2>1 DEF PartOf, Initial, s
<1>9. Written'
    <2>1. intact' \in BOOLEAN /\ complete' = TRUE
        BY DEF BuildInv, Written
    <2> HIDE DEF Build!CloseOutput
    <2> QED
        BY <1>1, <1>5, <1>8, <2>1 DEF Written
<1>10. Read'
    BY <1>5, <1>6, <1>7, ReadAhead
<1> QED
    BY <1>2, <1>3, <1>9, <1>10 DEF BuildInv

(* A load reads what is there, line by line. *)
LEMMA LoadOK ==
    ASSUME Arguments, BuildInv,
           Build!LoadBegins \/ Build!LoadReads \/ Build!LoadEnds \/ Build!LoadRaises
    PROVE  BuildInv'
<1>1. UNCHANGED <<raw, out, phase, at, found, pending, intact, complete>>
    BY DEF Build!LoadBegins, Build!LoadReads, Build!LoadEnds, Build!LoadRaises
<1>2. Files' /\ Building'
    BY <1>1 DEF BuildInv, Files, Building, PartOf
<1>3. Written'
    BY <1>1, WrittenKept DEF BuildInv, Written
<1>4. CASE Build!LoadBegins
    <2>1. Read'
        <3>1. CASE out = NoFile
            <4>1. loaded' = Build!Loading("map", <<>>, 0, FALSE)
                BY <1>4, <3>1 DEF Build!LoadBegins
            <4>2. loaded'.kind = "map" /\ loaded'.lines = <<>> /\ loaded'.replaced = FALSE
                BY <4>1 DEF Build!Loading
            <4> QED
                BY <4>2 DEF Read
        <3>2. CASE out # NoFile
            <4>1. PICK S : out.lines \in Seq(S)
                BY <3>2, OutIsList
            <4>2. loaded' = Build!Loading("reading", <<>>, 0, FALSE)
                BY <1>4, <3>2 DEF Build!LoadBegins
            <4>3. SubSeq(out.lines, 1, 0) = <<>> /\ 0 \in 0 .. Len(out.lines)
                BY <4>1
            <4>4. /\ loaded'.kind = "reading" /\ loaded'.lines = <<>> /\ loaded'.place = 0
                  /\ loaded'.replaced = FALSE
                BY <4>2 DEF Build!Loading
            <4> QED
                BY <1>1, <3>2, <4>3, <4>4 DEF Read
        <3> QED
            BY <3>1, <3>2
    <2> QED
        BY <1>2, <1>3, <2>1 DEF BuildInv
<1>5. CASE Build!LoadReads
    <2>1. PICK n \in loaded.place + 1 .. Len(out.lines) :
              loaded' = Build!Loading("reading", loaded.lines \o SubSeq(out.lines, loaded.place + 1, n),
                                      n, loaded.replaced)
        BY <1>5 DEF Build!LoadReads
    <2>2. loaded.kind = "reading" /\ out # NoFile /\ loaded.replaced \in BOOLEAN
        BY <1>5 DEF Build!LoadReads, BuildInv, Read
    <2>3. ASSUME ~loaded.replaced
          PROVE  n \in 0 .. Len(out.lines)
                 /\ loaded.lines \o SubSeq(out.lines, loaded.place + 1, n) = SubSeq(out.lines, 1, n)
        <3>1. loaded.place \in 0 .. Len(out.lines) /\ loaded.lines = SubSeq(out.lines, 1, loaded.place)
            BY <2>2, <2>3 DEF BuildInv, Read
        <3>2. PICK S : out.lines \in Seq(S)
            BY <2>2, OutIsList
        <3>3. SubSeq(out.lines, 1, loaded.place) \o SubSeq(out.lines, loaded.place + 1, n) = SubSeq(out.lines, 1, n)
            <4> DEFINE list == out.lines  k == loaded.place
            <4>1. list \in Seq(S) /\ k \in 0 .. Len(list) /\ n \in k + 1 .. Len(list)
                BY <2>1, <3>1, <3>2
            <4> HIDE DEF list, k
            <4>2. SubSeq(list, 1, k) \o SubSeq(list, k + 1, n) = SubSeq(list, 1, n)
                BY <4>1, ReadOn
            <4> QED
                BY <4>2 DEF list, k
        <3>4. Len(out.lines) \in Nat
            BY <3>2
        <3>5. n \in 0 .. Len(out.lines)
            BY <2>1, <3>1, <3>4
        <3>6. loaded.lines \o SubSeq(out.lines, loaded.place + 1, n)
                  = SubSeq(out.lines, 1, loaded.place) \o SubSeq(out.lines, loaded.place + 1, n)
            BY <3>1
        <3> QED
            BY <3>3, <3>5, <3>6
    <2>4. /\ loaded'.kind = "reading" /\ loaded'.place = n /\ loaded'.replaced = loaded.replaced
          /\ loaded'.lines = loaded.lines \o SubSeq(out.lines, loaded.place + 1, n)
        BY <2>1 DEF Build!Loading
    <2>5. Read'
        BY <1>1, <2>2, <2>3, <2>4 DEF Read
    <2> QED
        BY <1>2, <1>3, <2>5 DEF BuildInv
<1>6. CASE Build!LoadEnds
    <2>1. loaded.kind = "reading" /\ out # NoFile /\ loaded.replaced \in BOOLEAN
        BY <1>6 DEF Build!LoadEnds, BuildInv, Read
    <2>2. loaded' = Build!Loading("map", loaded.lines, 0, loaded.replaced)
        BY <1>6 DEF Build!LoadEnds
    <2>3. ASSUME ~loaded.replaced
          PROVE  Initial(loaded.lines, Build!OutputLines(Earlier)) \/ PartOf(loaded.lines, raw)
        <3>1. PICK S : out.lines \in Seq(S)
            BY <2>1, OutIsList
        <3>2. loaded.place \in 0 .. Len(out.lines) /\ loaded.lines = SubSeq(out.lines, 1, loaded.place)
            BY <2>1, <2>3 DEF BuildInv, Read
        <3>3. loaded.place = Len(out.lines)
            BY <1>6, <3>1, <3>2 DEF Build!LoadEnds
        <3>4. loaded.lines = out.lines
            BY <3>1, <3>2, <3>3, PartFacts
        <3>5. CASE out = Build!Shipped
            <4> DEFINE list == Build!OutputLines(Earlier)
            <4>1. loaded.lines = list
                BY <3>4, <3>5 DEF Build!Shipped, Build!Text
            <4> HIDE DEF list
            <4>2. list \in Seq(S) /\ Len(list) \in 0 .. Len(list)
                BY <3>1, <3>4, <4>1
            <4>3. list = SubSeq(list, 1, Len(list))
                BY <4>2, PartFacts
            <4> QED
                BY <4>1, <4>2, <4>3 DEF Initial, list
        <3> QED
            BY <2>1, <3>4, <3>5 DEF BuildInv, Written
    <2>4. loaded'.kind = "map" /\ loaded'.lines = loaded.lines /\ loaded'.replaced = loaded.replaced
        BY <2>2 DEF Build!Loading
    <2>5. Read'
        BY <1>1, <2>1, <2>3, <2>4 DEF Read
    <2> QED
        BY <1>2, <1>3, <2>5 DEF BuildInv
<1>7. CASE Build!LoadRaises
    <2>1. loaded'.kind = "raised" /\ loaded'.replaced = FALSE
        BY <1>7 DEF Build!LoadRaises, Build!Loading
    <2>2. Read'
        BY <2>1 DEF Read
    <2> QED
        BY <1>2, <1>3, <2>2 DEF BuildInv
<1> QED
    BY <1>4, <1>5, <1>6, <1>7

(* Every step of a build and every load keeps the invariant. *)
LEMMA BuildNext == ASSUME Arguments PROVE BuildInv /\ [Build!Next]_(Build!vars) => BuildInv'
<1> SUFFICES ASSUME BuildInv, [Build!Next]_(Build!vars) PROVE BuildInv'
    OBVIOUS
<1>1. CASE UNCHANGED Build!vars
    <2>1. UNCHANGED <<raw, out, phase, at, found, pending, intact, complete, loaded>>
        BY <1>1 DEF Build!vars
    <2>2. Files' /\ Building'
        BY <2>1 DEF BuildInv, Files, Building
    <2>3. Written' /\ Read'
        BY <2>1, WrittenKept, ReadKept DEF BuildInv, Written
    <2> QED
        BY <2>2, <2>3 DEF BuildInv
<1>2. CASE Build!BuildBegins \/ Build!AlreadyDownloaded \/ Build!Download \/ Build!DownloadCut
    BY <1>2, BuildBeginsOK, AlreadyDownloadedOK, DownloadOK, DownloadCutOK
<1>3. CASE Build!Parse \/ Build!OpenOutput \/ Build!Flush \/ Build!CloseOutput
    BY <1>3, ParseOK, OpenOutputOK, FlushOK, CloseOutputOK
<1>4. CASE Build!BuildDies
    BY <1>4, BuildDiesOK
<1>5. CASE Build!LoadBegins \/ Build!LoadReads \/ Build!LoadEnds \/ Build!LoadRaises
    BY <1>5, LoadOK
<1> QED
    BY <1>1, <1>2, <1>3, <1>4, <1>5 DEF Build!Next

-----------------------------------------------------------------------------
(* What the invariant says of a map and of a finished output. *)

(* What is loaded lists some of the clusters that are known, each once. *)
Listed(lines, listable) ==
    /\ DOMAIN lines \in SUBSET Nat
    /\ \A i \in DOMAIN lines : \E C \in listable : lines[i] = LineOf(C)
    /\ \A i, j \in DOMAIN lines : lines[i] = lines[j] => i = j

(* Clusters that are known are apart, and hold their least characters. *)
Apart(listable) ==
    /\ \A C \in listable : C \subseteq Points /\ Build!Min(C) \in C
    /\ \A C, D \in listable : C \cap D # {} => C = D

(* With every file there the clusters of the files are those of their pairs. *)
LEMMA RawClustersAre ==
    ASSUME Arguments, Files, Present(raw)
    PROVE  Build!RawClusters = Big(PairsOf(raw, Build!LastDict - 1))
<1> DEFINE fs == [i \in Build!Dicts |-> IF raw[i] = NoFile THEN <<>> ELSE raw[i].lines]
           n == Build!LastDict - 1
<1>1. n \in Nat /\ \A i \in 1 .. n : i \in Build!Dicts
    BY DictFacts
<1>2. \A i \in Build!Dicts : fs[i] = raw[i].lines
    BY DEF Present
<1>3. Build!RawClusters = Build!ClustersIn(fs)
    BY DEF Build!RawClusters
<1> HIDE DEF fs
<1>4. Build!ClustersIn(fs) =
          {C \in Build!ClustersOf(UNION {Build!parse_opencc_tsv(fs[i]) : i \in 1 .. n}) : Cardinality(C) > 1}
    BY CountsAgree, Zenon DEF Build!ClustersIn
<1> HIDE DEF n
<1>5. {Build!parse_opencc_tsv(fs[i]) : i \in 1 .. n} = {Build!parse_opencc_tsv(raw[i].lines) : i \in 1 .. n}
    BY <1>1, <1>2
<1>6. Build!RawClusters = Big(PairsOf(raw, n))
    BY <1>3, <1>4, <1>5 DEF Big, PairsOf
<1> QED
    BY <1>6 DEF n

(* A part of the output is a part of the list of clusters. *)
LEMMA PartIsListed ==
    ASSUME Arguments, NEW pairs \in SUBSET (Points \X Points),
           NEW lines, Initial(lines, Build!OutputLines(pairs))
    PROVE  Listed(lines, Big(pairs))
<1> DEFINE s == Build!OutputLines(pairs)
<1>1. PICK n \in 0 .. Len(s) : lines = SubSeq(s, 1, n)
    BY DEF Initial
<1>2. /\ Len(s) \in Nat /\ s \in [1 .. Len(s) -> Lines(pairs)]
      /\ \A i, j \in 1 .. Len(s) : s[i] = s[j] => i = j
    BY OutputFacts
<1> HIDE DEF s
<1>3. s \in Seq(Lines(pairs))
    BY <1>2
<1>4. DOMAIN lines = 1 .. n /\ \A i \in 1 .. n : i \in 1 .. Len(s) /\ lines[i] = s[i]
    BY <1>1, <1>2, <1>3
<1>5. \A i \in 1 .. n : \E C \in Big(pairs) : lines[i] = LineOf(C)
    BY <1>2, <1>4 DEF Lines
<1>6. \A i, j \in 1 .. n : lines[i] = lines[j] => i = j
    BY <1>2, <1>4
<1> QED
    BY <1>4, <1>5, <1>6 DEF Listed

(* The clusters of some pairs are apart. *)
LEMMA BigApart ==
    ASSUME Arguments, NEW pairs \in SUBSET (Points \X Points)
    PROVE  Apart(Big(pairs))
BY LineFacts, ClusterFacts DEF Big, Apart

(* A listed line is looked up by any character of its cluster. *)
LEMMA LookedUp ==
    ASSUME Arguments, NEW listable, Apart(listable), NEW lines, Listed(lines, listable), NEW c \in Points
    PROVE  \/ /\ \A i \in DOMAIN lines : c \notin {lines[i].rep} \cup lines[i].members
              /\ Build!Cluster(lines, c) = {c} /\ Build!Representative(lines, c) = c
           \/ \E i \in DOMAIN lines : \E C \in listable :
                  /\ c \in C /\ lines[i] = LineOf(C)
                  /\ Build!Cluster(lines, c) = C /\ Build!Representative(lines, c) = Build!Min(C)
<1> DEFINE Names(i) == {lines[i].rep} \cup lines[i].members
           those == {i \in DOMAIN lines : c \in Names(i)}
           these == {i \in DOMAIN lines : c \in lines[i].members}
<1>1. Build!Cluster(lines, c) = IF those = {} THEN {c} ELSE Names(Build!Max(those))
    BY DEF Build!Cluster
<1>2. Build!Representative(lines, c) = IF these = {} THEN c ELSE lines[Build!Max(these)].rep
    BY DEF Build!Representative
<1>3. ASSUME NEW i \in DOMAIN lines, NEW C \in listable, lines[i] = LineOf(C)
      PROVE  Names(i) = C /\ lines[i].rep = Build!Min(C) /\ lines[i].members = C \ {Build!Min(C)}
    BY <1>3 DEF Apart, LineOf
<1>4. CASE those = {}
    <2>1. these = {}
        BY <1>4
    <2> QED
        BY <1>1, <1>2, <1>4, <2>1
<1>5. CASE those # {}
    <2>1. PICK i \in DOMAIN lines : c \in Names(i)
        BY <1>5
    <2>2. PICK C \in listable : lines[i] = LineOf(C)
        BY DEF Listed
    <2>3. c \in C
        BY <1>3, <2>1, <2>2
    <2>4. ASSUME NEW j \in DOMAIN lines, c \in Names(j) PROVE j = i
        <3>1. PICK D \in listable : lines[j] = LineOf(D)
            BY DEF Listed
        <3>2. c \in D
            BY <1>3, <2>4, <3>1
        <3>3. C = D
            BY <2>3, <3>2 DEF Apart
        <3> QED
            BY <2>2, <3>1, <3>3 DEF Listed
    <2>5. those = {i} /\ i \in Nat
        BY <2>1, <2>4 DEF Listed
    <2>6. Build!Cluster(lines, c) = C
        <3>1. Build!Max(those) = i
            BY <2>5, GreatestOfOne
        <3> HIDE DEF those, Names
        <3> QED
            BY <1>1, <1>3, <1>5, <2>2, <3>1
    <2>7. CASE c = Build!Min(C)
        <3>1. these = {}
            <4>1. these \subseteq those
                OBVIOUS
            <4>2. c \notin lines[i].members
                BY <1>3, <2>2, <2>7
            <4> QED
                BY <2>5, <4>1, <4>2
        <3>2. Build!Representative(lines, c) = Build!Min(C)
            BY <1>2, <2>7, <3>1
        <3> QED
            BY <2>2, <2>3, <2>6, <3>2
    <2>8. CASE c # Build!Min(C)
        <3>1. these = {i}
            <4>1. these \subseteq those
                OBVIOUS
            <4>2. c \in lines[i].members
                BY <1>3, <2>2, <2>3, <2>8
            <4> QED
                BY <2>5, <4>1, <4>2
        <3>2. Build!Max(these) = i
            BY <2>5, <3>1, GreatestOfOne
        <3> HIDE DEF these
        <3>3. Build!Representative(lines, c) = Build!Min(C)
            BY <1>2, <1>3, <2>2, <3>1, <3>2
        <3> QED
            BY <2>2, <2>3, <2>6, <3>3
    <2> QED
        BY <2>7, <2>8
<1> QED
    BY <1>4, <1>5

(* The least of one number. *)
LEMMA LeastOfOne == ASSUME NEW n \in Nat PROVE Build!Min({n}) = n
<1>1. {n} \in SUBSET Nat /\ {n} # {}
    OBVIOUS
<1> QED
    BY <1>1, LeastIsMember

(* A map over a part of the list of clusters sends each character of a listed
   cluster to its least one and every other to itself. *)
LEMMA MapIsSound ==
    ASSUME Arguments, NEW listable, Apart(listable), NEW lines, Listed(lines, listable), NEW c \in Points
    PROVE  LET C == Build!Cluster(lines, c)
           IN  /\ Build!Representative(lines, c) = Build!Min(C)
               /\ C = {d \in Points : Build!Representative(lines, d) = Build!Min(C)}
               /\ C # {c} => C \in listable
<1> DEFINE C == Build!Cluster(lines, c)
<1>1. CASE /\ \A i \in DOMAIN lines : c \notin {lines[i].rep} \cup lines[i].members
           /\ C = {c} /\ Build!Representative(lines, c) = c
    <2>1. c \in Nat
        BY DEF Arguments
    <2>2. Build!Min(C) = c
        BY <1>1, <2>1, LeastOfOne
    <2>3. ASSUME NEW d \in Points, Build!Representative(lines, d) = c PROVE d = c
        <3>1. CASE Build!Representative(lines, d) = d
            BY <2>3, <3>1
        <3>2. ASSUME NEW i \in DOMAIN lines, NEW D \in listable, lines[i] = LineOf(D),
                     Build!Representative(lines, d) = Build!Min(D)
              PROVE  FALSE
            <4>1. lines[i].rep = c
                BY <2>3, <3>2 DEF LineOf
            <4> QED
                BY <1>1, <4>1
        <3> QED
            BY <3>1, <3>2, LookedUp
    <2> HIDE DEF C
    <2>4. C = {d \in Points : Build!Representative(lines, d) = Build!Min(C)}
        BY <1>1, <2>2, <2>3
    <2> QED
        BY <1>1, <2>2, <2>4 DEF C
<1>2. ASSUME NEW i \in DOMAIN lines, C \in listable, c \in C, lines[i] = LineOf(C),
             Build!Representative(lines, c) = Build!Min(C)
      PROVE  C = {d \in Points : Build!Representative(lines, d) = Build!Min(C)}
    <2> HIDE DEF C
    <2>1. C \subseteq Points /\ Build!Min(C) \in C
        BY <1>2 DEF Apart
    <2>2. ASSUME NEW d \in C PROVE Build!Representative(lines, d) = Build!Min(C)
        <3>1. d \in Points /\ d \in {lines[i].rep} \cup lines[i].members
            BY <1>2, <2>1, <2>2 DEF LineOf
        <3>2. PICK D \in listable : d \in D /\ Build!Representative(lines, d) = Build!Min(D)
            BY <3>1, LookedUp
        <3>3. C = D
            BY <1>2, <2>2, <3>2 DEF Apart
        <3> QED
            BY <3>2, <3>3
    <2>3. ASSUME NEW d \in Points, Build!Representative(lines, d) = Build!Min(C) PROVE d \in C
        <3>1. CASE Build!Representative(lines, d) = d
            BY <2>1, <2>3, <3>1
        <3>2. ASSUME NEW D \in listable, d \in D, Build!Representative(lines, d) = Build!Min(D)
              PROVE  d \in C
            <4>1. Build!Min(C) \in D
                BY <2>3, <3>2 DEF Apart
            <4>2. C = D
                BY <1>2, <2>1, <4>1 DEF Apart
            <4> QED
                BY <3>2, <4>2
        <3> QED
            BY <3>1, <3>2, LookedUp
    <2> QED
        BY <2>1, <2>2, <2>3
<1>3. CASE \E i \in DOMAIN lines : \E D \in listable :
               /\ c \in D /\ lines[i] = LineOf(D)
               /\ C = D /\ Build!Representative(lines, c) = Build!Min(D)
    <2>1. PICK i \in DOMAIN lines, D \in listable :
              /\ c \in D /\ lines[i] = LineOf(D)
              /\ C = D /\ Build!Representative(lines, c) = Build!Min(D)
        BY <1>3
    <2> HIDE DEF C
    <2>2. C \in listable /\ c \in C /\ lines[i] = LineOf(C)
          /\ Build!Representative(lines, c) = Build!Min(C)
        BY <2>1
    <2>3. C = {d \in Points : Build!Representative(lines, d) = Build!Min(C)}
        BY <1>2, <2>2
    <2> QED
        BY <2>2, <2>3 DEF C
<1> QED
    BY <1>1, <1>3, LookedUp

(* From the invariant: what was loaded is a normalisation. *)
LEMMA InvLoadedIsSound == ASSUME Arguments, BuildInv PROVE Build!LoadedIsSound
<1> SUFFICES ASSUME loaded.kind = "map", ~loaded.replaced
             PROVE  \E listable \in {Build!RawClusters, Build!ShippedClusters} :
                        Apart(listable) /\ Listed(loaded.lines, listable)
    BY MapIsSound DEF Build!LoadedIsSound
<1>1. Build!ShippedClusters = Big(Earlier) /\ Earlier \in SUBSET (Points \X Points)
    BY CountsAgree, Zenon DEF Build!ShippedClusters, Big, Arguments
<1>2. CASE loaded.lines = <<>>
    <2>1. Listed(loaded.lines, Build!ShippedClusters)
        BY <1>2 DEF Listed
    <2> QED
        BY <1>1, <2>1, BigApart
<1>3. CASE Initial(loaded.lines, Build!OutputLines(Earlier))
    BY <1>1, <1>3, PartIsListed, BigApart
<1>4. CASE PartOf(loaded.lines, raw)
    <2> DEFINE pairs == PairsOf(raw, Build!LastDict - 1)
    <2>1. Present(raw) /\ Initial(loaded.lines, Build!OutputLines(pairs))
        BY <1>4 DEF PartOf, LinesOf
    <2>2. pairs \in SUBSET (Points \X Points) /\ Build!RawClusters = Big(pairs)
        BY <2>1, SortedLinesFacts, RawClustersAre DEF BuildInv
    <2> HIDE DEF pairs
    <2> QED
        BY <2>1, <2>2, PartIsListed, BigApart
<1> QED
    BY <1>2, <1>3, <1>4 DEF BuildInv, Read

(* From the invariant: a finished output has every cluster. *)
LEMMA InvOutputMatchesSources == ASSUME Arguments, BuildInv PROVE Build!OutputMatchesSources
<1> SUFFICES ASSUME complete PROVE Build!OutputMatchesSources
    BY DEF Build!OutputMatchesSources
<1> DEFINE pairs == PairsOf(raw, Build!LastDict - 1)
           s == Build!OutputLines(pairs)
           written == {{l.rep} \cup l.members : l \in Build!Range(out.lines)}
<1>1. out = Build!Text(LinesOf(raw), FALSE) /\ Present(raw)
    BY DEF BuildInv, Written
<1>2. out.lines = s /\ ~out.torn
    BY <1>1 DEF Build!Text, LinesOf
<1>3. pairs \in SUBSET (Points \X Points) /\ Build!RawClusters = Big(pairs)
    BY <1>1, SortedLinesFacts, RawClustersAre DEF BuildInv
<1> HIDE DEF pairs
<1>4. /\ Len(s) = Cardinality(Big(pairs)) /\ Len(s) \in Nat
      /\ s \in [1 .. Len(s) -> Lines(pairs)]
      /\ \A C \in Big(pairs) : \E i \in 1 .. Len(s) : s[i] = LineOf(C)
    BY <1>3, OutputFacts
<1> HIDE DEF s
<1>5. Build!Range(out.lines) = Lines(pairs)
    <2>1. Build!Range(s) = {s[i] : i \in 1 .. Len(s)}
        BY <1>4 DEF Build!Range
    <2>2. \A l \in Lines(pairs) : \E i \in 1 .. Len(s) : s[i] = l
        BY <1>4 DEF Lines
    <2> QED
        BY <1>2, <1>4, <2>1, <2>2
<1>6. written = Big(pairs)
    <2>1. \A C \in Big(pairs) : {LineOf(C).rep} \cup LineOf(C).members = C
        BY <1>3, LineFacts DEF LineOf
    <2>2. \A C \in Big(pairs) : LineOf(C) \in Lines(pairs)
        BY DEF Lines
    <2>3. \A l \in Lines(pairs) : \E C \in Big(pairs) : l = LineOf(C)
        BY DEF Lines
    <2>4. written = {{l.rep} \cup l.members : l \in Lines(pairs)}
        BY <1>5
    <2> HIDE DEF written
    <2>5. ASSUME NEW C \in Big(pairs) PROVE C \in written
        <3>1. PICK l \in Lines(pairs) : l = LineOf(C)
            BY <2>2
        <3>2. {l.rep} \cup l.members \in written
            BY <2>4
        <3> QED
            BY <2>1, <3>1, <3>2
    <2>6. ASSUME NEW W \in written PROVE W \in Big(pairs)
        <3>1. PICK l \in Lines(pairs) : W = {l.rep} \cup l.members
            BY <2>4
        <3>2. PICK C \in Big(pairs) : l = LineOf(C)
            BY <2>3
        <3> QED
            BY <2>1, <3>1, <3>2
    <2> QED
        BY <2>5, <2>6
<1>7. ASSUME intact PROVE Build!RawClusters = Build!SourceClusters
    <2> DEFINE fs == [i \in Build!Dicts |-> IF raw[i] = NoFile THEN <<>> ELSE raw[i].lines]
               n == Build!LastDict - 1
    <2>1. n \in Nat /\ \A i \in 1 .. n : i \in Build!Dicts
        BY DictFacts
    <2>2. \A i \in Build!Dicts : raw[i] = Build!Text(Source[i], FALSE)
        BY <1>1, <1>7 DEF BuildInv, Files, Present
    <2>3. ASSUME NEW i \in Build!Dicts PROVE fs[i] = Source[i]
        <3>1. raw[i] # NoFile
            BY <1>1 DEF Present
        <3>2. raw[i] = Build!Text(Source[i], FALSE)
            BY <2>2
        <3>3. Build!Text(Source[i], FALSE).lines = Source[i]
            BY DEF Build!Text
        <3> QED
            BY <3>1, <3>2, <3>3
    <2>4. Build!RawClusters = Build!ClustersIn(fs) /\ Build!SourceClusters = Build!ClustersIn(Source)
        BY DEF Build!RawClusters, Build!SourceClusters
    <2> HIDE DEF fs
    <2>5. {Build!parse_opencc_tsv(fs[i]) : i \in 1 .. n} = {Build!parse_opencc_tsv(Source[i]) : i \in 1 .. n}
        BY <2>1, <2>3
    <2>6. Build!ClustersIn(fs) = Build!ClustersIn(Source)
        BY <2>5, Zenon DEF Build!ClustersIn
    <2> QED
        BY <2>4, <2>6
<1>8. Len(out.lines) = Build!Cardinality(written)
    BY <1>2, <1>4, <1>6, CountsAgree
<1> HIDE DEF written
<1>9. /\ ~out.torn /\ Len(out.lines) = Build!Cardinality(written)
      /\ written = Build!RawClusters
      /\ intact => written = Build!SourceClusters
    BY <1>2, <1>3, <1>6, <1>7, <1>8
<1> QED
    BY <1>9 DEF written, Build!OutputMatchesSources

(* From the invariant: the types. *)
LEMMA InvBuildTyped == ASSUME Arguments, BuildInv PROVE Build!TypeOK
<1> USE DEF BuildInv
<1>1. DOMAIN raw = Build!Dicts /\ \A i \in Build!Dicts : raw[i] # NoFile => raw[i].torn \in BOOLEAN
    BY DEF Files, Texts
<1>2. ASSUME phase = "write" PROVE out.lines = SubSeq(pending, 1, Len(out.lines))
    <2>1. Present(raw) /\ pending = LinesOf(raw) /\ PartOf(out.lines, raw)
        BY <1>2 DEF Building
    <2>2. Len(LinesOf(raw)) \in Nat /\ LinesOf(raw) \in Seq(Lines(PairsOf(raw, Build!LastDict - 1)))
        BY <2>1, SortedLinesFacts
    <2>3. PICK k \in 0 .. Len(LinesOf(raw)) : out.lines = SubSeq(LinesOf(raw), 1, k)
        BY <2>1 DEF PartOf, Initial
    <2>4. Len(out.lines) = k
        BY <2>2, <2>3
    <2> QED
        BY <2>1, <2>3, <2>4
<1> QED
    BY <1>1, <1>2 DEF Building, Written, Read, Build!TypeOK

(* The inductive invariant of the build, however often it is interrupted. *)
THEOREM BuildInvariance == ASSUME Arguments PROVE Build!Spec => []BuildInv
<1>1. Build!Init => BuildInv
    BY BuildInit
<1>2. BuildInv /\ [Build!Next]_(Build!vars) => BuildInv'
    BY BuildNext
<1> QED
    BY <1>1, <1>2, PTL DEF Build!Spec

(* VariantMap is a normalisation whenever it is loaded: as shipped, half written,
   left behind by a build that died, or complete, unless a build emptied the file
   while it was read. *)
THEOREM EveryMapIsSound == ASSUME Arguments PROVE Build!Spec => []LoadedIsSound
<1>1. BuildInv => LoadedIsSound
    BY InvLoadedIsSound DEF LoadedIsSound
<1> QED
    BY <1>1, BuildInvariance, PTL

(* A build that ends has written each cluster of the files once, and those are
   the clusters of the sources if no download was cut off. *)
THEOREM BuildWritesClusters == ASSUME Arguments PROVE Build!Spec => []OutputMatchesSources
<1>1. BuildInv => OutputMatchesSources
    BY InvOutputMatchesSources DEF OutputMatchesSources
<1> QED
    BY <1>1, BuildInvariance, PTL

(* The types of the union-find and of the build in every behaviour of either. *)
THEOREM AllTyped ==
    ASSUME Arguments, NoChar \notin Chars PROVE AllSpec => []AllTypeOK
<1>1. AllInit => IInv /\ BuildInv
    BY InitOK, BuildInit DEF AllInit
<1>2. IInv /\ BuildInv /\ [AllNext]_<<part, vars, buildVars>> => (IInv /\ BuildInv)'
    <2>1. [AllNext]_<<part, vars, buildVars>> => [Next]_vars /\ [Build!Next]_(Build!vars)
        BY DEF AllNext, buildVars, Build!vars
    <2> QED
        BY <2>1, NextOK, BuildNext
<1>3. IInv /\ BuildInv => AllTypeOK
    BY InvBuildTyped DEF IInv, AllTypeOK
<1> QED
    BY <1>1, <1>2, <1>3, PTL DEF AllSpec
================================================================================
