----------------------------- MODULE Util_proofs -----------------------------
(***************************************************************************)
(* Proofs about the helpers of util/ and o11y/: the cache of Versatile     *)
(* (extended by MCUtil), and the parts that MCUtil puts beside it, for     *)
(* any number of threads, calls, tuples, adds, chains and handlers.        *)
(***************************************************************************)
EXTENDS MCUtil, FiniteSetTheorems, WellFoundedInduction, TLAPS

(* A thread that computed holds what its function may return. *)
ComputedRight ==
    \A p \in Threads : pc[p] = "computed" => result[p] \in Results[call[p].f][call[p].a]

(* Every entry is right for every call that finds it. *)
EntriesRight ==
    \A c \in Calls : Hit(c) => Entry(c) \in Results[c.f][c.a]

CacheInv == TypeOK /\ ComputedRight /\ EntriesRight /\ AnswersRight

(* A call finds a cell of the cache, and its result is a value. *)
LEMMA CallFacts ==
    ASSUME NEW c \in Calls
    PROVE  /\ c.f \in Functions /\ c.a \in Args
           /\ SigOf(c) \in Signatures /\ HashOf(c) \in Hashes
           /\ Results[c.f][c.a] \subseteq Values
           /\ Absent \notin Results[c.f][c.a]
  BY MapsAssumption DEF Calls, SigOf, HashOf, Signatures, Hashes

(* Initially the cache is empty. *)
LEMMA TypeInit == Init => TypeOK
<1>1. Calls # {}
  <2>1. PICK f \in Functions, a \in Args : TRUE
    BY MapsAssumption
  <2>2. [f |-> f, a |-> a, in |-> NoStore] \in Calls
    BY <2>1 DEF Calls
  <2> QED BY <2>2
<1>2. (CHOOSE c \in Calls : TRUE) \in Calls
  BY <1>1
<1> QED BY <1>2, MapsAssumption DEF Init, TypeOK

(* Every part of a call keeps the types. *)
LEMMA TypeStep == TypeOK /\ [Next]_vars => TypeOK'
<1> SUFFICES ASSUME TypeOK, [Next]_vars PROVE TypeOK'
  OBVIOUS
<1> USE DEF TypeOK
<1>1. ASSUME NEW p \in Threads, NEW c \in Calls, Lookup(p, c)
      PROVE  TypeOK'
  <2>1. Hit(c) => Entry(c) \in Values \cup {Absent}
    BY CallFacts DEF Entry, Hit
  <2>2. call' \in [Threads -> Calls] /\ calls' \in 0 .. MaxCalls
    BY <1>1, MapsAssumption DEF Lookup
  <2>3. CASE Hit(c)
    BY <1>1, <2>1, <2>2, <2>3 DEF Lookup
  <2>4. CASE ~Hit(c)
    BY <1>1, <2>2, <2>4 DEF Lookup
  <2> QED BY <2>3, <2>4
<1>2. ASSUME NEW p \in Threads, Compute(p) PROVE TypeOK'
  <2>1. PICK v \in Results[call[p].f][call[p].a] : result' = [result EXCEPT ![p] = v]
    BY <1>2 DEF Compute
  <2>2. v \in Values
    BY <2>1, CallFacts
  <2> QED BY <1>2, <2>1, <2>2 DEF Compute
<1>3. ASSUME NEW p \in Threads, ComputeRaises(p) PROVE TypeOK'
  BY <1>3 DEF ComputeRaises
<1>4. ASSUME NEW p \in Threads, Fill(p) PROVE TypeOK'
  <2>1. SigOf(call[p]) \in Signatures /\ HashOf(call[p]) \in Hashes
    BY CallFacts
  <2>2. cache' \in [Stores -> [Signatures -> [Hashes -> Values \cup {Absent}]]]
    BY <1>4, <2>1 DEF Fill
  <2>3. stored' \in [Threads -> SUBSET (Stores \X Signatures \X Hashes)]
    <3>1. Slot(call[p]) \in Stores \X Signatures \X Hashes
      BY <1>4, <2>1 DEF Fill, Slot
    <3> QED BY <1>4, <3>1 DEF Fill
  <2> QED BY <1>4, <2>2, <2>3 DEF Fill
<1>5. ASSUME NEW p \in Threads, Return(p) PROVE TypeOK'
  BY <1>5 DEF Return
<1>6. CASE UNCHANGED vars
  BY <1>6 DEF vars
<1> QED BY <1>1, <1>2, <1>3, <1>4, <1>5, <1>6 DEF Next

(* Every reachable state has the declared types: with_global_cache and
   in_worker keep the cache a map from signatures to maps from hashes. *)
THEOREM CacheTypeCorrect == Spec => []TypeOK
<1>1. Init => TypeOK BY TypeInit
<1>2. TypeOK /\ [Next]_vars => TypeOK' BY TypeStep
<1> QED BY <1>1, <1>2, PTL DEF Spec

(* A store is at one signature and one hash... *)
LEMMA FillStores ==
    ASSUME TypeOK, NEW p \in Threads, Fill(p),
           SigOf(call[p]) \in Signatures, HashOf(call[p]) \in Hashes
    PROVE  cache'[call[p].in][SigOf(call[p])][HashOf(call[p])] = result[p]
BY DEF Fill, TypeOK

(* ... and touches no other entry. *)
LEMMA FillTouchesOne ==
    ASSUME TypeOK, NEW p \in Threads, Fill(p),
           NEW s \in Stores, NEW g \in Signatures, NEW h \in Hashes,
           ~(s = call[p].in /\ g = SigOf(call[p]) /\ h = HashOf(call[p]))
    PROVE  cache'[s][g][h] = cache[s][g][h]
<1>1. cache' = [cache EXCEPT ![call[p].in][SigOf(call[p])][HashOf(call[p])] = result[p]]
  BY DEF Fill
<1>2. cache \in [Stores -> [Signatures -> [Hashes -> Values \cup {Absent}]]]
  BY DEF TypeOK
<1>3. CASE s # call[p].in
  BY <1>1, <1>2, <1>3
<1>4. CASE s = call[p].in /\ g # SigOf(call[p])
  BY <1>1, <1>2, <1>4
<1>5. CASE s = call[p].in /\ g = SigOf(call[p])
  BY <1>1, <1>2, <1>5
<1> QED BY <1>3, <1>4, <1>5

(* Only Fill stores, and what it stores is right for every call that shares
   the entry, because these agree. *)
LEMMA FillKeepsEntries ==
    ASSUME NoCollision, CacheInv, NEW p \in Threads, Fill(p)
    PROVE  EntriesRight'
<1> DEFINE d == call[p]
<1>1. d \in Calls /\ result[p] \in Results[d.f][d.a]
  BY DEF CacheInv, TypeOK, ComputedRight, Fill
<1> SUFFICES ASSUME NEW c \in Calls, Hit(c)'
             PROVE  (Entry(c))' \in Results[c.f][c.a]
  BY DEF EntriesRight
<1>2. SigOf(c) \in Signatures /\ HashOf(c) \in Hashes /\ SigOf(d) \in Signatures /\ HashOf(d) \in Hashes
  BY <1>1, CallFacts
<1>3. CASE c.in = d.in /\ SigOf(c) = SigOf(d) /\ HashOf(c) = HashOf(d)
  <2>1. Results[c.f][c.a] = Results[d.f][d.a]
    BY <1>1, <1>3 DEF NoCollision
  <2>2. (Entry(c))' = result[p]
    BY <1>2, <1>3, FillStores DEF Hit, CacheInv, Entry, SigOf, HashOf
  <2> QED BY <1>1, <2>1, <2>2
<1>4. CASE ~(c.in = d.in /\ SigOf(c) = SigOf(d) /\ HashOf(c) = HashOf(d))
  <2>1. c.in \in Stores
    BY DEF Fill, Hit
  <2>2. cache'[c.in][SigOf(c)][HashOf(c)] = cache[c.in][SigOf(c)][HashOf(c)]
    BY <1>2, <1>4, <2>1, FillTouchesOne DEF CacheInv
  <2>3. (Entry(c))' = Entry(c)
    BY <2>2 DEF Entry, SigOf, HashOf
  <2> QED BY <2>3 DEF CacheInv, EntriesRight, Hit
<1> QED BY <1>3, <1>4

(* Every part of a call keeps entries and answers right. *)
LEMMA InvStep ==
    ASSUME NoCollision
    PROVE  CacheInv /\ [Next]_vars => CacheInv'
<1> SUFFICES ASSUME CacheInv, [Next]_vars PROVE CacheInv'
  OBVIOUS
<1>t. TypeOK /\ TypeOK'
  BY TypeStep DEF CacheInv
<1>1. ASSUME NEW p \in Threads, NEW c \in Calls, Lookup(p, c)
      PROVE  ComputedRight' /\ EntriesRight' /\ AnswersRight'
  <2>1. EntriesRight'
    BY <1>1 DEF Lookup, CacheInv, EntriesRight, Entry, Hit
  <2>2. ComputedRight'
    BY <1>1, <1>t DEF Lookup, CacheInv, ComputedRight, TypeOK
  <2>3. AnswersRight'
    BY <1>1, <1>t DEF Lookup, CacheInv, AnswersRight, EntriesRight, TypeOK
  <2> QED BY <2>1, <2>2, <2>3
<1>2. ASSUME NEW p \in Threads, Compute(p)
      PROVE  ComputedRight' /\ EntriesRight' /\ AnswersRight'
  <2>1. EntriesRight' /\ AnswersRight'
    BY <1>2, <1>t DEF Compute, CacheInv, EntriesRight, AnswersRight, Entry, Hit, TypeOK
  <2>2. PICK v \in Results[call[p].f][call[p].a] : result' = [result EXCEPT ![p] = v]
    BY <1>2 DEF Compute
  <2>3. ComputedRight'
    BY <1>2, <1>t, <2>2 DEF Compute, CacheInv, ComputedRight, TypeOK
  <2> QED BY <2>1, <2>3
<1>3. ASSUME NEW p \in Threads, ComputeRaises(p)
      PROVE  ComputedRight' /\ EntriesRight' /\ AnswersRight'
  BY <1>3, <1>t DEF ComputeRaises, CacheInv, ComputedRight, EntriesRight, AnswersRight, Entry, Hit, TypeOK
<1>4. ASSUME NEW p \in Threads, Fill(p)
      PROVE  ComputedRight' /\ EntriesRight' /\ AnswersRight'
  <2>1. EntriesRight'
    BY <1>4, FillKeepsEntries
  <2>2. ComputedRight' /\ AnswersRight'
    BY <1>4, <1>t DEF Fill, CacheInv, ComputedRight, AnswersRight, TypeOK
  <2> QED BY <2>1, <2>2
<1>5. ASSUME NEW p \in Threads, Return(p)
      PROVE  ComputedRight' /\ EntriesRight' /\ AnswersRight'
  BY <1>5, <1>t DEF Return, CacheInv, ComputedRight, EntriesRight, AnswersRight, Entry, Hit, TypeOK
<1>6. CASE UNCHANGED vars
  BY <1>6 DEF vars, CacheInv, TypeOK, ComputedRight, EntriesRight, AnswersRight, Entry, Hit
<1> QED BY <1>t, <1>1, <1>2, <1>3, <1>4, <1>5, <1>6 DEF Next, CacheInv

(* An empty cache has no wrong entry. *)
LEMMA InvInit == Init => CacheInv
<1> SUFFICES ASSUME Init PROVE CacheInv
  OBVIOUS
<1>1. TypeOK BY TypeInit
<1>2. ComputedRight /\ AnswersRight
  BY DEF Init, ComputedRight, AnswersRight
<1>3. EntriesRight
  BY CallFacts DEF Init, EntriesRight, Entry, Hit
<1> QED BY <1>1, <1>2, <1>3 DEF CacheInv

(* Calls that share an entry agree: then every call, however the threads
   interleave and whatever the function returns from run to run, returns what
   its function may return for its arguments. *)
THEOREM CacheIsTransparent ==
    ASSUME NoCollision
    PROVE  Spec => []AnswersRight
<1>1. Init => CacheInv BY InvInit
<1>2. CacheInv /\ [Next]_vars => CacheInv' BY InvStep
<1>3. CacheInv => AnswersRight BY DEF CacheInv
<1> QED BY <1>1, <1>2, <1>3, PTL DEF Spec

(* What a thread computed is a value; what it stored is there still; and it does
   not compute again what it stored. *)
ComputedValue == \A p \in Threads : pc[p] = "computed" => result[p] # Absent
Remembered ==
    \A p \in Threads, s \in Stores, g \in Signatures, h \in Hashes :
        <<s, g, h>> \in stored[p] => cache[s][g][h] # Absent
MissedFirst ==
    \A p \in Threads : pc[p] \in {"missed", "computed"} => Slot(call[p]) \notin stored[p]

SettleInv == TypeOK /\ ComputedValue /\ Remembered /\ MissedFirst

(* What a step does to one entry: nothing, or p stores it. *)
LEMMA EntryStep ==
    ASSUME TypeOK, [Next]_vars,
           NEW s \in Stores, NEW g \in Signatures, NEW h \in Hashes,
           cache'[s][g][h] # cache[s][g][h]
    PROVE  \E p \in Threads : Fill(p) /\ Slot(call[p]) = <<s, g, h>> /\ cache'[s][g][h] = result[p]
<1>1. PICK p \in Threads : Fill(p)
  BY DEF Next, vars, Lookup, Compute, ComputeRaises, Return
<1>2. call[p] \in Calls
  BY DEF TypeOK
<1>3. s = call[p].in /\ g = SigOf(call[p]) /\ h = HashOf(call[p])
  BY <1>1, FillTouchesOne
<1>4. cache'[s][g][h] = result[p]
  BY <1>1, <1>2, <1>3, CallFacts, FillStores
<1> QED BY <1>1, <1>3, <1>4 DEF Slot

(* Every part of a call keeps this. *)
LEMMA SettleStep == SettleInv /\ [Next]_vars => SettleInv'
<1> SUFFICES ASSUME SettleInv, [Next]_vars PROVE SettleInv'
  OBVIOUS
<1>t. TypeOK /\ TypeOK'
  BY TypeStep DEF SettleInv
<1>r. \A s \in Stores, g \in Signatures, h \in Hashes :
          cache[s][g][h] # Absent => cache'[s][g][h] # Absent
  <2> SUFFICES ASSUME NEW s \in Stores, NEW g \in Signatures, NEW h \in Hashes,
                      cache[s][g][h] # Absent, cache'[s][g][h] # cache[s][g][h]
               PROVE  cache'[s][g][h] # Absent
    OBVIOUS
  <2>1. PICK p \in Threads : Fill(p) /\ cache'[s][g][h] = result[p]
    BY <1>t, EntryStep
  <2>2. pc[p] = "computed"
    BY <2>1 DEF Fill
  <2> QED BY <2>1, <2>2 DEF SettleInv, ComputedValue
<1>1. ASSUME NEW p \in Threads, NEW c \in Calls, Lookup(p, c)
      PROVE  ComputedValue' /\ Remembered' /\ MissedFirst'
  <2>1. ComputedValue' /\ Remembered'
    BY <1>1, <1>t DEF Lookup, SettleInv, ComputedValue, Remembered, TypeOK
  <2>2. ASSUME ~Hit(c) PROVE Slot(c) \notin stored[p]
    <3>1. SigOf(c) \in Signatures /\ HashOf(c) \in Hashes
      BY CallFacts
    <3>2. CASE c.in \in Stores
      BY <2>2, <3>1, <3>2 DEF Hit, Entry, Slot, SettleInv, Remembered, SigOf, HashOf
    <3>3. CASE c.in \notin Stores
      BY <1>t, <3>3 DEF Slot, TypeOK
    <3> QED BY <3>2, <3>3
  <2>3. ASSUME NEW q \in Threads, pc'[q] \in {"missed", "computed"}
        PROVE  Slot(call'[q]) \notin stored'[q]
    <3>1. stored' = stored /\ call' = [call EXCEPT ![p] = c]
      BY <1>1 DEF Lookup
    <3>2. CASE q = p
      <4>1. ~Hit(c) /\ call'[q] = c
        BY <1>1, <1>t, <2>3, <3>1, <3>2 DEF Lookup, TypeOK
      <4> QED BY <2>2, <3>1, <3>2, <4>1
    <3>3. CASE q # p
      <4>1. pc'[q] = pc[q] /\ call'[q] = call[q]
        BY <1>1, <1>t, <3>1, <3>3 DEF Lookup, TypeOK
      <4> QED BY <2>3, <3>1, <4>1 DEF SettleInv, MissedFirst
    <3> QED BY <3>2, <3>3
  <2>4. MissedFirst'
    BY <2>3 DEF MissedFirst, Slot, SigOf, HashOf
  <2> QED BY <2>1, <2>4
<1>2. ASSUME NEW p \in Threads, Compute(p)
      PROVE  ComputedValue' /\ Remembered' /\ MissedFirst'
  <2>1. PICK v \in Results[call[p].f][call[p].a] : result' = [result EXCEPT ![p] = v]
    BY <1>2 DEF Compute
  <2>2. v # Absent
    BY <1>t, <2>1, CallFacts DEF TypeOK
  <2>3. ComputedValue'
    BY <1>2, <1>t, <2>1, <2>2 DEF Compute, SettleInv, ComputedValue, TypeOK
  <2>4. Remembered' /\ MissedFirst'
    BY <1>2, <1>t DEF Compute, SettleInv, Remembered, MissedFirst, TypeOK, Slot, SigOf, HashOf
  <2> QED BY <2>3, <2>4
<1>3. ASSUME NEW p \in Threads, ComputeRaises(p) \/ Return(p)
      PROVE  ComputedValue' /\ Remembered' /\ MissedFirst'
  <2>1. UNCHANGED <<cache, call, stored, result>>
    BY <1>3 DEF ComputeRaises, Return
  <2>2. \A q \in Threads : pc'[q] = pc[q] \/ pc'[q] = "idle"
    BY <1>3, <1>t DEF ComputeRaises, Return, TypeOK
  <2>3. ComputedValue' /\ Remembered'
    BY <2>1, <2>2 DEF SettleInv, ComputedValue, Remembered
  <2>4. MissedFirst'
    BY <2>1, <2>2 DEF SettleInv, MissedFirst, Slot, SigOf, HashOf
  <2> QED BY <2>3, <2>4
<1>4. ASSUME NEW p \in Threads, Fill(p)
      PROVE  ComputedValue' /\ Remembered' /\ MissedFirst'
  <2>1. ComputedValue'
    BY <1>4, <1>t DEF Fill, SettleInv, ComputedValue, TypeOK
  <2>2. MissedFirst'
    <3>1. ASSUME NEW q \in Threads, pc'[q] \in {"missed", "computed"}
          PROVE  Slot(call'[q]) \notin stored'[q]
      <4>1. q # p /\ pc'[q] = pc[q] /\ call' = call
        BY <1>4, <1>t, <3>1 DEF Fill, TypeOK
      <4>2. stored'[q] = stored[q]
        BY <1>4, <1>t, <4>1 DEF Fill, TypeOK
      <4> QED BY <3>1, <4>1, <4>2 DEF SettleInv, MissedFirst
    <3> QED BY <3>1 DEF MissedFirst, Slot, SigOf, HashOf
  <2>3. ASSUME NEW q \in Threads, NEW s \in Stores, NEW g \in Signatures, NEW h \in Hashes,
               <<s, g, h>> \in stored'[q]
        PROVE  cache'[s][g][h] # Absent
    <3>1. CASE <<s, g, h>> \in stored[q]
      BY <1>r, <3>1 DEF SettleInv, Remembered
    <3>2. CASE <<s, g, h>> \notin stored[q]
      <4>1. <<s, g, h>> = Slot(call[p])
        BY <1>4, <1>t, <2>3, <3>2 DEF Fill, TypeOK
      <4>2. s = call[p].in /\ g = SigOf(call[p]) /\ h = HashOf(call[p])
        BY <4>1 DEF Slot
      <4>3. cache'[s][g][h] = result[p]
        BY <1>4, <1>t, <4>2, FillStores
      <4> QED BY <1>4, <4>3 DEF Fill, SettleInv, ComputedValue
    <3> QED BY <3>1, <3>2
  <2>4. Remembered'
    BY <2>3 DEF Remembered
  <2> QED BY <2>1, <2>2, <2>4
<1>5. CASE UNCHANGED vars
  BY <1>5 DEF vars, SettleInv, TypeOK, ComputedValue, Remembered, MissedFirst, Slot, SigOf, HashOf
<1> QED BY <1>t, <1>1, <1>2, <1>3, <1>4, <1>5 DEF Next, SettleInv

(* Whatever the functions return and however their hashes collide: an entry that
   is there changes only by a thread that had missed it before, at most once by
   each, so that it settles when those that missed together have stored. *)
THEOREM EntriesSettleDown == Spec => EntriesSettle
<1> DEFINE Settles ==
      \A s \in Stores, g \in Signatures, h \in Hashes :
          cache[s][g][h] # Absent /\ cache'[s][g][h] # cache[s][g][h] =>
              /\ cache'[s][g][h] # Absent
              /\ \E p \in Threads : /\ pc[p] = "computed" /\ Slot(call[p]) = <<s, g, h>>
                                    /\ <<s, g, h>> \notin stored[p]
<1>1. Init => SettleInv
  <2>1. Init => ComputedValue /\ Remembered /\ MissedFirst
    BY DEF Init, ComputedValue, Remembered, MissedFirst
  <2> QED BY <2>1, TypeInit DEF SettleInv
<1>2. SettleInv /\ [Next]_vars => SettleInv' BY SettleStep
<1>3. SettleInv /\ [Next]_vars => [Settles]_vars
  <2> SUFFICES ASSUME SettleInv, [Next]_vars,
                      NEW s \in Stores, NEW g \in Signatures, NEW h \in Hashes,
                      cache[s][g][h] # Absent, cache'[s][g][h] # cache[s][g][h]
               PROVE  /\ cache'[s][g][h] # Absent
                      /\ \E p \in Threads : /\ pc[p] = "computed" /\ Slot(call[p]) = <<s, g, h>>
                                            /\ <<s, g, h>> \notin stored[p]
    OBVIOUS
  <2>1. PICK p \in Threads : Fill(p) /\ Slot(call[p]) = <<s, g, h>> /\ cache'[s][g][h] = result[p]
    BY EntryStep DEF SettleInv
  <2>2. pc[p] = "computed"
    BY <2>1 DEF Fill
  <2> QED BY <2>1, <2>2 DEF SettleInv, ComputedValue, MissedFirst
<1>4. Spec => [][Settles]_vars
  BY <1>1, <1>2, <1>3, PTL DEF Spec
<1> QED BY <1>4 DEF EntriesSettle

-----------------------------------------------------------------------------
(* Numbers, counts and sequences. *)
(* A non-empty set of naturals has a least element. *)
LEMMA Least ==
    ASSUME NEW S \in SUBSET Nat, S # {}
    PROVE  \E n \in S : \A k \in S : n <= k
<1> DEFINE R == OpToRel(<, Nat)
<1>1. R = {ss \in Nat \X Nat : ss[1] < ss[2]}
    BY DEF OpToRel
<1>2. IsWellFoundedOn(R, Nat)
    BY NatLessThanWellFounded, Zenon
<1> HIDE DEF R
<1>3. PICK n \in S : \A k \in S : ~(<<k, n>> \in R)
    <2>1. PICK n \in S : TRUE
        OBVIOUS
    <2> QED
        BY <1>2, <2>1, WFMin
<1>4. ASSUME NEW k \in S PROVE n <= k
    <2>1. n \in Nat /\ k \in Nat /\ ~(<<k, n>> \in R)
        BY <1>3
    <2>2. ~(k < n)
        BY <1>1, <2>1
    <2> QED
        BY <2>1, <2>2
<1> QED
    BY <1>4

(* LogSetup and PrefixCounter count as this module does. *)
LEMMA CountsAgree ==
    ASSUME NEW S
    PROVE  Logging!Cardinality(S) = Cardinality(S) /\ Counter!Cardinality(S) = Cardinality(S)
BY DEF Cardinality, IsFiniteSet, Logging!Cardinality, Logging!IsFiniteSet,
       Counter!Cardinality, Counter!IsFiniteSet

(* Two sequences with the same entries are one. *)
LEMMA SameSequence ==
    ASSUME NEW S, NEW s \in Seq(S), NEW t \in Seq(S), Len(s) = Len(t),
           \A i \in 1 .. Len(s) : s[i] = t[i]
    PROVE  s = t
OBVIOUS

-----------------------------------------------------------------------------
(* How many entries of a list are of some kind, and what the operations on
   lists do to that number. *)
In(s, H) == {k \in DOMAIN s : s[k] \in H}

(* Occurrences can be counted and are no more than there are entries. *)
LEMMA InCount ==
    ASSUME NEW S, NEW s \in Seq(S), NEW H
    PROVE  IsFiniteSet(In(s, H)) /\ Cardinality(In(s, H)) \in 0 .. Len(s)
<1>1. In(s, H) \in SUBSET (1 .. Len(s)) /\ Len(s) \in Nat
    BY DEF In
<1>2. IsFiniteSet(1 .. Len(s)) /\ Cardinality(1 .. Len(s)) = Len(s)
    <2> DEFINE n == Len(s)
    <2>1. 1 \in Int /\ n \in Int
        OBVIOUS
    <2> HIDE DEF n
    <2>2. IsFiniteSet(1 .. n) /\ Cardinality(1 .. n) = IF 1 > n THEN 0 ELSE n - 1 + 1
        BY <2>1, FS_Interval
    <2> QED
        BY <1>1, <2>2 DEF n
<1>3. IsFiniteSet(In(s, H)) /\ Cardinality(In(s, H)) <= Cardinality(1 .. Len(s))
    BY <1>1, <1>2, FS_Subset
<1> QED
    BY <1>1, <1>2, <1>3, FS_CardinalityType

(* Nothing occurs in an empty list. *)
LEMMA InEmpty == ASSUME NEW H PROVE Cardinality(In(<<>>, H)) = 0
<1>1. In(<<>>, H) = {}
    BY DEF In
<1> QED
    BY <1>1, FS_EmptySet

(* Append: one more if its element is of the kind. *)
LEMMA InAppend ==
    ASSUME NEW S, NEW s \in Seq(S), NEW e \in S, NEW H
    PROVE  Cardinality(In(Append(s, e), H)) = Cardinality(In(s, H)) + IF e \in H THEN 1 ELSE 0
<1>1. IsFiniteSet(In(s, H)) /\ Cardinality(In(s, H)) \in Nat
    BY InCount
<1>2. /\ DOMAIN Append(s, e) = 1 .. Len(s) + 1 /\ DOMAIN s = 1 .. Len(s) /\ Len(s) \in Nat
      /\ \A k \in 1 .. Len(s) : Append(s, e)[k] = s[k]
      /\ Append(s, e)[Len(s) + 1] = e
    OBVIOUS
<1>3. CASE e \in H
    <2>1. In(Append(s, e), H) = In(s, H) \cup {Len(s) + 1}
        BY <1>2, <1>3 DEF In
    <2>2. Len(s) + 1 \notin In(s, H)
        BY <1>2 DEF In
    <2> QED
        BY <1>1, <1>3, <2>1, <2>2, FS_AddElement
<1>4. CASE e \notin H
    <2>1. In(Append(s, e), H) = In(s, H)
        BY <1>2, <1>4 DEF In
    <2> QED
        BY <1>1, <1>4, <2>1
<1> QED
    BY <1>3, <1>4

-----------------------------------------------------------------------------
(* A sum over a finite set, as own_count makes one: when each number counts a
   set and the sets are disjoint, the sum counts their union.  The fold is a
   function that is defined from smaller sets; there is one such function, as
   sets for which two differ would have a smallest. *)
Total(c, S) == Counter!MapThenSumSet(LAMBDA q : c[q], S)

Sums(c, S, iter) ==
    iter = [s \in SUBSET S |->
              IF s = {} THEN 0 ELSE LET x == CHOOSE x \in s : TRUE IN c[x] + iter[s \ {x}]]

(* The fold of the community modules is a solution of that equation. *)
LEMMA FoldIsSum ==
    ASSUME NEW S, NEW c, \E iter : Sums(c, S, iter)
    PROVE  \E iter : Sums(c, S, iter) /\ Total(c, S) = iter[S]
<1> DEFINE it == CHOOSE iter : iter = [s \in SUBSET S |->
                    IF s = {} THEN 0 ELSE LET x == CHOOSE x \in s : TRUE IN c[x] + iter[s \ {x}]]
<1>1. Sums(c, S, it)
    BY DEF Sums
<1>2. Total(c, S) = it[S]
    BY DEF Total, Counter!MapThenSumSet, Counter!MapThenFoldSet
<1> HIDE DEF it
<1> QED
    BY <1>1, <1>2

(* A sum of counts of disjoint sets is the count of their union. *)
LEMMA SumCounts ==
    ASSUME NEW S, IsFiniteSet(S), NEW I, IsFiniteSet(I), NEW A \in [S -> SUBSET I], NEW c,
           \A q \in S : c[q] = Cardinality(A[q]),
           \A q, r \in S : q # r => A[q] \cap A[r] = {}
    PROVE  Total(c, S) = Cardinality(UNION {A[q] : q \in S})
<1> DEFINE Both(s) == UNION {A[q] : q \in s}
           it == [s \in SUBSET S |-> Cardinality(Both(s))]
<1>1. \A s \in SUBSET S : IsFiniteSet(Both(s)) /\ it[s] \in Nat
    <2>1. ASSUME NEW s \in SUBSET S PROVE IsFiniteSet(Both(s)) /\ Cardinality(Both(s)) \in Nat
        <3>1. Both(s) \in SUBSET I
            OBVIOUS
        <3> QED
            BY <3>1, FS_Subset, FS_CardinalityType
    <2> QED
        BY <2>1
<1>2. \A s \in SUBSET S : s # {} => (CHOOSE x \in s : TRUE) \in s
    OBVIOUS
<1>3. ASSUME NEW s \in SUBSET S, NEW x \in s PROVE it[s] = c[x] + it[s \ {x}]
    <2> DEFINE X == A[x]
               Y == Both(s \ {x})
    <2>1. Both(s) = X \cup Y /\ X \cap Y = {}
        OBVIOUS
    <2>2. IsFiniteSet(X) /\ IsFiniteSet(Y) /\ c[x] = Cardinality(X)
        BY <1>1, FS_Subset
    <2>3. it[s] = Cardinality(X \cup Y) /\ it[s \ {x}] = Cardinality(Y)
        BY <2>1
    <2> HIDE DEF X, Y, it
    <2>4. Cardinality(X \cap Y) = 0 /\ Cardinality(X) \in Nat /\ Cardinality(Y) \in Nat
        BY <2>1, <2>2, FS_EmptySet, FS_CardinalityType
    <2>5. Cardinality(X \cup Y) = Cardinality(X) + Cardinality(Y)
        <3>1. Cardinality(X \cup Y) = Cardinality(X) + Cardinality(Y) - Cardinality(X \cap Y)
            BY <2>2, FS_Union
        <3> QED
            BY <2>4, <3>1
    <2> QED
        BY <2>2, <2>3, <2>5
<1>4. it[{}] = 0
    <2>1. Both({}) = {}
        OBVIOUS
    <2> QED
        BY <2>1, FS_EmptySet
<1>5. Sums(c, S, it)
    <2>1. \A s \in SUBSET S : it[s] = IF s = {} THEN 0
                                      ELSE LET x == CHOOSE x \in s : TRUE IN c[x] + it[s \ {x}]
        <3> HIDE DEF it
        <3> QED
            BY <1>2, <1>3, <1>4
    <2>2. it = [s \in SUBSET S |-> it[s]]
        OBVIOUS
    <2> HIDE DEF it
    <2> QED
        BY <2>1, <2>2 DEF Sums
<1>6. PICK iter : Sums(c, S, iter) /\ Total(c, S) = iter[S]
    <2> HIDE DEF it
    <2> QED
        BY <1>5, FoldIsSum
<1>7. \A s \in SUBSET S : IsFiniteSet(s) /\ Cardinality(s) \in Nat
    BY FS_Subset, FS_CardinalityType
<1>8. \A s \in SUBSET S : iter[s] = it[s]
    <2> DEFINE wrong == {s \in SUBSET S : iter[s] # it[s]}
               sizes == {Cardinality(s) : s \in wrong}
    <2> HIDE DEF it
    <2> SUFFICES ASSUME wrong # {} PROVE FALSE
        OBVIOUS
    <2>1. sizes \in SUBSET Nat /\ sizes # {}
        BY <1>7
    <2>2. PICK n \in sizes : \A k \in sizes : n <= k
        <3> HIDE DEF sizes
        <3> QED
            BY <2>1, Least
    <2>3. PICK s \in wrong : Cardinality(s) = n
        OBVIOUS
    <2>4. s # {}
        BY <1>4, <1>6, <2>3 DEF Sums
    <2>5. PICK x \in s : iter[s] = c[x] + iter[s \ {x}]
        <3> DEFINE first == CHOOSE x \in s : TRUE
        <3>1. s \in SUBSET S /\ iter[s] = c[first] + iter[s \ {first}]
            BY <1>6, <2>3, <2>4 DEF Sums
        <3>2. first \in s
            BY <1>2, <2>4, <3>1
        <3> QED
            BY <3>1, <3>2
    <2>6. Cardinality(s \ {x}) = n - 1 /\ s \ {x} \in SUBSET S /\ n \in Nat
        BY <1>7, <2>1, <2>3, FS_RemoveElement
    <2>7. s \ {x} \notin wrong
        BY <2>2, <2>6
    <2> QED
        BY <1>3, <2>3, <2>5, <2>6, <2>7
<1> QED
    BY <1>6, <1>8

-----------------------------------------------------------------------------
(* PrefixCounter: tuples, their prefixes and their paths. *)
Entries == UNION {{t[k] : k \in DOMAIN t} : t \in Tuples}

(* Tuples are sequences, and finitely many of them can be added. *)
TreeArguments ==
    /\ IsFiniteSet(Tuples) /\ Tuples \subseteq Seq(Entries)
    /\ Capacity \in Nat /\ MaxAdds \in Nat

(* A prefix has its length and the entries of the whole. *)
LEMMA Prefix ==
    ASSUME NEW S, NEW t \in Seq(S), NEW k \in 0 .. Len(t)
    PROVE  /\ SubSeq(t, 1, k) \in Seq(S) /\ Len(SubSeq(t, 1, k)) = k
           /\ \A i \in 1 .. k : SubSeq(t, 1, k)[i] = t[i]
OBVIOUS

(* A prefix of a prefix is a prefix. *)
LEMMA PrefixOfPrefix ==
    ASSUME NEW S, NEW t \in Seq(S), NEW k \in 0 .. Len(t), NEW j \in 0 .. k
    PROVE  SubSeq(SubSeq(t, 1, k), 1, j) = SubSeq(t, 1, j)
<1> DEFINE u == SubSeq(t, 1, k)
           v == SubSeq(u, 1, j)
           w == SubSeq(t, 1, j)
<1>1. u \in Seq(S) /\ Len(u) = k /\ \A i \in 1 .. k : u[i] = t[i]
    BY Prefix
<1>2. w \in Seq(S) /\ Len(w) = j /\ \A i \in 1 .. j : w[i] = t[i]
    BY Prefix
<1> HIDE DEF u, w
<1>3. v \in Seq(S) /\ Len(v) = j /\ \A i \in 1 .. j : v[i] = u[i]
    BY <1>1, Prefix
<1> HIDE DEF v
<1>4. v = w
    BY <1>1, <1>2, <1>3, SameSequence
<1> QED
    BY <1>4 DEF u, v, w

(* add gets no further down than its tuple is long. *)
LEMMA DepthType == ASSUME TreeArguments, NEW t \in Tuples PROVE Counter!Depth(t) \in 0 .. Len(t)
<1> DEFINE bad == {k \in 1 .. Len(t) - 1 : t[k] \in Unhashable}
<1>1. Len(t) \in Nat /\ (t # <<>> => Len(t) # 0)
    BY DEF TreeArguments
<1>2. CASE t = <<>> \/ bad = {}
    BY <1>1, <1>2 DEF Counter!Depth
<1>3. CASE t # <<>> /\ bad # {}
    <2>1. bad \in SUBSET Nat
        BY <1>1
    <2>2. \E n \in bad : \A k \in bad : n <= k
        <3> HIDE DEF bad
        <3> QED
            BY <1>3, <2>1, Least
    <2>3. Counter!Min(bad) \in bad
        <3> HIDE DEF bad
        <3> QED
            BY <2>2 DEF Counter!Min
    <2>4. Counter!Depth(t) = Counter!Min(bad) - 1
        BY <1>3 DEF Counter!Depth
    <2> QED
        BY <1>1, <2>3, <2>4
<1> QED
    BY <1>2, <1>3

(* A node is on the path of a tuple if it is a prefix of it, not too long. *)
LEMMA OnPath ==
    ASSUME TreeArguments, NEW t \in Tuples, NEW p
    PROVE  p \in Counter!Path(t) <=>
               /\ p \in Seq(Entries) /\ Len(p) <= Counter!Depth(t)
               /\ p = SubSeq(t, 1, Len(p))
<1>1. t \in Seq(Entries) /\ Counter!Depth(t) \in 0 .. Len(t) /\ Len(t) \in Nat
    BY DepthType DEF TreeArguments
<1>2. ASSUME NEW k \in 0 .. Counter!Depth(t), p = SubSeq(t, 1, k)
      PROVE  p \in Seq(Entries) /\ Len(p) = k
    <2>1. k \in 0 .. Len(t)
        BY <1>1
    <2> QED
        BY <1>1, <1>2, <2>1, Prefix
<1>3. ASSUME p \in Seq(Entries), Len(p) <= Counter!Depth(t), p = SubSeq(t, 1, Len(p))
      PROVE  p \in Counter!Path(t)
    <2>1. Len(p) \in 0 .. Counter!Depth(t)
        BY <1>1, <1>3
    <2> QED
        BY <1>3, <2>1 DEF Counter!Path
<1>4. ASSUME p \in Counter!Path(t)
      PROVE  p \in Seq(Entries) /\ Len(p) <= Counter!Depth(t) /\ p = SubSeq(t, 1, Len(p))
    <2>1. PICK k \in 0 .. Counter!Depth(t) : p = SubSeq(t, 1, k)
        BY <1>4 DEF Counter!Path
    <2> QED
        BY <1>1, <1>2, <2>1
<1> QED
    BY <1>3, <1>4

(* The node where a tuple stops is the last one on its path. *)
LEMMA HomeOnPath ==
    ASSUME TreeArguments, NEW t \in Tuples
    PROVE  /\ Counter!Home(t) \in Counter!Path(t) /\ Counter!Path(t) \subseteq Counter!Nodes
           /\ Len(Counter!Home(t)) = Counter!Depth(t)
<1>1. t \in Seq(Entries) /\ Counter!Depth(t) \in 0 .. Len(t) /\ Len(t) \in Nat
    BY DepthType DEF TreeArguments
<1>2. Counter!Home(t) \in Counter!Path(t)
    <2>1. Counter!Depth(t) \in 0 .. Counter!Depth(t)
        BY <1>1
    <2> QED
        BY <2>1 DEF Counter!Home, Counter!Path
<1>3. Counter!Path(t) \subseteq Counter!Nodes
    <2>1. 0 .. Counter!Depth(t) \subseteq 0 .. Len(t)
        BY <1>1
    <2> QED
        BY <2>1 DEF Counter!Path, Counter!Nodes
<1>4. Len(Counter!Home(t)) = Counter!Depth(t)
    BY <1>1, Prefix DEF Counter!Home
<1> QED
    BY <1>2, <1>3, <1>4

(* Nodes are named by tuples of entries. *)
LEMMA NodesAreTuples == ASSUME TreeArguments PROVE Counter!Nodes \subseteq Seq(Entries)
<1>1. ASSUME NEW t \in Tuples, NEW k \in 0 .. Len(t) PROVE SubSeq(t, 1, k) \in Seq(Entries)
    BY Prefix DEF TreeArguments
<1> QED
    BY <1>1 DEF Counter!Nodes

(* A node other than the last one of a path has one child on it, and the
   children of other nodes are not on it. *)
LEMMA PathGoesDown ==
    ASSUME TreeArguments, NEW t \in Tuples, NEW p \in Counter!Nodes
    PROVE  /\ p \in Counter!Path(t) /\ p # Counter!Home(t) =>
                \E q \in Counter!Children(p) : q \in Counter!Path(t)
           /\ \A q \in Counter!Children(p) \cap Counter!Path(t) :
                p \in Counter!Path(t) /\ p # Counter!Home(t)
           /\ \A q, r \in Counter!Children(p) \cap Counter!Path(t) : q = r
<1> DEFINE d == Counter!Depth(t)
<1>1. t \in Seq(Entries) /\ d \in 0 .. Len(t) /\ Len(t) \in Nat
    BY DepthType DEF TreeArguments
<1>2. p \in Seq(Entries)
    BY NodesAreTuples
<1>3. Counter!Home(t) = SubSeq(t, 1, d)
    BY DEF Counter!Home
<1> HIDE DEF d
<1>4. ASSUME p \in Counter!Path(t), p # Counter!Home(t)
      PROVE  \E q \in Counter!Children(p) : q \in Counter!Path(t)
    <2> DEFINE k == Len(p)
               q == SubSeq(t, 1, k + 1)
    <2>1. p \in Seq(Entries) /\ k <= d /\ p = SubSeq(t, 1, k)
        BY <1>4, OnPath DEF d
    <2>2. k # d /\ k \in Nat
        BY <1>3, <1>4, <2>1
    <2> HIDE DEF k
    <2>3. k + 1 \in 0 .. Len(t) /\ k + 1 <= d /\ k \in 0 .. k + 1
        BY <1>1, <2>1, <2>2
    <2>4. q \in Seq(Entries) /\ Len(q) = k + 1
        BY <1>1, <2>3, Prefix
    <2>5. SubSeq(q, 1, k) = p
        BY <1>1, <2>1, <2>3, PrefixOfPrefix
    <2> HIDE DEF q
    <2>6. q = SubSeq(t, 1, Len(q))
        BY <2>4 DEF q
    <2>7. q \in Counter!Path(t)
        BY <2>3, <2>4, <2>6, OnPath DEF d
    <2>8. q \in Counter!Nodes
        BY <2>7, HomeOnPath
    <2> QED
        BY <2>4, <2>5, <2>7, <2>8 DEF Counter!Children, k
<1>5. ASSUME NEW q \in Counter!Children(p) \cap Counter!Path(t)
      PROVE  p \in Counter!Path(t) /\ p # Counter!Home(t) /\ q = SubSeq(t, 1, Len(p) + 1)
    <2> DEFINE k == Len(p)
    <2>1. Len(q) = k + 1 /\ SubSeq(q, 1, k) = p
        BY DEF Counter!Children
    <2>2. q \in Seq(Entries) /\ Len(q) <= d /\ q = SubSeq(t, 1, Len(q))
        BY OnPath DEF d
    <2>3. k \in Nat /\ k + 1 \in 0 .. Len(t) /\ k \in 0 .. k + 1
        BY <1>1, <1>2, <2>1, <2>2
    <2> HIDE DEF k
    <2>4. p = SubSeq(t, 1, k)
        BY <1>1, <2>1, <2>2, <2>3, PrefixOfPrefix
    <2>5. p \in Counter!Path(t)
        BY <1>1, <1>2, <2>1, <2>2, <2>3, <2>4, OnPath DEF d, k
    <2>6. Len(Counter!Home(t)) # Len(p)
        BY <1>1, <2>1, <2>2, <2>3, HomeOnPath DEF d, k
    <2> QED
        BY <2>1, <2>2, <2>5, <2>6 DEF k
<1> QED
    BY <1>4, <1>5

(* There are finitely many nodes. *)
LEMMA NodesAreFinite == ASSUME TreeArguments PROVE IsFiniteSet(Counter!Nodes)
<1> DEFINE Of(t) == {SubSeq(t, 1, k) : k \in 0 .. Len(t)}
           f == [t \in Tuples |-> Of(t)]
           Sets == {Of(t) : t \in Tuples}
<1>1. ASSUME NEW t \in Tuples PROVE IsFiniteSet(Of(t))
    <2> DEFINE n == Len(t)
               g == [k \in 0 .. n |-> SubSeq(t, 1, k)]
    <2>1. 0 \in Int /\ n \in Int
        BY DEF TreeArguments
    <2>2. g \in Surjection(0 .. n, Of(t))
        BY DEF Surjection
    <2> HIDE DEF n, g
    <2>3. IsFiniteSet(0 .. n)
        BY <2>1, FS_Interval
    <2> QED
        BY <2>2, <2>3, FS_Surjection
<1>2. f \in Surjection(Tuples, Sets)
    BY DEF Surjection
<1>3. IsFiniteSet(Sets)
    <2> HIDE DEF f, Sets
    <2> QED
        BY <1>2, FS_Surjection DEF TreeArguments
<1>4. IsFiniteSet(UNION Sets)
    <2>1. \A T \in Sets : IsFiniteSet(T)
        BY <1>1
    <2> HIDE DEF Sets
    <2> QED
        BY <1>3, <2>1, FS_UNION
<1> QED
    BY <1>4 DEF Counter!Nodes

-----------------------------------------------------------------------------
(* PrefixCounter: counts and samples are those of the tuples given so far. *)
Through(p)   == {t \in Tuples : p \in Counter!Path(t)}
EndingAt(p)  == {t \in Tuples : Counter!Home(t) = p}
ArrivedAt(p) == {t \in Tuples : Counter!Arrives(t) /\ Counter!Home(t) = p}

Lesser(a, b) == IF a <= b THEN a ELSE b

SamplesRight ==
    /\ \A p \in Counter!Nodes :
         Len(samples[p]) = Lesser(Capacity, Cardinality(In(added, ArrivedAt(p))))
    /\ \A p \in Counter!Nodes : \A k \in DOMAIN samples[p] :
         \E t \in Counter!Range(added) :
             Counter!Arrives(t) /\ Counter!Home(t) = p /\ t[Len(t)] = samples[p][k]

TreeInv ==
    /\ added \in Seq(Tuples) /\ Len(added) <= MaxAdds
    /\ count \in [Counter!Nodes -> Nat]
    /\ samples \in [Counter!Nodes -> Seq(Entries)]
    /\ \A p \in Counter!Nodes : count[p] = Cardinality(In(added, Through(p)))
    /\ SamplesRight

(* Initially no node has counted anything. *)
LEMMA TreeInit == ASSUME TreeArguments, Counter!Init PROVE TreeInv
<1>1. /\ added \in Seq(Tuples) /\ Len(added) <= MaxAdds /\ added = <<>>
      /\ count \in [Counter!Nodes -> Nat]
      /\ samples \in [Counter!Nodes -> Seq(Entries)]
    BY DEF Counter!Init, TreeArguments
<1>2. \A p \in Counter!Nodes : count[p] = 0 /\ samples[p] = <<>> /\ Len(samples[p]) = 0 /\ DOMAIN samples[p] = {}
    BY DEF Counter!Init
<1>3. \A H : Cardinality(In(added, H)) = 0
    BY <1>1, InEmpty
<1>4. Lesser(Capacity, 0) = 0
    BY DEF Lesser, TreeArguments
<1> QED
    BY <1>1, <1>2, <1>3, <1>4 DEF TreeInv, SamplesRight

(* What was added stays added. *)
LEMMA RangeGrows ==
    ASSUME NEW S, NEW s \in Seq(S), NEW e \in S
    PROVE  Counter!Range(s) \subseteq Counter!Range(Append(s, e)) /\ e \in Counter!Range(Append(s, e))
<1>1. /\ DOMAIN Append(s, e) = 1 .. Len(s) + 1 /\ DOMAIN s = 1 .. Len(s) /\ Len(s) \in Nat
      /\ \A k \in 1 .. Len(s) : Append(s, e)[k] = s[k]
      /\ Append(s, e)[Len(s) + 1] = e
    OBVIOUS
<1> QED
    BY <1>1 DEF Counter!Range

(* What an add does to the samples of the node where its tuple arrives. *)
LEMMA ReservoirStep ==
    ASSUME TreeArguments, TreeInv, NEW t \in Tuples, Counter!Arrives(t),
           added' = Append(added, t), NEW h, h = Counter!Home(t),
           NEW new \in Counter!Reservoir(samples[h], t[Len(t)])
    PROVE  /\ h \in Counter!Nodes /\ new \in Seq(Entries)
           /\ Len(new) = Lesser(Capacity, Cardinality(In(added', ArrivedAt(h))))
           /\ \A k \in DOMAIN new : \E u \in Counter!Range(added') :
                Counter!Arrives(u) /\ Counter!Home(u) = h /\ u[Len(u)] = new[k]
<1> DEFINE old == samples[h]
           v == t[Len(t)]
           n == Cardinality(In(added, ArrivedAt(h)))
<1>1. h \in Counter!Nodes
    BY HomeOnPath
<1>2. /\ old \in Seq(Entries) /\ Len(old) = Lesser(Capacity, n) /\ Capacity \in Nat
      /\ \A k \in DOMAIN old : \E u \in Counter!Range(added) :
           Counter!Arrives(u) /\ Counter!Home(u) = h /\ u[Len(u)] = old[k]
    BY <1>1 DEF TreeInv, SamplesRight, TreeArguments
<1>3. v \in Entries
    <2>1. t \in Seq(Entries) /\ t # <<>>
        BY DEF TreeArguments, Counter!Arrives
    <2> QED
        BY <2>1
<1>4. n \in Nat /\ Cardinality(In(added', ArrivedAt(h))) = n + 1
    <2>1. t \in ArrivedAt(h)
        BY DEF ArrivedAt
    <2>2. added \in Seq(Tuples)
        BY DEF TreeInv
    <2> QED
        BY <2>1, <2>2, InCount, InAppend
<1>5. Counter!Range(added) \subseteq Counter!Range(added') /\ t \in Counter!Range(added')
    BY RangeGrows DEF TreeInv
<1>6. new \in IF Len(old) < Capacity THEN {Append(old, v)} ELSE {[old EXCEPT ![i] = v] : i \in DOMAIN old}
    BY DEF Counter!Reservoir
<1> HIDE DEF old, v, n
<1>7. CASE Len(old) < Capacity
    <2>1. new = Append(old, v)
        BY <1>6, <1>7
    <2>2. /\ new \in Seq(Entries) /\ Len(new) = Len(old) + 1 /\ DOMAIN new = 1 .. Len(old) + 1
          /\ DOMAIN old = 1 .. Len(old) /\ Len(old) \in Nat
          /\ \A k \in 1 .. Len(old) : new[k] = old[k]
          /\ new[Len(old) + 1] = v
        BY <1>2, <1>3, <2>1
    <2>3. Len(new) = Lesser(Capacity, n + 1)
        BY <1>2, <1>4, <1>7, <2>2 DEF Lesser
    <2>4. \A k \in DOMAIN new : \E u \in Counter!Range(added') :
              Counter!Arrives(u) /\ Counter!Home(u) = h /\ u[Len(u)] = new[k]
        <3>1. \A k \in DOMAIN new : (k \in DOMAIN old /\ new[k] = old[k]) \/ new[k] = v
            BY <2>2
        <3> QED
            BY <1>2, <1>5, <3>1 DEF v
    <2> QED
        BY <1>1, <1>4, <2>2, <2>3, <2>4
<1>8. CASE ~(Len(old) < Capacity)
    <2>1. PICK i \in DOMAIN old : new = [old EXCEPT ![i] = v]
        BY <1>6, <1>8
    <2>2. new \in Seq(Entries) /\ Len(new) = Len(old) /\ DOMAIN new = DOMAIN old /\ Len(old) \in Nat
        BY <1>2, <1>3, <2>1
    <2>3. Len(new) = Lesser(Capacity, n + 1)
        BY <1>2, <1>4, <1>8, <2>2 DEF Lesser
    <2>4. \A k \in DOMAIN new : \E u \in Counter!Range(added') :
              Counter!Arrives(u) /\ Counter!Home(u) = h /\ u[Len(u)] = new[k]
        <3>1. \A k \in DOMAIN new : k \in DOMAIN old /\ (new[k] = old[k] \/ new[k] = v)
            BY <1>2, <2>1
        <3> QED
            BY <1>2, <1>5, <3>1 DEF v
    <2> QED
        BY <1>1, <1>4, <2>2, <2>3, <2>4
<1> QED
    BY <1>7, <1>8

(* An add keeps counts and samples right. *)
LEMMA TreeStep ==
    ASSUME TreeArguments, TreeInv, [Counter!Next]_(Counter!counterVars)
    PROVE  TreeInv'
<1>1. ASSUME NEW t \in Tuples, Counter!Add(t) PROVE TreeInv'
    <2>1. added' = Append(added, t) /\ added \in Seq(Tuples) /\ Len(added) < MaxAdds
        BY <1>1 DEF Counter!Add, TreeInv
    <2>2. added' \in Seq(Tuples) /\ Len(added') <= MaxAdds
        BY <2>1 DEF TreeArguments
    <2>3. \A H : Cardinality(In(added', H)) = Cardinality(In(added, H)) + IF t \in H THEN 1 ELSE 0
        BY <2>1, InAppend
    <2>4. /\ count' \in [Counter!Nodes -> Nat]
          /\ \A p \in Counter!Nodes : count'[p] = Cardinality(In(added', Through(p)))
        <3>1. /\ DOMAIN count' = Counter!Nodes
              /\ \A p \in Counter!Nodes : count'[p] = count[p] + IF p \in Counter!Path(t) THEN 1 ELSE 0
              /\ count' = [p \in Counter!Nodes |-> count'[p]]
            BY <1>1 DEF Counter!Add
        <3>2. \A p \in Counter!Nodes : t \in Through(p) <=> p \in Counter!Path(t)
            BY DEF Through
        <3>3. \A p \in Counter!Nodes : count[p] \in Nat /\ count[p] = Cardinality(In(added, Through(p)))
            BY DEF TreeInv
        <3>4. \A p \in Counter!Nodes : count'[p] \in Nat /\ count'[p] = Cardinality(In(added', Through(p)))
            BY <2>3, <3>1, <3>2, <3>3
        <3> QED
            BY <3>1, <3>4
    <2>5. Counter!Range(added) \subseteq Counter!Range(added')
        BY <2>1, RangeGrows
    <2>6. \A p \in Counter!Nodes : ~(Counter!Arrives(t) /\ Counter!Home(t) = p) =>
              Cardinality(In(added', ArrivedAt(p))) = Cardinality(In(added, ArrivedAt(p)))
        <3>1. \A p \in Counter!Nodes : Cardinality(In(added, ArrivedAt(p))) \in Nat
            BY <2>1, InCount
        <3> QED
            BY <2>3, <3>1 DEF ArrivedAt
    <2>7. samples \in [Counter!Nodes -> Seq(Entries)] /\ SamplesRight
        BY DEF TreeInv
    <2>8. samples' \in [Counter!Nodes -> Seq(Entries)] /\ SamplesRight'
        <3>1. CASE Counter!Arrives(t)
            <4> DEFINE h == Counter!Home(t)
            <4>1. PICK new \in Counter!Reservoir(samples[h], t[Len(t)]) : samples' = [samples EXCEPT ![h] = new]
                BY <1>1, <3>1 DEF Counter!Add
            <4>2. /\ h \in Counter!Nodes /\ new \in Seq(Entries)
                  /\ Len(new) = Lesser(Capacity, Cardinality(In(added', ArrivedAt(h))))
                  /\ \A k \in DOMAIN new : \E u \in Counter!Range(added') :
                       Counter!Arrives(u) /\ Counter!Home(u) = h /\ u[Len(u)] = new[k]
                BY <2>1, <3>1, ReservoirStep
            <4>3. /\ samples' \in [Counter!Nodes -> Seq(Entries)] /\ samples'[h] = new
                  /\ \A p \in Counter!Nodes : p # h => samples'[p] = samples[p]
                BY <2>7, <4>1, <4>2
            <4> HIDE DEF h
            <4>4. ASSUME NEW p \in Counter!Nodes
                  PROVE  /\ Len(samples'[p]) = Lesser(Capacity, Cardinality(In(added', ArrivedAt(p))))
                         /\ \A k \in DOMAIN samples'[p] : \E u \in Counter!Range(added') :
                              Counter!Arrives(u) /\ Counter!Home(u) = p /\ u[Len(u)] = samples'[p][k]
                <5>1. CASE p = h
                    BY <4>2, <4>3, <5>1
                <5>2. CASE p # h
                    <6>1. /\ samples'[p] = samples[p]
                          /\ Cardinality(In(added', ArrivedAt(p))) = Cardinality(In(added, ArrivedAt(p)))
                        BY <2>6, <4>3, <5>2 DEF h
                    <6>2. Len(samples'[p]) = Lesser(Capacity, Cardinality(In(added', ArrivedAt(p))))
                        BY <2>7, <6>1 DEF SamplesRight
                    <6>3. \A k \in DOMAIN samples'[p] : \E u \in Counter!Range(added') :
                              Counter!Arrives(u) /\ Counter!Home(u) = p /\ u[Len(u)] = samples'[p][k]
                        BY <2>5, <2>7, <6>1 DEF SamplesRight
                    <6> QED
                        BY <6>2, <6>3
                <5> QED
                    BY <5>1, <5>2
            <4> QED
                BY <4>3, <4>4 DEF SamplesRight
        <3>2. CASE ~Counter!Arrives(t)
            <4>1. samples' = samples
                BY <1>1, <3>2 DEF Counter!Add
            <4> QED
                BY <2>5, <2>6, <2>7, <3>2, <4>1 DEF SamplesRight
        <3> QED
            BY <3>1, <3>2
    <2> QED
        BY <2>2, <2>4, <2>8 DEF TreeInv
<1>2. CASE UNCHANGED Counter!counterVars
    BY <1>2 DEF Counter!counterVars, TreeInv, SamplesRight
<1> QED
    BY <1>1, <1>2 DEF Counter!Next

(* own_count: the tuples through a node are those that end there and those
   through one of its children. *)
LEMMA OwnCountIsEndings ==
    ASSUME TreeArguments, TreeInv, NEW p \in Counter!Nodes
    PROVE  Counter!OwnCount(p) = Cardinality(In(added, EndingAt(p)))
<1> DEFINE S == Counter!Children(p)
           I == DOMAIN added
           A == [q \in S |-> In(added, Through(q))]
           All == In(added, Through(p))
           Here == In(added, EndingAt(p))
           Below == UNION {A[q] : q \in S}
<1>1. added \in Seq(Tuples) /\ S \subseteq Counter!Nodes
    BY DEF TreeInv, Counter!Children
<1>2. IsFiniteSet(S) /\ IsFiniteSet(I)
    <2>1. IsFiniteSet(S)
        BY <1>1, NodesAreFinite, FS_Subset
    <2>2. IsFiniteSet(In(added, Tuples))
        BY <1>1, InCount
    <2>3. In(added, Tuples) = I
        <3>1. \A i \in DOMAIN added : added[i] \in Tuples
            BY <1>1
        <3> QED
            BY <3>1 DEF In
    <2> QED
        BY <2>1, <2>2, <2>3
<1>3. A \in [S -> SUBSET I] /\ Here \subseteq I /\ All \subseteq I
    BY DEF In
<1>4. \A q \in S : count[q] = Cardinality(A[q])
    BY <1>1 DEF TreeInv
<1>5. \A i \in I : added[i] \in Tuples
    BY <1>1
<1>6. \A q, r \in S : q # r => A[q] \cap A[r] = {}
    <2> SUFFICES ASSUME NEW q \in S, NEW r \in S, q # r, NEW i \in A[q] \cap A[r] PROVE FALSE
        OBVIOUS
    <2>1. /\ i \in I /\ added[i] \in Tuples
          /\ q \in Counter!Path(added[i]) /\ r \in Counter!Path(added[i])
        BY <1>5 DEF In, Through
    <2> QED
        BY <2>1, PathGoesDown
<1>7. All = Here \cup Below /\ Here \cap Below = {}
    <2>1. ASSUME NEW i \in I
          PROVE  /\ i \in All <=> i \in Here \/ \E q \in S : i \in A[q]
                 /\ ~(i \in Here /\ \E q \in S : i \in A[q])
        <3> DEFINE t == added[i]
        <3>1. t \in Tuples
            BY <1>5
        <3>2. /\ i \in All <=> p \in Counter!Path(t)
              /\ i \in Here <=> Counter!Home(t) = p
              /\ \A q \in S : i \in A[q] <=> q \in Counter!Path(t)
            BY <3>1 DEF In, Through, EndingAt
        <3>3. Counter!Home(t) \in Counter!Path(t)
            BY <3>1, HomeOnPath
        <3>4. /\ p \in Counter!Path(t) /\ p # Counter!Home(t) => \E q \in S : q \in Counter!Path(t)
              /\ \A q \in S : q \in Counter!Path(t) => p \in Counter!Path(t) /\ p # Counter!Home(t)
            BY <3>1, PathGoesDown
        <3> HIDE DEF A, S, All, Here, t
        <3> QED
            BY <3>2, <3>3, <3>4
    <2>2. Below \subseteq I
        BY <1>3
    <2> HIDE DEF All, Here, A, I, S
    <2> QED
        BY <1>3, <2>1, <2>2
<1>8. Total(count, S) = Cardinality(Below)
    <2> HIDE DEF S, I, A
    <2> QED
        BY <1>2, <1>3, <1>4, <1>6, SumCounts
<1>9. count[p] = Cardinality(All)
    BY DEF TreeInv
<1>10. Counter!OwnCount(p) = count[p] - Total(count, S)
    BY DEF Counter!OwnCount, Total, Counter!MapThenSumSet, Counter!MapThenFoldSet
<1>11. Cardinality(All) = Cardinality(Here) + Cardinality(Below) /\ Cardinality(Here) \in Nat /\ Cardinality(Below) \in Nat
    <2>1. IsFiniteSet(Here) /\ IsFiniteSet(Below)
        <3>1. Below \subseteq I
            BY <1>3
        <3> HIDE DEF Here, Below, I
        <3> QED
            BY <1>2, <1>3, <3>1, FS_Subset
    <2> HIDE DEF All, Here, Below
    <2>2. Cardinality(Here) \in Nat /\ Cardinality(Below) \in Nat
        BY <2>1, FS_CardinalityType
    <2>3. Cardinality(Here \cap Below) = 0
        BY <1>7, FS_EmptySet
    <2>4. Cardinality(Here \cup Below) = Cardinality(Here) + Cardinality(Below) - Cardinality(Here \cap Below)
        BY <2>1, FS_Union
    <2> QED
        BY <1>7, <2>2, <2>3, <2>4
<1> HIDE DEF All, Here, Below, S
<1> QED
    BY <1>8, <1>9, <1>10, <1>11 DEF Here

(* The least of two numbers. *)
LEMMA SmallerIsMin ==
    ASSUME NEW a \in Nat, NEW b \in Nat PROVE Counter!Min({a, b}) = Lesser(a, b)
<1> DEFINE least == CHOOSE x \in {a, b} : \A y \in {a, b} : x <= y
<1>1. \E x \in {a, b} : \A y \in {a, b} : x <= y
    OBVIOUS
<1>2. least \in {a, b} /\ \A y \in {a, b} : least <= y
    <2> DEFINE P(x) == \A y \in {a, b} : x <= y
    <2>1. \E x \in {a, b} : P(x)
        BY <1>1
    <2> HIDE DEF P
    <2>2. (CHOOSE x \in {a, b} : P(x)) \in {a, b} /\ P(CHOOSE x \in {a, b} : P(x))
        BY <2>1
    <2> QED
        BY <2>2 DEF P
<1>3. Counter!Min({a, b}) = least
    BY DEF Counter!Min
<1> HIDE DEF least
<1> QED
    BY <1>2, <1>3 DEF Lesser

(* What one sees of the argument: CountsAddUp and the types. *)
LEMMA TreeSuffices == ASSUME TreeArguments, TreeInv PROVE Counter!CountsAddUp /\ Counter!TypeOK
<1>1. added \in Seq(Tuples) /\ DOMAIN added = 1 .. Len(added) /\ Len(added) \in 0 .. MaxAdds
    BY DEF TreeInv, TreeArguments
<1>2. ASSUME NEW p \in Counter!Nodes
      PROVE  /\ Counter!OwnCount(p) = Counter!Times(LAMBDA t : Counter!Home(t) = p)
             /\ Len(samples[p]) = Counter!Min({Capacity, Counter!Times(LAMBDA t : Counter!Arrives(t) /\ Counter!Home(t) = p)})
             /\ \A v \in Counter!Range(samples[p]) : \E t \in Counter!Range(added) :
                  Counter!Arrives(t) /\ Counter!Home(t) = p /\ Counter!Last(t) = v
    <2>1. Counter!Times(LAMBDA t : Counter!Home(t) = p) = Cardinality(In(added, EndingAt(p)))
        <3>1. {i \in DOMAIN added : Counter!Home(added[i]) = p} = In(added, EndingAt(p))
            BY <1>1 DEF In, EndingAt
        <3>2. Counter!Times(LAMBDA t : Counter!Home(t) = p)
                  = Counter!Cardinality({i \in DOMAIN added : Counter!Home(added[i]) = p})
            BY DEF Counter!Times
        <3> QED
            BY <3>1, <3>2, CountsAgree
    <2>2. Counter!Times(LAMBDA t : Counter!Arrives(t) /\ Counter!Home(t) = p)
              = Cardinality(In(added, ArrivedAt(p)))
        <3>1. {i \in DOMAIN added : Counter!Arrives(added[i]) /\ Counter!Home(added[i]) = p}
                  = In(added, ArrivedAt(p))
            BY <1>1 DEF In, ArrivedAt
        <3>2. Counter!Times(LAMBDA t : Counter!Arrives(t) /\ Counter!Home(t) = p)
                  = Counter!Cardinality({i \in DOMAIN added : Counter!Arrives(added[i]) /\ Counter!Home(added[i]) = p})
            BY DEF Counter!Times
        <3> QED
            BY <3>1, <3>2, CountsAgree
    <2>3. Cardinality(In(added, ArrivedAt(p))) \in Nat /\ Capacity \in Nat
        BY <1>1, InCount DEF TreeArguments
    <2>4. Len(samples[p]) = Lesser(Capacity, Cardinality(In(added, ArrivedAt(p))))
        BY DEF TreeInv, SamplesRight
    <2>5. \A v \in Counter!Range(samples[p]) : \E t \in Counter!Range(added) :
              Counter!Arrives(t) /\ Counter!Home(t) = p /\ Counter!Last(t) = v
        BY DEF TreeInv, SamplesRight, Counter!Range, Counter!Last
    <2> QED
        BY <2>1, <2>2, <2>3, <2>4, <2>5, OwnCountIsEndings, SmallerIsMin
<1>3. Counter!CountsAddUp
    BY <1>2 DEF Counter!CountsAddUp
<1>4. count \in [Counter!Nodes -> 0 .. MaxAdds]
    <2>1. \A p \in Counter!Nodes : count[p] \in 0 .. MaxAdds
        <3>1. \A H : Cardinality(In(added, H)) \in 0 .. Len(added)
            BY <1>1, InCount
        <3> QED
            BY <1>1, <3>1 DEF TreeInv, TreeArguments
    <2> QED
        BY <2>1 DEF TreeInv
<1>5. \A p \in Counter!Nodes : Len(samples[p]) <= Capacity
    <2>1. \A H : Cardinality(In(added, H)) \in Nat
        BY <1>1, InCount
    <2>2. \A n \in Nat : Lesser(Capacity, n) <= Capacity
        BY DEF Lesser, TreeArguments
    <2> QED
        BY <2>1, <2>2 DEF TreeInv, SamplesRight
<1> QED
    BY <1>1, <1>3, <1>4, <1>5 DEF Counter!TypeOK

-----------------------------------------------------------------------------
(* LogSetup. *)
(* A set of numbers can be counted through: some number is the k-th, namely the
   one up to which there are k. *)
Place(S, i) == Cardinality({j \in S : j <= i})

(* Such a number exists for every k, and for one k only. *)
LEMMA Kth ==
    ASSUME NEW S \in SUBSET Nat, IsFiniteSet(S)
    PROVE  /\ \A k \in 1 .. Cardinality(S) : \E i \in S : Place(S, i) = k
           /\ \A i \in S : Place(S, i) \in 1 .. Cardinality(S)
           /\ \A i, h \in S : Place(S, i) = Place(S, h) => i = h
<1> DEFINE n == Cardinality(S)
           UpTo(i) == {j \in S : j <= i}
           place == [i \in S |-> Cardinality(UpTo(i))]
<1>1. n \in Nat /\ IsFiniteSet(1 .. n) /\ Cardinality(1 .. n) = n
    <2>1. n \in Nat
        BY FS_CardinalityType
    <2> HIDE DEF n
    <2>2. 1 \in Int /\ n \in Int
        BY <2>1
    <2> QED
        BY <2>1, <2>2, FS_Interval
<1>2. ASSUME NEW i \in S PROVE IsFiniteSet(UpTo(i)) /\ Cardinality(UpTo(i)) \in 1 .. n
    <2>1. UpTo(i) \in SUBSET S /\ i \in UpTo(i)
        OBVIOUS
    <2> HIDE DEF UpTo
    <2>2. IsFiniteSet(UpTo(i)) /\ Cardinality(UpTo(i)) <= n
        BY <2>1, FS_Subset
    <2>3. Cardinality(UpTo(i)) \in Nat /\ Cardinality(UpTo(i)) # 0
        BY <2>1, <2>2, FS_CardinalityType, FS_EmptySet
    <2> QED
        BY <1>1, <2>2, <2>3
<1>3. ASSUME NEW i \in S, NEW h \in S, i < h, place[i] = place[h] PROVE FALSE
    <2>1. UpTo(i) \in SUBSET UpTo(h) /\ h \in UpTo(h) /\ h \notin UpTo(i)
        <3>1. ~(h <= i) /\ h <= h /\ \A j \in S : j <= i => j <= h
            BY <1>3
        <3> QED
            BY <3>1
    <2>2. Cardinality(UpTo(i)) = Cardinality(UpTo(h))
        BY <1>3
    <2>3. UpTo(i) = UpTo(h)
        <3> HIDE DEF UpTo
        <3> QED
            BY <1>2, <2>1, <2>2, FS_Subset
    <2> HIDE DEF UpTo
    <2> QED
        BY <2>1, <2>3
<1>4. \A i, h \in S : place[i] = place[h] => i = h
    <2> HIDE DEF place
    <2>1. \A i, h \in S : i < h \/ h < i \/ i = h
        OBVIOUS
    <2> QED
        BY <1>3, <2>1
<1>5. place \in Injection(S, 1 .. n)
    <2>1. place \in [S -> 1 .. n]
        BY <1>2
    <2> HIDE DEF place
    <2> QED
        BY <1>4, <2>1 DEF Injection, IsInjective
<1>6. place \in Surjection(S, 1 .. n)
    <2> HIDE DEF place
    <2> QED
        BY <1>1, <1>5, FS_Injection
<1>7. \A k \in 1 .. n : \E i \in S : place[i] = k
    <2> HIDE DEF place
    <2> QED
        BY <1>6 DEF Surjection
<1>8. \A i \in S : place[i] = Place(S, i) /\ place[i] \in 1 .. n
    BY <1>2 DEF Place
<1> QED
    <2> HIDE DEF place
    <2> QED
        BY <1>4, <1>7, <1>8

-----------------------------------------------------------------------------
(* How often a kind of handler is in a list, and what the changes of the list
   do to that count. *)
At(s, x) == {k \in DOMAIN s : s[k] = x}

(* One kind is a set of one. *)
LEMMA AtIsIn == ASSUME NEW s, NEW x PROVE At(s, x) = In(s, {x})
BY DEF At, In

(* Number of LogSetup counts as this module does. *)
LEMMA NumberIsCount ==
    /\ \A kind : Logging!Number(kind) = Cardinality(At(handlers, kind))
    /\ \A kind : Logging!Number(kind)' = Cardinality(At(handlers', kind))
BY CountsAgree DEF Logging!Number, At

(* Handlers of a kind can be counted. *)
LEMMA AtCount ==
    ASSUME NEW S, NEW s \in Seq(S), NEW x
    PROVE  IsFiniteSet(At(s, x)) /\ Cardinality(At(s, x)) \in Nat
<1> DEFINE H == {x}
<1>1. At(s, x) = In(s, H)
    BY AtIsIn
<1> HIDE DEF H
<1>2. IsFiniteSet(In(s, H)) /\ Cardinality(In(s, H)) \in 0 .. Len(s)
    BY InCount
<1> QED
    BY <1>1, <1>2

(* There are none in an empty list. *)
LEMMA AtEmpty == ASSUME NEW x PROVE Cardinality(At(<<>>, x)) = 0
BY AtIsIn, InEmpty

(* addHandler: one more of its kind. *)
LEMMA AtAppend ==
    ASSUME NEW S, NEW s \in Seq(S), NEW e \in S, NEW x
    PROVE  Cardinality(At(Append(s, e), x)) = Cardinality(At(s, x)) + IF e = x THEN 1 ELSE 0
<1> DEFINE H == {x}
<1>1. e \in H <=> e = x
    OBVIOUS
<1>2. At(s, x) = In(s, H) /\ At(Append(s, e), x) = In(Append(s, e), H)
    BY AtIsIn
<1> HIDE DEF H
<1> QED
    BY <1>1, <1>2, InAppend

(* WithoutDefault drops the default handlers and no other. *)
LEMMA DefaultIsDropped ==
    ASSUME NEW K, NEW list \in Seq(K)
    PROVE  /\ Logging!WithoutDefault(list) \in Seq(K \ {"default"})
           /\ \A x : x # "default" =>
                Cardinality(At(Logging!WithoutDefault(list), x)) = Cardinality(At(list, x))
<1> DEFINE kept == {i \in DOMAIN list : list[i] # "default"}
           n == Cardinality(kept)
           kth(k) == CHOOSE i \in kept : Logging!Cardinality({j \in kept : j <= i}) = k
           W == Logging!WithoutDefault(list)
<1>1. kept \in SUBSET Nat /\ IsFiniteSet(kept)
    <2>1. kept \subseteq 1 .. Len(list)
        OBVIOUS
    <2>2. IsFiniteSet(1 .. Len(list))
        BY FS_Interval
    <2> QED
        BY <2>1, <2>2, FS_Subset
<1>2. n \in Nat
    BY <1>1, FS_CardinalityType
<1>3. W = [k \in 1 .. n |-> list[kth(k)]]
    <2>1. Logging!Cardinality(kept) = n
        BY CountsAgree
    <2> HIDE DEF n
    <2> QED
        BY <2>1 DEF Logging!WithoutDefault
<1>4. \A k \in 1 .. n : kth(k) \in kept /\ Place(kept, kth(k)) = k
    <2>1. \A i : Logging!Cardinality({j \in kept : j <= i}) = Place(kept, i)
        BY CountsAgree DEF Place
    <2> HIDE DEF kept
    <2>2. ASSUME NEW k \in 1 .. n PROVE \E i \in kept : Place(kept, i) = k
        BY <1>1, Kth
    <2>3. ASSUME NEW k \in 1 .. n PROVE \E i \in kept : Logging!Cardinality({j \in kept : j <= i}) = k
        BY <2>1, <2>2
    <2>4. ASSUME NEW k \in 1 .. n
          PROVE  kth(k) \in kept /\ Logging!Cardinality({j \in kept : j <= kth(k)}) = k
        BY <2>3, Zenon
    <2> QED
        BY <2>1, <2>4
<1> DEFINE g == [k \in 1 .. n |-> kth(k)]
<1>5. /\ W = [k \in 1 .. n |-> list[g[k]]]
      /\ g \in [1 .. n -> kept] /\ \A k \in 1 .. n : Place(kept, g[k]) = k
    BY <1>3, <1>4
<1> HIDE DEF g, W
<1>6. ASSUME NEW i \in kept PROVE \E k \in 1 .. n : g[k] = i
    <2> DEFINE k == Place(kept, i)
    <2> HIDE DEF kept
    <2>1. k \in 1 .. n
        BY <1>1, Kth
    <2>2. g[k] \in kept /\ Place(kept, g[k]) = k
        <3> HIDE DEF k
        <3> QED
            BY <1>5, <2>1
    <2>3. g[k] = i
        <3> DEFINE h == g[k]
        <3>1. h \in kept /\ Place(kept, h) = Place(kept, i)
            BY <2>2
        <3> HIDE DEF h, k
        <3>2. h = i
            BY <1>1, <3>1, Kth
        <3> QED
            BY <3>2 DEF h
    <2> QED
        BY <2>1, <2>3
<1> HIDE DEF n
<1>7. W \in Seq(K \ {"default"}) /\ DOMAIN W = 1 .. n
    <2>1. \A k \in 1 .. n : list[g[k]] \in K \ {"default"}
        BY <1>5
    <2> QED
        BY <1>2, <1>5, <2>1
<1>8. ASSUME NEW x, x # "default" PROVE Cardinality(At(W, x)) = Cardinality(At(list, x))
    <2> DEFINE f == [k \in At(W, x) |-> g[k]]
    <2>1. f \in [At(W, x) -> At(list, x)]
        BY <1>5, <1>7 DEF At
    <2>2. \A k, m \in At(W, x) : f[k] = f[m] => k = m
        BY <1>5, <1>7 DEF At
    <2>3. \A i \in At(list, x) : \E k \in At(W, x) : f[k] = i
        BY <1>5, <1>6, <1>7, <1>8 DEF At
    <2> HIDE DEF f
    <2>4. f \in Bijection(At(W, x), At(list, x))
        BY <2>1, <2>2, <2>3 DEF Bijection, Injection, Surjection, IsInjective
    <2>5. IsFiniteSet(At(W, x))
        BY <1>7, AtCount
    <2> QED
        BY <2>4, <2>5, FS_Bijection DEF ExistsBijection
<1> QED
    BY <1>7, <1>8 DEF W

-----------------------------------------------------------------------------
(* LogSetup: where the one caller is that changes the handlers, and what is in
   the list by then. *)
Dressing  == {"import", "read", "assign", "otel", "console", "file"}
Exporting == {"exporters", "traces", "metrics", "logs"}

Counts(d, o, c) ==
    /\ Logging!Number("default") = d
    /\ Logging!Number("otel") = o
    /\ Logging!Number("console") = c
NoFiles == Logging!Number("file") = 0
Consoles == IF options.console THEN 1 ELSE 0

Progress(t) ==
    /\ stage[t] \in {"import", "read", "assign"} => Counts(1, 0, 0) /\ NoFiles
    /\ stage[t] = "assign" =>
         \A kind \in {"otel", "console", "file"} : Cardinality(At(snapshot[t], kind)) = 0
    /\ stage[t] = "otel" => Counts(0, 0, 0) /\ NoFiles
    /\ stage[t] = "console" => Counts(0, 1, 0) /\ NoFiles
    /\ stage[t] = "file" => Counts(0, 1, Consoles) /\ NoFiles

(* No set-up is running: none began or it raised in time, it is done, or it was
   cut short. *)
Settled ==
    \/ ~cutShort /\ Counts(1, 0, 0) /\ NoFiles
    \/ ~cutShort /\ structlogDone /\ Counts(0, 1, Consoles) /\ Logging!Number("file") <= 1
    \/ cutShort /\ (Counts(0, 0, 0) \/ Counts(0, 1, 0)) /\ NoFiles

HandlersInv ==
    /\ ~Logging!Imported => Counts(0, 0, 0) /\ NoFiles /\ ~structlogDone
    /\ cutShort => structlogDone /\ \A t \in Threads : stage[t] \notin Dressing
    /\ \A t \in Threads : stage[t] \in Dressing => structlogDone /\ Progress(t)
    /\ \A t, u \in Threads : stage[t] \in Dressing /\ stage[u] \in Dressing => t = u
    /\ Logging!Imported /\ (\A t \in Threads : stage[t] \notin Dressing) => Settled

(* The same for the providers. *)
Installed(t) ==
    /\ stage[t] \in {"exporters", "traces"} => providers = <<>>
    /\ stage[t] = "metrics" => providers = <<"traces">>
    /\ stage[t] = "logs" => providers = <<"traces", "metrics">>

ProvidersInv ==
    /\ ~otelDone => providers = <<>>
    /\ \A t \in Threads : stage[t] \in Exporting => otelDone /\ Installed(t)
    /\ \A t, u \in Threads : stage[t] \in Exporting /\ stage[u] \in Exporting => t = u
    /\ providers \in {<<>>, <<"traces">>, <<"traces", "metrics">>, <<"traces", "metrics", "logs">>}

LogInv == Logging!TypeOK /\ HandlersInv /\ ProvidersInv /\ Logging!HandlersSeeTheSame

(* The numbers of handlers are numbers. *)
LEMMA NumberTypes ==
    ASSUME Logging!TypeOK
    PROVE  \A kind : Logging!Number(kind) \in Nat
BY NumberIsCount, AtCount DEF Logging!TypeOK

(* addHandler on the root logger: one more of its kind, and as many of the others. *)
LEMMA Added ==
    ASSUME Logging!TypeOK, NEW e \in Logging!Kinds, handlers' = Append(handlers, e)
    PROVE  \A kind : Logging!Number(kind)' = Logging!Number(kind) + IF e = kind THEN 1 ELSE 0
BY NumberIsCount, AtAppend DEF Logging!TypeOK

(* What leaves the list alone leaves the numbers alone. *)
LEMMA Unchanged ==
    ASSUME UNCHANGED handlers
    PROVE  \A kind : Logging!Number(kind)' = Logging!Number(kind)
BY DEF Logging!Number

(* Initially no handler and no provider is there. *)
LEMMA LogInit == ASSUME Logging!Init PROVE LogInv
<1>1. \A kind : Logging!Number(kind) = 0
    BY NumberIsCount, AtEmpty DEF Logging!Init
<1>2. Logging!TypeOK
    <2>1. handlers \in Seq(Logging!Kinds) /\ providers \in Seq({"traces", "metrics", "logs"})
        BY DEF Logging!Init
    <2>2. stage \in [Threads -> Logging!Stages] /\ snapshot \in [Threads -> Seq(Logging!Kinds \ {"default"})]
        BY DEF Logging!Init, Logging!Stages
    <2>3. options \in Logging!Options
        BY DEF Logging!Init, Logging!Options
    <2> QED
        BY <2>1, <2>2, <2>3 DEF Logging!Init, Logging!TypeOK
<1>3. HandlersInv
    BY <1>1 DEF Logging!Init, HandlersInv, Logging!Imported, Counts, NoFiles, Dressing, Progress
<1>4. ProvidersInv
    BY DEF Logging!Init, ProvidersInv, Exporting, Installed
<1>5. Logging!HandlersSeeTheSame
    BY DEF Logging!Init, Logging!HandlersSeeTheSame
<1> QED
    BY <1>2, <1>3, <1>4, <1>5 DEF LogInv

(* The types are kept. *)
LEMMA LogTypes ==
    ASSUME Logging!TypeOK, [Logging!Next]_(Logging!logVars)
    PROVE  Logging!TypeOK'
<1> USE DEF Logging!TypeOK
<1> DEFINE ListTypes == /\ handlers' \in Seq(Logging!Kinds)
                        /\ providers' \in Seq({"traces", "metrics", "logs"})
           Places == /\ stage' \in [Threads -> Logging!Stages]
                     /\ snapshot' \in [Threads -> Seq(Logging!Kinds \ {"default"})]
           Flags == /\ processors' \in {"none", "default", "full"}
                    /\ structlogDone' \in BOOLEAN /\ otelDone' \in BOOLEAN
                    /\ options' \in Logging!Options /\ cutShort' \in BOOLEAN
<1>1. CASE Logging!Bootstrap \/ Logging!Import \/ Logging!ForeignHandler
    <2>1. ListTypes
        <3>1. /\ \/ handlers' = <<"basic">>
                 \/ \E e \in {"default", "foreign"} : handlers' = Append(handlers, e)
              /\ UNCHANGED providers
            BY <1>1 DEF Logging!Bootstrap, Logging!Import, Logging!ForeignHandler
        <3>2. {"basic", "default", "foreign"} \subseteq Logging!Kinds
            BY DEF Logging!Kinds
        <3>3. \A e \in Logging!Kinds : {Append(handlers, e), <<e>>} \subseteq Seq(Logging!Kinds)
            OBVIOUS
        <3> QED
            BY <3>1, <3>2, <3>3
    <2>2. Places /\ Flags
        BY <1>1 DEF Logging!Bootstrap, Logging!Import, Logging!ForeignHandler
    <2> QED
        BY <2>1, <2>2
<1>2. ASSUME NEW t \in Threads, NEW o \in Logging!Options, Logging!SetupStructlog(t, o) PROVE Logging!TypeOK'
    <2>1. ListTypes /\ Places
        BY <1>2 DEF Logging!SetupStructlog, Logging!Goes, Logging!Stages
    <2>2. Flags
        BY <1>2 DEF Logging!SetupStructlog
    <2> QED
        BY <2>1, <2>2
<1>3. ASSUME NEW t \in Threads,
             \/ Logging!Configure(t) \/ Logging!ImportRaises(t) \/ Logging!LevelRaises(t)
             \/ Logging!AddRaises(t) \/ Logging!SetupOtel(t) \/ Logging!ExportersImported(t)
      PROVE  Logging!TypeOK'
    <2>1. ListTypes /\ Places
        BY <1>3 DEF Logging!Configure, Logging!ImportRaises, Logging!LevelRaises, Logging!AddRaises,
                    Logging!SetupOtel, Logging!ExportersImported, Logging!Goes, Logging!Stages
    <2>2. Flags
        BY <1>3 DEF Logging!Configure, Logging!ImportRaises, Logging!LevelRaises, Logging!AddRaises,
                    Logging!SetupOtel, Logging!ExportersImported
    <2> QED
        BY <2>1, <2>2
<1>4. ASSUME NEW t \in Threads, Logging!ReadHandlers(t) PROVE Logging!TypeOK'
    <2>1. Logging!WithoutDefault(handlers) \in Seq(Logging!Kinds \ {"default"})
        BY DefaultIsDropped
    <2>2. ListTypes /\ Places
        BY <1>4, <2>1 DEF Logging!ReadHandlers, Logging!Goes, Logging!Stages
    <2>3. Flags
        BY <1>4 DEF Logging!ReadHandlers
    <2> QED
        BY <2>2, <2>3
<1>5. ASSUME NEW t \in Threads, Logging!AssignHandlers(t) PROVE Logging!TypeOK'
    <2>1. snapshot[t] \in Seq(Logging!Kinds)
        OBVIOUS
    <2>2. ListTypes /\ Places
        BY <1>5, <2>1 DEF Logging!AssignHandlers, Logging!Goes, Logging!Stages
    <2>3. Flags
        BY <1>5 DEF Logging!AssignHandlers
    <2> QED
        BY <2>2, <2>3
<1>6. ASSUME NEW t \in Threads, Logging!AddOtel(t) \/ Logging!AddConsole(t) \/ Logging!AddFile(t)
      PROVE  Logging!TypeOK'
    <2>1. ListTypes
        <3>1. /\ \/ UNCHANGED handlers
                 \/ \E e \in {"otel", "console", "file"} : handlers' = Append(handlers, e)
              /\ UNCHANGED providers
            BY <1>6 DEF Logging!AddOtel, Logging!AddConsole, Logging!AddFile
        <3>2. {"otel", "console", "file"} \subseteq Logging!Kinds
            BY DEF Logging!Kinds
        <3>3. \A e \in Logging!Kinds : {Append(handlers, e), <<e>>} \subseteq Seq(Logging!Kinds)
            OBVIOUS
        <3> QED
            BY <3>1, <3>2, <3>3
    <2>2. Places /\ Flags
        BY <1>6 DEF Logging!AddOtel, Logging!AddConsole, Logging!AddFile, Logging!Goes, Logging!Stages
    <2> QED
        BY <2>1, <2>2
<1>7. ASSUME NEW t \in Threads, Logging!SetProvider(t) PROVE Logging!TypeOK'
    <2>1. stage[t] \in {"traces", "metrics", "logs"} /\ Places
        BY <1>7 DEF Logging!SetProvider, Logging!Goes, Logging!Stages
    <2>2. ListTypes /\ Flags
        BY <1>7, <2>1 DEF Logging!SetProvider
    <2> QED
        BY <2>1, <2>2
<1>8. ASSUME NEW msg, Logging!Log(msg) PROVE Logging!TypeOK'
    BY <1>8 DEF Logging!Log
<1>9. CASE UNCHANGED Logging!logVars
    BY <1>9 DEF Logging!logVars
<1> QED
    BY <1>1, <1>2, <1>3, <1>4, <1>5, <1>6, <1>7, <1>8, <1>9 DEF Logging!Next

(* Whoever dresses the root logger is alone: what a step of the caller leaves
   is all there is to show. *)
LEMMA DressingStep ==
    ASSUME LogInv, NEW t \in Threads, stage[t] \in Dressing,
           NEW to \in Dressing \cup {"idle"}, stage' = [stage EXCEPT ![t] = to],
           structlogDone' = structlogDone, processors' # "none",
           to \in Dressing => Progress(t)' /\ cutShort' = cutShort, to = "idle" => Settled'
    PROVE  HandlersInv'
<1>1. \A u \in Threads : u # t => stage[u] \notin Dressing /\ stage'[u] = stage[u]
    BY DEF LogInv, HandlersInv
<1>2. stage'[t] = to /\ structlogDone'
    BY DEF LogInv, HandlersInv, Logging!TypeOK
<1>3. "idle" \notin Dressing
    BY DEF Dressing
<1>4. \A u \in Threads : stage'[u] \in Dressing => u = t /\ to \in Dressing
    BY <1>1, <1>2
<1>5. \A u \in Threads : stage'[u] \in Dressing => structlogDone' /\ Progress(u)'
    BY <1>2, <1>4
<1>6. ~cutShort /\ (cutShort' => to = "idle")
    BY DEF LogInv, HandlersInv
<1> QED
    BY <1>2, <1>3, <1>4, <1>5, <1>6 DEF HandlersInv, Logging!Imported

(* Steps that leave the handlers of the package and their set-up alone. *)
LEMMA DressingUnchanged ==
    ASSUME LogInv, UNCHANGED <<structlogDone, snapshot, options, cutShort>>,
           Logging!Imported' <=> Logging!Imported,
           \A kind \in {"default", "otel", "console", "file"} :
               Logging!Number(kind)' = Logging!Number(kind),
           stage' \in [Threads -> Logging!Stages],
           \A t \in Threads : stage'[t] = stage[t] \/ {stage[t], stage'[t]} \cap Dressing = {}
    PROVE  HandlersInv'
<1>1. \A t \in Threads : (stage'[t] \in Dressing <=> stage[t] \in Dressing)
                         /\ (stage[t] \in Dressing => stage'[t] = stage[t])
    OBVIOUS
<1>2. \A d, o, c : Counts(d, o, c)' <=> Counts(d, o, c)
    BY DEF Counts
<1>3. NoFiles' <=> NoFiles
    BY DEF NoFiles
<1>4. Settled' <=> Settled
    BY <1>2, <1>3 DEF Settled, Counts, Consoles
<1>5. \A t \in Threads : stage[t] \in Dressing => (Progress(t)' <=> Progress(t))
    BY <1>1, <1>3 DEF Progress, Counts, Consoles
<1> QED
    BY <1>1, <1>3, <1>4, <1>5 DEF LogInv, HandlersInv, Counts

(* Every step of a set-up keeps the handlers as its phase says. *)
LEMMA HandlersStep ==
    ASSUME LogInv, [Logging!Next]_(Logging!logVars)
    PROVE  HandlersInv'
<1>1. Logging!TypeOK /\ Logging!TypeOK' /\ HandlersInv
    BY LogTypes DEF LogInv
<1>2. /\ \A kind : Logging!Number(kind) \in Nat
      /\ {"default", "otel", "console", "file", "foreign", "basic"} = Logging!Kinds
    BY <1>1, NumberTypes DEF Logging!Kinds
<1>3. CASE Logging!Bootstrap
    <2>1. handlers = <<>> /\ handlers' = Append(handlers, "basic")
        BY <1>3 DEF Logging!Bootstrap
    <2>2. \A kind \in {"default", "otel", "console", "file"} : Logging!Number(kind)' = Logging!Number(kind)
        BY <1>1, <1>2, <2>1, Added
    <2> QED
        BY <1>1, <1>3, <2>2, DressingUnchanged DEF Logging!Bootstrap, Logging!Imported, Logging!TypeOK
<1>4. CASE Logging!ForeignHandler
    <2>1. \A kind \in {"default", "otel", "console", "file"} : Logging!Number(kind)' = Logging!Number(kind)
        BY <1>1, <1>2, <1>4, Added DEF Logging!ForeignHandler
    <2> QED
        BY <1>1, <1>4, <2>1, DressingUnchanged DEF Logging!ForeignHandler, Logging!Imported, Logging!TypeOK
<1>5. CASE Logging!Import
    <2>1. Counts(0, 0, 0) /\ NoFiles /\ ~structlogDone
        BY <1>1, <1>5 DEF HandlersInv, Logging!Import
    <2>2. Counts(1, 0, 0)' /\ NoFiles'
        BY <1>1, <1>2, <1>5, <2>1, Added DEF Logging!Import, Counts, NoFiles
    <2>3. \A t \in Threads : stage'[t] \notin Dressing
        BY <1>1, <1>5, <2>1 DEF HandlersInv, Logging!Import
    <2>4. ~cutShort' /\ Logging!Imported'
        BY <1>1, <1>5, <2>1 DEF HandlersInv, Logging!Import, Logging!Imported
    <2> QED
        BY <2>2, <2>3, <2>4 DEF HandlersInv, Settled
<1>6. ASSUME NEW t \in Threads, NEW o \in Logging!Options, Logging!SetupStructlog(t, o) PROVE HandlersInv'
    <2>1. \A u \in Threads : stage[u] \notin Dressing
        BY <1>1, <1>6 DEF HandlersInv, Logging!SetupStructlog
    <2>2. Counts(1, 0, 0) /\ NoFiles /\ ~cutShort
        BY <1>1, <1>6, <2>1 DEF HandlersInv, Settled, Logging!SetupStructlog
    <2>3. Counts(1, 0, 0)' /\ NoFiles'
        BY <1>6, <2>2, Unchanged DEF Logging!SetupStructlog, Counts, NoFiles
    <2>4. /\ structlogDone' /\ Logging!Imported' /\ stage'[t] = "import"
          /\ \A u \in Threads : u # t => stage'[u] = stage[u]
        BY <1>1, <1>6 DEF Logging!SetupStructlog, Logging!Goes, Logging!Imported, Logging!TypeOK
    <2>5. Progress(t)' /\ stage'[t] \in Dressing
        BY <2>3, <2>4 DEF Progress, Dressing
    <2>6. \A u \in Threads : stage'[u] \in Dressing => u = t
        BY <2>1, <2>4
    <2>7. ~cutShort'
        BY <1>6, <2>2 DEF Logging!SetupStructlog
    <2> QED
        BY <2>4, <2>5, <2>6, <2>7 DEF HandlersInv
<1>7. ASSUME NEW t \in Threads,
             Logging!Configure(t) \/ Logging!ImportRaises(t) \/ Logging!LevelRaises(t)
      PROVE  HandlersInv'
    <2>1. stage[t] \in {"import", "read"} /\ stage[t] \in Dressing
        BY <1>7 DEF Logging!Configure, Logging!ImportRaises, Logging!LevelRaises, Logging!Goes, Dressing
    <2>2. Counts(1, 0, 0) /\ NoFiles /\ structlogDone /\ ~cutShort /\ Logging!Imported
        BY <1>1, <2>1 DEF HandlersInv, Progress
    <2>3. Counts(1, 0, 0)' /\ NoFiles' /\ cutShort' = cutShort
        BY <1>7, <2>2, Unchanged
        DEF Logging!Configure, Logging!ImportRaises, Logging!LevelRaises, Counts, NoFiles
    <2>4. PICK to \in {"read", "idle"} : stage' = [stage EXCEPT ![t] = to]
        BY <1>7 DEF Logging!Configure, Logging!ImportRaises, Logging!LevelRaises, Logging!Goes
    <2>5. Progress(t)' \/ to = "idle"
        BY <1>1, <2>3, <2>4 DEF Progress, Logging!TypeOK
    <2>6. Settled'
        BY <2>2, <2>3 DEF Settled
    <2>7. structlogDone' = structlogDone /\ processors' # "none"
        BY <1>7, <2>2 DEF Logging!Configure, Logging!ImportRaises, Logging!LevelRaises, Logging!Imported
    <2> QED
        BY <2>1, <2>3, <2>4, <2>5, <2>6, <2>7, DressingStep DEF Dressing
<1>8. ASSUME NEW t \in Threads, Logging!ReadHandlers(t) PROVE HandlersInv'
    <2>1. stage[t] = "read" /\ stage[t] \in Dressing
        BY <1>8 DEF Logging!ReadHandlers, Logging!Goes, Dressing
    <2>2. Counts(1, 0, 0) /\ NoFiles /\ Logging!Imported
        BY <1>1, <2>1 DEF HandlersInv, Progress
    <2>3. Counts(1, 0, 0)' /\ NoFiles'
        BY <1>8, <2>2, Unchanged DEF Logging!ReadHandlers, Counts, NoFiles
    <2>4. \A kind \in {"otel", "console", "file"} : Cardinality(At(snapshot'[t], kind)) = 0
        <3>1. \A kind \in {"otel", "console", "file"} : Cardinality(At(handlers, kind)) = 0
            BY <2>2, NumberIsCount DEF Counts, NoFiles
        <3>2. snapshot'[t] = Logging!WithoutDefault(handlers)
            BY <1>1, <1>8 DEF Logging!ReadHandlers, Logging!TypeOK
        <3> QED
            BY <1>1, <3>1, <3>2, DefaultIsDropped DEF Logging!TypeOK
    <2>5. stage' = [stage EXCEPT ![t] = "assign"] /\ stage'[t] = "assign"
        BY <1>1, <1>8 DEF Logging!ReadHandlers, Logging!Goes, Logging!TypeOK
    <2>6. Progress(t)'
        BY <2>3, <2>4, <2>5 DEF Progress
    <2>7. structlogDone' = structlogDone /\ cutShort' = cutShort /\ processors' # "none"
        BY <1>8, <2>2 DEF Logging!ReadHandlers, Logging!Imported
    <2> QED
        BY <2>1, <2>5, <2>6, <2>7, DressingStep DEF Dressing
<1>9. ASSUME NEW t \in Threads, Logging!AssignHandlers(t) PROVE HandlersInv'
    <2>1. stage[t] = "assign" /\ stage[t] \in Dressing
        BY <1>9 DEF Logging!AssignHandlers, Logging!Goes, Dressing
    <2>2. /\ Logging!Imported
          /\ \A kind \in {"otel", "console", "file"} : Cardinality(At(snapshot[t], kind)) = 0
        BY <1>1, <2>1 DEF HandlersInv, Progress, Counts
    <2>3. Cardinality(At(snapshot[t], "default")) = 0
        <3>1. snapshot[t] \in Seq(Logging!Kinds \ {"default"})
            BY <1>1 DEF Logging!TypeOK
        <3>2. At(snapshot[t], "default") = {}
            BY <3>1 DEF At
        <3> QED
            BY <3>2, FS_EmptySet
    <2>4. Counts(0, 0, 0)' /\ NoFiles'
        BY <1>9, <2>2, <2>3, NumberIsCount DEF Logging!AssignHandlers, Counts, NoFiles
    <2>5. stage' = [stage EXCEPT ![t] = "otel"] /\ stage'[t] = "otel"
        BY <1>1, <1>9 DEF Logging!AssignHandlers, Logging!Goes, Logging!TypeOK
    <2>6. Progress(t)'
        BY <2>4, <2>5 DEF Progress
    <2>7. structlogDone' = structlogDone /\ cutShort' = cutShort /\ processors' # "none"
        BY <1>9, <2>2 DEF Logging!AssignHandlers, Logging!Imported
    <2> QED
        BY <2>1, <2>5, <2>6, <2>7, DressingStep DEF Dressing
<1>10. ASSUME NEW t \in Threads, Logging!AddOtel(t) PROVE HandlersInv'
    <2>1. stage[t] = "otel" /\ stage[t] \in Dressing
        BY <1>10 DEF Logging!AddOtel, Logging!Goes, Dressing
    <2>2. Counts(0, 0, 0) /\ NoFiles /\ structlogDone
        BY <1>1, <2>1 DEF HandlersInv, Progress
    <2>3. Counts(0, 1, 0)' /\ NoFiles'
        BY <1>1, <1>2, <1>10, <2>2, Added DEF Logging!AddOtel, Counts, NoFiles
    <2>4. stage' = [stage EXCEPT ![t] = "console"] /\ stage'[t] = "console"
        BY <1>1, <1>10 DEF Logging!AddOtel, Logging!Goes, Logging!TypeOK
    <2>5. Progress(t)'
        BY <2>3, <2>4 DEF Progress
    <2>6. structlogDone' = structlogDone /\ cutShort' = cutShort /\ processors' # "none"
        BY <1>1, <1>10, <2>2 DEF Logging!AddOtel, Logging!Imported, HandlersInv
    <2> QED
        BY <2>1, <2>4, <2>5, <2>6, DressingStep DEF Dressing
<1>11. ASSUME NEW t \in Threads, Logging!AddConsole(t) PROVE HandlersInv'
    <2>1. stage[t] = "console" /\ stage[t] \in Dressing
        BY <1>11 DEF Logging!AddConsole, Logging!Goes, Dressing
    <2>2. Counts(0, 1, 0) /\ NoFiles /\ structlogDone
        BY <1>1, <2>1 DEF HandlersInv, Progress
    <2>3. Counts(0, 1, Consoles)' /\ NoFiles'
        <3>1. CASE options.console
            BY <1>1, <1>2, <1>11, <2>2, <3>1, Added DEF Logging!AddConsole, Counts, NoFiles, Consoles
        <3>2. CASE ~options.console
            BY <1>11, <2>2, <3>2, Unchanged DEF Logging!AddConsole, Counts, NoFiles, Consoles
        <3> QED
            BY <3>1, <3>2
    <2>4. stage' = [stage EXCEPT ![t] = "file"] /\ stage'[t] = "file"
        BY <1>1, <1>11 DEF Logging!AddConsole, Logging!Goes, Logging!TypeOK
    <2>5. Progress(t)'
        BY <2>3, <2>4 DEF Progress
    <2>6. structlogDone' = structlogDone /\ cutShort' = cutShort /\ processors' # "none"
        BY <1>1, <1>11, <2>2 DEF Logging!AddConsole, Logging!Imported, HandlersInv
    <2> QED
        BY <2>1, <2>4, <2>5, <2>6, DressingStep DEF Dressing
<1>12. ASSUME NEW t \in Threads, Logging!AddFile(t) PROVE HandlersInv'
    <2>1. stage[t] = "file" /\ stage[t] \in Dressing
        BY <1>12 DEF Logging!AddFile, Logging!Goes, Dressing
    <2>2. Counts(0, 1, Consoles) /\ NoFiles /\ structlogDone
        BY <1>1, <2>1 DEF HandlersInv, Progress
    <2>3. Counts(0, 1, Consoles)' /\ Logging!Number("file")' <= 1
        <3>1. CASE handlers' = Append(handlers, "file")
            BY <1>1, <1>2, <1>12, <2>2, <3>1, Added DEF Logging!AddFile, Counts, NoFiles, Consoles
        <3>2. CASE UNCHANGED handlers
            BY <1>12, <2>2, <3>2, Unchanged DEF Logging!AddFile, Counts, NoFiles, Consoles
        <3> QED
            BY <1>12, <3>1, <3>2 DEF Logging!AddFile
    <2>4. stage' = [stage EXCEPT ![t] = "idle"]
        BY <1>12 DEF Logging!AddFile, Logging!Goes
    <2>5. structlogDone' = structlogDone /\ cutShort' = cutShort /\ processors' # "none"
        BY <1>1, <1>12, <2>2 DEF Logging!AddFile, Logging!Imported, HandlersInv
    <2>6. Settled'
        BY <1>1, <2>1, <2>2, <2>3, <2>5 DEF Settled, HandlersInv
    <2> QED
        BY <2>1, <2>4, <2>5, <2>6, DressingStep DEF Dressing
<1>15. ASSUME NEW t \in Threads, Logging!AddRaises(t) PROVE HandlersInv'
    <2>1. stage[t] \in {"otel", "console"} /\ stage[t] \in Dressing
        BY <1>15 DEF Logging!AddRaises, Logging!Goes, Dressing
    <2>2. (Counts(0, 0, 0) \/ Counts(0, 1, 0)) /\ NoFiles /\ structlogDone
        BY <1>1, <2>1 DEF HandlersInv, Progress
    <2>3. (Counts(0, 0, 0) \/ Counts(0, 1, 0))' /\ NoFiles'
        BY <1>15, <2>2, Unchanged DEF Logging!AddRaises, Counts, NoFiles
    <2>4. stage' = [stage EXCEPT ![t] = "idle"] /\ cutShort'
        BY <1>15 DEF Logging!AddRaises, Logging!Goes
    <2>5. structlogDone' = structlogDone /\ processors' # "none"
        BY <1>1, <1>15, <2>2 DEF Logging!AddRaises, Logging!Imported, HandlersInv
    <2>6. Settled'
        BY <2>3, <2>4 DEF Settled
    <2> QED
        BY <2>1, <2>4, <2>5, <2>6, DressingStep DEF Dressing
<1>13. ASSUME NEW t \in Threads, Logging!SetupOtel(t) \/ Logging!ExportersImported(t) \/ Logging!SetProvider(t)
       PROVE  HandlersInv'
    <2>1. /\ UNCHANGED <<handlers, structlogDone, snapshot, options, cutShort, processors>>
          /\ \A u \in Threads : stage'[u] = stage[u] \/ {stage[u], stage'[u]} \cap Dressing = {}
        BY <1>1, <1>13 DEF Logging!SetupOtel, Logging!ExportersImported, Logging!SetProvider, Logging!Goes,
                           Logging!TypeOK, Dressing
    <2> QED
        BY <1>1, <2>1, Unchanged, DressingUnchanged DEF Logging!Imported, Logging!TypeOK
<1>14. ASSUME (\E msg : Logging!Log(msg)) \/ UNCHANGED Logging!logVars PROVE HandlersInv'
    <2>1. UNCHANGED <<handlers, structlogDone, snapshot, options, cutShort, processors, stage>>
        BY <1>14 DEF Logging!Log, Logging!logVars
    <2> QED
        BY <1>1, <2>1, Unchanged, DressingUnchanged DEF Logging!Imported, Logging!TypeOK
<1> QED
    BY <1>3, <1>4, <1>5, <1>6, <1>7, <1>8, <1>9, <1>10, <1>11, <1>12, <1>13, <1>14, <1>15 DEF Logging!Next

(* What Append makes of tuples. *)
LEMMA Appended ==
    ASSUME NEW a, NEW b, NEW c
    PROVE  Append(<<a>>, b) = <<a, b>> /\ Append(<<a, b>>, c) = <<a, b, c>>
<1>1. Append(<<a>>, b) = <<a, b>>
    <2> DEFINE s == Append(<<a>>, b)
               t == <<a, b>>
    <2>1. s \in Seq({a, b}) /\ t \in Seq({a, b})
        OBVIOUS
    <2>2. Len(s) = 2 /\ Len(t) = 2 /\ s[1] = t[1] /\ s[2] = t[2]
        OBVIOUS
    <2> HIDE DEF s, t
    <2>3. \A i \in 1 .. 2 : s[i] = t[i]
        BY <2>2
    <2>4. s = t
        BY <2>1, <2>2, <2>3, SameSequence
    <2> QED
        BY <2>4 DEF s, t
<1>2. Append(<<a, b>>, c) = <<a, b, c>>
    <2> DEFINE s == Append(<<a, b>>, c)
               t == <<a, b, c>>
    <2>1. s \in Seq({a, b, c}) /\ t \in Seq({a, b, c})
        OBVIOUS
    <2>2. Len(s) = 3 /\ Len(t) = 3 /\ s[1] = t[1] /\ s[2] = t[2] /\ s[3] = t[3]
        OBVIOUS
    <2> HIDE DEF s, t
    <2>3. \A i \in 1 .. 3 : s[i] = t[i]
        BY <2>2
    <2>4. s = t
        BY <2>1, <2>2, <2>3, SameSequence
    <2> QED
        BY <2>4 DEF s, t
<1> QED
    BY <1>1, <1>2

(* The record that goes from handler to handler is a recursive function of their
   positions; the same record at each of them solves its equation, and a least
   position where it differs cannot be. *)
LEMMA HandlersShareTheRecord ==
    ASSUME Logging!TypeOK, NEW msg, Logging!Log(msg)
    PROVE  /\ DOMAIN shown' = DOMAIN handlers
           /\ \A i \in DOMAIN handlers :
                shown'[i] = <<handlers[i], Logging!Emit(msg, handlers[i]).keys>>
<1> DEFINE passed ==
        CHOOSE passed :
            passed = [i \in 0 .. Len(handlers) |->
                        IF i = 0 THEN msg ELSE Logging!Emit(passed[i - 1], handlers[i]).msg]
           same == [i \in 0 .. Len(handlers) |-> msg]
<1>1. \A m, kind : Logging!Emit(m, kind).msg = m
    BY DEF Logging!Emit, Logging!OtelEmit, Logging!LocalEmit, Logging!PlainEmit
<1>2. Len(handlers) \in Nat /\ DOMAIN handlers = 1 .. Len(handlers)
    BY DEF Logging!TypeOK
<1>3. same = [i \in 0 .. Len(handlers) |->
                IF i = 0 THEN msg ELSE Logging!Emit(same[i - 1], handlers[i]).msg]
    BY <1>1, <1>2
<1>4. passed = [i \in 0 .. Len(handlers) |->
                IF i = 0 THEN msg ELSE Logging!Emit(passed[i - 1], handlers[i]).msg]
    <2> HIDE DEF same
    <2> QED BY <1>3
<1>5. /\ shown' = [i \in DOMAIN handlers |-> <<handlers[i], Logging!Emit(passed[i - 1], handlers[i]).keys>>]
    BY DEF Logging!Log
<1> HIDE DEF passed
<1>6. \A i \in 0 .. Len(handlers) : passed[i] = msg
    <2> DEFINE wrong == {i \in 0 .. Len(handlers) : passed[i] # msg}
    <2> SUFFICES ASSUME wrong # {} PROVE FALSE
        OBVIOUS
    <2>1. PICK i \in wrong : \A k \in wrong : i <= k
        <3>1. wrong \in SUBSET Nat
            BY <1>2
        <3> QED
            BY <3>1, Least
    <2>2. i # 0
        BY <1>4, <1>2
    <2>3. i - 1 \in 0 .. Len(handlers) /\ i - 1 \notin wrong
        BY <2>1, <2>2, <1>2
    <2> QED
        BY <1>1, <1>4, <2>2, <2>3
<1> QED
    BY <1>2, <1>5, <1>6

(* Every step of a set-up keeps the providers as its phase says. *)
LEMMA ProvidersStep ==
    ASSUME LogInv, [Logging!Next]_(Logging!logVars)
    PROVE  ProvidersInv'
<1>1. Logging!TypeOK /\ Logging!TypeOK' /\ ProvidersInv
    BY LogTypes DEF LogInv
<1>2. ASSUME UNCHANGED <<otelDone, providers>>,
             \A t \in Threads : stage'[t] = stage[t] \/ stage'[t] \notin Exporting
      PROVE  ProvidersInv'
    BY <1>1, <1>2 DEF ProvidersInv, Installed
<1>3. CASE Logging!Bootstrap \/ Logging!Import \/ Logging!ForeignHandler
    BY <1>2, <1>3 DEF Logging!Bootstrap, Logging!Import, Logging!ForeignHandler
<1>4. ASSUME NEW t \in Threads,
             \/ \E o \in Logging!Options : Logging!SetupStructlog(t, o)
             \/ Logging!Configure(t) \/ Logging!ImportRaises(t) \/ Logging!LevelRaises(t)
             \/ Logging!ReadHandlers(t) \/ Logging!AssignHandlers(t) \/ Logging!AddOtel(t)
             \/ Logging!AddConsole(t) \/ Logging!AddRaises(t) \/ Logging!AddFile(t)
      PROVE  ProvidersInv'
    <2>1. /\ UNCHANGED <<otelDone, providers>>
          /\ \E from \in Logging!Stages, to \in {"idle"} \cup Dressing : Logging!Goes(t, from, to)
        BY <1>4 DEF Logging!SetupStructlog, Logging!Configure, Logging!ImportRaises, Logging!LevelRaises,
                    Logging!AddRaises, Logging!ReadHandlers,
                    Logging!AssignHandlers, Logging!AddOtel, Logging!AddConsole, Logging!AddFile,
                    Logging!Stages, Dressing
    <2>2. PICK to \in {"idle"} \cup Dressing : stage' = [stage EXCEPT ![t] = to]
        BY <2>1 DEF Logging!Goes
    <2>3. to \notin Exporting
        BY DEF Dressing, Exporting
    <2> QED
        BY <1>1, <1>2, <2>1, <2>2, <2>3 DEF Logging!TypeOK
<1>5. ASSUME NEW t \in Threads, Logging!SetupOtel(t) PROVE ProvidersInv'
    <2>1. ~otelDone /\ otelDone' /\ providers' = providers /\ providers = <<>>
        BY <1>1, <1>5 DEF Logging!SetupOtel, ProvidersInv
    <2>2. \A u \in Threads : stage[u] \notin Exporting
        BY <1>1, <2>1 DEF ProvidersInv
    <2>3. /\ stage'[t] \in {"exporters", "idle"}
          /\ \A u \in Threads : u # t => stage'[u] = stage[u]
        BY <1>1, <1>5 DEF Logging!SetupOtel, Logging!Goes, Logging!TypeOK
    <2> QED
        BY <2>1, <2>2, <2>3 DEF ProvidersInv, Installed, Exporting
<1>6. ASSUME NEW t \in Threads, Logging!ExportersImported(t) \/ Logging!SetProvider(t) PROVE ProvidersInv'
    <2>1. /\ stage[t] \in Exporting /\ otelDone' = otelDone
          /\ stage'[t] \in Exporting \cup {"idle"}
          /\ \A u \in Threads : u # t => stage'[u] = stage[u]
        BY <1>1, <1>6 DEF Logging!ExportersImported, Logging!SetProvider, Logging!Goes, Logging!TypeOK, Exporting
    <2>2. otelDone /\ Installed(t) /\ \A u \in Threads : u # t => stage[u] \notin Exporting
        BY <1>1, <2>1 DEF ProvidersInv
    <2>3. Installed(t)' /\ providers' \in {<<>>, <<"traces">>, <<"traces", "metrics">>, <<"traces", "metrics", "logs">>}
        <3>1. CASE Logging!ExportersImported(t)
            BY <1>1, <2>2, <3>1 DEF Logging!ExportersImported, Logging!Goes, Installed, Logging!TypeOK
        <3>2. CASE Logging!SetProvider(t)
            <4>1. /\ Append(<<>>, "traces") = <<"traces">>
                  /\ Append(<<"traces">>, "metrics") = <<"traces", "metrics">>
                  /\ Append(<<"traces", "metrics">>, "logs") = <<"traces", "metrics", "logs">>
                BY Appended
            <4>2. providers' = Append(providers, stage[t])
                BY <3>2 DEF Logging!SetProvider
            <4>3. \/ stage[t] = "traces" /\ stage'[t] = "metrics"
                  \/ stage[t] = "metrics" /\ stage'[t] = "logs"
                  \/ stage[t] = "logs" /\ stage'[t] = "idle"
                BY <1>1, <3>2 DEF Logging!SetProvider, Logging!Goes, Logging!TypeOK
            <4> QED
                BY <2>2, <4>1, <4>2, <4>3 DEF Installed
        <3> QED
            BY <1>6, <3>1, <3>2
    <2> QED
        BY <2>1, <2>2, <2>3 DEF ProvidersInv, Exporting
<1>7. ASSUME (\E msg : Logging!Log(msg)) \/ UNCHANGED Logging!logVars PROVE ProvidersInv'
    BY <1>2, <1>7 DEF Logging!Log, Logging!logVars
<1> QED
    BY <1>3, <1>4, <1>5, <1>6, <1>7 DEF Logging!Next

(* Every handler gets the record as it was, so what one shows follows from the
   record alone. *)
LEMMA ShownStep ==
    ASSUME LogInv, [Logging!Next]_(Logging!logVars)
    PROVE  Logging!HandlersSeeTheSame'
<1>1. Logging!TypeOK /\ Logging!HandlersSeeTheSame
    BY DEF LogInv
<1>2. ASSUME UNCHANGED shown PROVE Logging!HandlersSeeTheSame'
    BY <1>1, <1>2 DEF Logging!HandlersSeeTheSame
<1>3. ASSUME NEW msg, Logging!Log(msg),
             msg.dict => "module" \in msg.keys
      PROVE  Logging!HandlersSeeTheSame'
    <2> DEFINE Keys(kind) == Logging!Emit(msg, kind).keys
               all == IF msg.dict THEN msg.keys ELSE Logging!Event \cup {"module", "thread"}
    <2>1. Keys("otel") \ {"module", "thread"} = all \ {"module", "thread"}
        BY DEF Logging!Emit, Logging!OtelEmit
    <2>2. \A kind \in {"console", "file"} :
            "module" \in Keys(kind) /\ Keys(kind) \ {"module", "thread"} = all \ {"module", "thread"}
        BY <1>3 DEF Logging!Emit, Logging!LocalEmit
    <2>3. \A i \in DOMAIN shown' : shown'[i][1] = handlers[i] /\ shown'[i][2] = Keys(shown'[i][1])
        BY <1>1, <1>3, HandlersShareTheRecord
    <2> HIDE DEF Keys, all
    <2> QED
        BY <2>1, <2>2, <2>3 DEF Logging!HandlersSeeTheSame
<1>4. CASE Logging!Log(Logging!StringMsg)
    BY <1>3, <1>4 DEF Logging!StringMsg
<1>5. ASSUME NEW bound, NEW extras, Logging!Log(Logging!StructlogMsg(bound, extras))
      PROVE  Logging!HandlersSeeTheSame'
    BY <1>3, <1>5 DEF Logging!StructlogMsg
<1>6. CASE UNCHANGED Logging!logVars
    BY <1>2, <1>6 DEF Logging!logVars
<1>7. CASE Logging!Bootstrap \/ Logging!Import \/ Logging!ForeignHandler
    BY <1>2, <1>7 DEF Logging!Bootstrap, Logging!Import, Logging!ForeignHandler
<1>8. ASSUME NEW t \in Threads,
             \/ \E o \in Logging!Options : Logging!SetupStructlog(t, o)
             \/ Logging!Configure(t) \/ Logging!ImportRaises(t) \/ Logging!LevelRaises(t)
             \/ Logging!ReadHandlers(t) \/ Logging!AssignHandlers(t) \/ Logging!AddOtel(t)
             \/ Logging!AddConsole(t) \/ Logging!AddRaises(t) \/ Logging!AddFile(t)
             \/ Logging!SetupOtel(t) \/ Logging!ExportersImported(t) \/ Logging!SetProvider(t)
      PROVE  Logging!HandlersSeeTheSame'
    BY <1>2, <1>8 DEF Logging!SetupStructlog, Logging!Configure, Logging!ImportRaises, Logging!LevelRaises,
                    Logging!AddRaises, Logging!ReadHandlers,
                Logging!AssignHandlers, Logging!AddOtel, Logging!AddConsole, Logging!AddFile,
                Logging!SetupOtel, Logging!ExportersImported, Logging!SetProvider
<1> QED
    BY <1>4, <1>5, <1>6, <1>7, <1>8 DEF Logging!Next

(* Every step of the logging set-up keeps its invariant. *)
LEMMA LogStep ==
    ASSUME LogInv, [Logging!Next]_(Logging!logVars)
    PROVE  LogInv'
BY LogTypes, HandlersStep, ProvidersStep, ShownStep DEF LogInv

(* Every list of providers that there can be is the beginning of the full one. *)
LEMMA ProvidersInOrder ==
    ASSUME NEW p \in {<<>>, <<"traces">>, <<"traces", "metrics">>, <<"traces", "metrics", "logs">>}
    PROVE  Logging!IsPrefix(p, <<"traces", "metrics", "logs">>)
<1> DEFINE all == <<"traces", "metrics", "logs">>
<1>1. Len(p) \in 0 .. 3 /\ DOMAIN p = 1 .. Len(p)
    OBVIOUS
<1>2. Len(all) = 3
    OBVIOUS
<1>3. \A k \in 1 .. Len(p) : p[k] = all[k]
    <2>1. CASE p = <<>>
        BY <2>1
    <2>2. CASE p = <<"traces">>
        BY <2>2
    <2>3. CASE p = <<"traces", "metrics">>
        BY <2>3
    <2>4. CASE p = <<"traces", "metrics", "logs">>
        BY <2>4
    <2> QED
        BY <2>1, <2>2, <2>3, <2>4
<1> HIDE DEF all
<1> QED
    BY <1>1, <1>2, <1>3 DEF Logging!IsPrefix, all

(* What one sees of the argument: SetUpOnce. *)
LEMMA LogInvSuffices == ASSUME LogInv PROVE Logging!SetUpOnce
<1>1. \A kind : Logging!Number(kind) \in Nat
    BY NumberTypes DEF LogInv
<1>2. Logging!IsPrefix(providers, <<"traces", "metrics", "logs">>)
    BY ProvidersInOrder DEF LogInv, ProvidersInv
<1>3. CASE ~Logging!Imported
    BY <1>2, <1>3 DEF LogInv, HandlersInv, Counts, NoFiles, Logging!SetUpOnce
<1>4. ASSUME Logging!Imported, NEW t \in Threads, stage[t] \in Dressing PROVE Logging!SetUpOnce
    BY <1>2, <1>4 DEF LogInv, HandlersInv, Counts, NoFiles, Logging!SetUpOnce, Progress, Consoles,
                      Dressing, Logging!InGap
<1>5. ASSUME Logging!Imported, \A t \in Threads : stage[t] \notin Dressing PROVE Logging!SetUpOnce
    BY <1>1, <1>2, <1>5 DEF LogInv, HandlersInv, Counts, NoFiles, Logging!SetUpOnce, Settled, Consoles
<1> QED
    BY <1>3, <1>4, <1>5

-----------------------------------------------------------------------------
(* IteratorChain: the chain and its generators grow together, and control is
   always at one of them. *)
ChainArguments == MaxLinks \in Nat /\ \A list \in Sources : Len(list) \in Nat

IsList(s) == \E S : s \in Seq(S)

IterInv == Iter!TypeOK /\ links \in Seq(Adapters) /\ IsList(gens)

(* A change of entries of a list leaves a list that is as long. *)
LEMMA EntriesChange ==
    ASSUME NEW s, IsList(s), NEW g, g = [k \in DOMAIN s |-> g[k]]
    PROVE  IsList(g) /\ Len(g) = Len(s)
<1>1. PICK S : s \in Seq(S)
    BY DEF IsList
<1>2. DOMAIN s = 1 .. Len(s) /\ Len(s) \in Nat
    BY <1>1
<1> DEFINE n == Len(s)
           T == {g[k] : k \in 1 .. n}
<1>3. g = [k \in 1 .. n |-> g[k]] /\ n \in Nat /\ \A k \in 1 .. n : g[k] \in T
    BY <1>2
<1> HIDE DEF n, T
<1>4. g \in Seq(T) /\ Len(g) = n
    BY <1>3
<1> QED
    BY <1>4 DEF IsList, n

(* Append leaves a list that is one longer. *)
LEMMA ListGrows ==
    ASSUME NEW s, IsList(s), NEW e
    PROVE  IsList(Append(s, e)) /\ Len(Append(s, e)) = Len(s) + 1 /\ Len(s) \in Nat
<1>1. PICK S : s \in Seq(S)
    BY DEF IsList
<1>2. s \in Seq(S \cup {e})
    BY <1>1
<1>3. Append(s, e) \in Seq(S \cup {e})
    BY <1>2
<1> QED
    BY <1>2, <1>3 DEF IsList

(* Initially there is no adapter. *)
LEMMA IterInit == ASSUME ChainArguments, Iter!Init PROVE IterInv
<1>1. links \in Seq(Adapters) /\ Len(links) = 0 /\ gens \in Seq({}) /\ Len(gens) = 0 /\ Iter!Range(links) = {}
    BY DEF Iter!Init, Iter!Range
<1>2. Len(source) = 0
    BY DEF Iter!Init
<1>3. IsList(gens)
    BY <1>1 DEF IsList
<1>4. source = <<>> /\ pos \in 0 .. Len(source) /\ Len(links) <= MaxLinks /\ Len(gens) = Len(links)
    BY <1>1, <1>2 DEF Iter!Init, ChainArguments
<1>5. at \in 0 .. Len(links) /\ top \in 0 .. Len(links) /\ mode = "idle"
    BY <1>1 DEF Iter!Init
<1>6. reply.is = "ask" /\ ended = FALSE /\ broken = FALSE /\ reused = FALSE
    BY DEF Iter!Init, Iter!Ask
<1> QED
    BY <1>1, <1>3, <1>4, <1>5, <1>6 DEF Iter!TypeOK, IterInv

(* Every step of a generator and of its caller keeps the invariant. *)
LEMMA IterStep ==
    ASSUME ChainArguments, IterInv, [Iter!Next]_(Iter!vars)
    PROVE  IterInv'
<1> USE DEF Iter!TypeOK, Iter!chain, Iter!caller
<1>1. links \in Seq(Adapters) /\ Iter!Range(links) \subseteq Adapters /\ IsList(gens) /\ Iter!TypeOK /\ Len(links) \in Nat
    BY DEF IterInv
<1> DEFINE Chain == source' = source /\ links' = links
           Gens == gens' = [k \in DOMAIN gens |-> gens'[k]]
           Caller == UNCHANGED <<mode, top, ended, reused>>
<1>2. ASSUME Chain, Gens, pos' \in 0 .. Len(source), at' \in 0 .. Len(links),
             reply'.is \in {"ask", "item", "stop", "error"},
             mode' \in {"idle", "next", "to_list"}, top' \in 0 .. Len(links),
             ended' \in BOOLEAN, broken' \in BOOLEAN, reused' \in BOOLEAN
      PROVE  IterInv'
    <2>1. IsList(gens') /\ Len(gens') = Len(gens)
        BY <1>1, <1>2, EntriesChange
    <2> QED
        BY <1>1, <1>2, <2>1 DEF IterInv
<1>3. ASSUME UNCHANGED gens PROVE Gens
    <2>1. PICK S : gens \in Seq(S)
        BY <1>1 DEF IsList
    <2> QED
        BY <1>3, <2>1
<1>4. ASSUME NEW list \in Sources, Iter!New(list) PROVE IterInv'
    <2>1. pos = 0 /\ Len(list) \in Nat
        BY <1>1, <1>4 DEF Iter!New, ChainArguments
    <2> QED
        BY <1>1, <1>4, <2>1 DEF Iter!New, IterInv
<1>5. ASSUME NEW l \in Adapters, Iter!Replace(l) PROVE IterInv'
    <2>1. links' \in Seq(Adapters) /\ Len(links') = Len(links) + 1 /\ Len(links') <= MaxLinks
        BY <1>1, <1>5 DEF Iter!Replace, ChainArguments
    <2>2. IsList(gens') /\ Len(gens') = Len(gens) + 1
        BY <1>1, <1>5, ListGrows DEF Iter!Replace
    <2>3. Iter!Range(links') \subseteq Adapters
        BY <2>1 DEF Iter!Range
    <2>4. UNCHANGED <<source, pos, at, reply, mode, top, ended, broken, reused>>
        BY <1>5 DEF Iter!Replace
    <2> QED
        BY <1>1, <2>1, <2>2, <2>3, <2>4 DEF IterInv
<1>6. ASSUME NEW m \in {"next", "to_list"}, NEW i \in 0 .. Len(links), Iter!Call(m, i),
             reused' \in BOOLEAN
      PROVE  IterInv'
    <2>1. reply'.is = "ask"
        BY <1>6 DEF Iter!Call, Iter!Ask
    <2>2. Chain /\ Gens /\ UNCHANGED <<pos, ended, broken>> /\ mode' = m /\ top' = i /\ at' = i
        BY <1>3, <1>6 DEF Iter!Call
    <2> QED
        BY <1>1, <1>2, <1>6, <2>1, <2>2
<1>7. ASSUME NEW m \in {"next", "to_list"}, Iter!Read(m) PROVE IterInv'
    BY <1>1, <1>6, <1>7 DEF Iter!Read
<1>8. ASSUME NEW i \in 0 .. MaxLinks - 1, Iter!ReadMoved(i) PROVE IterInv'
    <2>1. i \in 0 .. Len(links)
        BY <1>1, <1>8 DEF Iter!ReadMoved, ChainArguments
    <2> QED
        BY <1>6, <1>8, <2>1 DEF Iter!ReadMoved
<1>9. ASSUME Iter!SourceReplies PROVE IterInv'
    <2>1. Chain /\ Gens /\ Caller /\ UNCHANGED <<at, broken>>
        BY <1>3, <1>9 DEF Iter!SourceReplies
    <2>2. pos' \in 0 .. Len(source)
        <3>1. Len(source) \in Nat
            BY <1>1 DEF ChainArguments
        <3> QED
            BY <1>1, <1>9, <3>1 DEF Iter!SourceReplies
    <2>3. reply'.is \in {"item", "stop"}
        BY <1>9 DEF Iter!SourceReplies, Iter!Item, Iter!Stop
    <2> QED
        BY <1>1, <1>2, <2>1, <2>2, <2>3
<1>10. ASSUME Iter!Return PROVE IterInv'
    <2>1. Chain /\ Gens /\ UNCHANGED <<pos, at, top, broken, reused>>
        BY <1>3, <1>10 DEF Iter!Return
    <2>2. reply'.is = "ask" /\ mode' \in {"idle", "next", "to_list"} /\ ended' \in BOOLEAN
        BY <1>1, <1>10 DEF Iter!Return, Iter!Ask
    <2> QED
        BY <1>1, <1>2, <2>1, <2>2
<1>11. ASSUME NEW i \in 1 .. MaxLinks, Iter!Yield(i) \/ Iter!Finished(i) PROVE IterInv'
    <2>1. Chain /\ Gens /\ Caller /\ UNCHANGED <<pos, at, broken>>
        BY <1>3, <1>11 DEF Iter!Yield, Iter!Finished
    <2>2. reply'.is \in {"item", "stop"}
        BY <1>11 DEF Iter!Yield, Iter!Finished, Iter!Item, Iter!Stop
    <2> QED
        BY <1>1, <1>2, <2>1, <2>2
<1>12. ASSUME NEW i \in 1 .. MaxLinks, Iter!AskBelow(i) PROVE IterInv'
    <2>1. Chain /\ Gens /\ Caller /\ UNCHANGED <<pos, reply, broken>>
        BY <1>3, <1>12 DEF Iter!AskBelow
    <2>2. at' \in 0 .. Len(links)
        BY <1>1, <1>12 DEF Iter!AskBelow, Iter!Asked, ChainArguments
    <2> QED
        BY <1>1, <1>2, <2>1, <2>2
<1>13. ASSUME NEW i \in 1 .. MaxLinks, Iter!Told(i, reply.is) PROVE i \in 0 .. Len(links)
    BY <1>1, <1>13 DEF Iter!Told, ChainArguments
<1>14. ASSUME NEW i \in 1 .. MaxLinks, i \in 0 .. Len(links), Iter!RaiseFrom(i) PROVE IterInv'
    <2>1. Chain /\ Gens /\ Caller /\ UNCHANGED pos /\ at' = i /\ broken' = TRUE
        BY <1>14 DEF Iter!RaiseFrom
    <2>2. reply'.is = "error"
        BY <1>14 DEF Iter!RaiseFrom, Iter!Error
    <2> QED
        BY <1>1, <1>2, <1>14, <2>1, <2>2
<1>15. ASSUME NEW i \in 1 .. MaxLinks,
              Iter!Refuse(i) \/ Iter!CallbackRaises(i) \/ Iter!PassError(i) \/ Iter!StrictRaises(i)
       PROVE  IterInv'
    <2>1. Iter!RaiseFrom(i) /\ (Iter!Asked(i) \/ Iter!Told(i, reply.is))
        BY <1>15 DEF Iter!Refuse, Iter!CallbackRaises, Iter!PassError, Iter!StrictRaises, Iter!Told
    <2>2. i \in 0 .. Len(links)
        BY <1>1, <1>13, <2>1 DEF Iter!Asked
    <2> QED
        BY <1>14, <2>1, <2>2
<1>16. ASSUME NEW i \in 1 .. MaxLinks, Iter!PassItem(i) \/ Iter!PassStop(i) PROVE IterInv'
    <2>1. i \in 0 .. Len(links)
        BY <1>13, <1>16 DEF Iter!PassItem, Iter!PassStop, Iter!Told
    <2>2. Chain /\ Caller /\ UNCHANGED <<pos, broken>> /\ at' = i
        BY <1>16 DEF Iter!PassItem, Iter!PassStop
    <2>3. Gens
        <3>1. \E e : gens' = [gens EXCEPT ![i] = e]
            <4>1. CASE Iter!PassItem(i)
                BY <4>1 DEF Iter!PassItem
            <4>2. CASE Iter!PassStop(i)
                BY <4>2 DEF Iter!PassStop
            <4> QED
                BY <1>16, <4>1, <4>2
        <3> QED
            BY <3>1
    <2>4. reply'.is = "ask"
        BY <1>16 DEF Iter!PassItem, Iter!PassStop, Iter!Ask
    <2> QED
        BY <1>1, <1>2, <2>1, <2>2, <2>3, <2>4
<1>17. CASE UNCHANGED Iter!vars
    BY <1>17 DEF Iter!vars, IterInv
<1> HIDE DEF Iter!TypeOK, Iter!chain, Iter!caller
<1>18. ASSUME NEW i \in 1 .. MaxLinks,
              \/ Iter!Yield(i) \/ Iter!Finished(i) \/ Iter!AskBelow(i) \/ Iter!Refuse(i)
              \/ Iter!PassItem(i) \/ Iter!CallbackRaises(i) \/ Iter!PassError(i) \/ Iter!PassStop(i) \/ Iter!StrictRaises(i)
       PROVE  IterInv'
    BY <1>11, <1>12, <1>15, <1>16, <1>18, Zenon
<1>19. Iter!Next => IterInv'
    BY <1>4, <1>5, <1>7, <1>8, <1>9, <1>10, <1>18 DEF Iter!Next
<1> QED
    BY <1>17, <1>19

-----------------------------------------------------------------------------
(* The parts side by side.  They share nothing, so a step of one leaves the
   invariants of the others as they are. *)
PartNames == {"cache", "iter", "tree", "log"}

UtilArguments == Parts \subseteq PartNames /\ ChainArguments /\ TreeArguments

AllInv == part \in PartNames /\ TypeOK /\ IterInv /\ TreeInv /\ LogInv

(* The four parts begin in their initial states. *)
LEMMA UtilInit == ASSUME UtilArguments, AllInit PROVE AllInv
BY TypeInit, IterInit, TreeInit, LogInit DEF AllInit, AllInv, UtilArguments

(* A step of one part keeps the invariants of all. *)
LEMMA UtilStep ==
    ASSUME UtilArguments, AllInv, [AllNext]_<<part, vars, iterVars, treeVars, logVars>>
    PROVE  AllInv'
<1>1. /\ part' = part
      /\ [Next]_vars
      /\ Next \/ UNCHANGED vars
      /\ Iter!Next \/ UNCHANGED iterVars
      /\ Counter!Next \/ UNCHANGED treeVars
      /\ Logging!Next \/ UNCHANGED logVars
    BY DEF AllNext
<1>2. /\ UNCHANGED iterVars => UNCHANGED Iter!vars
      /\ UNCHANGED treeVars => UNCHANGED Counter!counterVars
      /\ UNCHANGED logVars => UNCHANGED Logging!logVars
    BY DEF iterVars, treeVars, logVars, Iter!vars, Iter!chain, Iter!caller, Counter!counterVars, Logging!logVars
<1>3. TypeOK'
    BY <1>1, TypeStep DEF AllInv
<1>4. IterInv'
    BY <1>1, <1>2, IterStep DEF AllInv, UtilArguments
<1>5. TreeInv'
    BY <1>1, <1>2, TreeStep DEF AllInv, UtilArguments
<1>6. LogInv'
    BY <1>1, <1>2, LogStep DEF AllInv
<1> QED
    BY <1>1, <1>3, <1>4, <1>5, <1>6 DEF AllInv

(* The invariants of the four parts hold in every reachable state of MCUtil. *)
THEOREM UtilInvariance == ASSUME UtilArguments PROVE AllSpec => []AllInv
<1>1. AllInit => AllInv
    BY UtilInit
<1>2. AllInv /\ [AllNext]_<<part, vars, iterVars, treeVars, logVars>> => AllInv'
    BY UtilStep
<1> QED
    BY <1>1, <1>2, PTL DEF AllSpec

(* Every variable of the four parts keeps its type: no node of the prefix tree
   is counted more often than tuples were added nor samples beyond its
   capacity, and whoever runs in a chain is one of its generators. *)
THEOREM UtilTypeCorrect == ASSUME UtilArguments PROVE AllSpec => []AllTypeOK
<1>1. AllInv => AllTypeOK
    BY TreeSuffices DEF AllInv, AllTypeOK, PartNames, IterInv, LogInv, UtilArguments
<1> QED
    BY <1>1, UtilInvariance, PTL

(* own_count of PrefixCounter is the number of the tuples that stopped at the
   node, and its samples are of those that arrived there, whichever tuples are
   added and wherever an add raises. *)
THEOREM OwnCountsAddUp == ASSUME UtilArguments PROVE AllSpec => []CountsAddUp
<1>1. AllInv => CountsAddUp
    BY TreeSuffices DEF AllInv, CountsAddUp, UtilArguments
<1> QED
    BY <1>1, UtilInvariance, PTL

(* However many callers set up logging at once, in which order with otel and
   wherever they raise, there are never two console handlers, exporters of one
   signal or files; and there is one console handler, except while a set-up is
   between two handlers or after one that raised there. *)
THEOREM LoggingIsSetUpOnce == ASSUME UtilArguments PROVE AllSpec => []SetUpOnce
<1>1. AllInv => SetUpOnce
    BY LogInvSuffices DEF AllInv, SetUpOnce
<1> QED
    BY <1>1, UtilInvariance, PTL

(* What a handler shows does not depend on the handlers before it: each leaves
   the record as it found it. *)
THEOREM HandlersDoNotDisturb == ASSUME UtilArguments PROVE AllSpec => []HandlersSeeTheSame
<1>1. AllInv => HandlersSeeTheSame
    BY DEF AllInv, LogInv, HandlersSeeTheSame
<1> QED
    BY <1>1, UtilInvariance, PTL
=============================================================================
