------------------------- MODULE IteratorChain_proofs -------------------------
(***************************************************************************)
(* IteratorChain for any list, any chain and any way to read it: the       *)
(* caller gets what the adapters make of the whole list, and no element is *)
(* read before it is needed.                                               *)
(*                                                                         *)
(* An invariant over the locals alone cannot say this: they do not         *)
(* remember what went by.  So the invariant says that some history o       *)
(* explains the state: o[i] is what generator i delivered.  What generator *)
(* i + 1 delivered, with what it still has to yield, is what its adapter   *)
(* makes of o[i]; its locals are what the adapter remembers of o[i]; and   *)
(* what was read is no more than that took.  An exception leaves a         *)
(* generator dead: nothing comes from it or from above it any more.        *)
(*                                                                         *)
(* First the recursive functions, which are determined by what defines     *)
(* them, a least counterexample excluded; then what an adapter makes of a  *)
(* list that grows; then the steps of the generators.                      *)
(***************************************************************************)
EXTENDS Util_proofs

CONSTANT Elements       \* what the lists and the items are made of

-----------------------------------------------------------------------------
(* Recursion over an interval: there is a function, and one only. *)
LEMMA Determined ==
    ASSUME NEW n \in Nat, NEW f, NEW h, h[0] = f[0],
           \A i \in 1 .. n : h[i - 1] = f[i - 1] => h[i] = f[i]
    PROVE  \A i \in 0 .. n : h[i] = f[i]
<1> DEFINE Wrong == {i \in 0 .. n : h[i] # f[i]}
<1>1. SUFFICES ASSUME Wrong # {} PROVE FALSE
    OBVIOUS
<1>2. Wrong \in SUBSET Nat
    OBVIOUS
<1>3. PICK m \in Wrong : \A k \in Wrong : m <= k
    <2> HIDE DEF Wrong
    <2> QED
        BY <1>1, <1>2, Least
<1>4. m \in 1 .. n /\ m - 1 \in 0 .. n /\ m - 1 \notin Wrong
    BY <1>3
<1> QED
    BY <1>3, <1>4

IsStep(step, V, n) == \A i \in 1 .. n : \A v \in V : step[i][v] \in V

Follows(f, V, n, base, step) ==
    /\ f[0] = base
    /\ \A i \in 0 .. n : f[i] \in V
    /\ \A i \in 1 .. n : f[i] = step[i][f[i - 1]]

(* A recursive definition over an interval has a solution. *)
LEMMA Recursion ==
    ASSUME NEW V, NEW n \in Nat, NEW base \in V, NEW step, IsStep(step, V, n)
    PROVE  \E f : Follows(f, V, n, base, step)
<1> USE DEF IsStep, Follows
<1> DEFINE Upto(f, m) == Follows(f, V, m, base, step)
           Wrong == {m \in 0 .. n : ~ \E f : Upto(f, m)}
<1>1. SUFFICES ASSUME Wrong # {} PROVE FALSE
    <2>1. n \in 0 .. n
        OBVIOUS
    <2>2. ASSUME Wrong = {} PROVE \E f : Upto(f, n)
        <3> HIDE DEF Upto
        <3> QED
            BY <2>1, <2>2
    <2> QED
        BY <2>2
<1>2. Wrong \in SUBSET Nat
    OBVIOUS
<1>3. PICK m \in Wrong : \A k \in Wrong : m <= k
    <2> HIDE DEF Wrong
    <2> QED
        BY <1>1, <1>2, Least
<1>4. CASE m = 0
    <2>1. Upto([i \in 0 .. 0 |-> base], 0)
        OBVIOUS
    <2> QED
        BY <1>3, <1>4, <2>1
<1>5. CASE m # 0
    <2>0. m \in 0 .. n
        BY <1>3
    <2>1. m \in 1 .. n /\ m - 1 \in 0 .. n
        BY <1>5, <2>0
    <2>2. PICK f : Upto(f, m - 1)
        <3>1. m - 1 \notin Wrong
            <4> HIDE DEF Wrong
            <4>1. ~(m <= m - 1)
                BY <2>0
            <4> QED
                BY <1>3, <4>1
        <3> HIDE DEF Upto
        <3> QED
            BY <2>1, <3>1
    <2> DEFINE last == step[m][f[m - 1]]
               g == [i \in 0 .. m |-> IF i < m THEN f[i] ELSE last]
    <2>3. f[m - 1] \in V /\ last \in V
        <3>1. m - 1 \in 0 .. m - 1
            BY <2>1
        <3> QED
            BY <2>1, <2>2, <3>1
    <2>4. \A i \in 0 .. m : i < m => i \in 0 .. m - 1
        BY <2>1
    <2>5. \A i \in 0 .. m - 1 : f[i] \in V
        BY <2>2
    <2> HIDE DEF last
    <2>6. \A i \in 0 .. m : g[i] \in V
        BY <2>3, <2>4, <2>5
    <2>7. g[0] = base
        BY <2>1, <2>2
    <2>8. ASSUME NEW i \in 1 .. m PROVE g[i] = step[i][g[i - 1]]
        <3>1. i - 1 \in 0 .. m /\ i - 1 < m /\ i \in 0 .. m
            BY <2>1
        <3>2. g[i - 1] = f[i - 1]
            BY <3>1
        <3>3. CASE i = m
            <4>1. g[i] = last
                BY <3>1, <3>3
            <4> QED
                BY <3>2, <3>3, <4>1 DEF last
        <3>4. CASE i # m
            <4>1. i \in 1 .. m - 1 /\ i < m
                BY <2>1, <3>4
            <4>2. g[i] = f[i]
                BY <3>1, <4>1
            <4> QED
                BY <2>2, <3>2, <4>1, <4>2
        <3> QED
            BY <3>3, <3>4
    <2>9. Upto(g, m)
        <3> HIDE DEF g
        <3> QED
            BY <2>6, <2>7, <2>8
    <2> QED
        BY <1>3, <2>9
<1> QED
    BY <1>4, <1>5

-----------------------------------------------------------------------------
(* FlattenSeq. *)
Flat(ss) == Iter!FlattenSeq(ss)

IsConcat(f, S, n, ss) ==
    /\ f[0] = <<>>
    /\ \A i \in 0 .. n : f[i] \in S
    /\ \A i \in 1 .. n : f[i] = f[i - 1] \o ss[i]

(* The partial concatenations of a list of lists exist. *)
LEMMA Concats ==
    ASSUME NEW S, NEW n \in Nat, NEW ss, <<>> \in S,
           \A i \in 1 .. n : \A s \in S : s \o ss[i] \in S
    PROVE  \E f : IsConcat(f, S, n, ss)
<1>1. PICK step : step = [i \in 1 .. n |-> [s \in S |-> s \o ss[i]]]
    OBVIOUS
<1>2. \A i \in 1 .. n : \A s \in S : step[i][s] = s \o ss[i]
    BY <1>1
<1>3. IsStep(step, S, n)
    BY <1>2 DEF IsStep
<1>4. PICK f : Follows(f, S, n, <<>>, step)
    BY <1>3, Recursion
<1>5. \A i \in 1 .. n : i - 1 \in 0 .. n
    OBVIOUS
<1>6. \A i \in 1 .. n : f[i] = f[i - 1] \o ss[i]
    BY <1>2, <1>4, <1>5 DEF Follows
<1> QED
    BY <1>4, <1>6 DEF Follows, IsConcat

(* FlattenSeq is the last of the partial concatenations. *)
LEMMA FlatIsLast ==
    ASSUME NEW T, NEW ss \in Seq(Seq(T))
    PROVE  \E f : /\ f[0] = <<>>
                  /\ \A i \in 1 .. Len(ss) : f[i] = f[i - 1] \o ss[i]
                  /\ \A i \in 0 .. Len(ss) : f[i] \in Seq(T)
                  /\ Flat(ss) = f[Len(ss)]
<1> DEFINE n == Len(ss)
           S == Seq(T)
<1>1. n \in Nat /\ <<>> \in S
    OBVIOUS
<1>2. \A i \in 1 .. n : ss[i] \in S
    OBVIOUS
<1>3. \A s, t \in S : s \o t \in S
    OBVIOUS
<1>4. \A s \in S : <<>> \o s = s
    OBVIOUS
<1> HIDE DEF n, S
<1>5. \A i \in 1 .. n : \A s \in S : s \o ss[i] \in S
    BY <1>2, <1>3
<1>6. PICK f : /\ f[0] = <<>>
               /\ \A i \in 0 .. n : f[i] \in S
               /\ \A i \in 1 .. n : f[i] = f[i - 1] \o ss[i]
    <2>1. PICK f : IsConcat(f, S, n, ss)
        BY <1>1, <1>5, Concats
    <2> QED
        BY <2>1 DEF IsConcat
<1>7. \A i \in 0 .. n : f[i] \in S
    BY <1>6
<1>8. \A i \in 1 .. n : i - 1 \in 0 .. n
    BY <1>1
<1>9. \A i \in 1 .. n : f[i] = f[i - 1] \o ss[i]
    BY <1>6
<1>10. CASE n = 0
    <2>1. Flat(ss) = <<>>
        BY <1>10 DEF Flat, Iter!FlattenSeq, n
    <2>2. Flat(ss) = f[n]
        BY <1>6, <1>10, <2>1
    <2> QED
        BY <1>6, <1>7, <1>9, <2>2 DEF n, S
<1>11. CASE n # 0
    <2> DEFINE Rec(g) == g = [i \in 1 .. n |-> IF i = 1 THEN ss[i] ELSE g[i - 1] \o ss[i]]
               c == CHOOSE g : Rec(g)
               g0 == [i \in 1 .. n |-> f[i]]
               h == [i \in 0 .. n |-> IF i = 0 THEN <<>> ELSE c[i]]
    <2>1. Flat(ss) = c[n]
        BY <1>11 DEF Flat, Iter!FlattenSeq, n
    <2>2. f[0] = <<>> /\ \A i \in 1 .. n : i # 1 => i - 1 \in 1 .. n
        BY <1>1, <1>6
    <2>3. \A i \in 1 .. n : i = 1 => f[i] = ss[i]
        <3>1. ASSUME NEW i \in 1 .. n, i = 1 PROVE f[i] = ss[i]
            <4>1. i - 1 = 0
                BY <3>1
            <4>2. f[i] = f[i - 1] \o ss[i]
                BY <1>9
            <4> QED
                BY <1>2, <1>4, <2>2, <4>1, <4>2
        <3> QED
            BY <3>1
    <2>4. Rec(g0)
        <3>1. ASSUME NEW i \in 1 .. n PROVE f[i] = IF i = 1 THEN ss[i] ELSE g0[i - 1] \o ss[i]
            <4>1. i # 1 => g0[i - 1] = f[i - 1]
                BY <2>2
            <4> HIDE DEF g0
            <4> QED
                BY <1>9, <2>3, <4>1
        <3> QED
            BY <3>1, Zenon
    <2>5. Rec(c)
        <3> HIDE DEF Rec
        <3> QED
            BY <2>4
    <2>6. ASSUME NEW i \in 1 .. n PROVE c[i] = IF i = 1 THEN ss[i] ELSE c[i - 1] \o ss[i]
        <3> HIDE DEF c
        <3> QED
            BY <2>5
    <2> HIDE DEF c, Rec, g0
    <2>7. ASSUME NEW i \in 1 .. n, h[i - 1] = f[i - 1] PROVE h[i] = f[i]
        <3>1. i \in 0 .. n /\ i # 0 /\ h[i] = c[i]
            BY <1>1
        <3>2. CASE i = 1
            <4> HIDE DEF h
            <4> QED
                BY <2>3, <2>6, <3>1, <3>2
        <3>3. CASE i # 1
            <4>1. i - 1 \in 0 .. n /\ i - 1 # 0
                BY <1>8, <3>3
            <4>2. h[i - 1] = c[i - 1]
                BY <4>1
            <4> HIDE DEF h
            <4> QED
                BY <1>9, <2>6, <2>7, <3>1, <3>3, <4>2
        <3> QED
            BY <3>2, <3>3
    <2>8. h[0] = f[0]
        BY <1>1, <2>2
    <2>9. \A i \in 0 .. n : h[i] = f[i]
        <3> HIDE DEF h
        <3> QED
            BY <1>1, <2>7, <2>8, Determined
    <2>10. n \in 0 .. n /\ h[n] = c[n]
        BY <1>1, <1>11
    <2>11. Flat(ss) = f[n]
        BY <2>1, <2>9, <2>10
    <2> QED
        BY <1>6, <1>7, <1>9, <2>11 DEF n, S
<1> QED
    BY <1>10, <1>11

(* Nothing flattens to nothing. *)
LEMMA FlatEmpty == Flat(<<>>) = <<>>
BY DEF Flat, Iter!FlattenSeq

(* Lists flatten to a list of their elements. *)
LEMMA FlatType == ASSUME NEW T, NEW ss \in Seq(Seq(T)) PROVE Flat(ss) \in Seq(T)
<1>1. PICK f : (\A i \in 0 .. Len(ss) : f[i] \in Seq(T)) /\ Flat(ss) = f[Len(ss)]
    BY FlatIsLast
<1>2. Len(ss) \in 0 .. Len(ss)
    OBVIOUS
<1> QED
    BY <1>1, <1>2

(* One list more is appended to what the others flatten to. *)
LEMMA FlatAppend ==
    ASSUME NEW T, NEW ss \in Seq(Seq(T)), NEW s \in Seq(T)
    PROVE  Flat(Append(ss, s)) = Flat(ss) \o s
<1> DEFINE n == Len(ss)
           tt == Append(ss, s)
<1>1. tt \in Seq(Seq(T)) /\ Len(tt) = n + 1 /\ tt[n + 1] = s
    OBVIOUS
<1>2. n \in Nat
    OBVIOUS
<1>3. \A i \in 1 .. n : tt[i] = ss[i]
    OBVIOUS
<1>4. PICK f : f[0] = <<>> /\ (\A i \in 1 .. n : f[i] = f[i - 1] \o ss[i]) /\ Flat(ss) = f[n]
    BY FlatIsLast
<1> HIDE DEF tt
<1>5. PICK g : g[0] = <<>> /\ (\A i \in 1 .. Len(tt) : g[i] = g[i - 1] \o tt[i]) /\ Flat(tt) = g[Len(tt)]
    BY <1>1, FlatIsLast
<1> HIDE DEF n
<1>6. \A i \in 1 .. n + 1 : g[i] = g[i - 1] \o tt[i]
    BY <1>1, <1>5
<1>7. ASSUME NEW i \in 1 .. n, g[i - 1] = f[i - 1] PROVE g[i] = f[i]
    <2>1. i \in 1 .. n + 1
        BY <1>2
    <2> QED
        BY <1>3, <1>4, <1>6, <1>7, <2>1
<1>8. \A i \in 0 .. n : g[i] = f[i]
    <2>1. g[0] = f[0]
        BY <1>4, <1>5
    <2> QED
        BY <1>2, <1>7, <2>1, Determined
<1>9. n \in 0 .. n /\ n + 1 \in 1 .. n + 1 /\ (n + 1) - 1 = n
    BY <1>2
<1>10. g[n + 1] = g[(n + 1) - 1] \o tt[n + 1]
    BY <1>6, <1>9
<1> QED
    BY <1>1, <1>4, <1>5, <1>8, <1>9, <1>10 DEF tt

-----------------------------------------------------------------------------
(* Lists with the same entries are equal. *)
LEMMA EqualLists ==
    ASSUME NEW S, NEW s \in Seq(S), NEW t \in Seq(S), Len(s) = Len(t), \A k \in 1 .. Len(s) : s[k] = t[k]
    PROVE  s = t
OBVIOUS

(* Lists and their ends. *)
LastOf(xs, n) == SubSeq(xs, Len(xs) - n + 1, Len(xs))

(* Lists that agree up to k have the same parts up to k. *)
LEMMA SubSeqAgrees ==
    ASSUME NEW S, NEW xs \in Seq(S), NEW ys \in Seq(S), NEW a \in Nat \ {0}, NEW k \in Nat,
           k <= Len(xs), k <= Len(ys), \A j \in 1 .. k : xs[j] = ys[j]
    PROVE  SubSeq(xs, a, k) = SubSeq(ys, a, k) /\ SubSeq(xs, a, k) \in Seq(S)
<1>1. CASE a <= k
    <2>1. SubSeq(xs, a, k) \in Seq(S) /\ SubSeq(ys, a, k) \in Seq(S)
        BY <1>1
    <2>2. Len(SubSeq(xs, a, k)) = k - a + 1 /\ Len(SubSeq(ys, a, k)) = k - a + 1
        BY <1>1
    <2>3. ASSUME NEW j \in 1 .. k - a + 1 PROVE SubSeq(xs, a, k)[j] = SubSeq(ys, a, k)[j]
        <3>1. a + j - 1 \in 1 .. k
            BY <1>1
        <3>2. SubSeq(xs, a, k)[j] = xs[a + j - 1] /\ SubSeq(ys, a, k)[j] = ys[a + j - 1]
            BY <1>1, <3>1
        <3> QED
            BY <3>1, <3>2
    <2> QED
        BY <2>1, <2>2, <2>3, SameSequence
<1>2. CASE ~(a <= k)
    <2>1. SubSeq(xs, a, k) = <<>> /\ SubSeq(ys, a, k) = <<>>
        BY <1>2
    <2> QED
        BY <2>1
<1> QED
    BY <1>1, <1>2

(* The end of a list that grows. *)
LEMMA LastAppend ==
    ASSUME NEW S, NEW xs \in Seq(S), NEW v \in S, NEW n \in 0 .. Len(xs)
    PROVE  /\ LastOf(xs, n) \in Seq(S) /\ Len(LastOf(xs, n)) = n
           /\ LastOf(Append(xs, v), n + 1) = Append(LastOf(xs, n), v)
<1> DEFINE k == Len(xs)
           ys == Append(xs, v)
           s == LastOf(xs, n)
           t == LastOf(ys, n + 1)
<1>1. k \in Nat /\ n \in 0 .. k
    OBVIOUS
<1>2. ys \in Seq(S) /\ Len(ys) = k + 1 /\ ys[k + 1] = v
    OBVIOUS
<1>3. \A j \in 1 .. k : ys[j] = xs[j]
    OBVIOUS
<1>4. s \in Seq(S) /\ Len(s) = n /\ \A j \in 1 .. n : s[j] = xs[k - n + j]
    BY <1>1 DEF LastOf
<1> HIDE DEF ys
<1>5. t \in Seq(S) /\ Len(t) = n + 1
    BY <1>1, <1>2 DEF LastOf
<1>6. \A j \in 1 .. n + 1 : t[j] = ys[k - n + j]
    BY <1>1, <1>2 DEF LastOf
<1> HIDE DEF s, t, k
<1>7. Append(s, v) \in Seq(S) /\ Len(Append(s, v)) = n + 1
    BY <1>1, <1>4
<1>8. ASSUME NEW j \in 1 .. n + 1 PROVE t[j] = Append(s, v)[j]
    <2>1. CASE j = n + 1
        <3>1. k - n + j = k + 1 /\ Append(s, v)[n + 1] = v
            BY <1>1, <1>4, <2>1
        <3> QED
            BY <1>2, <1>6, <2>1, <3>1
    <2>2. CASE j # n + 1
        <3>1. j \in 1 .. n /\ k - n + j \in 1 .. k
            BY <1>1, <2>2
        <3>2. Append(s, v)[j] = s[j]
            BY <1>4, <3>1
        <3>3. t[j] = ys[k - n + j]
            BY <1>6
        <3> QED
            BY <1>3, <1>4, <3>1, <3>2, <3>3 DEF k
    <2> QED
        BY <2>1, <2>2
<1>9. t = Append(s, v)
    BY <1>5, <1>7, <1>8, SameSequence
<1> QED
    BY <1>4, <1>9 DEF s, t, ys

(* Counting on by one in steps of n. *)
LEMMA Division ==
    ASSUME NEW n \in Nat \ {0}, NEW k \in Nat
    PROVE  k = n * (k \div n) + (k % n) /\ k \div n \in Nat /\ k % n \in 0 .. n - 1
OBVIOUS

(* A number has one remainder. *)
LEMMA OneRemainder ==
    ASSUME NEW n \in Nat \ {0}, NEW q \in Nat, NEW p \in Nat, NEW r \in 0 .. n - 1, NEW s \in 0 .. n - 1,
           n * q + r = n * p + s
    PROVE  r = s
OBVIOUS

(* The remainder of the next number: one more, or zero again. *)
LEMMA NextRemainder ==
    ASSUME NEW n \in Nat \ {0}, NEW k \in Nat
    PROVE  (k + 1) % n = IF (k % n) + 1 = n THEN 0 ELSE (k % n) + 1
<1> DEFINE q == k \div n
           r == k % n
           p == (k + 1) \div n
           s == (k + 1) % n
<1>1. k = n * q + r /\ q \in Nat /\ r \in 0 .. n - 1
    BY Division
<1>2. k + 1 = n * p + s /\ p \in Nat /\ s \in 0 .. n - 1
    <2>1. k + 1 \in Nat
        OBVIOUS
    <2> QED
        BY <2>1, Division
<1> HIDE DEF q, r, p, s
<1>3. CASE r + 1 = n
    <2>1. n * (q + 1) = n * q + n
        BY <1>1
    <2>2. n * (q + 1) + 0 = n * p + s
        BY <1>1, <1>2, <1>3, <2>1
    <2>3. q + 1 \in Nat /\ 0 \in 0 .. n - 1
        BY <1>1
    <2> QED
        BY <1>2, <1>3, <2>2, <2>3, OneRemainder DEF r, s
<1>4. CASE r + 1 # n
    <2>1. n * q + (r + 1) = n * p + s
        BY <1>1, <1>2
    <2>2. r + 1 \in 0 .. n - 1
        BY <1>1, <1>4
    <2> QED
        BY <1>1, <1>2, <1>4, <2>1, <2>2, OneRemainder DEF r, s
<1> QED
    BY <1>3, <1>4

(* A remainder is at most the number, and a positive multiple is at least the step. *)
LEMMA SmallRemainder ==
    ASSUME NEW n \in Nat \ {0}, NEW k \in Nat
    PROVE  k % n <= k /\ (k % n = 0 /\ k > 0 => n <= k)
<1> DEFINE q == k \div n
           r == k % n
<1>1. k = n * q + r /\ q \in Nat /\ r \in 0 .. n - 1
    BY Division
<1> HIDE DEF q, r
<1>2. CASE q = 0
    BY <1>1, <1>2 DEF r
<1>3. CASE q # 0
    <2>1. n * q >= n
        BY <1>1, <1>3
    <2> QED
        BY <1>1, <2>1 DEF r
<1> QED
    BY <1>2, <1>3

-----------------------------------------------------------------------------
(* Items are non-empty sequences of elements, and the caller's functions make
   items of them. *)
Items == Seq(Elements) \ {<<>>}

Ops == {"take", "skip", "chunk", "batched", "uniq", "uniq_by", "map", "flatmap", "filter"}

AdapterValues == \A l \in Adapters : l.op \in Ops /\ l.n \in Nat

CallbackValues == \A v \in Items : Apply(v) \in Items /\ Spread(v) \in Seq(Items)

Keys == Items \cup {Key(v) : v \in Items}

Gen == [n : Nat, buffer : Seq(Elements), seen : SUBSET Keys, queue : Seq(Items), done : BOOLEAN]

(* Items are lists of elements. *)
LEMMA ItemsAreLists == Seq(Items) \subseteq Seq(Seq(Elements)) /\ Items \subseteq Seq(Elements)
BY DEF Items

(* The chunk of some items is an item. *)
LEMMA FlatItems ==
    ASSUME NEW xs \in Seq(Items)
    PROVE  Flat(xs) \in Seq(Elements) /\ (xs # <<>> => Flat(xs) \in Items)
<1>1. xs \in Seq(Seq(Elements))
    BY ItemsAreLists
<1>2. Flat(xs) \in Seq(Elements)
    BY <1>1, FlatType
<1>3. ASSUME xs # <<>> PROVE Flat(xs) # <<>>
    <2> DEFINE n == Len(xs)
    <2>1. n \in Nat \ {0} /\ xs[n] \in Seq(Elements) /\ xs[n] # <<>>
        BY <1>3 DEF Items
    <2>2. PICK f : /\ \A i \in 1 .. n : f[i] = f[i - 1] \o xs[i]
                   /\ \A i \in 0 .. n : f[i] \in Seq(Elements)
                   /\ Flat(xs) = f[n]
        BY <1>1, FlatIsLast
    <2> HIDE DEF n
    <2>3. f[n] = f[n - 1] \o xs[n] /\ f[n - 1] \in Seq(Elements)
        <3>1. n \in 1 .. n /\ n - 1 \in 0 .. n
            BY <2>1
        <3> QED
            BY <2>2, <3>1
    <2>4. \A s, t \in Seq(Elements) : t # <<>> => s \o t # <<>>
        OBVIOUS
    <2> QED
        BY <2>1, <2>2, <2>3, <2>4
<1> QED
    BY <1>2, <1>3 DEF Items

(* What an adapter yields on account of an item depends on nothing that comes
   after it, and is a list of items. *)
LEMMA YieldsAgree ==
    ASSUME NEW l \in Adapters, AdapterValues, NEW xs \in Seq(Items), NEW ys \in Seq(Items),
           NEW k \in Nat \ {0}, k <= Len(xs), k <= Len(ys), \A j \in 1 .. k : xs[j] = ys[j]
    PROVE  Iter!Yields(l, xs, k) = Iter!Yields(l, ys, k)
<1>1. xs[k] = ys[k] /\ \A j \in 1 .. k - 1 : xs[j] = ys[j]
    OBVIOUS
<1>2. l.op \in Ops /\ l.n \in Nat
    BY DEF AdapterValues
<1>3. ASSUME l.n > 0, k % l.n = 0 PROVE SubSeq(xs, k - l.n + 1, k) = SubSeq(ys, k - l.n + 1, k)
    <2>1. l.n <= k
        BY <1>2, <1>3, SmallRemainder
    <2>2. PICK a \in Nat \ {0} : a = k - l.n + 1
        BY <1>2, <2>1
    <2>3. SubSeq(xs, a, k) = SubSeq(ys, a, k)
        BY SubSeqAgrees
    <2> QED
        BY <2>2, <2>3
<1>4. CASE l.op \in {"take", "skip", "map", "flatmap", "filter"}
    BY <1>1, <1>4 DEF Iter!Yields
<1>5. CASE l.op = "uniq"
    BY <1>1, <1>5 DEF Iter!Yields
<1>6. CASE l.op = "uniq_by"
    BY <1>1, <1>6 DEF Iter!Yields
<1>7. CASE l.op \in {"chunk", "batched"}
    BY <1>3, <1>7 DEF Iter!Yields, Iter!When
<1> QED
    BY <1>2, <1>4, <1>5, <1>6, <1>7 DEF Ops

(* What an adapter yields on account of an item is a list of items. *)
LEMMA YieldsType ==
    ASSUME NEW l \in Adapters, AdapterValues, CallbackValues, NEW xs \in Seq(Items),
           NEW k \in 1 .. Len(xs)
    PROVE  Iter!Yields(l, xs, k) \in Seq(Items)
<1>1. xs[k] \in Items /\ Apply(xs[k]) \in Items /\ Spread(xs[k]) \in Seq(Items)
    BY DEF CallbackValues
<1>2. l.op \in Ops /\ l.n \in Nat
    BY DEF AdapterValues
<1>3. \A c : \A v \in Items : Iter!When(c, v) \in Seq(Items)
    BY DEF Iter!When
<1>4. ASSUME l.n > 0, k % l.n = 0 PROVE Flat(SubSeq(xs, k - l.n + 1, k)) \in Items
    <2>1. l.n <= k
        BY <1>2, <1>4, SmallRemainder
    <2> DEFINE s == SubSeq(xs, k - l.n + 1, k)
    <2>2. k - l.n + 1 \in 1 .. k /\ k \in Nat
        BY <1>2, <1>4, <2>1
    <2>3. s \in Seq(Items) /\ Len(s) = k - (k - l.n + 1) + 1
        BY <2>2
    <2>4. s # <<>>
        BY <1>2, <1>4, <2>1, <2>3
    <2> HIDE DEF s
    <2>5. Flat(s) \in Items
        BY <2>3, <2>4, FlatItems
    <2> QED
        BY <2>5 DEF s
<1>5. CASE l.op \in {"take", "skip", "filter"}
    BY <1>1, <1>3, <1>5 DEF Iter!Yields
<1>6. CASE l.op \in {"uniq", "uniq_by"}
    BY <1>1, <1>3, <1>6 DEF Iter!Yields
<1>7. CASE l.op \in {"map", "flatmap"}
    <2>1. <<Apply(xs[k])>> \in Seq(Items)
        BY <1>1
    <2> QED
        BY <1>1, <1>7, <2>1 DEF Iter!Yields
<1>8. CASE l.op \in {"chunk", "batched"}
    BY <1>4, <1>8 DEF Iter!Yields, Iter!When, Flat
<1> QED
    BY <1>2, <1>5, <1>6, <1>7, <1>8 DEF Ops

(* What it makes of a list is a list of items. *)
LEMMA MadeType ==
    ASSUME NEW l \in Adapters, AdapterValues, CallbackValues, NEW xs \in Seq(Items)
    PROVE  /\ [k \in DOMAIN xs |-> Iter!Yields(l, xs, k)] \in Seq(Seq(Items))
           /\ Iter!Made(l, xs) \in Seq(Items)
<1> DEFINE ss == [k \in DOMAIN xs |-> Iter!Yields(l, xs, k)]
           n == Len(xs)
<1>1. DOMAIN xs = 1 .. n /\ n \in Nat
    OBVIOUS
<1>2. \A k \in 1 .. n : Iter!Yields(l, xs, k) \in Seq(Items)
    BY YieldsType
<1> HIDE DEF n
<1>3. ss \in Seq(Seq(Items))
    BY <1>1, <1>2
<1> HIDE DEF ss
<1>4. Flat(ss) \in Seq(Items)
    BY <1>3, FlatType
<1> QED
    BY <1>3, <1>4 DEF ss, Flat, Iter!Made

(* Of nothing an adapter makes nothing. *)
LEMMA MadeEmpty == ASSUME NEW l PROVE Iter!Made(l, <<>>) = <<>>
<1>1. [k \in DOMAIN <<>> |-> Iter!Yields(l, <<>>, k)] = <<>>
    OBVIOUS
<1> QED
    BY <1>1, FlatEmpty DEF Iter!Made, Flat

(* One item more adds what the adapter yields on account of it. *)
LEMMA MadeAppend ==
    ASSUME NEW l \in Adapters, AdapterValues, CallbackValues, NEW xs \in Seq(Items), NEW v \in Items
    PROVE  Iter!Made(l, Append(xs, v)) = Iter!Made(l, xs) \o Iter!Yields(l, Append(xs, v), Len(xs) + 1)
<1> DEFINE ys == Append(xs, v)
           n == Len(xs)
           ss == [k \in DOMAIN xs |-> Iter!Yields(l, xs, k)]
           tt == [k \in DOMAIN ys |-> Iter!Yields(l, ys, k)]
           last == Iter!Yields(l, ys, n + 1)
<1>1. n \in Nat /\ DOMAIN xs = 1 .. n /\ ys \in Seq(Items) /\ Len(ys) = n + 1
    OBVIOUS
<1>2. DOMAIN ys = 1 .. n + 1 /\ \A k \in 1 .. n : ys[k] = xs[k]
    OBVIOUS
<1>3. ss \in Seq(Seq(Items)) /\ tt \in Seq(Seq(Items))
    <2> HIDE DEF ys, n
    <2> QED
        BY <1>1, MadeType
<1>4. last \in Seq(Items)
    <2>1. n + 1 \in 1 .. Len(ys)
        BY <1>1
    <2> HIDE DEF ys, n
    <2> QED
        BY <1>1, <2>1, YieldsType
<1>5. ASSUME NEW k \in 1 .. n PROVE Iter!Yields(l, ys, k) = Iter!Yields(l, xs, k)
    <2>1. k \in Nat \ {0} /\ k <= Len(xs) /\ k <= Len(ys) /\ \A j \in 1 .. k : ys[j] = xs[j]
        BY <1>1, <1>2
    <2> HIDE DEF ys, n
    <2> QED
        BY <1>1, <2>1, YieldsAgree
<1>6. tt = Append(ss, last)
    <2>1. Len(ss) = n /\ Len(tt) = n + 1
        BY <1>1, <1>2, <1>3
    <2>2. Append(ss, last) \in Seq(Seq(Items)) /\ Len(Append(ss, last)) = n + 1 /\ Append(ss, last)[n + 1] = last
        BY <1>3, <1>4, <2>1
    <2>3. \A k \in 1 .. n : Append(ss, last)[k] = ss[k]
        BY <1>3, <1>4, <2>1
    <2>4. \A k \in 1 .. n : ss[k] = Iter!Yields(l, xs, k)
        BY <1>1
    <2>5. \A k \in 1 .. n + 1 : tt[k] = Iter!Yields(l, ys, k)
        BY <1>2
    <2> HIDE DEF ss, tt, ys, n, last
    <2>6. ASSUME NEW k \in 1 .. n + 1 PROVE tt[k] = Append(ss, last)[k]
        <3>1. CASE k = n + 1
            BY <2>2, <2>5, <3>1 DEF last
        <3>2. CASE k # n + 1
            <4>1. k \in 1 .. n
                BY <1>1, <3>2
            <4> QED
                BY <1>5, <2>3, <2>4, <2>5, <4>1
        <3> QED
            BY <3>1, <3>2
    <2> QED
        BY <1>1, <1>3, <2>1, <2>2, <2>6, SameSequence
<1> HIDE DEF ss, tt, last
<1>7. Flat(tt) = Flat(ss) \o last
    BY <1>3, <1>4, <1>6, FlatAppend
<1> QED
    BY <1>7 DEF ss, tt, last, ys, n, Flat, Iter!Made

-----------------------------------------------------------------------------
(* One list is the beginning of another. *)
Begins(s, t) == Len(s) <= Len(t) /\ \A k \in 1 .. Len(s) : s[k] = t[k]

FirstOf(xs, k) == SubSeq(xs, 1, k)

(* The beginnings of a list are the prefixes of the community modules. *)
LEMMA BeginsIsPrefix ==
    ASSUME NEW S, NEW s \in Seq(S), NEW t \in Seq(S)
    PROVE  Begins(s, t) <=> Iter!IsPrefix(s, t)
<1>1. Len(s) \in Nat /\ Len(t) \in Nat
    OBVIOUS
<1>2. SubSeq(s, 1, Len(s)) = s
    OBVIOUS
<1>3. ASSUME Begins(s, t) PROVE Iter!IsPrefix(s, t)
    <2>1. SubSeq(s, 1, Len(s)) = SubSeq(t, 1, Len(s))
        BY <1>1, <1>3, SubSeqAgrees DEF Begins
    <2> QED
        BY <1>3, <2>1 DEF Begins, Iter!IsPrefix
<1>4. ASSUME Iter!IsPrefix(s, t) PROVE Begins(s, t)
    <2>1. Len(s) <= Len(t) /\ s = SubSeq(t, 1, Len(s))
        BY <1>2, <1>4 DEF Iter!IsPrefix
    <2>2. \A k \in 1 .. Len(s) : SubSeq(t, 1, Len(s))[k] = t[k]
        BY <1>1, <2>1
    <2> QED
        BY <2>1, <2>2 DEF Begins
<1> QED
    BY <1>3, <1>4

(* The first entries of a list. *)
LEMMA FirstFacts ==
    ASSUME NEW S, NEW xs \in Seq(S), NEW k \in 0 .. Len(xs)
    PROVE  /\ FirstOf(xs, k) \in Seq(S) /\ Len(FirstOf(xs, k)) = k
           /\ \A j \in 1 .. k : FirstOf(xs, k)[j] = xs[j]
BY DEF FirstOf

(* A list with the entries of the first ones is the first ones. *)
LEMMA FirstAll ==
    ASSUME NEW S, NEW xs \in Seq(S), NEW k \in 0 .. Len(xs), NEW s \in Seq(S), Len(s) = k,
           \A j \in 1 .. k : s[j] = xs[j]
    PROVE  FirstOf(xs, k) = s
<1>1. /\ FirstOf(xs, k) \in Seq(S) /\ Len(FirstOf(xs, k)) = k
      /\ \A j \in 1 .. k : FirstOf(xs, k)[j] = xs[j]
    BY FirstFacts
<1> QED
    BY <1>1, SameSequence

(* One entry more. *)
LEMMA FirstNext ==
    ASSUME NEW S, NEW xs \in Seq(S), NEW k \in 0 .. Len(xs) - 1
    PROVE  FirstOf(xs, k + 1) = Append(FirstOf(xs, k), xs[k + 1])
<1> DEFINE s == FirstOf(xs, k)
           t == Append(s, xs[k + 1])
<1>1. k \in 0 .. Len(xs) /\ k + 1 \in 0 .. Len(xs) /\ xs[k + 1] \in S /\ k \in Nat
    OBVIOUS
<1>2. s \in Seq(S) /\ Len(s) = k /\ \A j \in 1 .. k : s[j] = xs[j]
    BY <1>1, FirstFacts
<1> HIDE DEF s
<1>3. t \in Seq(S) /\ Len(t) = k + 1 /\ t[k + 1] = xs[k + 1]
    BY <1>1, <1>2
<1>4. ASSUME NEW j \in 1 .. k + 1 PROVE t[j] = xs[j]
    <2>1. CASE j = k + 1
        BY <1>3, <2>1
    <2>2. CASE j # k + 1
        <3>1. j \in 1 .. k
            BY <1>1, <2>2
        <3>2. t[j] = s[j]
            BY <1>1, <1>2, <3>1
        <3> QED
            BY <1>2, <3>1, <3>2
    <2> QED
        BY <2>1, <2>2
<1> HIDE DEF t
<1>5. FirstOf(xs, k + 1) = t
    BY <1>1, <1>3, <1>4, FirstAll
<1> QED
    BY <1>5 DEF s, t

(* What begins a list begins every continuation of it. *)
LEMMA BeginsConcat ==
    ASSUME NEW S, NEW r \in Seq(S), NEW s \in Seq(S), NEW t \in Seq(S), Begins(r, s)
    PROVE  Begins(r, s \o t)
<1>1. Len(s \o t) = Len(s) + Len(t) /\ Len(r) \in Nat /\ Len(s) \in Nat /\ Len(t) \in Nat
    OBVIOUS
<1>2. \A k \in 1 .. Len(s) : (s \o t)[k] = s[k]
    OBVIOUS
<1>3. \A k \in 1 .. Len(r) : k \in 1 .. Len(s)
    BY <1>1 DEF Begins
<1> QED
    BY <1>1, <1>2, <1>3 DEF Begins

(* An adapter that is given more yields more, and the same before that. *)
LEMMA MadeBegins ==
    ASSUME NEW l \in Adapters, AdapterValues, CallbackValues, NEW xs \in Seq(Items), NEW ys \in Seq(Items),
           Begins(xs, ys)
    PROVE  Begins(Iter!Made(l, xs), Iter!Made(l, ys))
<1> DEFINE m == Len(xs)
           n == Len(ys)
           Made(k) == Iter!Made(l, FirstOf(ys, k))
           Wrong == {k \in m .. n : ~Begins(Made(m), Made(k))}
<1>1. m \in 0 .. n /\ n \in Nat /\ m \in Nat
    BY DEF Begins
<1>2. FirstOf(ys, m) = xs /\ FirstOf(ys, n) = ys
    <2>1. FirstOf(ys, m) = xs
        BY <1>1, FirstAll DEF Begins
    <2>2. FirstOf(ys, n) = ys
        BY <1>1, FirstAll
    <2> QED
        BY <2>1, <2>2
<1>3. \A k \in m .. n : FirstOf(ys, k) \in Seq(Items)
    BY <1>1, FirstFacts
<1>4. \A k \in m .. n : Made(k) \in Seq(Items)
    BY <1>3, MadeType
<1>5. SUFFICES ASSUME Wrong # {} PROVE FALSE
    <2>1. n \in m .. n
        BY <1>1
    <2>2. ASSUME Wrong = {} PROVE Begins(Made(m), Made(n))
        BY <2>1, <2>2
    <2> QED
        BY <1>2, <2>2
<1>6. PICK k \in Wrong : \A j \in Wrong : k <= j
    <2>1. Wrong \in SUBSET Nat
        BY <1>1
    <2> HIDE DEF Wrong
    <2> QED
        BY <1>5, <2>1, Least
<1>7. k \in m .. n /\ ~Begins(Made(m), Made(k))
    BY <1>6
<1>8. k # m
    <2>1. Made(m) \in Seq(Items)
        BY <1>1, <1>4
    <2>2. Begins(Made(m), Made(m))
        BY <2>1 DEF Begins
    <2> QED
        BY <1>7, <2>2
<1>9. k - 1 \in m .. n /\ k - 1 \in 0 .. n - 1 /\ (k - 1) + 1 = k
    BY <1>1, <1>7, <1>8
<1>10. Begins(Made(m), Made(k - 1))
    <2>1. k - 1 \notin Wrong
        <3> HIDE DEF Wrong
        <3>1. ~(k <= k - 1)
            BY <1>7, <1>1
        <3> QED
            BY <1>6, <3>1
    <2> QED
        BY <1>9, <2>1
<1>11. FirstOf(ys, k) = Append(FirstOf(ys, k - 1), ys[k]) /\ ys[k] \in Items
    <2>1. k \in 1 .. n
        BY <1>9
    <2>2. FirstOf(ys, (k - 1) + 1) = Append(FirstOf(ys, k - 1), ys[(k - 1) + 1])
        BY <1>9, FirstNext
    <2> QED
        BY <1>9, <2>1, <2>2
<1>12. PICK t \in Seq(Items) : Made(k) = Made(k - 1) \o t
    <2> DEFINE s == FirstOf(ys, k - 1)
               t == Iter!Yields(l, Append(s, ys[k]), Len(s) + 1)
    <2>1. s \in Seq(Items) /\ Append(s, ys[k]) \in Seq(Items) /\ Len(s) + 1 \in 1 .. Len(Append(s, ys[k]))
        BY <1>3, <1>9, <1>11
    <2>2. t \in Seq(Items)
        <3> HIDE DEF s
        <3> QED
            BY <2>1, YieldsType
    <2>3. Iter!Made(l, Append(s, ys[k])) = Iter!Made(l, s) \o t
        <3> HIDE DEF s
        <3> QED
            BY <1>11, <2>1, MadeAppend
    <2> QED
        BY <1>11, <2>2, <2>3
<1> HIDE DEF Made
<1>13. Made(m) \in Seq(Items) /\ Made(k - 1) \in Seq(Items)
    <2>1. m \in m .. n
        BY <1>1
    <2> QED
        BY <1>4, <1>9, <2>1
<1>14. Begins(Made(m), Made(k))
    BY <1>10, <1>12, <1>13, BeginsConcat
<1> QED
    BY <1>7, <1>14

(* An adapter makes no more of the first items than of all. *)
LEMMA MadeOfFirst ==
    ASSUME NEW l \in Adapters, AdapterValues, CallbackValues, NEW xs \in Seq(Items), NEW k \in 0 .. Len(xs)
    PROVE  Len(Iter!Made(l, FirstOf(xs, k))) <= Len(Iter!Made(l, xs))
<1>1. FirstOf(xs, k) \in Seq(Items) /\ Begins(FirstOf(xs, k), xs)
    BY FirstFacts DEF Begins
<1> QED
    BY <1>1, MadeBegins DEF Begins

-----------------------------------------------------------------------------
(* The locals of a generator are what it has to know of the items that it has
   read. *)
Few(l, xs) == IF l.n = 0 THEN Len(xs) ELSE Len(xs) % l.n

Remembers(l, g, xs) ==
    /\ l.op = "take" => g.n = Len(xs) /\ Len(xs) <= l.n
    /\ l.op = "skip" => g.n = IF Len(xs) <= l.n THEN Len(xs) ELSE l.n
    /\ l.op = "uniq" => g.seen = {xs[k] : k \in 1 .. Len(xs)}
    /\ l.op = "uniq_by" => g.seen = {Key(xs[k]) : k \in 1 .. Len(xs)}
    /\ IF l.op \in {"chunk", "batched"}
       THEN g.n = Few(l, xs) /\ g.buffer = Flat(LastOf(xs, Few(l, xs)))
       ELSE g.buffer = <<>>

(* take has seen that there is more than it takes. *)
Sated(l, xs) == l.op = "take" /\ Len(xs) = l.n + 1

(* The last chunk holds some of the items. *)
LEMMA FewType ==
    ASSUME NEW l \in Adapters, AdapterValues, NEW xs \in Seq(Items)
    PROVE  Few(l, xs) \in 0 .. Len(xs)
<1>1. Len(xs) \in Nat /\ l.n \in Nat
    BY DEF AdapterValues
<1>2. CASE l.n = 0
    BY <1>1, <1>2 DEF Few
<1>3. CASE l.n # 0
    <2>1. Len(xs) % l.n \in 0 .. l.n - 1 /\ Len(xs) % l.n <= Len(xs)
        BY <1>1, <1>3, Division, SmallRemainder
    <2> QED
        BY <1>1, <1>3, <2>1 DEF Few
<1> QED
    BY <1>2, <1>3

(* A new generator has read nothing. *)
LEMMA NewGenKnows ==
    ASSUME NEW l \in Adapters, AdapterValues
    PROVE  Iter!NewGen \in Gen /\ Remembers(l, Iter!NewGen, <<>>)
<1>1. <<>> \in Seq(Items) /\ Len(<<>>) = 0 /\ <<>> \in Seq(Elements)
    OBVIOUS
<1>2. Few(l, <<>>) = 0
    <2>1. Few(l, <<>>) \in 0 .. Len(<<>>)
        BY <1>1, FewType
    <2> QED
        BY <1>1, <2>1
<1>3. LastOf(<<>>, 0) = <<>>
    BY DEF LastOf
<1>4. Flat(LastOf(<<>>, Few(l, <<>>))) = <<>>
    BY <1>2, <1>3, FlatEmpty
<1>5. l.n \in Nat
    BY DEF AdapterValues
<1> DEFINE g == Iter!NewGen
<1>6. g.n = 0 /\ g.buffer = <<>> /\ g.seen = {} /\ g.queue = <<>> /\ g.done = FALSE
    BY DEF Iter!NewGen
<1>7. g \in Gen
    BY <1>1 DEF Iter!NewGen, Gen
<1> HIDE DEF g
<1>8. Remembers(l, g, <<>>)
    BY <1>1, <1>2, <1>4, <1>5, <1>6 DEF Remembers
<1> QED
    BY <1>7, <1>8 DEF g

(* A list that is read on. *)
LEMMA ReadOn ==
    ASSUME NEW S, NEW xs \in Seq(S), NEW v \in S
    PROVE  /\ Append(xs, v) \in Seq(S) /\ Len(xs) \in Nat /\ Len(Append(xs, v)) = Len(xs) + 1
           /\ Append(xs, v)[Len(xs) + 1] = v
           /\ \A k \in 1 .. Len(xs) : Append(xs, v)[k] = xs[k]
OBVIOUS

(* A generator that has changed keeps its type. *)
Moved(g, n, q) == [g EXCEPT !.n = n, !.queue = q]

Counted(g, n) == [g EXCEPT !.n = n]

(* skip counts without a yield. *)
LEMMA CountedGen ==
    ASSUME NEW g \in Gen, NEW n \in Nat
    PROVE  /\ Counted(g, n) \in Gen /\ Counted(g, n).n = n /\ Counted(g, n).queue = g.queue
           /\ Counted(g, n).buffer = g.buffer /\ Counted(g, n).done = g.done
BY DEF Counted, Gen

Queued(g, q) == [g EXCEPT !.queue = q]

(* map, flatmap and filter only yield. *)
LEMMA QueuedGen ==
    ASSUME NEW g \in Gen, NEW q \in Seq(Items)
    PROVE  /\ Queued(g, q) \in Gen /\ Queued(g, q).n = g.n /\ Queued(g, q).queue = q
           /\ Queued(g, q).buffer = g.buffer /\ Queued(g, q).seen = g.seen /\ Queued(g, q).done = g.done
BY DEF Queued, Gen

Buffered(g, n, b) == [g EXCEPT !.n = n, !.buffer = b]

(* chunk buffers an item. *)
LEMMA BufferedGen ==
    ASSUME NEW g \in Gen, NEW n \in Nat, NEW b \in Seq(Elements)
    PROVE  /\ Buffered(g, n, b) \in Gen /\ Buffered(g, n, b).n = n /\ Buffered(g, n, b).buffer = b
           /\ Buffered(g, n, b).queue = g.queue /\ Buffered(g, n, b).done = g.done
BY DEF Buffered, Gen

Chunked(g, q) == [g EXCEPT !.n = 0, !.buffer = <<>>, !.queue = q]

(* chunk yields its buffer and empties it. *)
LEMMA ChunkedGen ==
    ASSUME NEW g \in Gen, NEW q \in Seq(Items)
    PROVE  /\ Chunked(g, q) \in Gen /\ Chunked(g, q).n = 0 /\ Chunked(g, q).buffer = <<>>
           /\ Chunked(g, q).queue = q /\ Chunked(g, q).done = g.done
<1>1. <<>> \in Seq(Elements)
    OBVIOUS
<1> QED
    BY <1>1 DEF Chunked, Gen

Seen(g, s, q) == [g EXCEPT !.seen = s, !.queue = q]

(* uniq and uniq_by pass on an item that they have not seen. *)
LEMMA NewlySeen ==
    ASSUME NEW g \in Gen, NEW v \in Items, NEW key \in Keys, key \notin g.seen, NEW h, h = Iter!Uniq(g, v, key)
    PROVE  h \in Gen /\ h.done = g.done /\ h.queue = <<v>> /\ h.seen = g.seen \cup {key} /\ h.buffer = g.buffer
<1>1. h = Seen(g, g.seen \cup {key}, <<v>>)
    BY DEF Iter!Uniq, Seen
<1>2. PICK s \in SUBSET Keys : s = g.seen \cup {key}
    BY DEF Gen
<1>3. PICK q \in Seq(Items) : q = <<v>>
    <2>1. <<v>> \in Seq(Items)
        OBVIOUS
    <2> QED
        BY <2>1, Zenon
<1>4. h = [g EXCEPT !.seen = s, !.queue = q]
    BY <1>1, <1>2, <1>3 DEF Seen
<1>5. h \in Gen /\ h.done = g.done /\ h.queue = q /\ h.seen = s /\ h.buffer = g.buffer
    BY <1>4 DEF Gen
<1> QED
    BY <1>2, <1>3, <1>5, Zenon

Stopped(g, q) == [g EXCEPT !.done = TRUE, !.buffer = <<>>, !.queue = q]

(* A generator that is told the end yields what is left in its buffer. *)
LEMMA StoppedGen ==
    ASSUME NEW g \in Gen, NEW q \in Seq(Items)
    PROVE  Stopped(g, q) \in Gen /\ Stopped(g, q).queue = q /\ Stopped(g, q).done = TRUE
<1>1. <<>> \in Seq(Elements)
    OBVIOUS
<1> QED
    BY <1>1 DEF Stopped, Gen

(* An item goes into a generator: what it is to yield is what the adapter
   yields there, and it remembers the item, unless that sated it. *)
ItemTaken(l, g, h, xs, ys) ==
    /\ h \in Gen
    /\ h.queue = Iter!Yields(l, ys, Len(ys))
    /\ IF h.done THEN Sated(l, ys) ELSE Remembers(l, h, ys)

(* take counts by one and yields the item. *)
LEMMA MovedOne ==
    ASSUME NEW g \in Gen, NEW v \in Items, NEW h, h = Moved(g, g.n + 1, <<v>>)
    PROVE  h \in Gen /\ h.done = g.done /\ h.queue = <<v>> /\ h.n = g.n + 1 /\ h.buffer = g.buffer
<1>1. PICK n \in Nat : n = g.n + 1
    BY DEF Gen
<1>2. PICK q \in Seq(Items) : q = <<v>>
    <2>1. <<v>> \in Seq(Items)
        OBVIOUS
    <2> QED
        BY <2>1, Zenon
<1>3. h = [g EXCEPT !.n = n, !.queue = q]
    BY <1>1, <1>2 DEF Moved
<1>4. h \in Gen /\ h.done = g.done /\ h.queue = q /\ h.n = n /\ h.buffer = g.buffer
    BY <1>3 DEF Gen
<1> QED
    BY <1>1, <1>2, <1>4, Zenon

(* take passes an item on. *)
LEMMA TakesOn ==
    ASSUME NEW l, NEW g \in Gen, NEW v \in Items, g.n # l.n
    PROVE  LET h == Iter!Take(l, g, v)
           IN  h \in Gen /\ h.done = g.done /\ h.queue = <<v>> /\ h.n = g.n + 1 /\ h.buffer = g.buffer
<1> DEFINE h == Iter!Take(l, g, v)
<1>1. h = Moved(g, g.n + 1, <<v>>)
    BY DEF Iter!Take, Moved
<1> HIDE DEF h
<1>2. h \in Gen /\ h.done = g.done /\ h.queue = <<v>> /\ h.n = g.n + 1 /\ h.buffer = g.buffer
    BY <1>1, MovedOne
<1> QED
    BY <1>2 DEF h

(* take: it counts what it has passed on and stops at one more. *)
LEMMA TakeItem ==
    ASSUME NEW l \in Adapters, AdapterValues, NEW g \in Gen, NEW xs \in Seq(Items), NEW v \in Items,
           Remembers(l, g, xs), ~g.done, g.queue = <<>>, l.op = "take"
    PROVE  ItemTaken(l, g, Iter!OnItem(l, g, v), xs, Append(xs, v))
<1> DEFINE ys == Append(xs, v)
<1>1. ys \in Seq(Items) /\ Len(xs) \in Nat /\ Len(ys) = Len(xs) + 1 /\ ys[Len(ys)] = v
    BY ReadOn
<1>2. g.n = Len(xs) /\ Len(xs) <= l.n /\ l.n \in Nat /\ g.buffer = <<>>
    BY DEF Remembers, AdapterValues
<1> HIDE DEF ys
<1>3. Iter!OnItem(l, g, v) = Iter!Take(l, g, v)
    BY DEF Iter!OnItem
<1>4. Iter!Yields(l, ys, Len(ys)) = IF Len(ys) <= l.n THEN <<v>> ELSE <<>>
    BY <1>1 DEF Iter!Yields, Iter!When
<1> DEFINE h == Iter!Take(l, g, v)
<1>5. <<v>> \in Seq(Items)
    OBVIOUS
<1>6. CASE g.n = l.n
    <2>1. h.done = TRUE /\ h.queue = <<>> /\ h \in Gen
        BY <1>6 DEF Iter!Take, Gen
    <2> HIDE DEF h
    <2> QED
        BY <1>1, <1>2, <1>3, <1>4, <1>6, <2>1 DEF h, ys, ItemTaken, Sated
<1>7. CASE g.n # l.n
    <2>1. h = Moved(g, g.n + 1, <<v>>)
        BY <1>7 DEF Iter!Take, Moved
    <2>2. g.n + 1 \in Nat
        BY DEF Gen
    <2> HIDE DEF h
    <2>3. h \in Gen /\ h.done = g.done /\ h.queue = <<v>> /\ h.n = g.n + 1 /\ h.buffer = g.buffer
        BY <1>7, TakesOn DEF h
    <2>4. Len(ys) <= l.n /\ h.n = Len(ys)
        BY <1>1, <1>2, <1>7, <2>1, <2>3
    <2>5. Remembers(l, h, ys)
        BY <1>2, <2>3, <2>4 DEF Remembers
    <2> QED
        BY <1>3, <1>4, <2>1, <2>3, <2>4, <2>5 DEF h, ys, ItemTaken
<1> QED
    BY <1>6, <1>7

-----------------------------------------------------------------------------

(* skip: it counts to n and passes on from there. *)
LEMMA SkipItem ==
    ASSUME NEW l \in Adapters, AdapterValues, NEW g \in Gen, NEW xs \in Seq(Items), NEW v \in Items,
           Remembers(l, g, xs), ~g.done, g.queue = <<>>, l.op = "skip"
    PROVE  ItemTaken(l, g, Iter!OnItem(l, g, v), xs, Append(xs, v))
<1> DEFINE ys == Append(xs, v)
           h == Iter!Skip(l, g, v)
<1>1. ys \in Seq(Items) /\ Len(xs) \in Nat /\ Len(ys) = Len(xs) + 1 /\ ys[Len(ys)] = v
    BY ReadOn
<1>2. /\ g.n = (IF Len(xs) <= l.n THEN Len(xs) ELSE l.n) /\ l.n \in Nat /\ g.buffer = <<>>
      /\ g.n + 1 \in Nat /\ <<v>> \in Seq(Items)
    BY <1>1 DEF Remembers, AdapterValues
<1> HIDE DEF ys
<1>3. Iter!OnItem(l, g, v) = h
    BY DEF Iter!OnItem
<1>4. Iter!Yields(l, ys, Len(ys)) = IF Len(ys) > l.n THEN <<v>> ELSE <<>>
    BY <1>1 DEF Iter!Yields, Iter!When
<1>5. CASE g.n < l.n
    <2>1. h = Counted(g, g.n + 1)
        BY <1>5 DEF Iter!Skip, Counted
    <2> HIDE DEF h
    <2>2. h \in Gen /\ h.done = g.done /\ h.queue = <<>> /\ h.n = g.n + 1 /\ h.buffer = <<>>
        BY <1>2, <2>1, CountedGen
    <2>3. h.n = Len(ys) /\ Len(ys) <= l.n
        BY <1>1, <1>2, <1>5, <2>2
    <2>4. Remembers(l, h, ys)
        BY <2>2, <2>3 DEF Remembers
    <2>5. h.queue = Iter!Yields(l, ys, Len(ys))
        BY <1>1, <1>2, <1>4, <2>2, <2>3
    <2> QED
        BY <1>3, <2>2, <2>4, <2>5 DEF ys, ItemTaken
<1>6. CASE ~(g.n < l.n)
    <2>1. h = Queued(g, <<v>>)
        BY <1>6 DEF Iter!Skip, Queued
    <2> HIDE DEF h
    <2>2. h \in Gen /\ h.done = g.done /\ h.queue = <<v>> /\ h.n = g.n /\ h.buffer = <<>>
        BY <1>2, <2>1, QueuedGen
    <2>3. h.n = l.n /\ Len(ys) > l.n /\ ~(Len(ys) <= l.n)
        BY <1>1, <1>2, <1>6, <2>2
    <2>4. Remembers(l, h, ys)
        BY <2>2, <2>3 DEF Remembers
    <2>5. h.queue = Iter!Yields(l, ys, Len(ys))
        BY <1>4, <2>2, <2>3
    <2> QED
        BY <1>3, <2>2, <2>4, <2>5 DEF ys, ItemTaken
<1> QED
    BY <1>5, <1>6

(* chunk and batched: the buffer holds the items since the last multiple of n. *)
LEMMA ChunkItem ==
    ASSUME NEW l \in Adapters, AdapterValues, NEW g \in Gen, NEW xs \in Seq(Items), NEW v \in Items,
           Remembers(l, g, xs), ~g.done, g.queue = <<>>, l.op \in {"chunk", "batched"}
    PROVE  ItemTaken(l, g, Iter!OnItem(l, g, v), xs, Append(xs, v))
<1> DEFINE ys == Append(xs, v)
           h == Iter!Chunk(l, g, v)
           few == Few(l, xs)
           b == g.buffer \o v
<1>1. ys \in Seq(Items) /\ Len(xs) \in Nat /\ Len(ys) = Len(xs) + 1 /\ ys[Len(ys)] = v
    BY ReadOn
<1>2. g.n = few /\ g.buffer = Flat(LastOf(xs, few)) /\ l.n \in Nat
    BY DEF Remembers, AdapterValues
<1>3. few \in 0 .. Len(xs)
    BY FewType
<1> HIDE DEF ys, few
<1>4. /\ LastOf(xs, few) \in Seq(Items) /\ LastOf(ys, few + 1) = Append(LastOf(xs, few), v)
    BY <1>3, LastAppend DEF ys
<1>5. Flat(LastOf(ys, few + 1)) = b
    <2>1. LastOf(xs, few) \in Seq(Seq(Elements)) /\ v \in Seq(Elements)
        BY <1>4, ItemsAreLists
    <2> QED
        BY <1>2, <1>4, <2>1, FlatAppend
<1>6. b \in Items
    <2>1. Append(LastOf(xs, few), v) \in Seq(Items) /\ Append(LastOf(xs, few), v) # <<>>
        BY <1>4
    <2> QED
        BY <1>4, <1>5, <2>1, FlatItems
<1>7. Iter!OnItem(l, g, v) = h
    BY DEF Iter!OnItem
<1>8. Iter!Yields(l, ys, Len(ys)) = IF l.n > 0 /\ Len(ys) % l.n = 0 THEN <<Flat(LastOf(ys, l.n))>> ELSE <<>>
    BY DEF Iter!Yields, Iter!When, Flat, LastOf
<1> HIDE DEF b
<1>9. <<b>> \in Seq(Items) /\ b \in Seq(Elements) /\ <<>> \in Seq(Elements)
    BY <1>6, ItemsAreLists
<1>10. CASE few + 1 = l.n
    <2>1. Few(l, ys) = 0 /\ Len(ys) % l.n = 0 /\ l.n > 0
        <3>1. l.n \in Nat \ {0}
            BY <1>2, <1>3, <1>10
        <3>2. Len(xs) % l.n = few
            BY <3>1 DEF few, Few
        <3>3. Len(ys) % l.n = 0
            BY <1>1, <1>10, <3>1, <3>2, NextRemainder
        <3> QED
            BY <3>1, <3>3 DEF Few
    <2>2. h = Chunked(g, <<b>>)
        BY <1>2, <1>10 DEF Iter!Chunk, Chunked, b
    <2> HIDE DEF h
    <2>3. h \in Gen /\ h.done = g.done /\ h.queue = <<b>> /\ h.n = 0 /\ h.buffer = <<>>
        BY <1>9, <2>2, ChunkedGen
    <2>4. Flat(LastOf(ys, 0)) = <<>>
        <3>1. LastOf(ys, 0) = <<>>
            BY <1>1 DEF LastOf
        <3> QED
            BY <3>1, FlatEmpty
    <2>5. Remembers(l, h, ys)
        BY <2>1, <2>3, <2>4 DEF Remembers
    <2>6. h.queue = Iter!Yields(l, ys, Len(ys))
        BY <1>5, <1>8, <1>10, <2>1, <2>3
    <2> QED
        BY <1>7, <2>3, <2>5, <2>6 DEF ys, ItemTaken
<1>11. CASE few + 1 # l.n
    <2>1. Few(l, ys) = few + 1 /\ ~(l.n > 0 /\ Len(ys) % l.n = 0)
        <3>1. CASE l.n = 0
            BY <1>1, <3>1 DEF few, Few
        <3>2. CASE l.n # 0
            <4>1. l.n \in Nat \ {0}
                BY <1>2, <3>2
            <4>2. Len(xs) % l.n = few
                BY <4>1 DEF few, Few
            <4>3. Len(ys) % l.n = few + 1
                BY <1>1, <1>11, <4>1, <4>2, NextRemainder
            <4> QED
                BY <1>3, <4>1, <4>3 DEF Few
        <3> QED
            BY <3>1, <3>2
    <2>2. few + 1 \in Nat
        BY <1>3
    <2>3. h = Buffered(g, few + 1, b)
        BY <1>2, <1>11 DEF Iter!Chunk, Buffered, b
    <2> HIDE DEF h
    <2>4. h \in Gen /\ h.done = g.done /\ h.queue = <<>> /\ h.n = few + 1 /\ h.buffer = b
        BY <1>9, <2>2, <2>3, BufferedGen
    <2>5. Remembers(l, h, ys)
        BY <1>5, <2>1, <2>4 DEF Remembers
    <2>6. h.queue = Iter!Yields(l, ys, Len(ys))
        BY <1>8, <2>1, <2>4
    <2> QED
        BY <1>7, <2>4, <2>5, <2>6 DEF ys, ItemTaken
<1> QED
    BY <1>10, <1>11

(* uniq and uniq_by have seen the keys of what they have read. *)
LEMMA UniqItem ==
    ASSUME NEW l \in Adapters, AdapterValues, NEW g \in Gen, NEW xs \in Seq(Items), NEW v \in Items,
           Remembers(l, g, xs), ~g.done, g.queue = <<>>, l.op = "uniq"
    PROVE  ItemTaken(l, g, Iter!OnItem(l, g, v), xs, Append(xs, v))
<1> DEFINE ys == Append(xs, v)
           h == Iter!Uniq(g, v, v)
           seen == g.seen \cup {v}
<1>1. ys \in Seq(Items) /\ Len(xs) \in Nat /\ Len(ys) = Len(xs) + 1 /\ ys[Len(ys)] = v
    BY ReadOn
<1>2. \A k \in 1 .. Len(xs) : ys[k] = xs[k]
    BY ReadOn
<1>3. g.seen = {xs[k] : k \in 1 .. Len(xs)} /\ g.buffer = <<>>
    BY DEF Remembers
<1> HIDE DEF ys
<1>4. Iter!OnItem(l, g, v) = h
    BY DEF Iter!OnItem
<1>5. seen = {ys[k] : k \in 1 .. Len(ys)}
    BY <1>1, <1>2, <1>3
<1>6. Iter!Yields(l, ys, Len(ys)) = IF v \in g.seen THEN <<>> ELSE <<v>>
    <2>1. Len(ys) - 1 = Len(xs)
        BY <1>1
    <2>2. (\A j \in 1 .. Len(ys) - 1 : ys[j] # v) <=> v \notin g.seen
        BY <1>2, <1>3, <2>1
    <2> QED
        BY <1>1, <2>2 DEF Iter!Yields, Iter!When
<1>7. CASE v \in g.seen
    <2>1. h = g /\ seen = g.seen
        BY <1>7 DEF Iter!Uniq
    <2>2. Remembers(l, g, ys)
        BY <1>3, <1>5, <2>1 DEF Remembers
    <2> QED
        BY <1>4, <1>6, <1>7, <2>1, <2>2 DEF ys, ItemTaken
<1>8. CASE v \notin g.seen
    <2>1. v \in Keys
        BY DEF Keys
    <2>2. PICK k : k = h
        OBVIOUS
    <2> HIDE DEF h
    <2>3. k \in Gen /\ k.done = g.done /\ k.queue = <<v>> /\ k.seen = seen /\ k.buffer = g.buffer
        BY <1>8, <2>1, <2>2, NewlySeen DEF h
    <2> HIDE DEF seen
    <2>4. Remembers(l, k, ys)
        BY <1>3, <1>5, <2>3 DEF Remembers
    <2> QED
        BY <1>4, <1>6, <1>8, <2>2, <2>3, <2>4 DEF ys, ItemTaken
<1> QED
    BY <1>7, <1>8

(* uniq_by: an item is passed on when no earlier one had its key. *)
LEMMA UniqByItem ==
    ASSUME NEW l \in Adapters, AdapterValues, NEW g \in Gen, NEW xs \in Seq(Items), NEW v \in Items,
           Remembers(l, g, xs), ~g.done, g.queue = <<>>, l.op = "uniq_by"
    PROVE  ItemTaken(l, g, Iter!OnItem(l, g, v), xs, Append(xs, v))
<1> DEFINE ys == Append(xs, v)
           h == Iter!Uniq(g, v, Key(v))
           seen == g.seen \cup {Key(v)}
<1>1. ys \in Seq(Items) /\ Len(xs) \in Nat /\ Len(ys) = Len(xs) + 1 /\ ys[Len(ys)] = v
    BY ReadOn
<1>2. \A k \in 1 .. Len(xs) : ys[k] = xs[k]
    BY ReadOn
<1>3. g.seen = {Key(xs[k]) : k \in 1 .. Len(xs)} /\ g.buffer = <<>>
    BY DEF Remembers
<1> HIDE DEF ys
<1>4. Iter!OnItem(l, g, v) = h
    BY DEF Iter!OnItem
<1>5. seen = {Key(ys[k]) : k \in 1 .. Len(ys)}
    BY <1>1, <1>2, <1>3
<1>6. Iter!Yields(l, ys, Len(ys)) = IF Key(v) \in g.seen THEN <<>> ELSE <<v>>
    <2>1. Len(ys) - 1 = Len(xs)
        BY <1>1
    <2>2. (\A j \in 1 .. Len(ys) - 1 : Key(ys[j]) # Key(v)) <=> Key(v) \notin g.seen
        BY <1>2, <1>3, <2>1
    <2> QED
        BY <1>1, <2>2 DEF Iter!Yields, Iter!When
<1>7. CASE Key(v) \in g.seen
    <2>1. h = g /\ seen = g.seen
        BY <1>7 DEF Iter!Uniq
    <2>2. Remembers(l, g, ys)
        BY <1>3, <1>5, <2>1 DEF Remembers
    <2> QED
        BY <1>4, <1>6, <1>7, <2>1, <2>2 DEF ys, ItemTaken
<1>8. CASE Key(v) \notin g.seen
    <2>1. Key(v) \in Keys
        BY DEF Keys
    <2>2. PICK k : k = h
        OBVIOUS
    <2> HIDE DEF h
    <2>3. k \in Gen /\ k.done = g.done /\ k.queue = <<v>> /\ k.seen = seen /\ k.buffer = g.buffer
        BY <1>8, <2>1, <2>2, NewlySeen DEF h
    <2> HIDE DEF seen
    <2>4. Remembers(l, k, ys)
        BY <1>3, <1>5, <2>3 DEF Remembers
    <2> QED
        BY <1>4, <1>6, <1>8, <2>2, <2>3, <2>4 DEF ys, ItemTaken
<1> QED
    BY <1>7, <1>8

(* map, flatmap and filter remember nothing. *)
LEMMA CallItem ==
    ASSUME NEW l \in Adapters, AdapterValues, CallbackValues, NEW g \in Gen, NEW xs \in Seq(Items),
           NEW v \in Items,
           Remembers(l, g, xs), ~g.done, g.queue = <<>>, l.op \in {"map", "flatmap", "filter"}
    PROVE  ItemTaken(l, g, Iter!OnItem(l, g, v), xs, Append(xs, v))
<1> DEFINE ys == Append(xs, v)
           h == Iter!OnItem(l, g, v)
<1>1. ys \in Seq(Items) /\ Len(ys) = Len(xs) + 1 /\ ys[Len(ys)] = v
    BY ReadOn
<1>2. g.buffer = <<>>
    BY DEF Remembers
<1>3. <<Apply(v)>> \in Seq(Items) /\ Spread(v) \in Seq(Items) /\ <<v>> \in Seq(Items)
    BY DEF CallbackValues
<1> HIDE DEF ys
<1>4. ASSUME NEW q \in Seq(Items), h = Queued(g, q), q = Iter!Yields(l, ys, Len(ys))
      PROVE  ItemTaken(l, g, h, xs, ys)
    <2> HIDE DEF h
    <2>1. h \in Gen /\ h.done = g.done /\ h.queue = q /\ h.buffer = <<>>
        BY <1>2, <1>4, QueuedGen
    <2>2. Remembers(l, h, ys)
        BY <2>1 DEF Remembers
    <2> QED
        BY <1>4, <2>1, <2>2 DEF ItemTaken
<1>5. CASE l.op = "map"
    <2>1. h = Queued(g, <<Apply(v)>>) /\ Iter!Yields(l, ys, Len(ys)) = <<Apply(v)>>
        BY <1>1, <1>5 DEF Iter!OnItem, Iter!Map, Iter!Yields, Queued
    <2> QED
        BY <1>3, <1>4, <2>1 DEF ys
<1>6. CASE l.op = "flatmap"
    <2>1. h = Queued(g, Spread(v)) /\ Iter!Yields(l, ys, Len(ys)) = Spread(v)
        BY <1>1, <1>6 DEF Iter!OnItem, Iter!Flatmap, Iter!Yields, Queued
    <2> QED
        BY <1>3, <1>4, <2>1 DEF ys
<1>7. CASE l.op = "filter" /\ Keep(v)
    <2>1. h = Queued(g, <<v>>) /\ Iter!Yields(l, ys, Len(ys)) = <<v>>
        BY <1>1, <1>7 DEF Iter!OnItem, Iter!Filter, Iter!Yields, Iter!When, Queued
    <2> QED
        BY <1>3, <1>4, <2>1 DEF ys
<1>8. CASE l.op = "filter" /\ ~Keep(v)
    <2>1. h = g /\ Iter!Yields(l, ys, Len(ys)) = <<>>
        BY <1>1, <1>8 DEF Iter!OnItem, Iter!Filter, Iter!Yields, Iter!When
    <2>2. Remembers(l, g, ys)
        BY <1>2, <1>8 DEF Remembers
    <2> QED
        BY <2>1, <2>2 DEF ys, ItemTaken
<1> QED
    BY <1>5, <1>6, <1>7, <1>8

(* All nine adapters. *)
LEMMA AnyItem ==
    ASSUME NEW l \in Adapters, AdapterValues, CallbackValues, NEW g \in Gen, NEW xs \in Seq(Items),
           NEW v \in Items, Remembers(l, g, xs), ~g.done, g.queue = <<>>
    PROVE  ItemTaken(l, g, Iter!OnItem(l, g, v), xs, Append(xs, v))
BY TakeItem, SkipItem, ChunkItem, UniqItem, UniqByItem, CallItem DEF AdapterValues, Ops

(* The end goes into a generator: it is left with the rest to yield. *)
LEMMA StopTaken ==
    ASSUME NEW l \in Adapters, AdapterValues, NEW g \in Gen, NEW xs \in Seq(Items),
           Remembers(l, g, xs), g.queue = <<>>
    PROVE  /\ Iter!Rest(l, xs) \in Seq(Items)
           /\ Iter!Rest(l, xs) = IF g.buffer # <<>> THEN <<g.buffer>> ELSE <<>>
<1> DEFINE few == Few(l, xs)
<1>1. few \in 0 .. Len(xs) /\ Len(xs) \in Nat
    BY FewType
<1>2. Iter!Rest(l, xs) = IF l.op \in {"chunk", "batched"} /\ few > 0 THEN <<Flat(LastOf(xs, few))>> ELSE <<>>
    BY DEF Iter!Rest, Iter!When, Few, Flat, LastOf
<1> HIDE DEF few
<1>3. LastOf(xs, few) \in Seq(Items) /\ Len(LastOf(xs, few)) = few
    BY <1>1 DEF LastOf
<1>4. few > 0 => Flat(LastOf(xs, few)) \in Items
    BY <1>3, FlatItems
<1>5. few = 0 => Flat(LastOf(xs, few)) = <<>>
    BY <1>3, FlatEmpty
<1>6. CASE l.op \in {"chunk", "batched"}
    <2>1. g.buffer = Flat(LastOf(xs, few))
        BY <1>6 DEF Remembers, few
    <2>2. CASE few > 0
        BY <1>2, <1>4, <1>6, <2>1, <2>2 DEF Items
    <2>3. CASE few = 0
        BY <1>2, <1>5, <2>1, <2>3
    <2> QED
        BY <1>1, <2>2, <2>3
<1>7. CASE l.op \notin {"chunk", "batched"}
    <2>1. g.buffer = <<>>
        BY <1>7 DEF Remembers
    <2> QED
        BY <1>2, <1>7, <2>1
<1> QED
    BY <1>6, <1>7

-----------------------------------------------------------------------------
(* The state of a chain. *)
Links == Len(links)

Replies == {Iter!Ask, Iter!Stop, Iter!Error} \cup {Iter!Item(v) : v \in Items}

ChainTypes ==
    /\ source \in Seq(Elements) /\ pos \in 0 .. Len(source)
    /\ links \in Seq(Adapters) /\ gens \in Seq(Gen) /\ Len(gens) = Links
    /\ received \in Seq(Items) /\ reply \in Replies
    /\ at \in 0 .. Links /\ top \in 0 .. Links
    /\ mode \in {"idle", "next", "to_list"}
    /\ ended \in BOOLEAN /\ broken \in BOOLEAN

(* An item on its way up belongs neither to the generator that gave it nor to
   the one that is going to read it. *)
Flight(i) == IF at = i /\ reply.is = "item" THEN <<reply.value>> ELSE <<>>

(* What i has given when o[i] is what those above it have read. *)
Given(o, i) == o[i] \o Flight(i)

(* Generator i has nothing more to give. *)
Complete(i) ==
    /\ ~(at = i /\ reply.is = "item")
    /\ IF i = 0 THEN pos = Len(source) ELSE gens[i].done /\ gens[i].queue = <<>>

(* Generator i was asked again after all that it had to give. *)
ToldStop(o, i) == IF i = Links THEN ended ELSE gens[i + 1].done /\ ~Sated(links[i + 1], o[i])

(* A generator that is asked for more than it has given may read on. *)
Slack(o, i) == IF (mode # "idle" /\ at <= i) \/ ToldStop(o, i) THEN 1 ELSE 0

(* What a generator has given and is to yield is what its adapter makes of what
   it has read. *)
GenRight(l, g, xs, given, complete) ==
    IF ~g.done THEN given \o g.queue = Iter!Made(l, xs) /\ Remembers(l, g, xs)
    ELSE IF Sated(l, xs) THEN given \o g.queue = Iter!Made(l, xs)
    ELSE /\ complete
         /\ given \o g.queue = Iter!Made(l, xs) \o Iter!Rest(l, xs)
         /\ l.op = "take" => Len(xs) <= l.n

(* Less than what it has read would not have done. *)
GenLazy(l, xs, bound, told) ==
    \A k \in 0 .. Len(xs) : k < Len(xs) \/ told => Len(Iter!Made(l, FirstOf(xs, k))) < bound

RightAt(o, i) == GenRight(links[i], gens[i], o[i - 1], Given(o, i), Complete(i - 1))
LazyAt(o, i)  == GenLazy(links[i], o[i - 1], Len(o[i]) + Slack(o, i), ToldStop(o, i - 1))

Singles(n) == [k \in 1 .. n |-> <<source[k]>>]

(* The histories that explain a state: o[i] is what i has delivered. *)
Explains(o) ==
    /\ \A i \in 0 .. Links : o[i] \in Seq(Items)
    /\ o[Links] = received
    /\ Given(o, 0) = Singles(pos)
    /\ ended => Complete(Links)
    /\ \A i \in 1 .. Links : RightAt(o, i) /\ LazyAt(o, i)

(* Who waits for an answer has nothing to yield and goes on. *)
Waiting ==
    /\ mode = "idle" => reply = Iter!Ask
    /\ mode # "idle" => top = Links /\ \A j \in at + 1 .. Links : gens[j].queue = <<>> /\ ~gens[j].done

NothingRead ==
    pos = 0 => /\ received = <<>> /\ reply.is # "item"
               /\ \A i \in 1 .. Links : gens[i].queue = <<>> /\ gens[i].buffer = <<>>

Sound ==
    ~broken => /\ \E o : Explains(o)
               /\ reply.is # "error"
               /\ reply.is = "stop" => Complete(at)

(* After an exception nothing comes any more. *)
DeadFrom(b) ==
    /\ gens[b].done
    /\ mode # "idle" => at >= b /\ reply.is # "item"
    /\ \A j \in b .. Links :
          /\ gens[j].queue = <<>>
          /\ gens[j].done \/ gens[j].buffer = <<>> \/ (mode # "idle" /\ reply.is = "error" /\ at < j)

Ended ==
    broken => /\ \E b \in 1 .. Links : DeadFrom(b)
              /\ received # <<>> => Begins(received, Iter!ItemsFrom(Len(source), TRUE))

ChainRight == ChainTypes /\ Waiting /\ NothingRead /\ Sound /\ Ended

ListArguments == \A list \in Sources : list \in Seq(Elements)

ChainValues == ListArguments /\ AdapterValues /\ CallbackValues

-----------------------------------------------------------------------------

(* Replies are told apart by their kind. *)
LEMMA ReplyKinds ==
    /\ Iter!Ask.is = "ask" /\ Iter!Stop.is = "stop" /\ Iter!Error.is = "error"
    /\ Iter!Ask \in Replies /\ Iter!Stop \in Replies /\ Iter!Error \in Replies
    /\ \A v \in Items : Iter!Item(v) \in Replies
    /\ \A v : Iter!Item(v).is = "item" /\ Iter!Item(v).value = v
    /\ \A r \in Replies : /\ r.is \in {"ask", "stop", "error", "item"}
                          /\ r.is = "ask" <=> r = Iter!Ask
                          /\ r.is = "stop" <=> r = Iter!Stop
                          /\ r.is = "error" <=> r = Iter!Error
                          /\ r.is = "item" => r.value \in Items /\ r = Iter!Item(r.value)
<1>1. Iter!Ask.is = "ask" /\ Iter!Stop.is = "stop" /\ Iter!Error.is = "error"
    BY DEF Iter!Ask, Iter!Stop, Iter!Error
<1>2. ASSUME NEW v PROVE Iter!Item(v).is = "item" /\ Iter!Item(v).value = v
    BY DEF Iter!Item
<1>3. Iter!Ask \in Replies /\ Iter!Stop \in Replies /\ Iter!Error \in Replies
    BY DEF Replies
<1>4. ASSUME NEW v \in Items PROVE Iter!Item(v) \in Replies
    BY DEF Replies
<1>5. ASSUME NEW r \in Replies
      PROVE  r = Iter!Ask \/ r = Iter!Stop \/ r = Iter!Error \/ \E v \in Items : r = Iter!Item(v)
    BY DEF Replies
<1>6. ASSUME NEW r \in Replies
      PROVE  /\ r.is \in {"ask", "stop", "error", "item"}
             /\ r.is = "ask" <=> r = Iter!Ask
             /\ r.is = "stop" <=> r = Iter!Stop
             /\ r.is = "error" <=> r = Iter!Error
             /\ r.is = "item" => r.value \in Items /\ r = Iter!Item(r.value)
    <2>1. CASE r = Iter!Ask
        BY <1>1, <2>1
    <2>2. CASE r = Iter!Stop
        BY <1>1, <2>2
    <2>3. CASE r = Iter!Error
        BY <1>1, <2>3
    <2>4. ASSUME NEW v \in Items, r = Iter!Item(v)
          PROVE  r.is = "item" /\ r.value = v
        BY <1>2, <2>4
    <2> QED
        BY <1>1, <1>5, <2>1, <2>2, <2>3, <2>4
<1> QED
    BY <1>1, <1>2, <1>3, <1>4, <1>6

(* A list with one entry replaced. *)
LEMMA Replaced ==
    ASSUME NEW S, NEW s \in Seq(S), NEW i \in 1 .. Len(s), NEW e \in S
    PROVE  /\ [s EXCEPT ![i] = e] \in Seq(S) /\ Len([s EXCEPT ![i] = e]) = Len(s)
           /\ [s EXCEPT ![i] = e][i] = e
           /\ \A j \in 1 .. Len(s) : j # i => [s EXCEPT ![i] = e][j] = s[j]
OBVIOUS

Same(g, h) == h.n = g.n /\ h.buffer = g.buffer /\ h.seen = g.seen /\ h.done = g.done

(* A step that is not about a generator leaves it right. *)
LEMMA Undisturbed ==
    ASSUME NEW o, NEW p, NEW i \in 1 .. Links, RightAt(o, i), LazyAt(o, i),
           links'[i] = links[i], Same(gens[i], gens'[i]), p[i - 1] = o[i - 1],
           o[i] \in Seq(Items), p[i] \in Seq(Items), o[i - 1] \in Seq(Items),
           Given(p, i)' \o gens'[i].queue = Given(o, i) \o gens[i].queue,
           Complete(i - 1) => Complete(i - 1)',
           Len(o[i]) + Slack(o, i) <= Len(p[i]) + Slack(p, i)',
           ToldStop(p, i - 1)' => ToldStop(o, i - 1), AdapterValues, CallbackValues, links[i] \in Adapters
    PROVE  RightAt(p, i)' /\ LazyAt(p, i)'
<1> DEFINE l == links[i]
           xs == o[i - 1]
<1>1. Remembers(l, gens[i], xs) => Remembers(l, gens'[i], xs)
    BY DEF Remembers, Same
<1>2. gens'[i].done = gens[i].done
    BY DEF Same
<1>3. RightAt(p, i)'
    BY <1>1, <1>2 DEF RightAt, GenRight
<1>4. LazyAt(p, i)'
    <2>1. Slack(o, i) \in {0, 1} /\ Slack(p, i)' \in {0, 1}
        BY DEF Slack
    <2>2. ASSUME NEW k \in 0 .. Len(xs), k < Len(xs) \/ ToldStop(p, i - 1)'
          PROVE  Len(Iter!Made(l, FirstOf(xs, k))) < Len(p[i]) + Slack(p, i)'
        <3>1. Len(Iter!Made(l, FirstOf(xs, k))) < Len(o[i]) + Slack(o, i)
            BY <2>2 DEF LazyAt, GenLazy
        <3>2. FirstOf(xs, k) \in Seq(Items)
            BY FirstFacts
        <3>4. Iter!Made(l, FirstOf(xs, k)) \in Seq(Items)
            BY <3>2, MadeType
        <3> QED
            BY <2>1, <3>1, <3>4
    <2> QED
        BY <2>2 DEF LazyAt, GenLazy
<1> QED
    BY <1>3, <1>4

-----------------------------------------------------------------------------
(* One generator changes. *)
Changed(i, h) ==
    /\ gens' \in Seq(Gen) /\ Len(gens') = Len(gens) /\ gens'[i] = h
    /\ \A j \in 1 .. Len(gens) : j # i => gens'[j] = gens[j]

(* One generator replaced. *)
LEMMA ChangedGens ==
    ASSUME gens \in Seq(Gen), NEW i \in 1 .. Len(gens), NEW h \in Gen, gens' = [gens EXCEPT ![i] = h]
    PROVE  Changed(i, h)
BY Replaced DEF Changed

Dropped(g) == [g EXCEPT !.done = TRUE]

(* A generator that an exception has left. *)
LEMMA DroppedGen ==
    ASSUME NEW g \in Gen
    PROVE  /\ Dropped(g) \in Gen /\ Dropped(g).done = TRUE
           /\ Dropped(g).queue = g.queue /\ Dropped(g).buffer = g.buffer
BY DEF Dropped, Gen

(* What the actions do to the generators. *)
LEMMA Drops ==
    ASSUME ChainTypes, NEW i \in 1 .. Links, Iter!RaiseFrom(i)
    PROVE  Changed(i, Dropped(gens[i])) /\ Dropped(gens[i]) \in Gen
<1>1. gens[i] \in Gen /\ i \in 1 .. Len(gens)
    BY DEF ChainTypes, Links
<1>2. gens' = [gens EXCEPT ![i] = Dropped(gens[i])]
    BY <1>1 DEF Iter!RaiseFrom, Dropped
<1> QED
    BY <1>1, <1>2, DroppedGen, ChangedGens DEF ChainTypes

(* A yield takes one item from the queue of its generator. *)
LEMMA YieldsOne ==
    ASSUME ChainTypes, NEW i \in 1 .. Links, Iter!Yield(i)
    PROVE  /\ Changed(i, Queued(gens[i], Tail(gens[i].queue))) /\ Tail(gens[i].queue) \in Seq(Items)
           /\ gens[i] \in Gen /\ Head(gens[i].queue) \in Items
<1>1. gens[i] \in Gen /\ i \in 1 .. Len(gens)
    BY DEF ChainTypes, Links
<1>2. gens[i].queue \in Seq(Items) /\ gens[i].queue # <<>>
    BY <1>1 DEF Gen, Iter!Yield
<1> DEFINE q == gens[i].queue
<1>3. Tail(q) \in Seq(Items) /\ Head(q) \in Items
    <2> HIDE DEF q
    <2> QED BY <1>2 DEF q
<1>4. gens' = [gens EXCEPT ![i] = Queued(gens[i], Tail(gens[i].queue))]
    BY <1>1 DEF Iter!Yield, Queued
<1>5. Queued(gens[i], Tail(gens[i].queue)) \in Gen
    BY <1>1, <1>3, QueuedGen
<1> QED
    BY <1>1, <1>3, <1>4, <1>5, ChangedGens DEF ChainTypes

(* An item reaches a generator that waits for one. *)
LEMMA ItemArrives ==
    ASSUME ChainRight, ChainValues, NEW i \in 1 .. Links, mode # "idle", at = i - 1, reply.is = "item",
           NEW o, Explains(o), ~broken
    PROVE  /\ o[i - 1] \in Seq(Items) /\ reply.value \in Items /\ o[i] \in Seq(Items)
           /\ links[i] \in Adapters /\ gens[i] \in Gen /\ gens[i].queue = <<>> /\ ~gens[i].done
           /\ Iter!Made(links[i], o[i - 1]) = o[i]
           /\ ItemTaken(links[i], gens[i], Iter!OnItem(links[i], gens[i], reply.value), o[i - 1],
                        Append(o[i - 1], reply.value))
<1> DEFINE l == links[i]
           g == gens[i]
           xs == o[i - 1]
           v == reply.value
<1>1. i - 1 \in 0 .. Links /\ i \in 0 .. Links /\ Links \in Nat
    BY DEF ChainRight, ChainTypes, Links
<1>2. l \in Adapters /\ g \in Gen
    BY DEF ChainRight, ChainTypes, Links
<1>3. xs \in Seq(Items) /\ o[i] \in Seq(Items)
    BY <1>1 DEF Explains
<1>4. v \in Items
    BY ReplyKinds DEF ChainRight, ChainTypes
<1>5. g.queue = <<>> /\ ~g.done
    BY DEF ChainRight, Waiting
<1>6. Given(o, i) \o g.queue = Iter!Made(l, xs) /\ Remembers(l, g, xs)
    BY <1>5 DEF Explains, RightAt, GenRight
<1>7. Given(o, i) = o[i]
    <2>1. Flight(i) = <<>>
        BY <1>1 DEF Flight
    <2>2. o[i] \o <<>> = o[i]
        BY <1>3
    <2> QED
        BY <2>1, <2>2 DEF Given
<1>8. Iter!Made(l, xs) = o[i]
    BY <1>3, <1>5, <1>6, <1>7
<1> HIDE DEF l, g, xs, v
<1>9. ItemTaken(l, g, Iter!OnItem(l, g, v), xs, Append(xs, v))
    BY <1>2, <1>3, <1>4, <1>5, <1>6, AnyItem DEF ChainValues
<1> QED
    BY <1>2, <1>3, <1>4, <1>5, <1>8, <1>9 DEF l, g, xs, v

(* The end reaches a generator that waits for an item. *)
LEMMA StopArrives ==
    ASSUME ChainTypes, NEW i \in 1 .. Links, Waiting, Iter!PassStop(i)
    PROVE  /\ gens[i].queue = <<>> /\ ~gens[i].done /\ gens[i] \in Gen
           /\ \E q \in Seq(Items) :
                 /\ Changed(i, Stopped(gens[i], q))
                 /\ q = IF gens[i].buffer # <<>> THEN <<gens[i].buffer>> ELSE <<>>
<1> DEFINE g == gens[i]
           q == IF g.buffer # <<>> THEN <<g.buffer>> ELSE <<>>
<1>1. g \in Gen /\ i \in 1 .. Len(gens) /\ gens \in Seq(Gen)
    BY DEF ChainTypes, Links
<1>2. mode # "idle" /\ at = i - 1
    BY DEF Iter!PassStop, Iter!Told
<1>3. g.queue = <<>> /\ ~g.done
    BY <1>2 DEF Waiting
<1>4. q \in Seq(Items)
    <2>1. g.buffer \in Seq(Elements)
        BY <1>1 DEF Gen
    <2>2. CASE g.buffer # <<>>
        <3>1. g.buffer \in Items
            BY <2>1, <2>2 DEF Items
        <3> QED
            BY <2>2, <3>1
    <2> QED
        BY <2>2
<1>5. gens' = [gens EXCEPT ![i] = Stopped(g, q)]
    BY <1>1, <1>3 DEF Iter!PassStop, Iter!Left, Stopped
<1>6. Stopped(g, q) \in Gen
    BY <1>1, <1>4, StoppedGen
<1>7. Changed(i, Stopped(g, q))
    BY <1>1, <1>5, <1>6, ChangedGens
<1> QED
    BY <1>1, <1>3, <1>4, <1>7

-----------------------------------------------------------------------------
(* Where the chain is. *)
Control == ChainTypes /\ Waiting /\ NothingRead

(* A step of the generators, and of nothing else. *)
Inside(i, a, r) ==
    /\ links' = links /\ source' = source /\ mode' = mode /\ top' = top
    /\ received' = received /\ ended' = ended /\ pos' = pos
    /\ at' = a /\ reply' = r

(* A step inside the chain passes control one generator up or down. *)
LEMMA InsideControl ==
    ASSUME Control, NEW i \in 1 .. Links, NEW h \in Gen, Changed(i, h), NEW a \in 0 .. Links,
           NEW r \in Replies, Inside(i, a, r), broken' \in BOOLEAN, mode # "idle", i <= a, at <= a,
           pos = 0 => r.is # "item" /\ h.queue = <<>> /\ h.buffer = <<>>
    PROVE  Control'
<1>1. Len(gens) = Links /\ Links \in Nat /\ Links' = Links
    BY DEF Control, ChainTypes, Links, Inside
<1>2. ChainTypes'
    BY <1>1 DEF Control, ChainTypes, Inside, Changed, Links
<1>3. Waiting'
    BY <1>1 DEF Control, Waiting, Inside, Changed, ChainTypes
<1>4. NothingRead'
    <2>1. ASSUME pos' = 0 PROVE received' = <<>> /\ reply'.is # "item" /\ gens'[i].queue = <<>> /\ gens'[i].buffer = <<>>
        BY <2>1 DEF Control, NothingRead, Inside, Changed
    <2>2. ASSUME pos' = 0, NEW j \in 1 .. Links, j # i PROVE gens'[j].queue = <<>> /\ gens'[j].buffer = <<>>
        BY <1>1, <2>2 DEF Control, NothingRead, Inside, Changed
    <2> QED
        BY <1>1, <2>1, <2>2 DEF NothingRead
<1> QED
    BY <1>2, <1>3, <1>4 DEF Control

(* A step that leaves the generators. *)
LEMMA OutsideControl ==
    ASSUME Control, gens' = gens, links' = links, source' = source, pos' = pos, broken' = broken,
           reply' \in Replies, at' \in 0 .. Links, top' \in 0 .. Links, ended' \in BOOLEAN,
           mode' \in {"idle", "next", "to_list"}, received' \in Seq(Items),
           mode' = "idle" => reply' = Iter!Ask,
           mode' # "idle" => /\ top' = Links
                             /\ \A j \in at' + 1 .. Links : gens[j].queue = <<>> /\ ~gens[j].done,
           pos = 0 => received' = <<>> /\ reply'.is # "item"
    PROVE  Control'
BY DEF Control, ChainTypes, Waiting, NothingRead, Links

(* A call, a return, a new source and a longer chain: nobody is left waiting. *)
LEMMA CallerControl ==
    ASSUME Control,
           \/ \E m \in {"next", "to_list"} : Iter!Read(m)
           \/ Iter!Return
           \/ \E list \in Sources : Iter!New(list)
           \/ \E l \in Adapters : Iter!Replace(l),
           ChainValues
    PROVE  Control'
<1> USE DEF Links
<1>1. ASSUME NEW m \in {"next", "to_list"}, Iter!Read(m) PROVE Control'
    <2> USE <1>1 DEF Iter!Read, Iter!Call, Iter!chain
    <2>1. /\ gens' = gens /\ links' = links /\ source' = source /\ pos' = pos /\ broken' = broken
          /\ reply' = Iter!Ask /\ at' = Links /\ top' = Links /\ ended' = ended /\ mode' = m /\ received' = received
        OBVIOUS
    <2>2. reply' \in Replies /\ reply'.is # "item" /\ Links \in Nat
        BY <2>1, ReplyKinds DEF Control, ChainTypes
    <2> QED
        BY <2>1, <2>2, OutsideControl DEF Control, ChainTypes, NothingRead
<1>2. ASSUME Iter!Return PROVE Control'
    <2> USE <1>2
    <2>1. /\ gens' = gens /\ links' = links /\ source' = source /\ pos' = pos /\ broken' = broken
          /\ reply' = Iter!Ask /\ at' = at /\ top' = top /\ mode # "idle" /\ mode' \in {mode, "idle"}
          /\ received' \in {received, Append(received, reply.value)}
          /\ reply.is # "item" => received' = received
          /\ ended' \in {ended, ended \/ reply = Iter!Stop}
        BY DEF Iter!Return, Iter!chain
    <2>2. reply' \in Replies /\ reply'.is # "item" /\ Links \in Nat
        BY <2>1, ReplyKinds DEF Control, ChainTypes
    <2>3. received' \in Seq(Items)
        <3>1. received \in Seq(Items) /\ reply \in Replies
            BY DEF Control, ChainTypes
        <3>2. CASE reply.is = "item"
            <4>1. reply.value \in Items
                BY <3>1, <3>2, ReplyKinds
            <4> QED
                BY <2>1, <3>1, <4>1
        <3> QED
            BY <2>1, <3>1, <3>2
    <2>4. ended' \in BOOLEAN
        BY <2>1 DEF Control, ChainTypes
    <2> QED
        BY <2>1, <2>2, <2>3, <2>4, OutsideControl DEF Control, ChainTypes, NothingRead, Waiting
<1>3. ASSUME NEW list \in Sources, Iter!New(list) PROVE Control'
    <2>1. /\ gens' = gens /\ links' = links /\ source' = list /\ pos' = pos /\ broken' = broken
          /\ reply' = reply /\ at' = at /\ top' = top /\ ended' = ended /\ mode' = mode /\ received' = received
          /\ source = <<>>
        BY <1>3 DEF Iter!New, Iter!caller
    <2>2. list \in Seq(Elements) /\ pos = 0
        BY <2>1 DEF ChainValues, ListArguments, Control, ChainTypes
    <2> QED
        BY <2>1, <2>2 DEF Control, ChainTypes, Waiting, NothingRead
<1>4. ASSUME NEW l \in Adapters, Iter!Replace(l) PROVE Control'
    <2>1. /\ gens' = Append(gens, Iter!NewGen) /\ links' = Append(links, l) /\ source' = source /\ pos' = pos
          /\ broken' = broken /\ reply' = reply /\ at' = at /\ top' = top /\ ended' = ended
          /\ mode' = mode /\ mode = "idle" /\ received' = received
        BY <1>4 DEF Iter!Replace, Iter!caller
    <2>2. Iter!NewGen \in Gen
        BY NewGenKnows DEF ChainValues
    <2>3. gens \in Seq(Gen) /\ links \in Seq(Adapters) /\ Len(gens) = Len(links) /\ Len(links) \in Nat
        BY DEF Control, ChainTypes
    <2> DEFINE n == Len(links)
               g == Iter!NewGen
    <2>4. /\ gens' \in Seq(Gen) /\ links' \in Seq(Adapters) /\ Len(gens') = n + 1 /\ Len(links') = n + 1
          /\ gens'[n + 1] = g /\ \A j \in 1 .. n : gens'[j] = gens[j]
        <3> HIDE DEF g
        <3> QED BY <2>1, <2>2, <2>3 DEF g
    <2>5. g.queue = <<>> /\ g.buffer = <<>>
        BY DEF Iter!NewGen
    <2> HIDE DEF n, g
    <2>6. ChainTypes' /\ n \in Nat
        BY <2>1, <2>3, <2>4 DEF Control, ChainTypes, n
    <2>7. Waiting'
        BY <2>1 DEF Control, Waiting
    <2>8. NothingRead'
        <3>1. ASSUME NEW j \in 1 .. n + 1, pos = 0
              PROVE  gens'[j].queue = <<>> /\ gens'[j].buffer = <<>>
            <4>1. CASE j = n + 1
                BY <2>4, <2>5, <4>1
            <4>2. CASE j # n + 1
                <5>1. j \in 1 .. Len(links) /\ j \in 1 .. n
                    BY <2>6, <4>2 DEF n
                <5> QED
                    BY <2>4, <3>1, <5>1 DEF Control, NothingRead
            <4> QED
                BY <4>1, <4>2
        <3> QED
            BY <2>1, <2>4, <3>1 DEF Control, NothingRead
    <2> QED
        BY <2>6, <2>7, <2>8 DEF Control
<1> QED
    BY <1>1, <1>2, <1>3, <1>4

-----------------------------------------------------------------------------
(* An exception leaves a generator. *)
LEMMA RaiseControl ==
    ASSUME Control, NEW i \in 1 .. Links, Iter!RaiseFrom(i), mode # "idle", at \in {i - 1, i}
    PROVE  Control'
<1>1. Changed(i, Dropped(gens[i])) /\ Dropped(gens[i]) \in Gen
    BY Drops DEF Control
<1>2. Inside(i, i, Iter!Error) /\ broken' \in BOOLEAN
    BY DEF Inside, Iter!RaiseFrom, Iter!chain, Iter!caller
<1>3. gens[i] \in Gen /\ i \in 0 .. Links /\ Iter!Error \in Replies /\ Iter!Error.is # "item" /\ Links \in Nat
    BY ReplyKinds DEF Control, ChainTypes, Links
<1>4. at <= i
    BY <1>3
<1>5. pos = 0 => Dropped(gens[i]).queue = <<>> /\ Dropped(gens[i]).buffer = <<>>
    BY <1>3, DroppedGen DEF Control, NothingRead
<1> DEFINE h == Dropped(gens[i])
<1> HIDE DEF h
<1> QED
    BY <1>1, <1>2, <1>3, <1>4, <1>5, InsideControl DEF h

(* A generator that is asked replies, or asks the one below it. *)
LEMMA AskedControl ==
    ASSUME Control, NEW i \in 1 .. Links,
           Iter!Yield(i) \/ Iter!Finished(i) \/ Iter!AskBelow(i) \/ Iter!Refuse(i)
    PROVE  Control'
<1>1. mode # "idle" /\ at = i /\ reply = Iter!Ask
    BY DEF Iter!Yield, Iter!Finished, Iter!AskBelow, Iter!Refuse, Iter!Asked
<1>2. i \in 0 .. Links /\ gens[i] \in Gen /\ Links \in Nat
    BY DEF Control, ChainTypes, Links
<1>3. CASE Iter!Yield(i)
    <2> DEFINE h == Queued(gens[i], Tail(gens[i].queue))
               r == Iter!Item(Head(gens[i].queue))
    <2>1. Changed(i, h) /\ h \in Gen /\ r \in Replies
        BY <1>2, <1>3, YieldsOne, QueuedGen, ReplyKinds DEF Control
    <2>2. Inside(i, i, r) /\ broken' = broken /\ gens[i].queue # <<>>
        BY <1>1, <1>3 DEF Inside, Iter!Yield, Iter!chain, Iter!caller
    <2>3. pos # 0
        BY <2>2 DEF Control, NothingRead
    <2> HIDE DEF h, r
    <2>4. broken' \in BOOLEAN /\ i <= i /\ at <= i
        BY <1>1, <2>2 DEF Control, ChainTypes
    <2> QED
        BY <1>1, <1>2, <2>1, <2>2, <2>3, <2>4, InsideControl
<1>4. CASE Iter!Finished(i)
    <2>1. /\ gens' = gens /\ links' = links /\ source' = source /\ pos' = pos /\ broken' = broken
          /\ reply' = Iter!Stop /\ at' = at /\ top' = top /\ ended' = ended /\ mode' = mode /\ received' = received
        BY <1>4 DEF Iter!Finished, Iter!chain, Iter!caller
    <2>2. reply' \in Replies /\ reply'.is # "item"
        BY <2>1, ReplyKinds
    <2> QED
        BY <1>1, <2>1, <2>2, OutsideControl DEF Control, ChainTypes, NothingRead, Waiting
<1>5. CASE Iter!AskBelow(i)
    <2>1. /\ gens' = gens /\ links' = links /\ source' = source /\ pos' = pos /\ broken' = broken
          /\ reply' = reply /\ at' = i - 1 /\ top' = top /\ ended' = ended /\ mode' = mode /\ received' = received
          /\ gens[i].queue = <<>> /\ ~gens[i].done
        BY <1>5 DEF Iter!AskBelow, Iter!chain, Iter!caller
    <2>2. \A j \in at' + 1 .. Links : gens[j].queue = <<>> /\ ~gens[j].done
        <3>1. \A j \in at' + 1 .. Links : j = i \/ j \in at + 1 .. Links
            BY <1>1, <1>2, <2>1
        <3> QED
            BY <1>1, <2>1, <3>1 DEF Control, Waiting
    <2>3. at' \in 0 .. Links
        BY <1>2, <2>1
    <2> QED
        BY <1>1, <2>1, <2>2, <2>3, OutsideControl DEF Control, ChainTypes, NothingRead, Waiting
<1>6. CASE Iter!Refuse(i)
    <2>1. Iter!RaiseFrom(i)
        BY <1>6 DEF Iter!Refuse
    <2> QED
        BY <1>1, <2>1, RaiseControl
<1> QED
    BY <1>3, <1>4, <1>5, <1>6

(* The source replies. *)
LEMMA SourceControl ==
    ASSUME Control, Iter!SourceReplies
    PROVE  Control'
<1>1. /\ gens' = gens /\ links' = links /\ source' = source /\ broken' = broken
      /\ at' = at /\ top' = top /\ ended' = ended /\ mode' = mode /\ received' = received
      /\ mode # "idle" /\ at = 0
    BY DEF Iter!SourceReplies, Iter!Asked, Iter!chain, Iter!caller
<1>2. Len(source) \in Nat /\ pos \in Nat /\ pos <= Len(source) /\ source \in Seq(Elements)
    BY DEF Control, ChainTypes
<1>3. CASE pos < Len(source)
    <2> DEFINE v == <<source[pos + 1]>>
    <2>1. pos' = pos + 1 /\ reply' = Iter!Item(v)
        BY <1>3 DEF Iter!SourceReplies
    <2>2. v \in Items
        <3>1. source[pos + 1] \in Elements
            BY <1>2, <1>3
        <3> QED
            BY <3>1 DEF Items
    <2> HIDE DEF v
    <2>3. reply' \in Replies /\ pos' \in 0 .. Len(source) /\ pos' # 0
        BY <1>2, <1>3, <2>1, <2>2, ReplyKinds
    <2>4. ChainTypes'
        BY <1>1, <2>3 DEF Control, ChainTypes, Links
    <2> QED
        BY <1>1, <2>3, <2>4 DEF Control, Waiting, NothingRead, Links
<1>4. CASE ~(pos < Len(source))
    <2>1. pos' = pos /\ reply' = Iter!Stop
        BY <1>4 DEF Iter!SourceReplies
    <2>2. reply' \in Replies /\ reply'.is # "item"
        BY <2>1, ReplyKinds
    <2> QED
        BY <1>1, <2>1, <2>2, OutsideControl DEF Control, ChainTypes, NothingRead, Waiting
<1> QED
    BY <1>3, <1>4

(* A generator that gets a reply goes on. *)
LEMMA ToldControl ==
    ASSUME ChainRight, ChainValues, NEW i \in 1 .. Links,
           \/ Iter!PassItem(i) \/ Iter!CallbackRaises(i) \/ Iter!PassError(i)
           \/ Iter!PassStop(i) \/ Iter!StrictRaises(i)
    PROVE  Control'
<1>1. Control
    BY DEF ChainRight, Control
<1>2. mode # "idle" /\ at = i - 1
    BY DEF Iter!PassItem, Iter!CallbackRaises, Iter!PassError, Iter!PassStop, Iter!StrictRaises, Iter!Told
<1>3. i \in 0 .. Links /\ gens[i] \in Gen /\ Links \in Nat /\ i <= i /\ at <= i /\ Len(gens) = Links /\ gens \in Seq(Gen)
    BY <1>1, <1>2 DEF Control, ChainTypes, Links
<1>4. CASE Iter!PassItem(i)
    <2> DEFINE h == Iter!OnItem(links[i], gens[i], reply.value)
    <2>1. reply.is = "item" /\ Inside(i, i, Iter!Ask) /\ broken' = broken /\ gens' = [gens EXCEPT ![i] = h]
        BY <1>4 DEF Iter!PassItem, Iter!Told, Inside, Iter!chain, Iter!caller
    <2>2. ~broken
        BY <1>2, <2>1 DEF ChainRight, Ended, DeadFrom
    <2>3. PICK o : Explains(o)
        BY <2>2 DEF ChainRight, Sound
    <2>4. h \in Gen
        BY <1>2, <2>1, <2>2, <2>3, ItemArrives DEF ItemTaken
    <2>5. pos # 0
        BY <1>1, <2>1 DEF Control, NothingRead
    <2> HIDE DEF h
    <2>6. Changed(i, h)
        BY <1>3, <2>1, <2>4, ChangedGens
    <2>7. Iter!Ask \in Replies /\ broken' \in BOOLEAN
        BY <1>1, <2>1, ReplyKinds DEF Control, ChainTypes
    <2> QED
        BY <1>1, <1>2, <1>3, <2>1, <2>4, <2>5, <2>6, <2>7, InsideControl
<1>5. CASE Iter!PassStop(i)
    <2>1. Inside(i, i, Iter!Ask) /\ broken' = broken
        BY <1>5 DEF Iter!PassStop, Iter!Told, Inside, Iter!chain, Iter!caller
    <2>2. PICK q \in Seq(Items) : /\ Changed(i, Stopped(gens[i], q))
                                  /\ q = IF gens[i].buffer # <<>> THEN <<gens[i].buffer>> ELSE <<>>
        BY <1>1, <1>5, StopArrives DEF Control
    <2> DEFINE h == Stopped(gens[i], q)
    <2>3. h \in Gen /\ h.queue = q /\ h.buffer = <<>>
        BY <1>3, StoppedGen DEF Stopped, Gen
    <2>4. pos = 0 => q = <<>>
        BY <1>1, <2>2 DEF Control, NothingRead
    <2> HIDE DEF h
    <2>5. Iter!Ask \in Replies /\ broken' \in BOOLEAN /\ Iter!Ask.is # "item"
        BY <1>1, <2>1, ReplyKinds DEF Control, ChainTypes
    <2>6. Changed(i, h)
        BY <2>2 DEF h
    <2> QED
        BY <1>1, <1>2, <1>3, <2>1, <2>3, <2>4, <2>5, <2>6, InsideControl
<1>6. CASE Iter!CallbackRaises(i) \/ Iter!PassError(i) \/ Iter!StrictRaises(i)
    <2>1. Iter!RaiseFrom(i)
        BY <1>6 DEF Iter!CallbackRaises, Iter!PassError, Iter!StrictRaises
    <2> QED
        BY <1>1, <1>2, <2>1, RaiseControl
<1> QED
    BY <1>4, <1>5, <1>6

(* Where i runs, it is a generator of the chain. *)
LEMMA ActsInChain ==
    ASSUME Control, MaxLinks \in Nat, NEW i \in 1 .. MaxLinks,
           \/ Iter!Yield(i) \/ Iter!Finished(i) \/ Iter!AskBelow(i) \/ Iter!Refuse(i)
           \/ Iter!PassItem(i) \/ Iter!CallbackRaises(i) \/ Iter!PassError(i)
           \/ Iter!PassStop(i) \/ Iter!StrictRaises(i)
    PROVE  i \in 1 .. Links
<1>1. Links \in Nat /\ at \in 0 .. Links /\ top \in 0 .. Links /\ i \in Nat
    BY DEF Control, ChainTypes, Links
<1>2. at = i \/ (at = i - 1 /\ at < top)
    BY DEF Iter!Yield, Iter!Finished, Iter!AskBelow, Iter!Refuse, Iter!PassItem, Iter!CallbackRaises,
           Iter!PassError, Iter!PassStop, Iter!StrictRaises, Iter!Asked, Iter!Told
<1> QED
    BY <1>1, <1>2

-----------------------------------------------------------------------------
(* Steps that leave what has been delivered. *)
LEMMA HistoriesStay ==
    ASSUME ChainTypes, ChainTypes', ChainValues, NEW o, Explains(o), links' = links, received' = received,
           \A i \in 1 .. Links : Same(gens[i], gens'[i]),
           \A i \in 1 .. Links : Given(o, i)' \o gens'[i].queue = Given(o, i) \o gens[i].queue,
           Given(o, 0)' = Singles(pos)',
           \A i \in 0 .. Links : Complete(i) => Complete(i)',
           \A i \in 1 .. Links : Slack(o, i) <= Slack(o, i)',
           \A i \in 0 .. Links - 1 : ToldStop(o, i)' => ToldStop(o, i),
           ended' => Complete(Links)'
    PROVE  Explains(o)'
<1>1. Links' = Links /\ Links \in Nat
    BY DEF Links, ChainTypes
<1>2. ASSUME NEW i \in 1 .. Links PROVE RightAt(o, i)' /\ LazyAt(o, i)'
    <2>1. i \in 0 .. Links /\ i - 1 \in 0 .. Links - 1 /\ i - 1 \in 0 .. Links /\ links[i] \in Adapters /\ links'[i] = links[i]
        BY <1>1 DEF ChainTypes, Links
    <2>2. o[i] \in Seq(Items) /\ o[i - 1] \in Seq(Items) /\ RightAt(o, i) /\ LazyAt(o, i)
        BY <2>1 DEF Explains
    <2>3. Slack(o, i) \in {0, 1} /\ Slack(o, i)' \in {0, 1} /\ Slack(o, i) <= Slack(o, i)' /\ Len(o[i]) \in Nat
        BY <2>2 DEF Slack
    <2>4. Len(o[i]) + Slack(o, i) <= Len(o[i]) + Slack(o, i)'
        BY <2>3
    <2>5. Same(gens[i], gens'[i]) /\ Given(o, i)' \o gens'[i].queue = Given(o, i) \o gens[i].queue
        OBVIOUS
    <2>6. Complete(i - 1) => Complete(i - 1)'
        BY <2>1
    <2>7. ToldStop(o, i - 1)' => ToldStop(o, i - 1)
        BY <2>1
    <2> QED
        BY <2>1, <2>2, <2>4, <2>5, <2>6, <2>7, Undisturbed DEF ChainValues
<1> QED
    BY <1>1, <1>2 DEF Explains

(* Nothing is on its way while a generator is asked, or none is. *)
LEMMA NoFlight ==
    ASSUME NEW o, NEW i, reply.is # "item", o[i] \in Seq(Items)
    PROVE  Flight(i) = <<>> /\ Given(o, i) = o[i]
<1>1. Flight(i) = <<>> /\ o[i] \o <<>> = o[i]
    BY DEF Flight
<1> QED
    BY <1>1 DEF Given

(* A call delivers nothing yet. *)
LEMMA ReadHistories ==
    ASSUME Control, Control', ChainValues, NEW o, Explains(o), NEW m \in {"next", "to_list"}, Iter!Read(m)
    PROVE  Explains(o)'
<1>1. /\ gens' = gens /\ links' = links /\ source' = source /\ pos' = pos
      /\ reply' = Iter!Ask /\ reply = Iter!Ask /\ mode = "idle" /\ ended' = ended /\ received' = received
    BY DEF Iter!Read, Iter!Call, Iter!chain, Control, Waiting
<1>2. reply.is # "item" /\ reply'.is # "item" /\ Links \in Nat
    BY <1>1, ReplyKinds DEF Control, ChainTypes, Links
<1>3. ASSUME NEW i \in 0 .. Links
      PROVE  /\ Given(o, i)' = Given(o, i)
             /\ Complete(i) => Complete(i)'
             /\ ToldStop(o, i)' <=> ToldStop(o, i)
             /\ Slack(o, i) <= Slack(o, i)'
    <2>1. Given(o, i)' = Given(o, i)
        BY <1>2 DEF Given, Flight
    <2>2. Complete(i) => Complete(i)'
        BY <1>1, <1>2 DEF Complete
    <2>3. ToldStop(o, i)' <=> ToldStop(o, i)
        BY <1>1 DEF ToldStop, Links, Sated
    <2>4. Slack(o, i) <= Slack(o, i)'
        BY <1>1, <2>3 DEF Slack
    <2> QED
        BY <2>1, <2>2, <2>3, <2>4
<1>4. 0 \in 0 .. Links /\ Links \in 0 .. Links
    BY <1>2
<1>5. Given(o, 0)' = Singles(pos)'
    BY <1>1, <1>3, <1>4 DEF Explains, Singles
<1>6. ended' => Complete(Links)'
    BY <1>1, <1>3, <1>4 DEF Explains, Links
<1>7. \A i \in 1 .. Links : Same(gens[i], gens'[i])
    BY <1>1 DEF Same
<1>8. ASSUME NEW i \in 1 .. Links PROVE Given(o, i)' \o gens'[i].queue = Given(o, i) \o gens[i].queue
    <2>1. i \in 0 .. Links
        BY <1>2
    <2> QED
        BY <1>1, <1>3, <2>1
<1> QED
    BY <1>1, <1>2, <1>3, <1>5, <1>6, <1>7, <1>8, HistoriesStay DEF Control

(* The caller is told the end, when there is nothing more. *)
LEMMA EndReturns ==
    ASSUME Control, Control', ChainValues, NEW o, Explains(o), Iter!Return, reply = Iter!Stop, Complete(at)
    PROVE  Explains(o)'
<1>1. /\ gens' = gens /\ links' = links /\ source' = source /\ pos' = pos /\ at = Links
      /\ reply' = Iter!Ask /\ mode' = "idle" /\ mode # "idle" /\ ended' = TRUE /\ received' = received
    BY ReplyKinds DEF Iter!Return, Iter!chain, Control, Waiting, Links
<1>2. reply.is # "item" /\ reply'.is # "item" /\ Links \in Nat
    BY <1>1, ReplyKinds DEF Control, ChainTypes, Links
<1>3. ASSUME NEW i \in 0 .. Links
      PROVE  /\ Given(o, i)' = Given(o, i)
             /\ Complete(i) => Complete(i)'
             /\ i # Links => (ToldStop(o, i)' <=> ToldStop(o, i))
             /\ Slack(o, i) <= Slack(o, i)'
    <2>1. Given(o, i)' = Given(o, i)
        BY <1>2 DEF Given, Flight
    <2>2. Complete(i) => Complete(i)'
        BY <1>1, <1>2 DEF Complete
    <2>3. i # Links => (ToldStop(o, i)' <=> ToldStop(o, i))
        BY <1>1 DEF ToldStop, Links, Sated
    <2>4. CASE i = Links
        <3>1. ToldStop(o, i)'
            BY <1>1, <2>4 DEF ToldStop, Links
        <3>2. Slack(o, i)' = 1 /\ Slack(o, i) \in {0, 1}
            BY <3>1 DEF Slack
        <3> QED
            BY <2>1, <2>2, <2>3, <3>2
    <2>5. CASE i # Links
        <3>1. ~(at <= i)
            BY <1>1, <1>2, <2>5
        <3>2. Slack(o, i) = IF ToldStop(o, i) THEN 1 ELSE 0
            BY <3>1 DEF Slack
        <3>3. Slack(o, i)' = IF ToldStop(o, i)' THEN 1 ELSE 0
            BY <1>1 DEF Slack
        <3> QED
            BY <2>1, <2>2, <2>3, <2>5, <3>2, <3>3
    <2> QED
        BY <2>1, <2>2, <2>3, <2>4, <2>5
<1>4. 0 \in 0 .. Links /\ Links \in 0 .. Links
    BY <1>2
<1>5. Given(o, 0)' = Singles(pos)'
    BY <1>1, <1>3, <1>4 DEF Explains, Singles
<1>6. Complete(Links)'
    BY <1>1, <1>3, <1>4 DEF Links
<1>7. \A i \in 1 .. Links : Same(gens[i], gens'[i])
    BY <1>1 DEF Same
<1>8. ASSUME NEW i \in 1 .. Links PROVE Given(o, i)' \o gens'[i].queue = Given(o, i) \o gens[i].queue
    <2>1. i \in 0 .. Links
        BY <1>2
    <2>2. Given(o, i)' = Given(o, i)
        BY <1>3, <2>1
    <2>3. gens'[i].queue = gens[i].queue
        BY <1>1
    <2> QED
        BY <2>2, <2>3, Zenon
<1>9. \A i \in 0 .. Links - 1 : i \in 0 .. Links /\ i # Links
    BY <1>2
<1> QED
    <2>1. ChainTypes /\ ChainTypes'
        BY DEF Control
    <2>2. ASSUME NEW i \in 1 .. Links PROVE Slack(o, i) <= Slack(o, i)'
        BY <1>2, <1>3
    <2>3. ASSUME NEW i \in 0 .. Links - 1 PROVE ToldStop(o, i)' => ToldStop(o, i)
        BY <1>3, <1>9
    <2>4. \A i \in 0 .. Links : Complete(i) => Complete(i)'
        BY <1>3
    <2> QED
        BY <1>1, <1>5, <1>6, <1>7, <1>8, <2>1, <2>2, <2>3, <2>4, HistoriesStay

(* The source puts its next element on its way. *)
LEMMA SourceHistories ==
    ASSUME Control, Control', ChainValues, NEW o, Explains(o), Iter!SourceReplies
    PROVE  Explains(o)'
<1>1. /\ gens' = gens /\ links' = links /\ source' = source /\ at = 0 /\ at' = at
      /\ reply = Iter!Ask /\ mode' = mode /\ ended' = ended /\ received' = received
    BY DEF Iter!SourceReplies, Iter!Asked, Iter!chain, Iter!caller
<1>2. reply.is # "item" /\ Links \in Nat /\ source \in Seq(Elements) /\ pos \in 0 .. Len(source)
    BY <1>1, ReplyKinds DEF Control, ChainTypes, Links
<1>3. ASSUME NEW i \in 0 .. Links
      PROVE  /\ i # 0 => Given(o, i)' = Given(o, i)
             /\ i # 0 => (Complete(i) => Complete(i)')
             /\ ToldStop(o, i)' <=> ToldStop(o, i)
             /\ Slack(o, i) <= Slack(o, i)'
    <2>1. i # 0 => Given(o, i)' = Given(o, i)
        BY <1>1 DEF Given, Flight
    <2>2. i # 0 => (Complete(i) => Complete(i)')
        BY <1>1 DEF Complete
    <2>3. ToldStop(o, i)' <=> ToldStop(o, i)
        BY <1>1 DEF ToldStop, Links, Sated
    <2>4. Slack(o, i) <= Slack(o, i)'
        BY <1>1, <2>3 DEF Slack
    <2> QED
        BY <2>1, <2>2, <2>3, <2>4
<1>4. 0 \in 0 .. Links /\ Links \in 0 .. Links
    BY <1>2
<1>5. o[0] = Singles(pos) /\ o[0] \in Seq(Items)
    BY <1>2, <1>4, NoFlight DEF Explains
<1>6. Given(o, 0)' = Singles(pos)' /\ (Complete(0) => Complete(0)')
    <2>1. CASE pos < Len(source)
        <3> DEFINE v == <<source[pos + 1]>>
        <3>1. pos' = pos + 1 /\ reply' = Iter!Item(v)
            BY <2>1 DEF Iter!SourceReplies
        <3>2. reply'.is = "item" /\ reply'.value = v
            BY <3>1, ReplyKinds
        <3>3. Given(o, 0)' = o[0] \o <<v>>
            BY <1>1, <3>2 DEF Given, Flight
        <3>4. Singles(pos) \in Seq(Items) /\ Len(Singles(pos)) = pos /\ pos \in Nat
            BY <1>2, <1>5 DEF Singles
        <3> DEFINE s == Singles(pos)
        <3>7. v \in Items
            <4>1. source[pos + 1] \in Elements
                BY <1>2, <2>1
            <4> QED
                BY <4>1 DEF Items
        <3> HIDE DEF s, v
        <3>5. /\ s \o <<v>> = [k \in 1 .. pos + 1 |-> IF k <= pos THEN s[k] ELSE v]
            BY <3>4, <3>7 DEF s
        <3>6. Singles(pos)' = [k \in 1 .. pos + 1 |-> IF k <= pos THEN s[k] ELSE v]
            BY <1>1, <3>1, <3>4 DEF Singles, s, v
        <3>8. s = o[0]
            BY <1>5 DEF s
        <3>9. Given(o, 0)' = Singles(pos)'
            BY <3>3, <3>5, <3>6, <3>8
        <3>10. ~Complete(0)
            BY <1>2, <2>1 DEF Complete
        <3> QED
            BY <3>9, <3>10
    <2>2. CASE ~(pos < Len(source))
        <3>1. pos' = pos /\ reply' = Iter!Stop
            BY <2>2 DEF Iter!SourceReplies
        <3>2. reply'.is # "item"
            BY <3>1, ReplyKinds
        <3>3. Given(o, 0)' = o[0] \o <<>>
            BY <3>2 DEF Given, Flight
        <3>4. Given(o, 0)' = Singles(pos)'
            BY <1>1, <1>5, <3>1, <3>3 DEF Singles
        <3> QED
            BY <1>1, <3>1, <3>2, <3>4 DEF Complete
    <2> QED
        BY <2>1, <2>2
<1>7. \A i \in 0 .. Links : Complete(i) => Complete(i)'
    BY <1>3, <1>6
<1>8. ended' => Complete(Links)'
    BY <1>1, <1>4, <1>7 DEF Explains, Links
<1>9. \A i \in 1 .. Links : Same(gens[i], gens'[i])
    BY <1>1 DEF Same
<1>10. ASSUME NEW i \in 1 .. Links PROVE Given(o, i)' \o gens'[i].queue = Given(o, i) \o gens[i].queue
    <2>1. i \in 0 .. Links /\ i # 0
        BY <1>2
    <2>2. Given(o, i)' = Given(o, i)
        BY <1>3, <2>1
    <2>3. gens'[i].queue = gens[i].queue
        BY <1>1
    <2> QED
        BY <2>2, <2>3, Zenon
<1> QED
    <2>1. ChainTypes /\ ChainTypes'
        BY DEF Control
    <2>2. ASSUME NEW i \in 1 .. Links PROVE Slack(o, i) <= Slack(o, i)'
        BY <1>2, <1>3
    <2>3. ASSUME NEW i \in 0 .. Links - 1 PROVE ToldStop(o, i)' => ToldStop(o, i)
        BY <1>2, <1>3
    <2> QED
        BY <1>1, <1>6, <1>7, <1>8, <1>9, <1>10, <2>1, <2>2, <2>3, HistoriesStay

-----------------------------------------------------------------------------

(* A list is its head and the others. *)
LEMMA HeadAndTail ==
    ASSUME NEW S, NEW s \in Seq(S), NEW q \in Seq(S), q # <<>>
    PROVE  (s \o <<Head(q)>>) \o Tail(q) = s \o q
<1>1. Head(q) \in S /\ Tail(q) \in Seq(S) /\ Len(Tail(q)) = Len(q) - 1 /\ Len(q) \in Nat \ {0}
      /\ \A k \in 1 .. Len(q) - 1 : Tail(q)[k] = q[k + 1]
    OBVIOUS
<1> DEFINE h == Head(q)
           t == Tail(q)
<1>2. h = q[1]
    OBVIOUS
<1>3. <<h>> \in Seq(S)
    BY <1>1
<1> HIDE DEF h, t
<1>4. /\ s \o <<h>> \in Seq(S) /\ Len(s \o <<h>>) = Len(s) + 1 /\ Len(s) \in Nat
      /\ \A k \in 1 .. Len(s) + 1 : (s \o <<h>>)[k] = IF k <= Len(s) THEN s[k] ELSE h
    BY <1>3
<1> DEFINE u == s \o <<h>>
<1> HIDE DEF u
<1>5. /\ u \o t \in Seq(S) /\ Len(u \o t) = Len(s) + Len(q)
      /\ \A k \in 1 .. Len(s) + Len(q) : (u \o t)[k] = IF k <= Len(s) + 1 THEN u[k] ELSE t[k - Len(s) - 1]
    BY <1>1, <1>4 DEF u, t
<1>6. /\ s \o q \in Seq(S) /\ Len(s \o q) = Len(s) + Len(q)
      /\ \A k \in 1 .. Len(s) + Len(q) : (s \o q)[k] = IF k <= Len(s) THEN s[k] ELSE q[k - Len(s)]
    BY <1>4
<1>7. ASSUME NEW k \in 1 .. Len(s) + Len(q) PROVE (u \o t)[k] = (s \o q)[k]
    <2>1. CASE k <= Len(s)
        BY <1>4, <1>5, <1>6, <2>1 DEF u
    <2>2. CASE k = Len(s) + 1
        BY <1>1, <1>2, <1>4, <1>5, <1>6, <2>2 DEF u
    <2>3. CASE k > Len(s) + 1
        <3>1. k - Len(s) - 1 \in 1 .. Len(q) - 1 /\ (k - Len(s) - 1) + 1 = k - Len(s)
            BY <1>1, <1>4, <2>3
        <3>2. t[k - Len(s) - 1] = q[k - Len(s)]
            BY <1>1, <3>1 DEF t
        <3>3. (u \o t)[k] = t[k - Len(s) - 1]
            BY <1>4, <1>5, <2>3
        <3>5. ~(k <= Len(s))
            BY <1>4, <2>3
        <3>4. (s \o q)[k] = q[k - Len(s)]
            BY <1>6, <3>5
        <3> QED
            BY <3>2, <3>3, <3>4, Zenon
    <2>4. k <= Len(s) \/ k = Len(s) + 1 \/ k > Len(s) + 1
        BY <1>1, <1>4
    <2> QED
        BY <2>1, <2>2, <2>3, <2>4
<1>8. u \o t = s \o q
    BY <1>5, <1>6, <1>7, EqualLists
<1> QED
    BY <1>8 DEF u, h, t

(* A yield moves an item from the queue to its way up. *)
LEMMA YieldHistories ==
    ASSUME Control, Control', ChainValues, NEW o, Explains(o), NEW i \in 1 .. Links, Iter!Yield(i)
    PROVE  Explains(o)'
<1> DEFINE g == gens[i]
           h == Queued(g, Tail(g.queue))
<1>1. /\ links' = links /\ source' = source /\ at = i /\ at' = at /\ pos' = pos
      /\ reply = Iter!Ask /\ mode' = mode /\ ended' = ended /\ received' = received
      /\ g.queue # <<>> /\ reply' = Iter!Item(Head(g.queue))
    BY DEF Iter!Yield, Iter!Asked, Iter!chain, Iter!caller
<1>2. reply.is # "item" /\ Links \in Nat /\ reply'.is = "item" /\ reply'.value = Head(g.queue) /\ Len(gens) = Links
    BY <1>1, ReplyKinds DEF Control, ChainTypes, Links
<1>3. Changed(i, h) /\ Tail(g.queue) \in Seq(Items) /\ g \in Gen
    BY YieldsOne DEF Control
<1>4. Same(g, h) /\ h.queue = Tail(g.queue)
    BY <1>3, QueuedGen DEF Same
<1> HIDE DEF h
<1>5. \A j \in 1 .. Links : j # i => gens'[j] = gens[j]
    BY <1>2, <1>3 DEF Changed
<1>6. gens'[i] = h
    BY <1>3 DEF Changed
<1>7. ASSUME NEW j \in 1 .. Links PROVE Same(gens[j], gens'[j])
    <2>1. CASE j = i
        BY <1>4, <1>6, <2>1
    <2>2. CASE j # i
        BY <1>5, <2>2 DEF Same
    <2> QED
        BY <2>1, <2>2
<1>8. ASSUME NEW j \in 0 .. Links, j # i PROVE Given(o, j)' = Given(o, j) /\ (Complete(j) => Complete(j)')
    <2>1. Given(o, j)' = Given(o, j)
        BY <1>1, <1>8 DEF Given, Flight
    <2>2. Complete(j) => Complete(j)'
        BY <1>1, <1>2, <1>5, <1>8 DEF Complete
    <2> QED
        BY <2>1, <2>2
<1>9. ~Complete(i)
    BY <1>1 DEF Complete
<1>10. ASSUME NEW j \in 0 .. Links PROVE /\ Complete(j) => Complete(j)'
                                         /\ ToldStop(o, j)' <=> ToldStop(o, j)
                                         /\ Slack(o, j) <= Slack(o, j)'
    <2>1. Complete(j) => Complete(j)'
        BY <1>8, <1>9
    <2>2. ToldStop(o, j)' <=> ToldStop(o, j)
        <3>1. CASE j = Links
            BY <1>1, <3>1 DEF ToldStop, Links
        <3>2. CASE j # Links
            <4>1. j + 1 \in 1 .. Links
                BY <1>2, <3>2
            <4>2. gens'[j + 1].done = gens[j + 1].done
                BY <1>7, <4>1 DEF Same
            <4> QED
                BY <1>1, <3>2, <4>2 DEF ToldStop, Links, Sated
        <3> QED
            BY <3>1, <3>2
    <2>3. Slack(o, j) <= Slack(o, j)'
        BY <1>1, <2>2 DEF Slack
    <2> QED
        BY <2>1, <2>2, <2>3
<1>11. ASSUME NEW j \in 1 .. Links PROVE Given(o, j)' \o gens'[j].queue = Given(o, j) \o gens[j].queue
    <2>1. CASE j = i
        <3>1. Given(o, i) = o[i] /\ o[i] \in Seq(Items)
            <4>1. i \in 0 .. Links
                BY <1>2
            <4> QED
                BY <1>2, <4>1, NoFlight DEF Explains
        <3>2. Given(o, i)' = o[i] \o <<Head(g.queue)>>
            BY <1>1, <1>2 DEF Given, Flight
        <3>3. g.queue \in Seq(Items)
            BY <1>3 DEF Gen
        <3> DEFINE q == g.queue
        <3> HIDE DEF g, q
        <3>4. (o[i] \o <<Head(q)>>) \o Tail(q) = o[i] \o q
            BY <1>1, <3>1, <3>3, HeadAndTail DEF q
        <3> QED
            BY <1>4, <1>6, <2>1, <3>1, <3>2, <3>4 DEF g, q
    <2>2. CASE j # i
        <3>1. j \in 0 .. Links
            BY <1>2
        <3> QED
            BY <1>5, <1>8, <2>2, <3>1
    <2> QED
        BY <2>1, <2>2
<1>12. 0 \in 0 .. Links /\ Links \in 0 .. Links /\ 0 # i
    BY <1>2
<1>13. Given(o, 0)' = Singles(pos)'
    BY <1>1, <1>8, <1>12 DEF Explains, Singles
<1>14. ended' => Complete(Links)'
    BY <1>1, <1>10, <1>12 DEF Explains, Links
<1>15. \A j \in 0 .. Links - 1 : ToldStop(o, j)' => ToldStop(o, j)
    BY <1>2, <1>10
<1>16. \A j \in 0 .. Links : Complete(j) => Complete(j)'
    BY <1>10
<1>17. \A j \in 1 .. Links : Slack(o, j) <= Slack(o, j)'
    BY <1>2, <1>10
<1>18. ChainTypes /\ ChainTypes' /\ links' = links /\ received' = received
    BY <1>1 DEF Control
<1> QED
    BY <1>7, <1>11, <1>13, <1>14, <1>15, <1>16, <1>17, <1>18, HistoriesStay

(* A request, or the news of the end, delivers nothing. *)
LEMMA QuietHistories ==
    ASSUME Control, Control', ChainValues, NEW o, Explains(o), NEW i \in 1 .. Links,
           Iter!Finished(i) \/ Iter!AskBelow(i)
    PROVE  Explains(o)'
<1>1. /\ gens' = gens /\ links' = links /\ source' = source /\ at = i /\ pos' = pos /\ at' \in {i, i - 1}
      /\ reply = Iter!Ask /\ mode' = mode /\ ended' = ended /\ received' = received /\ reply' \in {reply, Iter!Stop}
    BY DEF Iter!Finished, Iter!AskBelow, Iter!Asked, Iter!chain, Iter!caller
<1>2. reply.is # "item" /\ Links \in Nat /\ reply'.is # "item"
    BY <1>1, ReplyKinds DEF Control, ChainTypes, Links
<1>3. ASSUME NEW j \in 0 .. Links
      PROVE  /\ Given(o, j)' = Given(o, j)
             /\ Complete(j) => Complete(j)'
             /\ ToldStop(o, j)' <=> ToldStop(o, j)
             /\ Slack(o, j) <= Slack(o, j)'
    <2>1. Given(o, j)' = Given(o, j)
        BY <1>2 DEF Given, Flight
    <2>2. Complete(j) => Complete(j)'
        BY <1>1, <1>2 DEF Complete
    <2>3. ToldStop(o, j)' <=> ToldStop(o, j)
        BY <1>1 DEF ToldStop, Links, Sated
    <2>4. at <= j => at' <= j
        BY <1>1, <1>2
    <2>5. Slack(o, j) <= Slack(o, j)'
        BY <1>1, <2>3, <2>4 DEF Slack
    <2> QED
        BY <2>1, <2>2, <2>3, <2>5
<1>4. 0 \in 0 .. Links /\ Links \in 0 .. Links
    BY <1>2
<1>5. Given(o, 0)' = Singles(pos)'
    BY <1>1, <1>3, <1>4 DEF Explains, Singles
<1>6. ended' => Complete(Links)'
    BY <1>1, <1>3, <1>4 DEF Explains, Links
<1>7. \A j \in 1 .. Links : Same(gens[j], gens'[j])
    BY <1>1 DEF Same
<1>8. ASSUME NEW j \in 1 .. Links PROVE Given(o, j)' \o gens'[j].queue = Given(o, j) \o gens[j].queue
    <2>1. j \in 0 .. Links
        BY <1>2
    <2> QED
        BY <1>1, <1>3, <2>1
<1> QED
    BY <1>1, <1>2, <1>3, <1>5, <1>6, <1>7, <1>8, HistoriesStay DEF Control

-----------------------------------------------------------------------------
(* Steps that deliver an item, or the end. *)
Delivered(o, n, v) == [k \in 0 .. Links |-> IF k = n THEN Append(o[k], v) ELSE o[k]]

(* A history with one item more. *)
LEMMA Delivery ==
    ASSUME NEW o, \A k \in 0 .. Links : o[k] \in Seq(Items), NEW n \in 0 .. Links, NEW v \in Items
    PROVE  /\ \A k \in 0 .. Links : Delivered(o, n, v)[k] \in Seq(Items)
           /\ Delivered(o, n, v)[n] = Append(o[n], v) /\ Append(o[n], v) = o[n] \o <<v>>
           /\ Len(Append(o[n], v)) = Len(o[n]) + 1 /\ Len(o[n]) \in Nat
           /\ \A k \in 0 .. Links : k # n => Delivered(o, n, v)[k] = o[k]
<1>1. o[n] \in Seq(Items)
    OBVIOUS
<1>2. Append(o[n], v) \in Seq(Items) /\ Append(o[n], v) = o[n] \o <<v>>
    BY <1>1
<1>3. Len(Append(o[n], v)) = Len(o[n]) + 1 /\ Len(o[n]) \in Nat
    BY <1>1
<1> QED
    BY <1>2, <1>3 DEF Delivered

(* Of the first items an adapter makes less than one more than of all. *)
LEMMA NoMoreThanAll ==
    ASSUME NEW l \in Adapters, ChainValues, NEW xs \in Seq(Items), NEW k \in 0 .. Len(xs),
           NEW n \in Nat, Len(Iter!Made(l, xs)) = n
    PROVE  Len(Iter!Made(l, FirstOf(xs, k))) < n + 1
<1>1. FirstOf(xs, k) \in Seq(Items)
    BY FirstFacts
<1>2. Iter!Made(l, FirstOf(xs, k)) \in Seq(Items)
    BY <1>1, MadeType DEF ChainValues
<1>3. Len(Iter!Made(l, FirstOf(xs, k))) <= n
    BY MadeOfFirst DEF ChainValues
<1> QED
    BY <1>2, <1>3

(* The generator that an item reaches. *)
LEMMA ReaderRight ==
    ASSUME ChainRight, ChainValues, NEW o, Explains(o), ~broken, NEW i \in 1 .. Links, Iter!PassItem(i),
           NEW p, p = Delivered(o, i - 1, reply.value)
    PROVE  RightAt(p, i)' /\ LazyAt(p, i)'
<1> DEFINE l == links[i]
           g == gens[i]
           v == reply.value
           xs == o[i - 1]
           ys == Append(xs, v)
           h == Iter!OnItem(l, g, v)
<1>1. /\ reply.is = "item" /\ mode # "idle" /\ mode' = mode /\ at = i - 1 /\ at' = i /\ links' = links /\ ended' = ended
      /\ gens' = [gens EXCEPT ![i] = h] /\ reply' = Iter!Ask
    BY DEF Iter!PassItem, Iter!Told, Iter!chain, Iter!caller
<1>2. /\ Links \in Nat /\ i \in 0 .. Links /\ i - 1 \in 0 .. Links /\ i - 1 # i /\ gens \in Seq(Gen) /\ Len(gens) = Links
      /\ i - 1 # Links /\ (i - 1) + 1 = i
    BY DEF ChainRight, ChainTypes, Links
<1>3. /\ xs \in Seq(Items) /\ v \in Items /\ o[i] \in Seq(Items) /\ l \in Adapters
      /\ Iter!Made(l, xs) = o[i] /\ ItemTaken(l, g, h, xs, ys)
    BY <1>1, ItemArrives
<1>4. \A k \in 0 .. Links : o[k] \in Seq(Items)
    BY DEF Explains
<1>5. p[i] = o[i] /\ p[i - 1] = ys /\ Len(ys) = Len(xs) + 1 /\ Len(xs) \in Nat
    <2>1. v \in Items /\ v = reply.value
        BY <1>3
    <2>2. xs \in Seq(Items)
        BY <1>3
    <2> HIDE DEF v
    <2>3. p[i] = o[i] /\ p[i - 1] = Append(o[i - 1], v) /\ Len(Append(o[i - 1], v)) = Len(o[i - 1]) + 1
        <3> DEFINE n == i - 1
        <3>1. n \in 0 .. Links /\ i # n /\ p = Delivered(o, n, v)
            BY <1>2, <2>1
        <3> HIDE DEF n
        <3>2. /\ Delivered(o, n, v)[n] = Append(o[n], v) /\ Len(Append(o[n], v)) = Len(o[n]) + 1
              /\ \A k \in 0 .. Links : k # n => Delivered(o, n, v)[k] = o[k]
            BY <1>4, <2>1, <3>1, Delivery
        <3>3. p[i] = o[i] /\ p[n] = Append(o[n], v) /\ Len(Append(o[n], v)) = Len(o[n]) + 1
            BY <1>2, <3>1, <3>2
        <3> QED
            BY <3>3 DEF n
    <2> QED
        BY <2>1, <2>2, <2>3 DEF v
<1> HIDE DEF h
<1>6. gens'[i] = h /\ h \in Gen
    BY <1>1, <1>2, <1>3 DEF ItemTaken
<1>7. reply'.is # "item"
    BY <1>1, ReplyKinds
<1>8. Given(p, i)' = p[i] \o <<>>
    BY <1>7 DEF Given, Flight
<1>9. Given(p, i)' = o[i]
    BY <1>3, <1>5, <1>8
<1>10. Iter!Made(l, ys) = o[i] \o h.queue
    BY <1>3, <1>5, MadeAppend DEF ItemTaken, ChainValues
<1>11. links'[i] = l
    BY <1>1
<1>12. GenRight(l, h, ys, o[i], Complete(i - 1)')
    BY <1>3, <1>10 DEF GenRight, ItemTaken
<1>13. RightAt(p, i)'
    BY <1>5, <1>6, <1>9, <1>11, <1>12 DEF RightAt
<1>14. Slack(p, i)' = 1
    BY <1>1, <1>2 DEF Slack
<1>15. ~ToldStop(p, i - 1)'
    <2>1. ToldStop(p, i - 1)' <=> h.done /\ ~Sated(l, ys)
        BY <1>1, <1>2, <1>5, <1>6, <1>11 DEF ToldStop, Links, Sated
    <2> QED
        BY <1>3, <2>1 DEF ItemTaken
<1>16. LazyAt(p, i)'
    <2>1. ASSUME NEW k \in 0 .. Len(ys), k < Len(ys)
          PROVE  Len(Iter!Made(l, FirstOf(ys, k))) < Len(o[i]) + 1
        <3>1. k \in 0 .. Len(xs)
            BY <1>5, <2>1
        <3>2. FirstOf(xs, k) \in Seq(Items) /\ Len(FirstOf(xs, k)) = k
            BY <1>3, <3>1, FirstFacts
        <3>3. \A j \in 1 .. k : FirstOf(xs, k)[j] = ys[j]
            <4>1. \A j \in 1 .. k : FirstOf(xs, k)[j] = xs[j] /\ j \in 1 .. Len(xs)
                BY <1>3, <3>1, FirstFacts
            <4>2. \A j \in 1 .. Len(xs) : ys[j] = xs[j]
                BY <1>3, ReadOn
            <4> QED
                BY <4>1, <4>2
        <3>4. ys \in Seq(Items)
            BY <1>3
        <3> HIDE DEF ys
        <3>5. FirstOf(ys, k) = FirstOf(xs, k)
            BY <3>2, <3>3, <3>4, FirstAll
        <3>6. Len(Iter!Made(l, FirstOf(xs, k))) < Len(o[i]) + 1
            BY <1>3, <3>1, NoMoreThanAll
        <3> QED
            BY <3>5, <3>6
    <2> QED
        BY <1>5, <1>11, <1>14, <1>15, <2>1 DEF LazyAt, GenLazy
<1> QED
    BY <1>13, <1>16

-----------------------------------------------------------------------------
(* An item is delivered: by generator n, to n + 1 or to the caller. *)
LEMMA DeliveredRight ==
    ASSUME ChainTypes, ChainValues, NEW o, Explains(o), NEW n \in 0 .. Links, NEW p,
           p = Delivered(o, n, reply.value), at = n, reply.is = "item", reply'.is # "item", reply.value \in Items,
           links' = links, ended' = ended, mode # "idle", pos' = pos, source' = source,
           \A j \in 1 .. Links : j # n + 1 => gens'[j] = gens[j],
           n < Links => ~gens[n + 1].done /\ mode' = mode /\ at' = n + 1
    PROVE  /\ \A k \in 0 .. Links : p[k] \in Seq(Items)
           /\ Given(p, 0)' = Singles(pos)'
           /\ ended' => Complete(Links)'
           /\ \A j \in 1 .. Links : j # n + 1 => RightAt(p, j)' /\ LazyAt(p, j)'
           /\ p[n] = Append(o[n], reply.value)
           /\ \A k \in 0 .. Links : k # n => p[k] = o[k]
<1> DEFINE v == reply.value
<1>1. Links \in Nat /\ Len(gens) = Links /\ n \in Nat /\ 0 \in 0 .. Links /\ Links \in 0 .. Links
    BY DEF ChainTypes, Links
<1>2. \A k \in 0 .. Links : o[k] \in Seq(Items)
    BY DEF Explains
<1>3. /\ \A k \in 0 .. Links : p[k] \in Seq(Items)
      /\ p[n] = o[n] \o <<v>> /\ Len(p[n]) = Len(o[n]) + 1 /\ Len(o[n]) \in Nat /\ p[n] = Append(o[n], v)
      /\ \A k \in 0 .. Links : k # n => p[k] = o[k]
    <2>1. v \in Items
        OBVIOUS
    <2> HIDE DEF v
    <2>2. /\ \A k \in 0 .. Links : Delivered(o, n, v)[k] \in Seq(Items)
          /\ Delivered(o, n, v)[n] = Append(o[n], v) /\ Append(o[n], v) = o[n] \o <<v>>
          /\ Len(Append(o[n], v)) = Len(o[n]) + 1 /\ Len(o[n]) \in Nat
          /\ \A k \in 0 .. Links : k # n => Delivered(o, n, v)[k] = o[k]
        BY <1>2, <2>1, Delivery
    <2>3. p = Delivered(o, n, v)
        BY DEF v
    <2> QED
        BY <2>2, <2>3
<1> HIDE DEF v
<1>4. ASSUME NEW k \in 0 .. Links PROVE Given(p, k)' = Given(o, k)
    <2>1. Given(p, k)' = p[k] \o <<>>
        BY DEF Given, Flight
    <2>2. Given(p, k)' = p[k]
        BY <1>3, <2>1
    <2>3. CASE k = n
        BY <1>3, <2>2, <2>3 DEF Given, Flight, v
    <2>4. CASE k # n
        <3>1. Given(o, k) = o[k] \o <<>>
            BY <2>4 DEF Given, Flight
        <3>2. o[k] \o <<>> = o[k]
            BY <1>2
        <3> QED
            BY <1>3, <2>2, <2>4, <3>1, <3>2
    <2> QED
        BY <2>3, <2>4
<1>5. ASSUME NEW k \in 0 .. Links PROVE Complete(k) => Complete(k)'
    <2>1. CASE k = 0
        BY <2>1 DEF Complete
    <2>2. CASE k # 0 /\ k # n + 1
        <3>1. gens'[k] = gens[k]
            BY <2>2
        <3> QED
            BY <2>2, <3>1 DEF Complete
    <2>3. CASE k # 0 /\ k = n + 1
        <3>1. ~gens[k].done
            BY <1>1, <2>3
        <3> QED
            BY <2>3, <3>1 DEF Complete
    <2> QED
        BY <2>1, <2>2, <2>3
<1>6. ASSUME NEW k \in 0 .. Links, k # n PROVE ToldStop(p, k)' <=> ToldStop(o, k)
    <2>1. CASE k = Links
        BY <2>1 DEF ToldStop, Links
    <2>2. CASE k # Links
        <3>1. k + 1 \in 1 .. Links /\ k + 1 # n + 1
            BY <1>1, <1>6, <2>2
        <3>2. gens'[k + 1] = gens[k + 1] /\ p[k] = o[k]
            BY <1>3, <1>6, <3>1
        <3> QED
            BY <2>2, <3>2 DEF ToldStop, Links, Sated
    <2> QED
        BY <2>1, <2>2
<1>7. ASSUME NEW k \in 0 .. Links, k # n PROVE Slack(o, k) <= Slack(p, k)'
    <2>1. at <= k => mode' = mode /\ at' <= k
        <3>1. ASSUME at <= k PROVE n < Links /\ n + 1 <= k
            BY <1>1, <1>7, <3>1
        <3> QED
            BY <3>1
    <2> QED
        BY <1>6, <1>7, <2>1 DEF Slack
<1>8. ASSUME NEW j \in 1 .. Links, j # n + 1 PROVE RightAt(p, j)' /\ LazyAt(p, j)'
    <2>1. j \in 0 .. Links /\ j - 1 \in 0 .. Links /\ j - 1 # n /\ links[j] \in Adapters /\ links'[j] = links[j]
        BY <1>1, <1>8 DEF ChainTypes, Links
    <2>2. RightAt(o, j) /\ LazyAt(o, j)
        BY DEF Explains
    <2>3. gens'[j] = gens[j]
        BY <1>8
    <2>4. Len(o[j]) + Slack(o, j) <= Len(p[j]) + Slack(p, j)'
        <3>1. Slack(o, j) \in {0, 1} /\ Slack(p, j)' \in {0, 1} /\ Len(o[j]) \in Nat
            BY <1>2, <2>1 DEF Slack
        <3>2. CASE j = n
            BY <1>3, <3>1, <3>2
        <3>3. CASE j # n
            BY <1>3, <1>7, <2>1, <3>1, <3>3
        <3> QED
            BY <3>2, <3>3
    <2>5. Given(p, j)' \o gens'[j].queue = Given(o, j) \o gens[j].queue
        BY <1>4, <2>1, <2>3
    <2>6. Same(gens[j], gens'[j])
        BY <2>3 DEF Same
    <2>7. Complete(j - 1) => Complete(j - 1)'
        BY <1>5, <2>1
    <2>8. ToldStop(p, j - 1)' => ToldStop(o, j - 1)
        BY <1>6, <2>1
    <2>9. o[j] \in Seq(Items) /\ p[j] \in Seq(Items) /\ o[j - 1] \in Seq(Items) /\ p[j - 1] = o[j - 1]
        BY <1>2, <1>3, <2>1
    <2> QED
        BY <2>1, <2>2, <2>4, <2>5, <2>6, <2>7, <2>8, <2>9, Undisturbed DEF ChainValues
<1>9. Given(p, 0)' = Singles(pos)'
    BY <1>1, <1>4 DEF Explains, Singles
<1>10. ended' => Complete(Links)'
    BY <1>1, <1>5 DEF Explains, Links
<1> QED
    BY <1>3, <1>8, <1>9, <1>10 DEF v

(* An item is read by the generator above. *)
LEMMA ItemHistories ==
    ASSUME ChainRight, ChainValues, NEW o, Explains(o), ~broken, NEW i \in 1 .. Links, Iter!PassItem(i)
    PROVE  \E p : Explains(p)'
<1> DEFINE n == i - 1
<1>1. n \in 0 .. Links /\ n + 1 = i /\ n < Links /\ Links \in Nat /\ Len(gens) = Links /\ gens \in Seq(Gen)
      /\ n # Links /\ Links \in 0 .. Links
    BY DEF ChainRight, ChainTypes, Links
<1>2. /\ reply.is = "item" /\ mode # "idle" /\ mode' = mode /\ at = n /\ at' = n + 1 /\ links' = links /\ ended' = ended
      /\ received' = received /\ reply' = Iter!Ask /\ pos' = pos /\ source' = source
      /\ gens' = [gens EXCEPT ![i] = Iter!OnItem(links[i], gens[i], reply.value)]
    BY <1>1 DEF Iter!PassItem, Iter!Told, Iter!chain, Iter!caller
<1> DEFINE v == reply.value
<1>3. PICK p : p = Delivered(o, i - 1, v)
    OBVIOUS
<1>4. RightAt(p, i)' /\ LazyAt(p, i)'
    BY <1>3, ReaderRight
<1>5. p = Delivered(o, n, reply.value)
    BY <1>3
<1>6. ~gens[n + 1].done /\ reply.value \in Items
    BY <1>1, <1>2, ItemArrives
<1>7. \A j \in 1 .. Links : j # n + 1 => gens'[j] = gens[j]
    BY <1>1, <1>2
<1> HIDE DEF n, v
<1>8. reply'.is # "item" /\ ChainTypes
    BY <1>2, ReplyKinds DEF ChainRight
<1>9. /\ \A k \in 0 .. Links : p[k] \in Seq(Items)
      /\ Given(p, 0)' = Singles(pos)'
      /\ ended' => Complete(Links)'
      /\ \A j \in 1 .. Links : j # n + 1 => RightAt(p, j)' /\ LazyAt(p, j)'
      /\ \A k \in 0 .. Links : k # n => p[k] = o[k]
    BY <1>1, <1>2, <1>5, <1>6, <1>7, <1>8, DeliveredRight
<1>10. \A j \in 1 .. Links : RightAt(p, j)' /\ LazyAt(p, j)'
    BY <1>1, <1>4, <1>9
<1>11. p[Links] = received'
    BY <1>1, <1>2, <1>9 DEF Explains
<1>12. Links' = Links
    BY <1>2 DEF Links
<1>13. Explains(p)'
    BY <1>9, <1>10, <1>11, <1>12 DEF Explains
<1> QED
    BY <1>13

(* An item is received by the caller. *)
LEMMA ReturnHistories ==
    ASSUME ChainRight, ChainValues, NEW o, Explains(o), Iter!Return, reply.is = "item"
    PROVE  \E p : Explains(p)'
<1> DEFINE n == Links
<1>1. Links \in Nat /\ Links \in 0 .. Links /\ reply \in Replies
    BY DEF ChainRight, ChainTypes, Links
<1>2. /\ mode # "idle" /\ at = Links /\ links' = links /\ pos' = pos /\ source' = source
      /\ received' = Append(received, reply.value) /\ reply' = Iter!Ask /\ gens' = gens /\ ended' = (ended \/ reply = Iter!Stop)
    BY DEF Iter!Return, Iter!chain, ChainRight, Waiting, Links
<1>3. reply.value \in Items /\ reply # Iter!Stop /\ reply'.is # "item" /\ ChainTypes
    BY <1>1, <1>2, ReplyKinds DEF ChainRight
<1>4. ended' = ended
    BY <1>2, <1>3 DEF ChainRight, ChainTypes
<1>5. PICK p : p = Delivered(o, n, reply.value)
    OBVIOUS
<1>6. n \in 0 .. Links /\ ~(n < Links) /\ at = n
    BY <1>1, <1>2
<1>7. \A j \in 1 .. Links : j # n + 1 /\ gens'[j] = gens[j]
    BY <1>1, <1>2
<1> HIDE DEF n
<1>8. /\ \A k \in 0 .. Links : p[k] \in Seq(Items)
      /\ Given(p, 0)' = Singles(pos)'
      /\ ended' => Complete(Links)'
      /\ \A j \in 1 .. Links : j # n + 1 => RightAt(p, j)' /\ LazyAt(p, j)'
      /\ p[n] = Append(o[n], reply.value)
    BY <1>2, <1>3, <1>4, <1>5, <1>6, <1>7, DeliveredRight
<1>9. p[Links] = received'
    BY <1>2, <1>8 DEF Explains, n
<1>10. Links' = Links
    BY <1>2 DEF Links
<1>11. Explains(p)'
    BY <1>7, <1>8, <1>9, <1>10 DEF Explains
<1> QED
    BY <1>11

-----------------------------------------------------------------------------
(* The generator that learns that there is no more. *)
LEMMA ReaderStops ==
    ASSUME Control, ChainValues, NEW o, Explains(o), NEW i \in 1 .. Links, Iter!PassStop(i), Complete(i - 1)
    PROVE  /\ RightAt(o, i)' /\ LazyAt(o, i)' /\ ToldStop(o, i - 1)' /\ Complete(i - 1)' /\ ~gens[i].done
           /\ \A j \in 1 .. Links : j # i => gens'[j] = gens[j]
<1> DEFINE l == links[i]
           g == gens[i]
           xs == o[i - 1]
<1>1. /\ reply.is = "stop" /\ mode # "idle" /\ mode' = mode /\ at = i - 1 /\ at' = i /\ links' = links
      /\ reply' = Iter!Ask /\ pos' = pos /\ source' = source
    BY DEF Iter!PassStop, Iter!Told, Iter!chain, Iter!caller
<1>2. /\ Links \in Nat /\ i \in 0 .. Links /\ i - 1 \in 0 .. Links /\ i - 1 # i /\ gens \in Seq(Gen) /\ Len(gens) = Links
      /\ i - 1 # Links /\ (i - 1) + 1 = i /\ l \in Adapters
    BY DEF Control, ChainTypes, Links
<1>3. xs \in Seq(Items) /\ o[i] \in Seq(Items) /\ RightAt(o, i)
    BY <1>2 DEF Explains
<1>4. /\ g.queue = <<>> /\ ~g.done /\ g \in Gen
      /\ \E q \in Seq(Items) : Changed(i, Stopped(g, q)) /\ q = IF g.buffer # <<>> THEN <<g.buffer>> ELSE <<>>
    BY StopArrives DEF Control
<1>5. PICK q \in Seq(Items) : Changed(i, Stopped(g, q)) /\ q = IF g.buffer # <<>> THEN <<g.buffer>> ELSE <<>>
    BY <1>4
<1> DEFINE h == Stopped(g, q)
<1>6. h \in Gen /\ h.queue = q /\ h.done = TRUE
    BY <1>4, StoppedGen
<1>7. gens'[i] = h /\ \A j \in 1 .. Links : j # i => gens'[j] = gens[j]
    BY <1>2, <1>5 DEF Changed
<1> HIDE DEF h
<1>8. reply'.is # "item" /\ reply.is # "item"
    BY <1>1, ReplyKinds
<1>9. Given(o, i) = o[i]
    BY <1>3, <1>8, NoFlight
<1>10. Given(o, i)' = o[i]
    <2>1. Given(o, i)' = o[i] \o <<>>
        BY <1>8 DEF Given, Flight
    <2> QED
        BY <1>3, <2>1
<1>11. o[i] = Iter!Made(l, xs) /\ Remembers(l, g, xs)
    <2>1. Given(o, i) \o g.queue = Iter!Made(l, xs) /\ Remembers(l, g, xs)
        BY <1>3, <1>4 DEF RightAt, GenRight
    <2> QED
        BY <1>3, <1>4, <1>9, <2>1
<1>12. q = Iter!Rest(l, xs)
    BY <1>2, <1>3, <1>4, <1>5, <1>11, StopTaken DEF ChainValues
<1>13. ~Sated(l, xs)
    <2>1. l.op = "take" => Len(xs) <= l.n
        BY <1>11 DEF Remembers
    <2>2. Len(xs) \in Nat /\ l.n \in Nat
        BY <1>2, <1>3 DEF ChainValues, AdapterValues
    <2> QED
        BY <2>1, <2>2 DEF Sated
<1>14. Complete(i - 1)'
    <2> DEFINE n == i - 1
    <2>1. n # i /\ Complete(n) /\ (n = 0 \/ (n \in 1 .. Links /\ n # i))
        BY <1>2
    <2> HIDE DEF n
    <2>2. Complete(n)'
        BY <1>1, <1>7, <1>8, <2>1 DEF Complete
    <2> QED
        BY <2>2 DEF n
<1>15. RightAt(o, i)'
    <2>1. l.op = "take" => Len(xs) <= l.n
        BY <1>11 DEF Remembers
    <2>2. GenRight(l, h, xs, o[i], Complete(i - 1)')
        BY <1>6, <1>11, <1>12, <1>13, <1>14, <2>1 DEF GenRight
    <2>3. links'[i] = l
        BY <1>1
    <2> QED
        BY <1>7, <1>10, <2>2, <2>3 DEF RightAt
<1>16. ToldStop(o, i - 1)'
    BY <1>1, <1>2, <1>6, <1>7, <1>13 DEF ToldStop, Links, Sated
<1>17. LazyAt(o, i)'
    <2>1. Slack(o, i)' = 1
        BY <1>1, <1>2 DEF Slack
    <2>2. ASSUME NEW k \in 0 .. Len(xs)
          PROVE  Len(Iter!Made(l, FirstOf(xs, k))) < Len(o[i]) + 1
        <3>1. Len(o[i]) \in Nat /\ Len(Iter!Made(l, xs)) = Len(o[i])
            BY <1>3, <1>11
        <3> QED
            BY <1>2, <1>3, <2>2, <3>1, NoMoreThanAll
    <2>3. links'[i] = l
        BY <1>1
    <2> QED
        BY <2>1, <2>2, <2>3 DEF LazyAt, GenLazy
<1> QED
    BY <1>4, <1>7, <1>14, <1>15, <1>16, <1>17

(* A generator reads the end. *)
LEMMA StopHistories ==
    ASSUME Control, Control', ChainValues, NEW o, Explains(o), NEW i \in 1 .. Links, Iter!PassStop(i),
           Complete(i - 1)
    PROVE  Explains(o)'
<1>1. /\ reply.is = "stop" /\ mode # "idle" /\ mode' = mode /\ at = i - 1 /\ at' = i /\ links' = links
      /\ reply' = Iter!Ask /\ pos' = pos /\ source' = source /\ received' = received /\ ended' = ended
    BY DEF Iter!PassStop, Iter!Told, Iter!chain, Iter!caller
<1>2. Links \in Nat /\ Links' = Links /\ i - 1 \in 0 .. Links /\ 0 \in 0 .. Links /\ Links \in 0 .. Links /\ i \in Nat
    BY <1>1 DEF Control, ChainTypes, Links
<1>3. reply'.is # "item" /\ reply.is # "item"
    BY <1>1, ReplyKinds
<1>4. /\ RightAt(o, i)' /\ LazyAt(o, i)' /\ ToldStop(o, i - 1)' /\ Complete(i - 1)' /\ ~gens[i].done
      /\ \A j \in 1 .. Links : j # i => gens'[j] = gens[j]
    BY ReaderStops
<1>5. \A k \in 0 .. Links : o[k] \in Seq(Items)
    BY DEF Explains
<1>6. ASSUME NEW k \in 0 .. Links PROVE Given(o, k)' = Given(o, k)
    BY <1>3 DEF Given, Flight
<1>7. ASSUME NEW k \in 0 .. Links PROVE Complete(k) => Complete(k)'
    <2>1. CASE k = 0
        BY <1>1, <1>3, <2>1 DEF Complete
    <2>2. CASE k # 0 /\ k # i
        BY <1>3, <1>4, <2>2 DEF Complete
    <2>3. CASE k # 0 /\ k = i
        BY <1>4, <2>3 DEF Complete
    <2> QED
        BY <2>1, <2>2, <2>3
<1>8. ASSUME NEW k \in 0 .. Links, k # i - 1 PROVE ToldStop(o, k)' <=> ToldStop(o, k)
    <2>1. CASE k = Links
        BY <1>1, <2>1 DEF ToldStop, Links
    <2>2. CASE k # Links
        <3>1. k + 1 \in 1 .. Links /\ k + 1 # i
            BY <1>2, <1>8, <2>2
        <3>2. gens'[k + 1] = gens[k + 1]
            BY <1>4, <3>1
        <3> QED
            BY <1>1, <2>2, <3>2 DEF ToldStop, Links, Sated
    <2> QED
        BY <2>1, <2>2
<1>9. ASSUME NEW k \in 0 .. Links PROVE Slack(o, k) <= Slack(o, k)'
    <2>1. CASE k = i - 1
        <3>1. Slack(o, k)' = 1 /\ Slack(o, k) \in {0, 1}
            BY <1>4, <2>1 DEF Slack
        <3> QED
            BY <3>1
    <2>2. CASE k # i - 1
        <3>1. at <= k => at' <= k
            BY <1>1, <1>2, <2>2
        <3> QED
            BY <1>1, <1>8, <2>2, <3>1 DEF Slack
    <2> QED
        BY <2>1, <2>2
<1>10. ASSUME NEW j \in 1 .. Links, j # i PROVE RightAt(o, j)' /\ LazyAt(o, j)'
    <2>1. j \in 0 .. Links /\ j - 1 \in 0 .. Links /\ j - 1 # i - 1 /\ links[j] \in Adapters /\ links'[j] = links[j]
        BY <1>1, <1>2, <1>10 DEF Control, ChainTypes, Links
    <2>2. RightAt(o, j) /\ LazyAt(o, j)
        BY DEF Explains
    <2>3. gens'[j] = gens[j]
        BY <1>4, <1>10
    <2>4. Slack(o, j) \in {0, 1} /\ Slack(o, j)' \in {0, 1} /\ Len(o[j]) \in Nat /\ Slack(o, j) <= Slack(o, j)'
        BY <1>5, <1>9, <2>1 DEF Slack
    <2>5. Len(o[j]) + Slack(o, j) <= Len(o[j]) + Slack(o, j)'
        BY <2>4
    <2>6. Given(o, j)' \o gens'[j].queue = Given(o, j) \o gens[j].queue
        BY <1>6, <2>1, <2>3
    <2>7. Same(gens[j], gens'[j])
        BY <2>3 DEF Same
    <2>8. (Complete(j - 1) => Complete(j - 1)') /\ (ToldStop(o, j - 1)' => ToldStop(o, j - 1))
        BY <1>7, <1>8, <2>1
    <2>9. o[j] \in Seq(Items) /\ o[j - 1] \in Seq(Items)
        BY <1>5, <2>1
    <2> QED
        BY <2>1, <2>2, <2>5, <2>6, <2>7, <2>8, <2>9, Undisturbed DEF ChainValues
<1>11. Given(o, 0)' = Singles(pos)'
    BY <1>1, <1>2, <1>6 DEF Explains, Singles
<1>12. ended' => Complete(Links)'
    BY <1>1, <1>2, <1>7 DEF Explains, Links
<1>13. \A j \in 1 .. Links : RightAt(o, j)' /\ LazyAt(o, j)'
    BY <1>4, <1>10
<1> QED
    BY <1>1, <1>2, <1>5, <1>11, <1>12, <1>13 DEF Explains

(* Another list: nothing of it was read. *)
LEMMA NewHistories ==
    ASSUME Control, NEW o, Explains(o), NEW list \in Sources, Iter!New(list)
    PROVE  Explains(o)'
<1>1. /\ links' = links /\ links = <<>> /\ reply' = reply /\ pos' = pos /\ source = <<>> /\ received' = received
      /\ ended' = ended /\ ~ended /\ at' = at
    BY DEF Iter!New, Iter!caller
<1>2. Links = 0 /\ Links' = 0 /\ pos = 0
    BY <1>1 DEF Links, Control, ChainTypes
<1>3. Given(o, 0)' = Given(o, 0)
    BY <1>1 DEF Given, Flight
<1>4. Singles(pos)' = Singles(pos)
    BY <1>1, <1>2 DEF Singles
<1> QED
    BY <1>1, <1>2, <1>3, <1>4 DEF Explains

-----------------------------------------------------------------------------
(* A chain is moved into one with one adapter more. *)
LEMMA ReplaceHistories ==
    ASSUME Control, Control', ChainValues, NEW o, Explains(o), NEW l \in Adapters, Iter!Replace(l)
    PROVE  \E p : Explains(p)'
<1> DEFINE g == Iter!NewGen
<1>0. PICK n : n = Links
    OBVIOUS
<1>1. /\ gens' = Append(gens, g) /\ links' = Append(links, l) /\ source' = source /\ pos' = pos
      /\ reply' = reply /\ at' = at /\ ended' = ended /\ ~ended
      /\ mode' = mode /\ mode = "idle" /\ received' = received /\ pos = 0
    BY DEF Iter!Replace, Iter!caller
<1>2. /\ gens \in Seq(Gen) /\ links \in Seq(Adapters) /\ Len(gens) = n /\ n = Len(links) /\ n \in Nat
      /\ 0 \in 0 .. n /\ n \in 0 .. n /\ g \in Gen
    BY <1>0, NewGenKnows DEF Control, ChainTypes, Links, ChainValues
<1>3. received = <<>> /\ reply.is # "item" /\ reply'.is # "item"
    BY <1>1 DEF Control, NothingRead
<1>4. Remembers(l, g, <<>>) /\ g.queue = <<>> /\ ~g.done
    BY NewGenKnows DEF ChainValues, Iter!NewGen
<1> HIDE DEF g
<1>5. /\ Links' = n + 1 /\ gens'[n + 1] = g /\ \A j \in 1 .. n : gens'[j] = gens[j]
      /\ links'[n + 1] = l /\ \A j \in 1 .. n : links'[j] = links[j] /\ links[j] \in Adapters
    BY <1>0, <1>1, <1>2 DEF Links
<1> DEFINE pp == [k \in 0 .. n + 1 |-> IF k <= n THEN o[k] ELSE <<>>]
<1>6. PICK p : p = pp
    OBVIOUS
<1>7. p[n + 1] = <<>> /\ \A k \in 0 .. n : p[k] = o[k]
    BY <1>2, <1>6
<1> HIDE DEF pp
<1>8. \A k \in 0 .. n : o[k] \in Seq(Items)
    BY <1>0 DEF Explains
<1>9. o[n] = <<>>
    BY <1>0, <1>3 DEF Explains
<1>10. ASSUME NEW k \in 0 .. n PROVE Given(p, k)' = Given(o, k)
    BY <1>3, <1>7 DEF Given, Flight
<1>11. ASSUME NEW k \in 0 .. n PROVE Complete(k) => Complete(k)'
    <2>1. CASE k = 0
        BY <1>1, <1>3, <2>1 DEF Complete
    <2>2. CASE k # 0
        BY <1>2, <1>3, <1>5, <2>2 DEF Complete
    <2> QED
        BY <2>1, <2>2
<1>12. ~ToldStop(p, n)'
    <2>1. n # n + 1
        BY <1>2
    <2> QED
        BY <1>4, <1>5, <2>1 DEF ToldStop
<1>13. ASSUME NEW k \in 0 .. n, ToldStop(p, k)' PROVE ToldStop(o, k)
    <2>1. k # n /\ k # n + 1 /\ k + 1 \in 1 .. n
        BY <1>2, <1>12, <1>13
    <2>2. gens'[k + 1] = gens[k + 1] /\ links'[k + 1] = links[k + 1] /\ p[k] = o[k]
        BY <1>5, <1>7, <2>1
    <2> QED
        BY <1>0, <1>5, <1>13, <2>1, <2>2 DEF ToldStop, Sated
<1>14. ASSUME NEW k \in 0 .. n PROVE Slack(o, k) <= Slack(p, k)'
    <2>1. ToldStop(o, k) => ToldStop(p, k)'
        <3>1. CASE k = n
            BY <1>0, <1>1, <3>1 DEF ToldStop
        <3>2. CASE k # n
            <4>1. k # n + 1 /\ k + 1 \in 1 .. n
                BY <1>2, <3>2
            <4>2. gens'[k + 1] = gens[k + 1] /\ links'[k + 1] = links[k + 1] /\ p[k] = o[k]
                BY <1>5, <1>7, <4>1
            <4> QED
                BY <1>0, <1>5, <3>2, <4>1, <4>2 DEF ToldStop, Sated
        <3> QED
            BY <3>1, <3>2
    <2> QED
        BY <1>1, <2>1 DEF Slack
<1>15. ASSUME NEW j \in 1 .. n PROVE RightAt(p, j)' /\ LazyAt(p, j)'
    <2>1. j \in 0 .. n /\ j - 1 \in 0 .. n /\ links'[j] = links[j] /\ gens'[j] = gens[j] /\ links[j] \in Adapters
          /\ j \in 1 .. Links
        BY <1>0, <1>2, <1>5
    <2>2. RightAt(o, j) /\ LazyAt(o, j)
        BY <2>1 DEF Explains
    <2>3. Slack(o, j) \in {0, 1} /\ Slack(p, j)' \in {0, 1} /\ Len(o[j]) \in Nat /\ Slack(o, j) <= Slack(p, j)'
        BY <1>8, <1>14, <2>1 DEF Slack
    <2>4. Len(o[j]) + Slack(o, j) <= Len(p[j]) + Slack(p, j)'
        BY <1>7, <2>1, <2>3
    <2>5. Given(p, j)' \o gens'[j].queue = Given(o, j) \o gens[j].queue
        BY <1>10, <2>1
    <2>6. Same(gens[j], gens'[j])
        BY <2>1 DEF Same
    <2>7. (Complete(j - 1) => Complete(j - 1)') /\ (ToldStop(p, j - 1)' => ToldStop(o, j - 1))
        BY <1>11, <1>13, <2>1
    <2>8. o[j] \in Seq(Items) /\ p[j] \in Seq(Items) /\ o[j - 1] \in Seq(Items) /\ p[j - 1] = o[j - 1]
        BY <1>7, <1>8, <2>1
    <2> QED
        BY <2>1, <2>2, <2>4, <2>5, <2>6, <2>7, <2>8, Undisturbed DEF ChainValues
<1>16. RightAt(p, n + 1)' /\ LazyAt(p, n + 1)'
    <2> DEFINE m == n + 1
    <2>1. m - 1 = n /\ p[m] = <<>> /\ p[n] = <<>> /\ links'[m] = l /\ gens'[m] = g
        BY <1>2, <1>5, <1>7, <1>9
    <2> HIDE DEF m
    <2>2. Given(p, m)' = <<>>
        BY <1>3, <2>1 DEF Given, Flight
    <2>3. Given(p, m)' \o g.queue = <<>> /\ Iter!Made(l, <<>>) = <<>>
        BY <1>4, <2>2, MadeEmpty
    <2>4. RightAt(p, m)'
        BY <1>4, <2>1, <2>3 DEF RightAt, GenRight
    <2>5. LazyAt(p, m)'
        BY <1>12, <2>1 DEF LazyAt, GenLazy
    <2> QED
        BY <2>4, <2>5 DEF m
<1>17. \A k \in 0 .. n + 1 : p[k] \in Seq(Items)
    <2>1. \A k \in 0 .. n + 1 : k = n + 1 \/ k \in 0 .. n
        BY <1>2
    <2>2. <<>> \in Seq(Items)
        OBVIOUS
    <2> QED
        BY <1>7, <1>8, <2>1, <2>2
<1>18. \A j \in 1 .. n + 1 : j = n + 1 \/ j \in 1 .. n
    BY <1>2
<1>19. Given(p, 0)' = Singles(pos)'
    BY <1>1, <1>2, <1>10 DEF Explains, Singles
<1>20. Explains(p)'
    BY <1>1, <1>3, <1>5, <1>7, <1>15, <1>16, <1>17, <1>18, <1>19 DEF Explains
<1> QED
    BY <1>20

-----------------------------------------------------------------------------

(* Initially the chain is empty and nothing was delivered. *)
LEMMA ChainStarts ==
    ASSUME Iter!Init
    PROVE  Control /\ Sound /\ ~broken
<1>1. /\ source = <<>> /\ pos = 0 /\ links = <<>> /\ gens = <<>> /\ at = 0 /\ reply = Iter!Ask
      /\ mode = "idle" /\ top = 0 /\ received = <<>> /\ ended = FALSE /\ broken = FALSE
    BY DEF Iter!Init
<1>2. Links = 0 /\ reply \in Replies /\ reply.is = "ask"
    BY <1>1, ReplyKinds DEF Links
<1>3. Control
    <2>1. /\ <<>> \in Seq(Elements) /\ <<>> \in Seq(Adapters) /\ <<>> \in Seq(Gen) /\ <<>> \in Seq(Items)
          /\ Len(<<>>) = 0
        OBVIOUS
    <2>2. ChainTypes
        <3>1. /\ source \in Seq(Elements) /\ Len(source) = 0 /\ links \in Seq(Adapters)
              /\ gens \in Seq(Gen) /\ Len(gens) = 0 /\ received \in Seq(Items)
            BY <1>1, <2>1
        <3>2. pos = 0 /\ at = 0 /\ top = 0 /\ mode = "idle" /\ ended \in BOOLEAN /\ broken \in BOOLEAN
            BY <1>1
        <3> QED
            BY <1>2, <3>1, <3>2 DEF ChainTypes
    <2>3. Waiting
        BY <1>1 DEF Waiting
    <2>4. NothingRead
        BY <1>1, <1>2 DEF NothingRead
    <2> QED
        BY <2>2, <2>3, <2>4 DEF Control
<1>4. PICK o : o = [k \in 0 .. 0 |-> <<>>]
    OBVIOUS
<1>5. o[0] = <<>> /\ <<>> \in Seq(Items)
    BY <1>4
<1>6. Given(o, 0) = Singles(pos)
    BY <1>1, <1>2, <1>5 DEF Given, Flight, Singles
<1>7. Explains(o)
    <2>1. \A k \in 0 .. Links : k = 0
        BY <1>2
    <2>2. \A k \in 0 .. Links : o[k] \in Seq(Items)
        BY <1>5, <2>1
    <2>3. o[Links] = received /\ ~ended
        BY <1>1, <1>2, <1>5
    <2>4. 1 .. Links = {}
        BY <1>2
    <2> QED
        BY <1>6, <2>2, <2>3, <2>4 DEF Explains
<1> QED
    BY <1>1, <1>2, <1>3, <1>7 DEF Sound

(* A chain in which nothing raised stays explained. *)
LEMMA SoundStep ==
    ASSUME ChainRight, Control', ChainValues, MaxLinks \in Nat, Iter!Next, ~reused', ~broken'
    PROVE  Sound'
<1>1. Control
    BY DEF ChainRight, Control
<1>2. CASE \E list \in Sources : Iter!New(list)
    <2>1. PICK list \in Sources : Iter!New(list)
        BY <1>2
    <2>2. ~broken /\ reply' = reply /\ at' = at /\ gens' = gens /\ pos' = pos /\ mode = "idle" /\ reply = Iter!Ask
        BY <2>1 DEF Iter!New, Iter!caller, ChainRight, Waiting
    <2>3. PICK o : Explains(o)
        BY <2>2 DEF ChainRight, Sound
    <2>4. Explains(o)'
        BY <1>1, <2>1, <2>3, NewHistories
    <2> QED
        BY <2>2, <2>4, ReplyKinds DEF Sound
<1>3. CASE \E l \in Adapters : Iter!Replace(l)
    <2>1. PICK l \in Adapters : Iter!Replace(l)
        BY <1>3
    <2>2. ~broken /\ reply' = reply /\ reply = Iter!Ask
        BY <2>1 DEF Iter!Replace, Iter!caller, ChainRight, Waiting
    <2>3. PICK o : Explains(o)
        BY <2>2 DEF ChainRight, Sound
    <2>4. \E p : Explains(p)'
        BY <1>1, <2>1, <2>3, ReplaceHistories
    <2> QED
        BY <2>2, <2>4, ReplyKinds DEF Sound
<1>4. CASE \E m \in {"next", "to_list"} : Iter!Read(m)
    <2>1. PICK m \in {"next", "to_list"} : Iter!Read(m)
        BY <1>4
    <2>2. ~broken /\ reply' = Iter!Ask
        BY <2>1 DEF Iter!Read, Iter!Call
    <2>3. PICK o : Explains(o)
        BY <2>2 DEF ChainRight, Sound
    <2>4. Explains(o)'
        BY <1>1, <2>1, <2>3, ReadHistories
    <2> QED
        BY <2>2, <2>4, ReplyKinds DEF Sound
<1>5. CASE \E i \in 0 .. MaxLinks - 1 : Iter!ReadMoved(i)
    BY <1>5 DEF Iter!ReadMoved
<1>6. CASE Iter!SourceReplies
    <2>1. ~broken /\ at' = at /\ at = 0 /\ source' = source
        BY <1>6 DEF Iter!SourceReplies, Iter!Asked, Iter!chain
    <2>2. PICK o : Explains(o)
        BY <2>1 DEF ChainRight, Sound
    <2>3. Explains(o)'
        BY <1>1, <1>6, <2>2, SourceHistories
    <2>4. pos \in 0 .. Len(source) /\ Len(source) \in Nat
        BY <1>1 DEF Control, ChainTypes
    <2>5. CASE pos < Len(source)
        <3>1. reply'.is = "item"
            BY <1>6, <2>5, ReplyKinds DEF Iter!SourceReplies
        <3> QED
            BY <2>3, <3>1 DEF Sound
    <2>6. CASE ~(pos < Len(source))
        <3>1. reply'.is = "stop" /\ pos' = Len(source)
            BY <1>6, <2>4, <2>6, ReplyKinds DEF Iter!SourceReplies
        <3>2. Complete(at)'
            BY <2>1, <3>1 DEF Complete
        <3> QED
            BY <2>3, <3>1, <3>2 DEF Sound
    <2> QED
        BY <2>5, <2>6
<1>7. CASE Iter!Return
    <2>1. ~broken /\ reply' = Iter!Ask /\ reply # Iter!Ask /\ reply \in Replies
        BY <1>7, <1>1 DEF Iter!Return, Control, ChainTypes
    <2>2. PICK o : Explains(o)
        BY <2>1 DEF ChainRight, Sound
    <2>3. reply.is = "item" \/ (reply = Iter!Stop /\ Complete(at))
        BY <2>1, ReplyKinds DEF ChainRight, Sound
    <2>4. \E p : Explains(p)'
        BY <1>1, <1>7, <2>2, <2>3, ReturnHistories, EndReturns
    <2> QED
        BY <2>1, <2>4, ReplyKinds DEF Sound
<1>8. ASSUME NEW i \in 1 .. MaxLinks,
             Iter!Yield(i) \/ Iter!Finished(i) \/ Iter!AskBelow(i) \/ Iter!PassItem(i) \/ Iter!PassStop(i)
      PROVE  Sound'
    <2>1. i \in 1 .. Links
        BY <1>1, <1>8, ActsInChain
    <2>2. ~broken
        BY <1>8 DEF Iter!Yield, Iter!Finished, Iter!AskBelow, Iter!PassItem, Iter!PassStop
    <2>3. PICK o : Explains(o)
        BY <2>2 DEF ChainRight, Sound
    <2>4. CASE Iter!Yield(i)
        <3>1. Explains(o)' /\ reply'.is = "item"
            BY <1>1, <2>1, <2>3, <2>4, YieldHistories, ReplyKinds DEF Iter!Yield
        <3> QED
            BY <3>1 DEF Sound
    <2>5. CASE Iter!Finished(i)
        <3>1. Explains(o)' /\ reply'.is = "stop"
            BY <1>1, <2>1, <2>3, <2>5, QuietHistories, ReplyKinds DEF Iter!Finished
        <3>2. at' = i /\ gens' = gens /\ gens[i].queue = <<>> /\ gens[i].done
            BY <2>5 DEF Iter!Finished, Iter!Asked
        <3>3. i # 0
            BY <2>1
        <3>4. Complete(at)'
            BY <3>1, <3>2, <3>3 DEF Complete
        <3> QED
            BY <3>1, <3>4 DEF Sound
    <2>6. CASE Iter!AskBelow(i)
        <3>1. Explains(o)' /\ reply'.is = "ask"
            BY <1>1, <2>1, <2>3, <2>6, QuietHistories, ReplyKinds DEF Iter!AskBelow, Iter!Asked
        <3> QED
            BY <3>1 DEF Sound
    <2>7. CASE Iter!PassItem(i)
        <3>1. (\E p : Explains(p)') /\ reply'.is = "ask"
            BY <2>1, <2>2, <2>3, <2>7, ItemHistories, ReplyKinds DEF Iter!PassItem
        <3> QED
            BY <3>1 DEF Sound
    <2>8. CASE Iter!PassStop(i)
        <3>1. reply.is = "stop" /\ at = i - 1
            BY <2>8 DEF Iter!PassStop, Iter!Told
        <3>2. Complete(i - 1)
            BY <2>2, <3>1 DEF ChainRight, Sound
        <3>3. Explains(o)' /\ reply'.is = "ask"
            BY <1>1, <2>1, <2>3, <2>8, <3>2, StopHistories, ReplyKinds DEF Iter!PassStop
        <3> QED
            BY <3>3 DEF Sound
    <2> QED
        BY <1>8, <2>4, <2>5, <2>6, <2>7, <2>8
<1>9. ASSUME NEW i \in 1 .. MaxLinks,
             Iter!Refuse(i) \/ Iter!CallbackRaises(i) \/ Iter!PassError(i) \/ Iter!StrictRaises(i)
      PROVE  FALSE
    BY <1>9 DEF Iter!Refuse, Iter!CallbackRaises, Iter!PassError, Iter!StrictRaises, Iter!RaiseFrom
<1> QED
    BY <1>2, <1>3, <1>4, <1>5, <1>6, <1>7, <1>8, <1>9 DEF Iter!Next

-----------------------------------------------------------------------------
(* What the adapters make of a list one after the other. *)
Stage == [items : Seq(Items), whole : BOOLEAN]

First(m, w) == [items |-> Singles(m), whole |-> w]

IsStages(f, m, w) ==
    /\ f[0] = First(m, w)
    /\ \A i \in 0 .. Links : f[i] \in Stage
    /\ \A i \in 1 .. Links : f[i] = Iter!Eager(links[i], f[i - 1])

(* The last chunk is an item, if there is one. *)
LEMMA RestType ==
    ASSUME NEW l \in Adapters, AdapterValues, NEW xs \in Seq(Items)
    PROVE  Iter!Rest(l, xs) \in Seq(Items)
<1> DEFINE few == Few(l, xs)
<1>1. few \in 0 .. Len(xs) /\ Len(xs) \in Nat
    BY FewType
<1>2. Iter!Rest(l, xs) = IF l.op \in {"chunk", "batched"} /\ few > 0 THEN <<Flat(LastOf(xs, few))>> ELSE <<>>
    BY DEF Iter!Rest, Iter!When, Few, Flat, LastOf
<1> HIDE DEF few
<1>3. LastOf(xs, few) \in Seq(Items) /\ Len(LastOf(xs, few)) = few
    BY <1>1 DEF LastOf
<1>4. few > 0 => Flat(LastOf(xs, few)) \in Items
    BY <1>3, FlatItems
<1> QED
    BY <1>2, <1>4

(* What an adapter makes of a stage is a stage. *)
LEMMA EagerType ==
    ASSUME NEW l \in Adapters, ChainValues, NEW v \in Stage
    PROVE  /\ Iter!Eager(l, v) \in Stage
           /\ v.items \in Seq(Items) /\ v.whole \in BOOLEAN
           /\ Iter!Made(l, v.items) \in Seq(Items) /\ Iter!Rest(l, v.items) \in Seq(Items)
           /\ v.whole => Iter!Eager(l, v) = [items |-> Iter!Made(l, v.items) \o Iter!Rest(l, v.items), whole |-> TRUE]
           /\ ~v.whole => Iter!Eager(l, v) = [items |-> Iter!Made(l, v.items),
                                              whole |-> l.op = "take" /\ Len(v.items) > l.n]
<1>1. v.items \in Seq(Items) /\ v.whole \in BOOLEAN
    BY DEF Stage
<1>2. Iter!Made(l, v.items) \in Seq(Items) /\ Iter!Rest(l, v.items) \in Seq(Items)
    BY <1>1, MadeType, RestType DEF ChainValues
<1>3. Iter!Made(l, v.items) \o <<>> = Iter!Made(l, v.items)
    BY <1>2
<1>4. v.whole => Iter!Eager(l, v) = [items |-> Iter!Made(l, v.items) \o Iter!Rest(l, v.items), whole |-> TRUE]
    BY <1>1 DEF Iter!Eager
<1>5. ~v.whole => Iter!Eager(l, v) = [items |-> Iter!Made(l, v.items),
                                      whole |-> l.op = "take" /\ Len(v.items) > l.n]
    BY <1>1, <1>3 DEF Iter!Eager
<1>6. Iter!Made(l, v.items) \o Iter!Rest(l, v.items) \in Seq(Items)
    BY <1>2
<1>7. Iter!Eager(l, v) \in Stage
    <2> DEFINE a == Iter!Made(l, v.items) \o Iter!Rest(l, v.items)
               b == Iter!Made(l, v.items)
               t == l.op = "take" /\ Len(v.items) > l.n
    <2>1. t \in BOOLEAN /\ a \in Seq(Items) /\ b \in Seq(Items)
        BY <1>2, <1>6
    <2>2. v.whole => Iter!Eager(l, v) = [items |-> a, whole |-> TRUE]
        BY <1>4
    <2>3. ~v.whole => Iter!Eager(l, v) = [items |-> b, whole |-> t]
        BY <1>5
    <2> HIDE DEF a, b, t
    <2>4. [items |-> a, whole |-> TRUE] \in Stage
        BY <2>1 DEF Stage
    <2>5. [items |-> b, whole |-> t] \in Stage
        BY <2>1 DEF Stage
    <2> DEFINE e == Iter!Eager(l, v)
    <2> HIDE DEF e
    <2>6. CASE v.whole
        BY <2>2, <2>4, <2>6
    <2>7. CASE ~v.whole
        BY <2>3, <2>5, <2>7
    <2> QED
        BY <2>6, <2>7
<1> QED
    BY <1>1, <1>2, <1>4, <1>5, <1>7

(* The first stage holds the elements of the source as items. *)
LEMMA FirstType ==
    ASSUME source \in Seq(Elements), NEW m \in 0 .. Len(source), NEW w \in BOOLEAN
    PROVE  First(m, w) \in Stage /\ Singles(m) \in Seq(Items) /\ Len(Singles(m)) = m
<1>1. \A k \in 1 .. m : <<source[k]>> \in Items
    <2>1. ASSUME NEW k \in 1 .. m PROVE <<source[k]>> \in Items
        <3>1. source[k] \in Elements
            OBVIOUS
        <3> QED
            BY <3>1 DEF Items
    <2> QED
        BY <2>1
<1>2. m \in Nat
    OBVIOUS
<1>3. Singles(m) \in Seq(Items) /\ Len(Singles(m)) = m
    BY <1>1, <1>2 DEF Singles
<1> QED
    BY <1>3 DEF First, Stage

(* ItemsFrom is the last of the stages. *)
LEMMA Stages ==
    ASSUME ChainTypes, ChainValues, NEW m \in 0 .. Len(source), NEW w \in BOOLEAN
    PROVE  \E f : IsStages(f, m, w) /\ Iter!ItemsFrom(m, w) = f[Links].items
<1> DEFINE n == Links
<1>1. n \in Nat /\ First(m, w) \in Stage /\ n \in 0 .. n /\ \A i \in 1 .. n : links[i] \in Adapters
    BY FirstType DEF ChainTypes, Links
<1> HIDE DEF n
<1>2. PICK step : step = [i \in 1 .. n |-> [v \in Stage |-> Iter!Eager(links[i], v)]]
    OBVIOUS
<1>3. \A i \in 1 .. n : \A v \in Stage : step[i][v] = Iter!Eager(links[i], v)
    BY <1>2
<1>4. IsStep(step, Stage, n)
    <2>1. ASSUME NEW i \in 1 .. n, NEW v \in Stage PROVE step[i][v] \in Stage
        <3>1. links[i] \in Adapters
            BY <1>1
        <3>2. Iter!Eager(links[i], v) \in Stage
            BY <3>1, EagerType
        <3> QED
            BY <1>3, <3>2
    <2> QED
        BY <2>1 DEF IsStep
<1>5. PICK f : Follows(f, Stage, n, First(m, w), step)
    BY <1>1, <1>4, Recursion
<1>6. \A i \in 1 .. n : i - 1 \in 0 .. n
    BY <1>1
<1>7. IsStages(f, m, w)
    BY <1>3, <1>5, <1>6 DEF Follows, IsStages, n
<1> DEFINE Rec(g) == g = [i \in 0 .. n |->
                              IF i = 0 THEN [items |-> [k \in 1 .. m |-> <<source[k]>>], whole |-> w]
                              ELSE Iter!Eager(links[i], g[i - 1])]
           c == CHOOSE g : Rec(g)
           g0 == [i \in 0 .. n |-> f[i]]
<1>8. Iter!ItemsFrom(m, w) = c[n].items
    BY DEF Iter!ItemsFrom, n, Links
<1>9. Rec(g0)
    <2>1. ASSUME NEW i \in 0 .. n
          PROVE  f[i] = IF i = 0 THEN [items |-> [k \in 1 .. m |-> <<source[k]>>], whole |-> w]
                        ELSE Iter!Eager(links[i], g0[i - 1])
        <3>1. CASE i = 0
            BY <1>7, <3>1 DEF IsStages, First, Singles
        <3>2. CASE i # 0
            <4>1. i \in 1 .. n /\ i - 1 \in 0 .. n
                BY <1>1, <3>2
            <4>2. g0[i - 1] = f[i - 1]
                BY <4>1
            <4> HIDE DEF g0
            <4> QED
                BY <1>7, <3>2, <4>1, <4>2 DEF IsStages, n
        <3> QED
            BY <3>1, <3>2
    <2> QED
        BY <2>1, Zenon
<1>10. Rec(c)
    <2> HIDE DEF Rec
    <2> QED
        BY <1>9
<1>11. c[0] = f[0]
    <2>1. 0 \in 0 .. n
        BY <1>1
    <2> HIDE DEF c
    <2>2. c[0] = [items |-> [k \in 1 .. m |-> <<source[k]>>], whole |-> w]
        BY <1>10, <2>1
    <2>3. f[0] = [items |-> [k \in 1 .. m |-> <<source[k]>>], whole |-> w]
        BY <1>7 DEF IsStages, First, Singles
    <2> QED
        BY <2>2, <2>3, Zenon
<1>12. ASSUME NEW i \in 1 .. n, c[i - 1] = f[i - 1] PROVE c[i] = f[i]
    <2>1. i \in 0 .. n /\ i # 0
        BY <1>1
    <2> HIDE DEF c
    <2>2. c[i] = Iter!Eager(links[i], c[i - 1])
        BY <1>10, <2>1
    <2>3. f[i] = Iter!Eager(links[i], f[i - 1])
        BY <1>7 DEF IsStages, n
    <2> QED
        BY <1>12, <2>2, <2>3
<1> HIDE DEF c, Rec, g0
<1>13. \A i \in 0 .. n : c[i] = f[i]
    BY <1>1, <1>11, <1>12, Determined
<1>14. Iter!ItemsFrom(m, w) = f[n].items
    BY <1>1, <1>8, <1>13
<1> QED
    BY <1>7, <1>14 DEF n

-----------------------------------------------------------------------------

(* A list begins itself and its continuations. *)
LEMMA BeginsType ==
    ASSUME NEW S, NEW s \in Seq(S), NEW t \in Seq(S)
    PROVE  Begins(s, s) /\ Begins(s, s \o t) /\ Begins(<<>>, s) /\ s \o t \in Seq(S)
<1>1. Begins(s, s) /\ Len(s) \in Nat
    BY DEF Begins
<1>2. Begins(s, s \o t)
    BY <1>1, BeginsConcat
<1>3. Begins(<<>>, s)
    BY <1>1 DEF Begins
<1> QED
    BY <1>2, <1>1, <1>3

(* The beginning of a beginning. *)
LEMMA BeginsTrans ==
    ASSUME NEW S, NEW r \in Seq(S), NEW s \in Seq(S), NEW t \in Seq(S), Begins(r, s), Begins(s, t)
    PROVE  Begins(r, t)
<1>1. Len(r) \in Nat /\ Len(s) \in Nat /\ Len(t) \in Nat /\ Len(r) <= Len(s) /\ Len(s) <= Len(t)
    BY DEF Begins
<1>2. \A k \in 1 .. Len(r) : k \in 1 .. Len(s)
    BY <1>1
<1> QED
    BY <1>1, <1>2 DEF Begins

(* Of two beginnings of a list the shorter begins the longer. *)
LEMMA BeginsShorter ==
    ASSUME NEW S, NEW r \in Seq(S), NEW s \in Seq(S), NEW t \in Seq(S), Begins(r, t), Begins(s, t),
           Len(r) <= Len(s)
    PROVE  Begins(r, s)
<1>1. Len(r) \in Nat /\ Len(s) \in Nat
    OBVIOUS
<1>2. \A k \in 1 .. Len(r) : k \in 1 .. Len(s)
    BY <1>1
<1> QED
    BY <1>2 DEF Begins

(* A beginning is the first entries, and all of them when it is as long. *)
LEMMA BeginsIsFirst ==
    ASSUME NEW S, NEW r \in Seq(S), NEW s \in Seq(S), Begins(r, s)
    PROVE  FirstOf(s, Len(r)) = r /\ Len(r) \in 0 .. Len(s) /\ (Len(r) = Len(s) => r = s)
<1>1. Len(r) \in 0 .. Len(s) /\ \A k \in 1 .. Len(r) : r[k] = s[k]
    BY DEF Begins
<1>2. FirstOf(s, Len(r)) = r
    BY <1>1, FirstAll
<1>3. Len(r) = Len(s) => r = s
    BY <1>1, SameSequence
<1> QED
    BY <1>1, <1>2, <1>3

(* Once take has seen that there is more, the rest of a list does not matter. *)
LEMMA TakenAll ==
    ASSUME NEW l \in Adapters, ChainValues, NEW xs \in Seq(Items), NEW ys \in Seq(Items),
           Begins(xs, ys), Sated(l, xs)
    PROVE  Iter!Made(l, ys) = Iter!Made(l, xs) /\ Iter!Rest(l, ys) = <<>>
<1>1. l.op = "take" /\ Len(xs) = l.n + 1 /\ l.n \in Nat /\ Len(ys) \in Nat /\ Len(xs) <= Len(ys)
    BY DEF Sated, ChainValues, AdapterValues, Begins
<1>2. Iter!Rest(l, ys) = <<>>
    BY <1>1 DEF Iter!Rest, Iter!When
<1> DEFINE a == Len(xs)
           b == Len(ys)
           made(k) == Iter!Made(l, FirstOf(ys, k))
           Wrong == {k \in a .. b : made(k) # Iter!Made(l, xs)}
<1>3. a \in Nat /\ b \in Nat /\ a <= b
    BY <1>1
<1>4. made(a) = Iter!Made(l, xs)
    BY BeginsIsFirst
<1>5. ASSUME NEW k \in a .. b - 1, made(k) = Iter!Made(l, xs) PROVE made(k + 1) = Iter!Made(l, xs)
    <2>1. k \in 0 .. b - 1 /\ k \in 0 .. b /\ ys[k + 1] \in Items
        BY <1>3
    <2>2. FirstOf(ys, k) \in Seq(Items) /\ Len(FirstOf(ys, k)) = k
        BY <2>1, FirstFacts
    <2>3. FirstOf(ys, k + 1) = Append(FirstOf(ys, k), ys[k + 1])
        BY <2>1, FirstNext
    <2> DEFINE s == FirstOf(ys, k)
               v == ys[k + 1]
    <2> HIDE DEF s, v
    <2>4. s \in Seq(Items) /\ v \in Items /\ Len(s) = k
        BY <2>1, <2>2 DEF s, v
    <2>5. Iter!Made(l, Append(s, v)) = Iter!Made(l, s) \o Iter!Yields(l, Append(s, v), Len(s) + 1)
        BY <2>4, MadeAppend DEF ChainValues
    <2>6. ~(k + 1 <= l.n)
        BY <1>1, <1>3
    <2>7. Iter!Yields(l, Append(s, v), k + 1) = <<>>
        BY <1>1, <2>6 DEF Iter!Yields, Iter!When
    <2>8. Iter!Made(l, s) \in Seq(Items)
        BY <2>4, MadeType DEF ChainValues
    <2>9. Iter!Made(l, Append(s, v)) = Iter!Made(l, s)
        BY <2>4, <2>5, <2>7, <2>8
    <2> QED
        BY <1>5, <2>3, <2>9 DEF s, v
<1> HIDE DEF made, a, b
<1>6. Wrong = {}
    <2> SUFFICES ASSUME Wrong # {} PROVE FALSE
        OBVIOUS
    <2>1. Wrong \in SUBSET Nat
        BY <1>3
    <2>2. PICK m \in Wrong : \A k \in Wrong : m <= k
        <3> HIDE DEF Wrong
        <3> QED
            BY <2>1, Least
    <2>3. m \in a .. b /\ m # a /\ made(m) # Iter!Made(l, xs)
        BY <1>4, <2>2
    <2>4. m - 1 \in a .. b - 1 /\ m - 1 \in a .. b /\ (m - 1) + 1 = m /\ ~(m <= m - 1)
        BY <1>3, <2>3
    <2>5. m - 1 \notin Wrong
        <3> HIDE DEF Wrong
        <3> QED
            BY <2>2, <2>4
    <2>6. made(m - 1) = Iter!Made(l, xs)
        BY <2>4, <2>5
    <2> QED
        BY <1>5, <2>3, <2>4, <2>6
<1>7. b \in a .. b
    BY <1>3
<1>8. made(b) = Iter!Made(l, xs)
    BY <1>6, <1>7
<1>9. FirstOf(ys, Len(ys)) = ys
    BY BeginsType, BeginsIsFirst
<1>10. Iter!Made(l, ys) = Iter!Made(l, xs)
    BY <1>8, <1>9 DEF made, b
<1> QED
    BY <1>2, <1>10

(* What a generator has given begins what it has made of what it read. *)
LEMMA GivesWhatItMade ==
    ASSUME ChainTypes, ChainValues, NEW o, Explains(o), NEW i \in 1 .. Links
    PROVE  /\ links[i] \in Adapters /\ gens[i] \in Gen
           /\ o[i] \in Seq(Items) /\ o[i - 1] \in Seq(Items)
           /\ Iter!Made(links[i], o[i - 1]) \in Seq(Items) /\ Iter!Rest(links[i], o[i - 1]) \in Seq(Items)
           /\ Flight(i) \in Seq(Items) /\ gens[i].queue \in Seq(Items)
           /\ Begins(o[i], Given(o, i) \o gens[i].queue)
           /\ Complete(i) => Given(o, i) \o gens[i].queue = o[i]
<1>1. /\ links[i] \in Adapters /\ gens[i] \in Gen /\ i \in 0 .. Links /\ i - 1 \in 0 .. Links /\ i # 0
      /\ reply \in Replies
    BY DEF ChainTypes, Links
<1>2. o[i] \in Seq(Items) /\ o[i - 1] \in Seq(Items)
    BY <1>1 DEF Explains
<1>3. Iter!Made(links[i], o[i - 1]) \in Seq(Items) /\ Iter!Rest(links[i], o[i - 1]) \in Seq(Items)
    BY <1>1, <1>2, MadeType, RestType DEF ChainValues
<1>4. gens[i].queue \in Seq(Items)
    BY <1>1 DEF Gen
<1>5. Flight(i) \in Seq(Items)
    <2>1. CASE reply.is = "item"
        <3>1. reply.value \in Items
            BY <1>1, <2>1, ReplyKinds
        <3> QED
            BY <3>1 DEF Flight
    <2>2. CASE reply.is # "item"
        BY <2>2 DEF Flight
    <2> QED
        BY <2>1, <2>2
<1> DEFINE a == o[i]
           b == Flight(i)
           c == gens[i].queue
<1> HIDE DEF a, b, c
<1>6. a \in Seq(Items) /\ b \in Seq(Items) /\ c \in Seq(Items)
    BY <1>2, <1>4, <1>5 DEF a, b, c
<1>7. a \o b \in Seq(Items) /\ Begins(a, a \o b)
    BY <1>6, BeginsType
<1>8. Begins(a, (a \o b) \o c)
    BY <1>6, <1>7, BeginsConcat
<1>9. (a \o <<>>) \o <<>> = a
    BY <1>6
<1>10. Complete(i) => b = <<>> /\ c = <<>>
    BY <1>1 DEF Complete, Flight, b, c
<1>11. Given(o, i) \o gens[i].queue = (a \o b) \o c
    BY DEF Given, a, b, c
<1> QED
    BY <1>1, <1>2, <1>3, <1>4, <1>5, <1>8, <1>9, <1>10, <1>11 DEF a

-----------------------------------------------------------------------------
(* Induction over the generators of a chain. *)
EagerAt(o, f, i) ==
    /\ f[i].whole /\ Begins(o[i], f[i].items)
    /\ Complete(i) => o[i] = f[i].items

(* The source gives its elements in order, and all when it ends. *)
LEMMA EagerFirst ==
    ASSUME ChainTypes, ChainValues, NEW o, Explains(o), NEW f, IsStages(f, Len(source), TRUE)
    PROVE  EagerAt(o, f, 0)
<1> DEFINE n == Len(source)
<1>1. /\ source \in Seq(Elements) /\ n \in Nat /\ pos \in 0 .. n /\ n \in 0 .. n /\ 0 \in 0 .. Links /\ reply \in Replies
      /\ 1 .. pos \subseteq 1 .. n
    BY DEF ChainTypes, Links
<1>2. f[0].items = Singles(n) /\ f[0].whole
    BY DEF IsStages, First
<1> HIDE DEF n
<1>3. o[0] \in Seq(Items) /\ o[0] \o Flight(0) = Singles(pos)
    BY <1>1 DEF Explains, Given
<1>4. /\ Singles(n) \in Seq(Items) /\ Len(Singles(n)) = n
      /\ Singles(pos) \in Seq(Items) /\ Len(Singles(pos)) = pos
    BY <1>1, FirstType DEF n
<1>5. Begins(Singles(pos), Singles(n))
    <2>1. \A k \in 1 .. pos : Singles(pos)[k] = Singles(n)[k]
        BY <1>1 DEF Singles
    <2> QED
        BY <1>1, <1>4, <2>1 DEF Begins
<1>6. Flight(0) \in Seq(Items)
    <2>1. CASE reply.is = "item"
        <3>1. reply.value \in Items
            BY <1>1, <2>1, ReplyKinds
        <3> QED
            BY <3>1 DEF Flight
    <2>2. CASE reply.is # "item"
        BY <2>2 DEF Flight
    <2> QED
        BY <2>1, <2>2
<1>7. Begins(o[0], Singles(pos))
    BY <1>3, <1>6, BeginsType
<1>8. Begins(o[0], Singles(n))
    BY <1>3, <1>4, <1>5, <1>7, BeginsTrans
<1>9. ASSUME Complete(0) PROVE o[0] = Singles(n)
    <2>1. Flight(0) = <<>> /\ pos = n
        BY <1>9 DEF Complete, Flight, n
    <2>2. o[0] \o <<>> = o[0]
        BY <1>3
    <2> QED
        BY <1>3, <2>1, <2>2
<1> QED
    BY <1>2, <1>8, <1>9 DEF EagerAt

(* From one generator to the next: of the beginning of a list an adapter makes a
   beginning, of all of it all. *)
LEMMA EagerNext ==
    ASSUME ChainTypes, ChainValues, NEW o, Explains(o), NEW f, IsStages(f, Len(source), TRUE),
           NEW i \in 1 .. Links, EagerAt(o, f, i - 1)
    PROVE  EagerAt(o, f, i)
<1> DEFINE l == links[i]
           xs == o[i - 1]
           ys == f[i - 1].items
           given == Given(o, i) \o gens[i].queue
<1>1. /\ l \in Adapters /\ o[i] \in Seq(Items) /\ xs \in Seq(Items)
      /\ Iter!Made(l, xs) \in Seq(Items) /\ Iter!Rest(l, xs) \in Seq(Items)
      /\ Begins(o[i], given) /\ (Complete(i) => given = o[i])
    BY GivesWhatItMade
<1>2. i \in 0 .. Links /\ i - 1 \in 0 .. Links /\ i # 0
    BY DEF ChainTypes, Links
<1>3. f[i - 1] \in Stage /\ f[i] = Iter!Eager(l, f[i - 1]) /\ f[i - 1].whole /\ Begins(xs, ys)
      /\ (Complete(i - 1) => xs = ys)
    BY <1>2 DEF IsStages, EagerAt
<1>4. /\ ys \in Seq(Items) /\ Iter!Made(l, ys) \in Seq(Items) /\ Iter!Rest(l, ys) \in Seq(Items)
      /\ f[i].items = Iter!Made(l, ys) \o Iter!Rest(l, ys) /\ f[i].whole
    <2> HIDE DEF l
    <2>1. ys \in Seq(Items) /\ Iter!Made(l, ys) \in Seq(Items) /\ Iter!Rest(l, ys) \in Seq(Items)
        BY <1>1, <1>3, EagerType
    <2>2. f[i] = [items |-> Iter!Made(l, ys) \o Iter!Rest(l, ys), whole |-> TRUE]
        BY <1>1, <1>3, EagerType
    <2> HIDE DEF ys
    <2> QED
        BY <2>1, <2>2
<1> DEFINE X == f[i].items
<1>5. GenRight(l, gens[i], xs, Given(o, i), Complete(i - 1))
    BY DEF Explains, RightAt
<1> HIDE DEF l, xs, ys, given, X
<1>6. Begins(Iter!Made(l, xs), Iter!Made(l, ys))
    BY <1>1, <1>3, <1>4, MadeBegins DEF ChainValues, Begins
<1>7. X \in Seq(Items) /\ Begins(Iter!Made(l, xs), X)
    BY <1>1, <1>4, <1>6, BeginsConcat, BeginsType DEF X
<1>8. CASE ~gens[i].done
    <2>1. given = Iter!Made(l, xs)
        BY <1>5, <1>8 DEF GenRight, given
    <2>2. Begins(o[i], X)
        BY <1>1, <1>7, <2>1, BeginsTrans
    <2>3. ~Complete(i)
        BY <1>2, <1>8 DEF Complete
    <2> QED
        BY <1>4, <2>2, <2>3 DEF EagerAt, X
<1>9. CASE gens[i].done /\ Sated(l, xs)
    <2>1. given = Iter!Made(l, xs)
        BY <1>5, <1>9 DEF GenRight, given
    <2>2. Begins(o[i], X)
        BY <1>1, <1>7, <2>1, BeginsTrans
    <2>3. Iter!Made(l, ys) = Iter!Made(l, xs) /\ Iter!Rest(l, ys) = <<>>
        BY <1>1, <1>3, <1>4, <1>9, TakenAll
    <2>4. X = Iter!Made(l, xs)
        BY <1>1, <1>4, <2>3 DEF X
    <2> QED
        BY <1>1, <1>4, <2>1, <2>2, <2>4 DEF EagerAt, X
<1>10. CASE gens[i].done /\ ~Sated(l, xs)
    <2>1. given = Iter!Made(l, xs) \o Iter!Rest(l, xs) /\ Complete(i - 1)
        BY <1>5, <1>10 DEF GenRight, given
    <2>2. given = X
        BY <1>3, <1>4, <2>1 DEF X
    <2> QED
        BY <1>1, <1>4, <2>2 DEF EagerAt, X
<1> QED
    BY <1>8, <1>9, <1>10

(* So it is for the last one. *)
LEMMA EagerAll ==
    ASSUME ChainTypes, ChainValues, NEW o, Explains(o), NEW f, IsStages(f, Len(source), TRUE)
    PROVE  EagerAt(o, f, Links)
<1> DEFINE Wrong == {i \in 0 .. Links : ~EagerAt(o, f, i)}
<1>1. Links \in Nat
    BY DEF ChainTypes, Links
<1>2. Wrong = {}
    <2> SUFFICES ASSUME Wrong # {} PROVE FALSE
        OBVIOUS
    <2>1. Wrong \in SUBSET Nat
        BY <1>1
    <2>2. PICK m \in Wrong : \A k \in Wrong : m <= k
        <3> HIDE DEF Wrong
        <3> QED
            BY <2>1, Least
    <2>3. m \in 0 .. Links /\ m # 0 /\ ~EagerAt(o, f, m)
        BY <2>2, EagerFirst
    <2>4. m \in 1 .. Links /\ m - 1 \in 0 .. Links /\ ~(m <= m - 1)
        BY <1>1, <2>3
    <2>5. m - 1 \notin Wrong
        <3> HIDE DEF Wrong
        <3> QED
            BY <2>2, <2>4
    <2>6. EagerAt(o, f, m - 1)
        BY <2>4, <2>5
    <2> QED
        BY <2>3, <2>4, <2>6, EagerNext
<1> QED
    BY <1>1, <1>2

(* What the caller got begins what the adapters make of the whole list. *)
LEMMA EagerPrefix ==
    ASSUME ChainTypes, ChainValues, NEW o, Explains(o)
    PROVE  /\ Begins(received, Iter!ItemsFrom(Len(source), TRUE))
           /\ Iter!ItemsFrom(Len(source), TRUE) \in Seq(Items)
           /\ ended => received = Iter!ItemsFrom(Len(source), TRUE)
<1>1. Len(source) \in 0 .. Len(source) /\ Links \in 0 .. Links
    BY DEF ChainTypes, Links
<1>2. PICK f : IsStages(f, Len(source), TRUE) /\ Iter!ItemsFrom(Len(source), TRUE) = f[Links].items
    BY <1>1, Stages
<1>3. EagerAt(o, f, Links)
    BY <1>2, EagerAll
<1>4. f[Links].items \in Seq(Items)
    BY <1>1, <1>2 DEF IsStages, Stage
<1>5. o[Links] = received /\ (ended => Complete(Links))
    BY DEF Explains
<1> QED
    BY <1>2, <1>3, <1>4, <1>5 DEF EagerAt

-----------------------------------------------------------------------------
(* Fewer elements would not have done: between two calls, what the adapters
   make of less is less, or the generator above has heard that this is all. *)
LessAt(o, f, i) ==
    /\ ~f[i].whole /\ Begins(f[i].items, o[i])
    /\ Len(f[i].items) < Len(o[i]) \/ ToldStop(o, i)

(* The source has given more than the first m elements. *)
LEMMA LessFirst ==
    ASSUME ChainTypes, ChainValues, Waiting, mode = "idle", NEW o, Explains(o), NEW m \in 0 .. pos - 1,
           NEW f, IsStages(f, m, FALSE)
    PROVE  LessAt(o, f, 0)
<1>1. /\ source \in Seq(Elements) /\ Len(source) \in Nat /\ pos \in 0 .. Len(source) /\ m \in 0 .. Len(source)
      /\ 0 \in 0 .. Links /\ m < pos /\ 1 .. m \subseteq 1 .. pos
    BY DEF ChainTypes, Links
<1>2. f[0].items = Singles(m) /\ ~f[0].whole
    BY DEF IsStages, First
<1>3. reply.is # "item"
    BY ReplyKinds DEF Waiting
<1>4. o[0] = Singles(pos)
    BY <1>1, <1>3, NoFlight DEF Explains
<1>5. Len(Singles(m)) = m /\ Len(Singles(pos)) = pos
    BY <1>1, FirstType
<1>6. \A k \in 1 .. m : Singles(m)[k] = Singles(pos)[k]
    BY <1>1 DEF Singles
<1>7. Begins(Singles(m), Singles(pos))
    BY <1>1, <1>5, <1>6 DEF Begins
<1> QED
    BY <1>1, <1>2, <1>4, <1>5, <1>7 DEF LessAt

(* From one generator to the next: of less than it has read its adapter makes less
   than it has given. *)
LEMMA LessNext ==
    ASSUME ChainTypes, ChainValues, Waiting, mode = "idle", NEW o, Explains(o), NEW m \in 0 .. pos - 1,
           NEW f, IsStages(f, m, FALSE), NEW i \in 1 .. Links, LessAt(o, f, i - 1)
    PROVE  LessAt(o, f, i)
<1> DEFINE l == links[i]
           xs == o[i - 1]
           ys == f[i - 1].items
           k == Len(ys)
           given == Given(o, i) \o gens[i].queue
<1>1. /\ l \in Adapters /\ o[i] \in Seq(Items) /\ xs \in Seq(Items)
      /\ Iter!Made(l, xs) \in Seq(Items) /\ Iter!Rest(l, xs) \in Seq(Items)
      /\ Begins(o[i], given) /\ gens[i].queue \in Seq(Items)
    BY GivesWhatItMade
<1>2. i \in 0 .. Links /\ i - 1 \in 0 .. Links /\ i # 0 /\ i - 1 # Links /\ (i - 1) + 1 = i
    BY DEF ChainTypes, Links
<1>3. f[i - 1] \in Stage /\ f[i] = Iter!Eager(l, f[i - 1]) /\ ~f[i - 1].whole /\ Begins(ys, xs)
      /\ (k < Len(xs) \/ ToldStop(o, i - 1))
    BY <1>2 DEF IsStages, LessAt
<1>4. /\ ys \in Seq(Items) /\ Iter!Made(l, ys) \in Seq(Items)
      /\ f[i].items = Iter!Made(l, ys) /\ (f[i].whole <=> l.op = "take" /\ Len(ys) > l.n)
    <2> HIDE DEF l
    <2>1. ys \in Seq(Items) /\ Iter!Made(l, ys) \in Seq(Items)
        BY <1>1, <1>3, EagerType
    <2>2. f[i] = [items |-> Iter!Made(l, ys), whole |-> l.op = "take" /\ Len(ys) > l.n]
        BY <1>1, <1>3, EagerType
    <2> DEFINE t == l.op = "take" /\ Len(ys) > l.n
    <2>3. f[i].items = Iter!Made(l, ys)
        BY <2>2
    <2>4. f[i].whole = t
        <3>1. f[i] = [items |-> Iter!Made(l, ys), whole |-> t]
            BY <2>2
        <3> HIDE DEF t, ys
        <3> QED
            BY <3>1
    <2> HIDE DEF ys
    <2> QED
        BY <2>1, <2>3, <2>4
<1>5. GenRight(l, gens[i], xs, Given(o, i), Complete(i - 1))
    BY DEF Explains, RightAt
<1>6. GenLazy(l, xs, Len(o[i]) + Slack(o, i), ToldStop(o, i - 1))
    BY DEF Explains, LazyAt
<1>7. ToldStop(o, i - 1) <=> gens[i].done /\ ~Sated(l, xs)
    BY <1>2 DEF ToldStop
<1>8. given = o[i] \o gens[i].queue
    <2>1. reply.is # "item"
        BY ReplyKinds DEF Waiting
    <2> QED
        BY <1>1, <2>1, NoFlight
<1> HIDE DEF l, xs, ys, given
<1>9. FirstOf(xs, k) = ys /\ k \in 0 .. Len(xs)
    BY <1>1, <1>3, <1>4, BeginsIsFirst
<1>10. Len(Iter!Made(l, ys)) < Len(o[i]) + Slack(o, i)
    BY <1>3, <1>6, <1>9 DEF GenLazy
<1>11. Slack(o, i) = IF ToldStop(o, i) THEN 1 ELSE 0
    BY DEF Slack
<1>12. Len(Iter!Made(l, ys)) \in Nat /\ Len(o[i]) \in Nat
    BY <1>1, <1>4
<1>13. Len(Iter!Made(l, ys)) <= Len(o[i]) /\ (Len(Iter!Made(l, ys)) < Len(o[i]) \/ ToldStop(o, i))
    <2>1. CASE ToldStop(o, i)
        BY <1>10, <1>11, <1>12, <2>1
    <2>2. CASE ~ToldStop(o, i)
        BY <1>10, <1>11, <1>12, <2>2
    <2> QED
        BY <2>1, <2>2
<1>14. Begins(Iter!Made(l, ys), Iter!Made(l, xs))
    BY <1>1, <1>3, <1>4, MadeBegins DEF ChainValues, Begins
<1>15. given \in {Iter!Made(l, xs), Iter!Made(l, xs) \o Iter!Rest(l, xs)}
    BY <1>5 DEF GenRight, given
<1>16. given \in Seq(Items) /\ Begins(Iter!Made(l, ys), given)
    <2>1. Begins(Iter!Made(l, ys), Iter!Made(l, xs) \o Iter!Rest(l, xs))
        BY <1>1, <1>4, <1>14, BeginsConcat
    <2>2. Iter!Made(l, xs) \o Iter!Rest(l, xs) \in Seq(Items)
        BY <1>1
    <2> QED
        BY <1>1, <1>14, <1>15, <2>1, <2>2
<1>17. Begins(Iter!Made(l, ys), o[i])
    BY <1>1, <1>4, <1>13, <1>16, BeginsShorter
<1>18. ~f[i].whole
    <2>1. ASSUME l.op = "take", k > l.n PROVE FALSE
        <3>1. l.n \in Nat /\ Len(xs) \in Nat
            BY <1>1 DEF ChainValues, AdapterValues
        <3>2. CASE Sated(l, xs)
            <4>1. ~ToldStop(o, i - 1) /\ Len(xs) = l.n + 1
                BY <1>7, <3>2 DEF Sated
            <4> QED
                BY <1>3, <1>9, <2>1, <3>1, <4>1
        <3>3. CASE ~Sated(l, xs)
            <4>1. Len(xs) <= l.n
                BY <1>5, <2>1, <3>3 DEF GenRight, Remembers
            <4> QED
                BY <1>9, <2>1, <3>1, <4>1
        <3> QED
            BY <3>2, <3>3
    <2> QED
        BY <1>4, <2>1
<1> QED
    BY <1>4, <1>13, <1>17, <1>18 DEF LessAt

(* So it is for the caller: of fewer elements the chain makes less than it got. *)
LEMMA NeedsAll ==
    ASSUME ChainTypes, ChainValues, Waiting, mode = "idle", ~ended, NEW o, Explains(o), NEW m \in 0 .. pos - 1
    PROVE  Len(Iter!ItemsFrom(m, FALSE)) < Len(received)
<1>1. m \in 0 .. Len(source) /\ Links \in Nat
    BY DEF ChainTypes, Links
<1>2. PICK f : IsStages(f, m, FALSE) /\ Iter!ItemsFrom(m, FALSE) = f[Links].items
    BY <1>1, Stages
<1> DEFINE Wrong == {i \in 0 .. Links : ~LessAt(o, f, i)}
<1>3. Wrong = {}
    <2> SUFFICES ASSUME Wrong # {} PROVE FALSE
        OBVIOUS
    <2>1. Wrong \in SUBSET Nat
        BY <1>1
    <2>2. PICK j \in Wrong : \A k \in Wrong : j <= k
        <3> HIDE DEF Wrong
        <3> QED
            BY <2>1, Least
    <2>3. j \in 0 .. Links /\ j # 0 /\ ~LessAt(o, f, j)
        BY <1>2, <2>2, LessFirst
    <2>4. j \in 1 .. Links /\ j - 1 \in 0 .. Links /\ ~(j <= j - 1)
        BY <1>1, <2>3
    <2>5. j - 1 \notin Wrong
        <3> HIDE DEF Wrong
        <3> QED
            BY <2>2, <2>4
    <2>6. LessAt(o, f, j - 1)
        BY <2>4, <2>5
    <2> QED
        BY <1>2, <2>3, <2>4, <2>6, LessNext
<1>4. LessAt(o, f, Links)
    BY <1>1, <1>3
<1>5. o[Links] = received /\ ~ToldStop(o, Links)
    BY DEF Explains, ToldStop
<1> QED
    BY <1>2, <1>4, <1>5 DEF LessAt

-----------------------------------------------------------------------------
(* Exceptions. *)
LEMMA SameEager ==
    ASSUME links' = links, source' = source
    PROVE  Iter!ItemsFrom(Len(source), TRUE)' = Iter!ItemsFrom(Len(source), TRUE)
BY DEF Iter!ItemsFrom

(* The generators above one that is left by an exception are waiting. *)
LEMMA Breaks ==
    ASSUME Control, NEW i \in 1 .. Links, Iter!RaiseFrom(i), mode # "idle", at \in {i - 1, i},
           gens[i].queue = <<>>
    PROVE  DeadFrom(i)' /\ links' = links /\ source' = source /\ received' = received
<1>1. /\ at' = i /\ reply' = Iter!Error /\ mode' = mode /\ links' = links /\ source' = source /\ received' = received
    BY DEF Iter!RaiseFrom, Iter!chain, Iter!caller
<1>2. /\ Links \in Nat /\ Links' = Links /\ Len(gens) = Links /\ gens[i] \in Gen /\ i >= i
      /\ reply'.is = "error"
    BY <1>1, ReplyKinds DEF Control, ChainTypes, Links
<1>3. Changed(i, Dropped(gens[i]))
    BY Drops DEF Control
<1>4. gens'[i].done /\ gens'[i].queue = <<>>
    BY <1>2, <1>3, DroppedGen DEF Changed
<1>5. ASSUME NEW j \in i .. Links, j # i
      PROVE  gens'[j].queue = <<>> /\ at' < j
    <2>1. j \in 1 .. Links /\ j \in at + 1 .. Links /\ i < j
        BY <1>2, <1>5
    <2>2. gens'[j] = gens[j]
        BY <1>2, <1>3, <1>5, <2>1 DEF Changed
    <2>3. gens[j].queue = <<>>
        BY <2>1 DEF Control, Waiting
    <2> QED
        BY <1>1, <2>1, <2>2, <2>3
<1>6. \A j \in i .. Links : /\ gens'[j].queue = <<>>
                            /\ gens'[j].done \/ (mode' # "idle" /\ reply'.is = "error" /\ at' < j)
    BY <1>1, <1>2, <1>4, <1>5
<1>7. DeadFrom(i)'
    BY <1>1, <1>2, <1>4, <1>6 DEF DeadFrom
<1> QED
    BY <1>1, <1>7

(* A step after an exception. *)
Still(b) == DeadFrom(b)' /\ received' = received

(* A generator b that ended with an exception, and a step of generator i. *)
LEMMA DeadGenerator ==
    ASSUME Control, Control', NEW b \in 1 .. Links, DeadFrom(b), NEW i \in 1 .. Links,
           \/ Iter!Yield(i) \/ Iter!Finished(i) \/ Iter!AskBelow(i) \/ Iter!Refuse(i)
           \/ Iter!PassItem(i) \/ Iter!CallbackRaises(i) \/ Iter!PassError(i)
           \/ Iter!PassStop(i) \/ Iter!StrictRaises(i)
    PROVE  Still(b) /\ links' = links /\ source' = source
<1>1. /\ links' = links /\ source' = source /\ received' = received /\ mode' = mode /\ mode # "idle"
      /\ at = i \/ at = i - 1
    BY DEF Iter!Yield, Iter!Finished, Iter!AskBelow, Iter!Refuse, Iter!PassItem, Iter!CallbackRaises,
           Iter!PassError, Iter!PassStop, Iter!StrictRaises, Iter!Asked, Iter!Told, Iter!RaiseFrom,
           Iter!chain, Iter!caller
<1>2. /\ Links \in Nat /\ Links' = Links /\ Len(gens) = Links /\ gens \in Seq(Gen) /\ gens[i] \in Gen
      /\ at \in 0 .. Links /\ i >= b /\ b \in Nat /\ i \in Nat /\ i \in b .. Links /\ reply \in Replies
    <2>1. /\ Links \in Nat /\ Len(gens) = Links /\ gens \in Seq(Gen) /\ at \in 0 .. Links /\ reply \in Replies
        BY DEF Control, ChainTypes, Links
    <2>2. Links' = Links
        BY <1>1 DEF Links
    <2>3. at >= b
        BY <1>1 DEF DeadFrom
    <2>4. gens[i] \in Gen
        BY <2>1
    <2>5. i >= b
        BY <1>1, <2>1, <2>3
    <2> QED
        BY <2>1, <2>2, <2>4, <2>5
<1>3. /\ gens[b].done /\ at >= b /\ reply.is # "item"
      /\ \A j \in b .. Links : gens[j].queue = <<>>
      /\ \A j \in b .. Links : gens[j].done \/ gens[j].buffer = <<>> \/ (reply.is = "error" /\ at < j)
    BY <1>1 DEF DeadFrom
<1>4. ~Iter!Yield(i) /\ ~Iter!PassItem(i) /\ ~Iter!CallbackRaises(i)
    BY <1>2, <1>3 DEF Iter!Yield, Iter!PassItem, Iter!CallbackRaises, Iter!Told
<1>5. CASE Iter!Finished(i)
    <2>1. gens' = gens /\ reply' = Iter!Stop /\ at' = at /\ reply = Iter!Ask
        BY <1>5 DEF Iter!Finished, Iter!Asked
    <2>2. reply'.is # "item" /\ reply.is # "error"
        BY <2>1, ReplyKinds
    <2> QED
        BY <1>1, <1>2, <1>3, <2>1, <2>2 DEF DeadFrom, Still
<1>6. CASE Iter!AskBelow(i)
    <2>1. gens' = gens /\ reply' = reply /\ at' = at - 1 /\ at = i /\ reply = Iter!Ask /\ ~gens[i].done
        BY <1>6 DEF Iter!AskBelow, Iter!Asked
    <2>2. reply'.is # "item" /\ reply.is # "error" /\ at' >= b
        BY <1>2, <1>3, <2>1, ReplyKinds
    <2> QED
        BY <1>1, <1>2, <1>3, <2>1, <2>2 DEF DeadFrom, Still
<1>7. CASE Iter!Refuse(i) \/ Iter!PassError(i) \/ Iter!StrictRaises(i)
    <2>1. Iter!RaiseFrom(i)
        BY <1>7 DEF Iter!Refuse, Iter!PassError, Iter!StrictRaises
    <2>2. at' = i /\ reply'.is = "error"
        BY <2>1, ReplyKinds DEF Iter!RaiseFrom
    <2>3. Changed(i, Dropped(gens[i]))
        BY <2>1, Drops DEF Control
    <2>4. gens'[i].done /\ gens'[i].queue = <<>>
        BY <1>2, <1>3, <2>3, DroppedGen DEF Changed
    <2>5. ASSUME NEW j \in b .. Links, j # i PROVE gens'[j] = gens[j]
        <3>1. j \in 1 .. Len(gens)
            BY <1>2
        <3> QED
            BY <2>3, <2>5, <3>1 DEF Changed
    <2>6. gens'[b].done
        BY <1>2, <1>3, <2>4, <2>5
    <2>7. ASSUME NEW j \in b .. Links
          PROVE  /\ gens'[j].queue = <<>>
                 /\ gens'[j].done \/ gens'[j].buffer = <<>> \/ at' < j
        <3>1. CASE j = i
            BY <2>4, <3>1
        <3>2. CASE j # i
            <4>1. at < j => at' < j
                BY <1>1, <1>2, <2>2, <3>2
            <4> QED
                BY <1>3, <2>5, <3>2, <4>1
        <3> QED
            BY <3>1, <3>2
    <2> QED
        BY <1>1, <1>2, <2>2, <2>6, <2>7 DEF DeadFrom, Still
<1>8. CASE Iter!PassStop(i)
    <2>1. at' = i /\ reply' = Iter!Ask /\ reply.is = "stop" /\ at = i - 1
        BY <1>8 DEF Iter!PassStop, Iter!Told
    <2>2. PICK q \in Seq(Items) : Changed(i, Stopped(gens[i], q)) /\ q = IF gens[i].buffer # <<>> THEN <<gens[i].buffer>> ELSE <<>>
        BY <1>8, StopArrives DEF Control
    <2>3. ~gens[i].done
        BY <1>8, StopArrives DEF Control
    <2>4. q = <<>>
        BY <1>2, <1>3, <2>1, <2>2, <2>3
    <2>5. gens'[i].done /\ gens'[i].queue = <<>>
        <3>1. gens'[i] = Stopped(gens[i], q)
            BY <2>2 DEF Changed
        <3>2. Stopped(gens[i], q).queue = q /\ Stopped(gens[i], q).done = TRUE
            BY <1>2, StoppedGen
        <3> QED
            BY <2>4, <3>1, <3>2
    <2>6. ASSUME NEW j \in b .. Links, j # i PROVE gens'[j] = gens[j]
        <3>1. j \in 1 .. Len(gens)
            BY <1>2
        <3> QED
            BY <2>2, <2>6, <3>1 DEF Changed
    <2>7. reply'.is # "item" /\ i >= b
        BY <1>2, <2>1, ReplyKinds
    <2>8. gens'[b].done
        BY <1>2, <1>3, <2>5, <2>6
    <2>9. ASSUME NEW j \in b .. Links
          PROVE  gens'[j].queue = <<>> /\ (gens'[j].done \/ gens'[j].buffer = <<>>)
        BY <1>3, <2>1, <2>5, <2>6
    <2> QED
        BY <1>1, <1>2, <2>1, <2>7, <2>8, <2>9 DEF DeadFrom, Still
<1> QED
    BY <1>1, <1>4, <1>5, <1>6, <1>7, <1>8

(* What the caller does after an exception. *)
LEMMA DeadCaller ==
    ASSUME Control, NEW b \in 1 .. Links, DeadFrom(b),
           (\E m \in {"next", "to_list"} : Iter!Read(m)) \/ Iter!SourceReplies \/ Iter!Return
           \/ (\E list \in Sources : Iter!New(list))
    PROVE  Still(b) /\ links' = links /\ source' = source
<1>1. /\ Links \in Nat /\ 1 .. Links # {} /\ b \in Nat /\ b >= 1 /\ b <= Links
      /\ at \in 0 .. Links /\ reply \in Replies
    BY DEF Control, ChainTypes, Links
<1>2. CASE \E m \in {"next", "to_list"} : Iter!Read(m)
    <2>1. /\ gens' = gens /\ links' = links /\ source' = source /\ received' = received /\ mode = "idle"
          /\ at' = Links /\ reply' = Iter!Ask
        BY <1>2 DEF Iter!Read, Iter!Call, Iter!chain, Links
    <2>2. reply'.is # "item" /\ Links' = Links
        BY <2>1, ReplyKinds DEF Links
    <2> QED
        BY <1>1, <2>1, <2>2 DEF DeadFrom, Still
<1>3. CASE Iter!SourceReplies
    BY <1>1, <1>3 DEF Iter!SourceReplies, Iter!Asked, DeadFrom
<1>4. CASE Iter!Return
    <2>1. /\ gens' = gens /\ links' = links /\ source' = source /\ at' = at /\ at = Links /\ reply' = Iter!Ask
          /\ mode # "idle" /\ (reply.is # "item" => received' = received)
        BY <1>4 DEF Iter!Return, Iter!chain, Control, Waiting, Links
    <2>2. reply'.is # "item" /\ reply.is # "item" /\ Links' = Links
        BY <2>1, ReplyKinds DEF DeadFrom, Links
    <2>3. \A j \in b .. Links : ~(at < j)
        BY <1>1, <2>1
    <2> QED
        BY <1>1, <2>1, <2>2, <2>3 DEF DeadFrom, Still
<1>5. CASE \E list \in Sources : Iter!New(list)
    <2>1. links = <<>>
        BY <1>5 DEF Iter!New
    <2> QED
        BY <1>1, <2>1 DEF Links
<1> QED
    BY <1>2, <1>3, <1>4, <1>5

(* A longer chain still has its dead generator; it was not read before. *)
LEMMA DeadReplaced ==
    ASSUME Control, Control', NEW b \in 1 .. Links, DeadFrom(b), NEW l \in Adapters, Iter!Replace(l), ChainValues
    PROVE  DeadFrom(b)' /\ b \in 1 .. Links' /\ received' = <<>>
<1> DEFINE g == Iter!NewGen
<1>1. /\ gens' = Append(gens, g) /\ links' = Append(links, l) /\ mode' = mode /\ mode = "idle"
      /\ received' = received /\ pos = 0
    BY DEF Iter!Replace, Iter!caller
<1>2. gens \in Seq(Gen) /\ links \in Seq(Adapters) /\ Len(gens) = Links /\ Links \in Nat /\ g \in Gen
    BY NewGenKnows DEF Control, ChainTypes, Links, ChainValues
<1>3. received = <<>>
    BY <1>1 DEF Control, NothingRead
<1>4. g.queue = <<>> /\ g.buffer = <<>>
    BY DEF Iter!NewGen
<1> HIDE DEF g
<1>5. Links' = Links + 1 /\ gens'[Links + 1] = g /\ \A j \in 1 .. Links : gens'[j] = gens[j]
    BY <1>1, <1>2 DEF Links
<1>6. ASSUME NEW j \in b .. Links + 1
      PROVE  gens'[j].queue = <<>> /\ (gens'[j].done \/ gens'[j].buffer = <<>>)
    <2>1. CASE j = Links + 1
        BY <1>4, <1>5, <2>1
    <2>2. CASE j # Links + 1
        <3>1. j \in b .. Links /\ j \in 1 .. Links
            BY <1>2, <2>2
        <3> QED
            BY <1>1, <1>5, <3>1 DEF DeadFrom
    <2> QED
        BY <2>1, <2>2
<1>7. gens'[b].done
    BY <1>5 DEF DeadFrom
<1>8. DeadFrom(b)'
    BY <1>1, <1>5, <1>6, <1>7 DEF DeadFrom
<1> QED
    BY <1>1, <1>2, <1>3, <1>5, <1>8

-----------------------------------------------------------------------------
(* Every step, when no chain is read after it was moved. *)
LEMMA ControlStep ==
    ASSUME ChainRight, ChainValues, MaxLinks \in Nat, Iter!Next, ~reused'
    PROVE  Control'
<1>1. Control
    BY DEF ChainRight, Control
<1>2. ASSUME NEW i \in 0 .. MaxLinks - 1, Iter!ReadMoved(i) PROVE FALSE
    BY <1>2 DEF Iter!ReadMoved
<1>3. ASSUME NEW i \in 1 .. MaxLinks,
             \/ Iter!Yield(i) \/ Iter!Finished(i) \/ Iter!AskBelow(i) \/ Iter!Refuse(i)
             \/ Iter!PassItem(i) \/ Iter!CallbackRaises(i) \/ Iter!PassError(i)
             \/ Iter!PassStop(i) \/ Iter!StrictRaises(i)
      PROVE  Control'
    <2>1. i \in 1 .. Links
        BY <1>1, <1>3, ActsInChain
    <2> QED
        BY <1>1, <1>3, <2>1, AskedControl, ToldControl
<1> QED
    BY <1>1, <1>2, <1>3, CallerControl, SourceControl DEF Iter!Next

(* An exception is raised by a generator that waits, and stays in the way. *)
LEMMA EndedStep ==
    ASSUME ChainRight, Control', ChainValues, MaxLinks \in Nat, Iter!Next, ~reused'
    PROVE  Ended'
<1> SUFFICES ASSUME broken' PROVE Ended'
    BY DEF Ended
<1>1. Control /\ Links \in Nat
    BY DEF ChainRight, Control, ChainTypes, Links
<1>2. ASSUME NEW b \in 1 .. Links, DeadFrom(b)', links' = links, source' = source, received' = received,
             received # <<>> => Begins(received, Iter!ItemsFrom(Len(source), TRUE))
      PROVE  Ended'
    <2>1. Links' = Links
        BY <1>2 DEF Links
    <2>2. received' # <<>> => Begins(received', Iter!ItemsFrom(Len(source), TRUE)')
        BY <1>2, SameEager
    <2> QED
        BY <1>2, <2>1, <2>2 DEF Ended
<1>3. CASE ~broken
    <2>1. PICK i \in 1 .. MaxLinks : Iter!Refuse(i) \/ Iter!CallbackRaises(i) \/ Iter!PassError(i) \/ Iter!StrictRaises(i)
        <3>1. ASSUME \/ \E list \in Sources : Iter!New(list)
                     \/ \E l \in Adapters : Iter!Replace(l)
                     \/ \E m \in {"next", "to_list"} : Iter!Read(m)
                     \/ Iter!SourceReplies \/ Iter!Return
              PROVE  FALSE
            BY <1>3, <3>1 DEF Iter!New, Iter!Replace, Iter!Read, Iter!Call, Iter!SourceReplies, Iter!Return
        <3>2. ASSUME NEW i \in 0 .. MaxLinks - 1, Iter!ReadMoved(i) PROVE FALSE
            BY <3>2 DEF Iter!ReadMoved
        <3>3. ASSUME NEW i \in 1 .. MaxLinks,
                     Iter!Yield(i) \/ Iter!Finished(i) \/ Iter!AskBelow(i) \/ Iter!PassItem(i) \/ Iter!PassStop(i)
              PROVE  FALSE
            BY <1>3, <3>3 DEF Iter!Yield, Iter!Finished, Iter!AskBelow, Iter!PassItem, Iter!PassStop
        <3> QED
            BY <3>1, <3>2, <3>3 DEF Iter!Next
    <2>2. i \in 1 .. Links
        BY <1>1, <2>1, ActsInChain
    <2>3. Iter!RaiseFrom(i) /\ mode # "idle" /\ (at = i \/ at = i - 1) /\ (at = i => gens[i].queue = <<>>)
        BY <2>1, <2>2 DEF Iter!Refuse, Iter!CallbackRaises, Iter!PassError, Iter!StrictRaises, Iter!Asked, Iter!Told
    <2>4. gens[i].queue = <<>>
        <3>1. CASE at = i
            BY <2>3, <3>1
        <3>2. CASE at = i - 1
            <4>1. i \in at + 1 .. Links
                BY <1>1, <2>2, <3>2
            <4> QED
                BY <1>1, <2>3, <4>1 DEF Control, Waiting
        <3> QED
            BY <2>3, <3>1, <3>2
    <2>5. DeadFrom(i)' /\ links' = links /\ source' = source /\ received' = received
        BY <1>1, <2>2, <2>3, <2>4, Breaks
    <2>6. PICK o : Explains(o)
        BY <1>3 DEF ChainRight, Sound
    <2>7. Begins(received, Iter!ItemsFrom(Len(source), TRUE))
        BY <2>6, EagerPrefix DEF ChainRight
    <2> QED
        BY <1>2, <2>2, <2>5, <2>7
<1>4. CASE broken
    <2>1. PICK b \in 1 .. Links : DeadFrom(b)
        BY <1>4 DEF ChainRight, Ended
    <2>2. received # <<>> => Begins(received, Iter!ItemsFrom(Len(source), TRUE))
        BY <1>4 DEF ChainRight, Ended
    <2>3. CASE \E l \in Adapters : Iter!Replace(l)
        <3>1. PICK l \in Adapters : Iter!Replace(l)
            BY <2>3
        <3>2. DeadFrom(b)' /\ b \in 1 .. Links' /\ received' = <<>>
            BY <1>1, <2>1, <3>1, DeadReplaced
        <3> QED
            BY <3>2 DEF Ended
    <2>4. ASSUME NEW i \in 0 .. MaxLinks - 1, Iter!ReadMoved(i) PROVE FALSE
        BY <2>4 DEF Iter!ReadMoved
    <2>5. CASE \/ \E list \in Sources : Iter!New(list)
               \/ \E m \in {"next", "to_list"} : Iter!Read(m)
               \/ Iter!SourceReplies \/ Iter!Return
        <3>1. Still(b) /\ links' = links /\ source' = source
            BY <1>1, <2>1, <2>5, DeadCaller
        <3> QED
            BY <1>2, <2>2, <3>1 DEF Still
    <2>6. ASSUME NEW i \in 1 .. MaxLinks,
                 \/ Iter!Yield(i) \/ Iter!Finished(i) \/ Iter!AskBelow(i) \/ Iter!Refuse(i)
                 \/ Iter!PassItem(i) \/ Iter!CallbackRaises(i) \/ Iter!PassError(i)
                 \/ Iter!PassStop(i) \/ Iter!StrictRaises(i)
          PROVE  Ended'
        <3>1. i \in 1 .. Links
            BY <1>1, <2>6, ActsInChain
        <3>2. Still(b) /\ links' = links /\ source' = source
            BY <1>1, <2>1, <2>6, <3>1, DeadGenerator
        <3> QED
            BY <1>2, <2>2, <3>2 DEF Still
    <2> QED
        BY <2>3, <2>4, <2>5, <2>6 DEF Iter!Next
<1> QED
    BY <1>3, <1>4

(* What a chain makes of a list is a list of items. *)
LEMMA ItemsFromType ==
    ASSUME ChainTypes, ChainValues, NEW m \in 0 .. Len(source), NEW w \in BOOLEAN
    PROVE  Iter!ItemsFrom(m, w) \in Seq(Items)
<1>1. PICK f : IsStages(f, m, w) /\ Iter!ItemsFrom(m, w) = f[Links].items
    BY Stages
<1>2. Links \in 0 .. Links
    BY DEF ChainTypes, Links
<1> QED
    BY <1>1, <1>2 DEF IsStages, Stage

(* A chain that was read after it was moved is read by two: nothing is said of it. *)
ChainInv == reused \/ ChainRight

(* Every step keeps the invariant. *)
LEMMA ChainStep ==
    ASSUME ChainInv, ChainValues, MaxLinks \in Nat, Iter!Next
    PROVE  ChainInv'
<1>1. CASE reused
    <2>1. ASSUME NEW i \in 1 .. MaxLinks,
                 \/ Iter!Yield(i) \/ Iter!Finished(i) \/ Iter!AskBelow(i) \/ Iter!Refuse(i)
                 \/ Iter!PassItem(i) \/ Iter!CallbackRaises(i) \/ Iter!PassError(i)
                 \/ Iter!PassStop(i) \/ Iter!StrictRaises(i)
          PROVE  reused' = reused
        BY <2>1 DEF Iter!Yield, Iter!Finished, Iter!AskBelow, Iter!Refuse, Iter!PassItem, Iter!CallbackRaises,
                    Iter!PassError, Iter!PassStop, Iter!StrictRaises, Iter!RaiseFrom, Iter!caller
    <2>2. ASSUME \/ \E list \in Sources : Iter!New(list)
                 \/ \E l \in Adapters : Iter!Replace(l)
                 \/ \E m \in {"next", "to_list"} : Iter!Read(m)
                 \/ Iter!SourceReplies \/ Iter!Return
          PROVE  reused' = reused
        BY <2>2 DEF Iter!New, Iter!Replace, Iter!Read, Iter!SourceReplies, Iter!Return, Iter!caller
    <2>3. ASSUME NEW i \in 0 .. MaxLinks - 1, Iter!ReadMoved(i) PROVE reused'
        BY <2>3 DEF Iter!ReadMoved
    <2> QED
        BY <1>1, <2>1, <2>2, <2>3 DEF Iter!Next, ChainInv
<1>2. CASE reused'
    BY <1>2 DEF ChainInv
<1>3. CASE ~reused /\ ~reused'
    <2>1. ChainRight
        BY <1>3 DEF ChainInv
    <2>2. Control'
        BY <1>3, <2>1, ControlStep
    <2>3. Ended'
        BY <1>3, <2>1, <2>2, EndedStep
    <2>4. CASE broken'
        BY <2>2, <2>3, <2>4 DEF ChainInv, ChainRight, Control, Sound
    <2>5. CASE ~broken'
        <3>1. Sound'
            BY <1>3, <2>1, <2>2, <2>5, SoundStep
        <3> QED
            BY <2>2, <2>3, <3>1 DEF ChainInv, ChainRight, Control
    <2> QED
        BY <2>4, <2>5
<1> QED
    BY <1>1, <1>2, <1>3

(* What changes no variable of the chain keeps the invariant. *)
LEMMA ChainStutters ==
    ASSUME ChainInv, UNCHANGED Iter!vars
    PROVE  ChainInv'
<1> USE DEF Iter!vars, Iter!chain, Iter!caller
<1>1. CASE reused
    BY <1>1 DEF ChainInv
<1>2. CASE ChainRight
    <2>1. Control'
        BY <1>2 DEF ChainRight, Control, ChainTypes, Waiting, NothingRead, Links
    <2>2. \A i : (Complete(i)' <=> Complete(i)) /\ (DeadFrom(i)' <=> DeadFrom(i))
        BY DEF Complete, DeadFrom, Links
    <2>3. \A o : Explains(o)' <=> Explains(o)
        BY DEF Explains, Given, Flight, Complete, ToldStop, Slack, RightAt, LazyAt, Singles, Links, GenRight, GenLazy,
               Sated, Remembers
    <2>4. Sound'
        BY <1>2, <2>2, <2>3 DEF ChainRight, Sound
    <2>5. Ended'
        <3>1. Iter!ItemsFrom(Len(source), TRUE)' = Iter!ItemsFrom(Len(source), TRUE)
            BY SameEager
        <3> QED
            BY <1>2, <2>2, <3>1 DEF ChainRight, Ended, Links
    <2> QED
        BY <2>1, <2>4, <2>5 DEF ChainInv, ChainRight, Control
<1> QED
    BY <1>1, <1>2 DEF ChainInv

(* The invariant holds in every reachable state of the chain. *)
LEMMA ChainInvariance ==
    ASSUME UtilArguments, ChainValues
    PROVE  AllSpec => []ChainInv
<1>1. AllInit => ChainInv
    BY ChainStarts DEF AllInit, ChainInv, ChainRight, Control, Ended
<1>2. ChainInv /\ [AllNext]_<<part, vars, iterVars, treeVars, logVars>> => ChainInv'
    <2> SUFFICES ASSUME ChainInv, [AllNext]_<<part, vars, iterVars, treeVars, logVars>>
                 PROVE  ChainInv'
        OBVIOUS
    <2>1. Iter!Next \/ UNCHANGED iterVars
        BY DEF AllNext
    <2>2. UNCHANGED iterVars => UNCHANGED Iter!vars
        BY DEF iterVars, Iter!vars, Iter!chain, Iter!caller
    <2>3. MaxLinks \in Nat
        BY DEF UtilArguments, ChainArguments
    <2> QED
        BY <2>1, <2>2, <2>3, ChainStep, ChainStutters
<1> QED
    BY <1>1, <1>2, PTL DEF AllSpec

(* However it is read, a chain of any length gives what its adapters would make
   of the whole list, in that order; and all of it when it says that it has
   ended, unless a callback raised. *)
THEOREM ChainsAgreeWithEager ==
    ASSUME UtilArguments, ChainValues
    PROVE  AllSpec => []AgreesWithEager
<1>1. ChainInv => AgreesWithEager
    <2> SUFFICES ASSUME ChainRight PROVE Iter!AgreesWithEager
        BY DEF ChainInv, AgreesWithEager, Iter!AgreesWithEager
    <2>1. ChainTypes /\ Len(source) \in 0 .. Len(source) /\ received \in Seq(Items)
        BY DEF ChainRight, ChainTypes
    <2> DEFINE all == Iter!ItemsFrom(Len(source), TRUE)
    <2>2. all \in Seq(Items)
        BY <2>1, ItemsFromType
    <2>3. Begins(received, all) /\ (~broken /\ ended => received = all)
        <3>1. CASE broken
            <4>1. received # <<>> => Begins(received, all)
                BY <3>1 DEF ChainRight, Ended
            <4> HIDE DEF all
            <4> QED
                BY <2>2, <3>1, <4>1, BeginsType
        <3>2. CASE ~broken
            <4>1. PICK o : Explains(o)
                BY <3>2 DEF ChainRight, Sound
            <4> QED
                BY <2>1, <4>1, EagerPrefix
        <3> QED
            BY <3>1, <3>2
    <2> HIDE DEF all
    <2>4. Iter!IsPrefix(received, all)
        BY <2>1, <2>2, <2>3, BeginsIsPrefix
    <2> QED
        BY <2>3, <2>4 DEF Iter!AgreesWithEager, all
<1> QED
    BY <1>1, ChainInvariance, PTL

(* Between two calls, a chain has read no element of the source that it did not
   need: what its adapters make of less is shorter than what the caller got. *)
THEOREM ChainsReadWhatTheyNeed ==
    ASSUME UtilArguments, ChainValues
    PROVE  AllSpec => []ReadsOnlyWhatItNeeds
<1>1. ChainInv => ReadsOnlyWhatItNeeds
    <2> SUFFICES ASSUME ChainRight, mode = "idle", ~ended, ~broken, NEW m \in 0 .. pos - 1
                 PROVE  Len(Iter!ItemsFrom(m, FALSE)) < Len(received)
        BY DEF ChainInv, ReadsOnlyWhatItNeeds, Iter!ReadsOnlyWhatItNeeds
    <2>1. PICK o : Explains(o)
        BY DEF ChainRight, Sound
    <2> QED
        BY <2>1, NeedsAll DEF ChainRight
<1> QED
    BY <1>1, ChainInvariance, PTL
=============================================================================
