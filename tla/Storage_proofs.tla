--------------------------- MODULE Storage_proofs ---------------------------
(***************************************************************************)
(* The storage classes, side by side as in MCStorage.                      *)
(*                                                                         *)
(* SqliteByteStore, for any number of stores, keys and calls: what an mset *)
(* acknowledges is committed, and what it refuses is not.                  *)
(* PgStorage, for any number of operations and any bounds of the pool:     *)
(* what is borrowed is given back, and the outcome of an operation tells   *)
(* what became of its work.                                                *)
(* DuckdbStorage, for any objects and processes: the creator of the file   *)
(* knows that it is.                                                       *)
(***************************************************************************)
EXTENDS MCStorage, FiniteSetTheorems, WellFoundedInduction, TLAPS

-----------------------------------------------------------------------------
(* SqliteByteStore. *)

USE DEF LockFree, View, Released, Used, Tables

(* The write lock is held by the mset that wrote, and what it wrote so far is *)
(* known to be uncommitted.                                                   *)
WrittenUnderLock == \A s \in Stores : written[s] # {} => writer = s

(* An mset whose iterable left the store alone is in its transaction still.   *)
FreshInTx ==
    \A s \in Stores : at[s] = "writing" /\ ~reentered[s] => inTx[s] /\ kept[s] = {}

(* Every pair of an mset in progress is waiting, written, committed or was     *)
(* taken back by an inner block, which takes a use of the store.              *)
NothingDropped ==
    \A s \in Stores : at[s] = "writing" =>
        /\ batch[s] \subseteq todo[s] \cup written[s] \cup kept[s] \cup undone[s]
        /\ ~reentered[s] => undone[s] = {}

TxInv == TypeOK /\ LockOnlyInCall /\ WrittenUnderLock
KeptInv == TxInv /\ FreshInTx /\ UntouchedWhenRaised
StoredInv == TxInv /\ NothingDropped /\ StoredOrUndone

(* Initially nothing is written and no lock is held. *)
LEMMA InitTx == Init => TxInv
  BY StoresAssumption, ArgsAssumption DEF Init, TxInv, TypeOK, LockOnlyInCall, WrittenUnderLock

TxTypeOK ==
    /\ table \in Tables /\ draft \in Tables
    /\ writer \in Stores \cup {NoStore}
    /\ inTx \in [Stores -> BOOLEAN]
    /\ written \in [Stores -> SUBSET Keys]
    /\ kept \in [Stores -> SUBSET Keys]
    /\ undone \in [Stores -> SUBSET Keys]

(* The end of a block keeps the types, whatever rows its statement left.       *)
LEMMA CommitWithType ==
    ASSUME TypeOK, NEW s \in Stores, NEW content \in Tables, CommitWith(s, content)
    PROVE  TxTypeOK'
<1>1. written[s] \in SUBSET Keys /\ kept[s] \in SUBSET Keys
  BY DEF TypeOK
<1>2. kept' \in [Stores -> SUBSET Keys]
  BY <1>1 DEF TypeOK, CommitWith
<1>3. written' \in [Stores -> SUBSET Keys] /\ inTx' \in [Stores -> BOOLEAN]
  BY DEF TypeOK, CommitWith
<1>4. /\ writer' \in Stores \cup {NoStore} /\ table' \in Tables /\ draft' \in Tables
      /\ undone' \in [Stores -> SUBSET Keys]
  BY DEF TypeOK, CommitWith
<1> QED BY <1>2, <1>3, <1>4 DEF TxTypeOK

(* A commit moves what was written into the file. *)
LEMMA CommitType ==
    ASSUME TypeOK, NEW s \in Stores, Commit(s)
    PROVE  TxTypeOK'
<1>1. CASE writer = s
  BY <1>1, CommitWithType DEF Commit, TypeOK
<1>2. CASE writer # s
  BY <1>2 DEF Commit, TypeOK, TxTypeOK
<1> QED BY <1>1, <1>2

(* A rollback forgets what was written. *)
LEMMA RollbackType ==
    ASSUME TypeOK, NEW s \in Stores, Rollback(s)
    PROVE  TxTypeOK'
<1>1. written[s] \in SUBSET Keys /\ undone[s] \in SUBSET Keys
  BY DEF TypeOK
<1>2. undone' \in [Stores -> SUBSET Keys]
  BY <1>1 DEF TypeOK, Rollback
<1> QED BY <1>2 DEF TypeOK, TxTypeOK, Rollback

(* Every operation keeps the types. *)
LEMMA TypeStep == TypeOK /\ [Next]_vars => TypeOK'
<1> SUFFICES ASSUME TypeOK, [Next]_vars PROVE TypeOK'
  OBVIOUS
<1> USE StoresAssumption, ArgsAssumption DEF TypeOK
<1>1. ASSUME NEW s \in Stores, NEW keys \in SUBSET Keys, MSet(s, keys) PROVE TypeOK'
  BY <1>1 DEF MSet
<1>2. ASSUME NEW s \in Stores, NEW k \in Keys, Insert(s, k) PROVE TypeOK'
  <2>1. /\ todo' \in [Stores -> SUBSET Keys]
        /\ UNCHANGED <<at, batch, listing, calls, undone, reentered>>
    BY <1>2 DEF Insert
  <2>2. /\ table' \in Tables /\ draft' \in Tables /\ writer' \in Stores \cup {NoStore}
        /\ written' \in [Stores -> SUBSET Keys] /\ kept' \in [Stores -> SUBSET Keys]
        /\ inTx' = inTx
    <3>1. CASE inTx[s]
      BY <1>2, <3>1 DEF Insert
    <3>2. CASE ~inTx[s]
      BY <1>2, <3>2 DEF Insert
    <3> QED BY <3>1, <3>2
  <2> QED BY <2>1, <2>2
<1>3. ASSUME NEW s \in Stores, NEW k \in Keys, MDelete(s, k) PROVE TypeOK'
  <2> DEFINE content == [View(s) EXCEPT ![k] = Absent]
  <2>1. content \in Tables
    OBVIOUS
  <2>2. CommitWith(s, content)
    BY <1>3 DEF MDelete
  <2>3. TxTypeOK'
    BY <2>1, <2>2, CommitWithType
  <2> QED BY <1>3, <2>3 DEF MDelete, TxTypeOK
<1>4. ASSUME NEW s \in Stores, MSetReturns(s) PROVE TypeOK'
  BY <1>4, CommitType DEF MSetReturns, TxTypeOK
<1>5. ASSUME NEW s \in Stores, MSetRaises(s) PROVE TypeOK'
  BY <1>5, RollbackType DEF MSetRaises, TxTypeOK
<1>6. ASSUME NEW s \in Stores, MGet(s) PROVE TypeOK'
  BY <1>6, CommitType DEF MGet, TxTypeOK
<1>7. ASSUME NEW s \in Stores, ListStarts(s) PROVE TypeOK'
  BY <1>7 DEF ListStarts, txVars
<1>8. ASSUME NEW s \in Stores, ListEnds(s) PROVE TypeOK'
  BY <1>8, CommitType DEF ListEnds, TxTypeOK
<1>9. ASSUME NEW s \in Stores, ListAbandoned(s) \/ CallRaises(s) PROVE TypeOK'
  BY <1>9, RollbackType DEF ListAbandoned, CallRaises, TxTypeOK
<1>10. CASE UNCHANGED vars
  BY <1>10 DEF vars, txVars
<1> QED BY <1>1, <1>2, <1>3, <1>4, <1>5, <1>6, <1>7, <1>8, <1>9, <1>10 DEF Next

(* Every operation keeps the lock with the transaction that writes. *)
LEMMA TxStep == TxInv /\ [Next]_vars => TxInv'
<1> SUFFICES ASSUME TxInv, [Next]_vars PROVE (LockOnlyInCall /\ WrittenUnderLock)'
  BY TypeStep DEF TxInv
<1> USE StoresAssumption DEF TxInv, TypeOK, LockOnlyInCall, WrittenUnderLock
<1>1. ASSUME NEW s \in Stores, NEW keys \in SUBSET Keys, MSet(s, keys)
      PROVE  (LockOnlyInCall /\ WrittenUnderLock)'
  BY <1>1 DEF MSet
<1>2. ASSUME NEW s \in Stores, NEW k \in Keys, Insert(s, k)
      PROVE  (LockOnlyInCall /\ WrittenUnderLock)'
  BY <1>2 DEF Insert
<1>3. ASSUME NEW s \in Stores, NEW k \in Keys, MDelete(s, k)
      PROVE  (LockOnlyInCall /\ WrittenUnderLock)'
  BY <1>3 DEF MDelete, CommitWith
<1>4. ASSUME NEW s \in Stores, MSetReturns(s)
      PROVE  (LockOnlyInCall /\ WrittenUnderLock)'
  BY <1>4 DEF MSetReturns, Commit, CommitWith
<1>5. ASSUME NEW s \in Stores, MSetRaises(s)
      PROVE  (LockOnlyInCall /\ WrittenUnderLock)'
  BY <1>5 DEF MSetRaises, Rollback
<1>6. ASSUME NEW s \in Stores, MGet(s) \/ ListEnds(s)
      PROVE  (LockOnlyInCall /\ WrittenUnderLock)'
  BY <1>6 DEF MGet, ListEnds, Commit, CommitWith
<1>7. ASSUME NEW s \in Stores, ListStarts(s)
      PROVE  (LockOnlyInCall /\ WrittenUnderLock)'
  BY <1>7 DEF ListStarts, txVars
<1>8. ASSUME NEW s \in Stores, ListAbandoned(s) \/ CallRaises(s)
      PROVE  (LockOnlyInCall /\ WrittenUnderLock)'
  BY <1>8 DEF ListAbandoned, CallRaises, Rollback
<1>9. CASE UNCHANGED vars
  BY <1>9 DEF vars, txVars
<1> QED BY <1>1, <1>2, <1>3, <1>4, <1>5, <1>6, <1>7, <1>8, <1>9 DEF Next

(* No store holds SQLite's write lock when it is not inside an mset: a second *)
(* process is locked out only while the pairs of a first one are pulled.      *)
THEOREM LockIsReleased == Spec => [](TypeOK /\ LockOnlyInCall)
<1>1. Init => TxInv BY InitTx
<1>2. TxInv /\ [Next]_vars => TxInv' BY TxStep
<1>3. TxInv => TypeOK /\ LockOnlyInCall BY DEF TxInv
<1> QED BY <1>1, <1>2, <1>3, PTL DEF Spec

(* An mset whose iterable leaves the store alone stays in its transaction. *)
LEMMA KeptStep == KeptInv /\ [Next]_vars => KeptInv'
<1> SUFFICES ASSUME KeptInv, [Next]_vars PROVE (FreshInTx /\ UntouchedWhenRaised)'
  BY TxStep DEF KeptInv
<1> USE StoresAssumption DEF KeptInv, TxInv, TypeOK, LockOnlyInCall, WrittenUnderLock, FreshInTx, UntouchedWhenRaised
<1>1. ASSUME NEW s \in Stores, NEW keys \in SUBSET Keys, MSet(s, keys)
      PROVE  (FreshInTx /\ UntouchedWhenRaised)'
  BY <1>1 DEF MSet
<1>2. ASSUME NEW s \in Stores, NEW k \in Keys, Insert(s, k)
      PROVE  (FreshInTx /\ UntouchedWhenRaised)'
  BY <1>2 DEF Insert
<1>3. ASSUME NEW s \in Stores, NEW k \in Keys, MDelete(s, k)
      PROVE  (FreshInTx /\ UntouchedWhenRaised)'
  BY <1>3 DEF MDelete, CommitWith
<1>4. ASSUME NEW s \in Stores, MSetReturns(s)
      PROVE  (FreshInTx /\ UntouchedWhenRaised)'
  BY <1>4 DEF MSetReturns, Commit, CommitWith
<1>5. ASSUME NEW s \in Stores, MSetRaises(s)
      PROVE  (FreshInTx /\ UntouchedWhenRaised)'
  BY <1>5 DEF MSetRaises, Rollback
<1>6. ASSUME NEW s \in Stores, MGet(s) \/ ListEnds(s)
      PROVE  (FreshInTx /\ UntouchedWhenRaised)'
  BY <1>6 DEF MGet, ListEnds, Commit, CommitWith
<1>7. ASSUME NEW s \in Stores, ListStarts(s)
      PROVE  (FreshInTx /\ UntouchedWhenRaised)'
  BY <1>7 DEF ListStarts, txVars
<1>8. ASSUME NEW s \in Stores, ListAbandoned(s) \/ CallRaises(s)
      PROVE  (FreshInTx /\ UntouchedWhenRaised)'
  BY <1>8 DEF ListAbandoned, CallRaises, Rollback
<1>9. CASE UNCHANGED vars
  BY <1>9 DEF vars, txVars
<1> QED BY <1>1, <1>2, <1>3, <1>4, <1>5, <1>6, <1>7, <1>8, <1>9 DEF Next

(* An mset whose iterable does not use the store is all or nothing: when it    *)
(* raises, none of its pairs was committed.                                   *)
THEOREM RaisedStoresNothing == Spec => []UntouchedWhenRaised
<1>1. Init => KeptInv
  BY InitTx DEF Init, KeptInv, FreshInTx, UntouchedWhenRaised
<1>2. KeptInv /\ [Next]_vars => KeptInv' BY KeptStep
<1>3. KeptInv => UntouchedWhenRaised BY DEF KeptInv
<1> QED BY <1>1, <1>2, <1>3, PTL DEF Spec

(* Every pair of a batch stays waiting, written, committed or taken back. *)
LEMMA StoredStep == StoredInv /\ [Next]_vars => StoredInv'
<1> SUFFICES ASSUME StoredInv, [Next]_vars PROVE (NothingDropped /\ StoredOrUndone)'
  BY TxStep DEF StoredInv
<1> USE StoresAssumption DEF StoredInv, TxInv, TypeOK, LockOnlyInCall, WrittenUnderLock, NothingDropped, StoredOrUndone
<1>1. ASSUME NEW s \in Stores, NEW keys \in SUBSET Keys, MSet(s, keys)
      PROVE  (NothingDropped /\ StoredOrUndone)'
  BY <1>1 DEF MSet
<1>2. ASSUME NEW s \in Stores, NEW k \in Keys, Insert(s, k)
      PROVE  (NothingDropped /\ StoredOrUndone)'
  BY <1>2 DEF Insert
<1>3. ASSUME NEW s \in Stores, NEW k \in Keys, MDelete(s, k)
      PROVE  (NothingDropped /\ StoredOrUndone)'
  <2>1. /\ kept' = [kept EXCEPT ![s] = @ \cup written[s]]
        /\ written' = [written EXCEPT ![s] = {}]
        /\ reentered' = [reentered EXCEPT ![s] = @ \/ at[s] = "writing"]
        /\ UNCHANGED <<at, batch, todo, undone>>
    BY <1>3 DEF MDelete, CommitWith
  <2> QED BY <2>1
<1>4. ASSUME NEW s \in Stores, MSetReturns(s)
      PROVE  (NothingDropped /\ StoredOrUndone)'
  <2>1. /\ todo[s] = {} /\ at[s] = "writing"
        /\ batch[s] \subseteq written[s] \cup kept[s] \cup undone[s]
        /\ ~reentered[s] => undone[s] = {}
    BY <1>4 DEF MSetReturns
  <2>2. /\ kept' = [kept EXCEPT ![s] = @ \cup written[s]]
        /\ written' = [written EXCEPT ![s] = {}]
        /\ undone' = undone
    <3>1. CASE writer = s
      BY <1>4, <3>1 DEF MSetReturns, Commit, CommitWith
    <3>2. CASE writer # s
      <4>1. written[s] = {} /\ UNCHANGED <<written, kept, undone>>
        BY <1>4, <3>2 DEF MSetReturns, Commit
      <4> QED BY <4>1
    <3> QED BY <3>1, <3>2
  <2>3. at' = [at EXCEPT ![s] = "returned"] /\ UNCHANGED <<batch, todo, reentered>>
    BY <1>4 DEF MSetReturns
  <2>4. batch'[s] \ kept'[s] \subseteq undone'[s]
    BY <2>1, <2>2, <2>3
  <2> QED BY <2>1, <2>2, <2>3, <2>4
<1>5. ASSUME NEW s \in Stores, MSetRaises(s)
      PROVE  (NothingDropped /\ StoredOrUndone)'
  BY <1>5 DEF MSetRaises, Rollback
<1>6. ASSUME NEW s \in Stores, MGet(s) \/ ListEnds(s)
      PROVE  (NothingDropped /\ StoredOrUndone)'
  BY <1>6 DEF MGet, ListEnds, Commit, CommitWith
<1>7. ASSUME NEW s \in Stores, ListStarts(s)
      PROVE  (NothingDropped /\ StoredOrUndone)'
  BY <1>7 DEF ListStarts, txVars
<1>8. ASSUME NEW s \in Stores, ListAbandoned(s) \/ CallRaises(s)
      PROVE  (NothingDropped /\ StoredOrUndone)'
  BY <1>8 DEF ListAbandoned, CallRaises, Rollback
<1>9. CASE UNCHANGED vars
  BY <1>9 DEF vars, txVars
<1> QED BY <1>1, <1>2, <1>3, <1>4, <1>5, <1>6, <1>7, <1>8, <1>9 DEF Next

(* An mset that returns has stored every pair, except those that an inner      *)
(* block had taken back: its iterable caught an exception of the store or     *)
(* dropped a listing of it.  One that left the store alone has stored all.    *)
THEOREM ReturnedStoresAll == Spec => []StoredOrUndone
<1>1. Init => StoredInv
  BY InitTx DEF Init, StoredInv, NothingDropped, StoredOrUndone
<1>2. StoredInv /\ [Next]_vars => StoredInv' BY StoredStep
<1>3. StoredInv => StoredOrUndone BY DEF StoredInv
<1> QED BY <1>1, <1>2, <1>3, PTL DEF Spec

-----------------------------------------------------------------------------
(* PgStorage. *)

(* The bounds of the pool are numbers, and operations are finitely many. *)
Arguments == IsFiniteSet(Ops) /\ MinConn \in Nat /\ MaxConn \in Nat

Holding(o) == pgPc[o] \notin {"start", "ended"}

(* The pool counts the connection of o as out: o is under way, or its putconn
   raised. *)
Out(o) == Holding(o) \/ outcome[o] = "stranded"

(* An operation under way has a connection of its own, that the pool counts as
   used; while the pool is open nothing else is but closed ones whose putconn
   raised. *)
Lending ==
    /\ \A o \in Ops : Out(o) => conn[o] \in used
    /\ \A o, q \in Ops : Out(o) /\ Out(q) /\ conn[o] = conn[q] => o = q
    /\ \A o \in Ops : outcome[o] = "stranded" => pgPc[o] = "ended" /\ link[conn[o]] = "closed"
    /\ ~closed => \A c \in used : \E o \in Ops : Out(o) /\ conn[o] = c
    /\ free \cap used = {}
    /\ \A c \in free \cup used : link[c] # "none"
    /\ closed => \A c \in free \cup used : link[c] = "closed"

(* A transaction is open exactly while its connection says so. *)
OpenWork ==
    \A o \in Ops : effect[o] = "pending" => Holding(o) /\ link[conn[o]] = "active"

(* Where an operation is tells what may have become of its work. *)
Progress ==
    \A o \in Ops :
        /\ pgPc[o] = "start" => effect[o] = "none"
        /\ pgPc[o] \in {"start", "body", "commit", "rollback"} =>
               outcome[o] = "none" /\ effect[o] # "durable"
        /\ pgPc[o] \in {"body", "commit"} =>
               effect[o] \in {"none", "pending"} \/ link[conn[o]] \in {"lost", "closed"}
        /\ pgPc[o] = "put" /\ effect[o] = "durable" =>
               link[conn[o]] \in {"idle", "stale", "closed"}
        /\ outcome[o] = "ok" => effect[o] \in {"none", "durable"}
        /\ outcome[o] \in {"abandoned", "stranded"} => effect[o] # "durable"
        /\ outcome[o] = "error" /\ effect[o] = "durable" => closed

PgInv == Pg!TypeOK /\ Lending /\ OpenWork /\ Progress

(* PgStorage counts its operations as this module does. *)
LEMMA CountsAgree == Pg!Cardinality(Ops) = Cardinality(Ops)
BY DEF Cardinality, Pg!Cardinality, IsFiniteSet, Pg!IsFiniteSet

(* There is a least connection among those never opened. *)
LEMMA LowestIsUnopened ==
    ASSUME Arguments, Pg!Unopened # {}
    PROVE  Pg!Lowest \in Pg!Unopened
<1>1. Pg!Conns \subseteq Nat
    BY FS_CardinalityType, CountsAgree DEF Arguments, Pg!Conns
<1>2. Pg!Unopened \subseteq Nat
    BY <1>1 DEF Pg!Unopened
<1>3. PICK n \in Pg!Unopened : TRUE
    OBVIOUS
<1>4. \E c \in Pg!Unopened : \A d \in Pg!Unopened : c <= d
    <2> DEFINE R == OpToRel(<, Nat)
    <2>1. R = {ss \in Nat \X Nat : ss[1] < ss[2]}
        BY DEF OpToRel
    <2>2. IsWellFoundedOn(R, Nat)
        BY NatLessThanWellFounded, Zenon
    <2> HIDE DEF R
    <2>3. PICK c \in Pg!Unopened : \A d \in Pg!Unopened : ~(<<d, c>> \in R)
        BY <1>2, <1>3, <2>2, WFMin
    <2>4. \A d \in Pg!Unopened : ~(d < c)
        BY <1>2, <2>1, <2>3
    <2> QED
        BY <1>2, <2>4
<1> QED
    BY <1>4 DEF Pg!Lowest

(* The pool opens with its first connections free and nothing borrowed. *)
LEMMA InitIInv == ASSUME Arguments, Pg!Init PROVE PgInv
<1> USE DEF Pg!Init
<1>1. Cardinality(Ops) \in Nat /\ MinConn \in Nat
    BY FS_CardinalityType DEF Arguments
<1>2. 1 .. MinConn \subseteq Pg!Conns
    BY <1>1, CountsAgree DEF Pg!Conns
<1>3. Pg!TypeOK
    BY <1>2 DEF Pg!TypeOK, Pg!LinkStates
<1>4. \A c \in 1 .. MinConn : link[c] = "idle"
    BY <1>1, <1>2
<1>5. Lending
    BY <1>4 DEF Lending, Holding, Out
<1>6. OpenWork /\ Progress
    BY DEF OpenWork, Progress
<1> QED
    BY <1>3, <1>5, <1>6 DEF PgInv

(* A step of one operation: what it does to its connection does not reach the
   connection of another. *)
LEMMA OthersKept ==
    ASSUME PgInv, NEW o \in Ops, Holding(o),
           \A c \in Pg!Conns \ {conn[o]} : link'[c] = link[c],
           NEW q \in Ops \ {o}, Out(q)
    PROVE  link'[conn[q]] = link[conn[q]]
BY DEF PgInv, Lending, Out, Pg!TypeOK

(* A step inside the with block of use_conn: the connection stays borrowed. *)
LEMMA InsideIInv ==
    ASSUME PgInv, NEW o \in Ops, pgPc[o] \in {"body", "commit", "rollback"}, Pg!TypeOK',
           UNCHANGED <<free, used, closed, conn>>,
           pgPc'[o] \in {"body", "commit", "rollback", "put"},
           \A q \in Ops \ {o} : pgPc'[q] = pgPc[q] /\ outcome'[q] = outcome[q] /\ effect'[q] = effect[q],
           \A c \in Pg!Conns \ {conn[o]} : link'[c] = link[c],
           link'[conn[o]] # "none",
           link[conn[o]] = "closed" => link'[conn[o]] = "closed",
           effect'[o] = "pending" => link'[conn[o]] = "active",
           pgPc'[o] # "put" => outcome'[o] = "none" /\ effect'[o] # "durable",
           pgPc'[o] \in {"body", "commit"} =>
               effect'[o] \in {"none", "pending"} \/ link'[conn[o]] \in {"lost", "closed"},
           pgPc'[o] = "put" /\ effect'[o] = "durable" => link'[conn[o]] = "idle" \/ link'[conn[o]] = "stale",
           outcome'[o] # "stranded",
           outcome'[o] = "ok" => effect'[o] \in {"none", "durable"},
           outcome'[o] \in {"abandoned", "error"} => effect'[o] # "durable"
    PROVE  PgInv'
<1>1. /\ Holding(o) /\ Holding(o)' /\ outcome[o] # "stranded"
      /\ \A q \in Ops : Holding(q)' <=> Holding(q)
    BY DEF Holding, PgInv, Lending
<1>2. \A q \in Ops \ {o} : Out(q) => link'[conn[q]] = link[conn[q]]
    BY <1>1, OthersKept
<1>3. Lending'
    <2>1. conn[o] \in Pg!Conns /\ free \subseteq Pg!Conns /\ used \subseteq Pg!Conns
        BY <1>1 DEF PgInv, Lending, Out, Pg!TypeOK
    <2>2. /\ \A c \in free \cup used : link[c] # "none" => link'[c] # "none"
          /\ \A c \in free \cup used : link[c] = "closed" => link'[c] = "closed"
        BY <2>1
    <2>3. \A q \in Ops : (Out(q)' <=> Out(q)) /\ (outcome'[q] = "stranded" <=> outcome[q] = "stranded")
        BY <1>1 DEF Out
    <2>4. \A q \in Ops : outcome'[q] = "stranded" => pgPc'[q] = "ended" /\ link'[conn[q]] = "closed"
        BY <1>1, <1>2 DEF PgInv, Lending, Out
    <2> QED
        BY <2>2, <2>3, <2>4 DEF PgInv, Lending
<1>4. OpenWork'
    BY <1>1, <1>2 DEF PgInv, OpenWork, Out
<1>5. Progress'
    <2>1. \A q \in Ops \ {o} : pgPc[q] \in {"body", "commit", "put"} => Out(q)
        BY DEF Holding, Out
    <2> QED
        BY <1>2, <2>1 DEF PgInv, Progress
<1> QED
    BY <1>3, <1>4, <1>5 DEF PgInv

(* getconn. *)
LEMMA BorrowIInv == ASSUME Arguments, PgInv, NEW o \in Ops, Pg!Borrow(o) PROVE PgInv'
<1> USE DEF PgInv
<1>1. /\ pgPc[o] = "start" /\ ~closed
      /\ free # {} \/ Pg!Unopened # {}
      /\ pgPc' = [pgPc EXCEPT ![o] = "body"]
      /\ UNCHANGED <<closed, outcome, effect>>
    BY DEF Pg!Borrow, Pg!Goto
<1>2. PICK c \in IF free # {} THEN free ELSE {Pg!Lowest} :
        /\ free' = free \ {c} /\ used' = used \cup {c}
        /\ link' = [link EXCEPT ![c] = IF @ = "none" THEN "idle" ELSE @]
        /\ conn' = [conn EXCEPT ![o] = c]
    BY DEF Pg!Borrow
<1>3. c \in Pg!Conns /\ c \notin used
    <2>1. CASE free # {}
        BY <1>2, <2>1 DEF Lending, Pg!TypeOK
    <2>2. CASE free = {}
        BY <1>1, <1>2, <2>2, LowestIsUnopened DEF Pg!Unopened, Lending
    <2> QED
        BY <2>1, <2>2
<1>4. Pg!TypeOK'
    BY <1>1, <1>2, <1>3 DEF Pg!TypeOK, Pg!LinkStates
<1>5. /\ conn'[o] = c /\ \A q \in Ops \ {o} : conn'[q] = conn[q]
      /\ pgPc'[o] = "body" /\ \A q \in Ops \ {o} : pgPc'[q] = pgPc[q]
      /\ link'[c] # "none" /\ \A d \in Pg!Conns \ {c} : link'[d] = link[d]
    BY <1>1, <1>2, <1>3 DEF Pg!TypeOK
<1>6. /\ ~Out(o) /\ Out(o)'
      /\ \A q \in Ops \ {o} : (Holding(q)' <=> Holding(q)) /\ (Out(q)' <=> Out(q))
    BY <1>1, <1>5 DEF Holding, Out, Lending
<1>7. \A q \in Ops \ {o} : Out(q) => conn[q] # c /\ link'[conn[q]] = link[conn[q]]
    BY <1>3, <1>5 DEF Lending, Pg!TypeOK
<1>8. Lending'
    <2>1. \A d \in free' \cup used' : link'[d] # "none"
        BY <1>2, <1>5 DEF Lending, Pg!TypeOK
    <2>2. ASSUME NEW d \in used' PROVE \E q \in Ops : Out(q)' /\ conn'[q] = d
        <3>1. CASE d = c
            BY <1>5, <1>6, <3>1
        <3>2. CASE d # c
            <4>1. PICK q \in Ops : Out(q) /\ conn[q] = d
                BY <1>1, <1>2, <3>2 DEF Lending
            <4> QED
                BY <1>5, <1>6, <4>1
        <3> QED
            BY <3>1, <3>2
    <2>3. \A q \in Ops : Out(q)' => conn'[q] \in used'
        BY <1>2, <1>5, <1>6 DEF Lending
    <2>4. \A q, r \in Ops : Out(q)' /\ Out(r)' /\ conn'[q] = conn'[r] => q = r
        BY <1>5, <1>6, <1>7 DEF Lending
    <2>5. free' \cap used' = {} /\ ~closed'
        BY <1>1, <1>2 DEF Lending
    <2>6. \A q \in Ops : outcome'[q] = "stranded" => pgPc'[q] = "ended" /\ link'[conn'[q]] = "closed"
        BY <1>1, <1>5, <1>6, <1>7 DEF Lending, Out
    <2> QED
        BY <2>1, <2>2, <2>3, <2>4, <2>5, <2>6 DEF Lending
<1>9. OpenWork'
    BY <1>1, <1>6, <1>7, <1>5 DEF OpenWork, Progress, Out
<1>10. Progress'
    <2>1. effect[o] = "none" /\ outcome[o] = "none"
        BY <1>1 DEF Progress
    <2>2. \A q \in Ops \ {o} : pgPc[q] \in {"body", "commit", "put"} => link'[conn'[q]] = link[conn[q]]
        BY <1>5, <1>7 DEF Holding, Out
    <2> QED
        BY <1>1, <1>5, <2>1, <2>2 DEF Progress
<1> QED
    BY <1>4, <1>8, <1>9, <1>10

(* No connection to be had: the operation ends and held none. *)
LEMMA BorrowRaisesIInv == ASSUME PgInv, NEW o \in Ops, Pg!BorrowRaises(o) PROVE PgInv'
<1> USE DEF PgInv
<1>1. /\ pgPc[o] = "start" /\ pgPc' = [pgPc EXCEPT ![o] = "ended"]
      /\ outcome' = [outcome EXCEPT ![o] = "error"]
      /\ UNCHANGED <<link, free, used, closed, conn, effect>>
    BY DEF Pg!BorrowRaises, Pg!Goto, Pg!Report
<1>2. /\ pgPc'[o] = "ended" /\ \A q \in Ops \ {o} : pgPc'[q] = pgPc[q]
      /\ outcome'[o] = "error" /\ \A q \in Ops \ {o} : outcome'[q] = outcome[q]
    BY <1>1 DEF Pg!TypeOK
<1>3. Pg!TypeOK'
    BY <1>1 DEF Pg!TypeOK
<1>4. \A q \in Ops : (Holding(q)' <=> Holding(q)) /\ (Out(q)' <=> Out(q))
    BY <1>1, <1>2 DEF Holding, Out, Lending
<1>5. Lending' /\ OpenWork'
    BY <1>1, <1>2, <1>4 DEF Lending, OpenWork
<1>6. Progress'
    BY <1>1, <1>2 DEF Progress
<1> QED
    BY <1>3, <1>5, <1>6

(* A statement. *)
LEMMA ExecuteIInv == ASSUME PgInv, NEW o \in Ops, Pg!Execute(o) PROVE PgInv'
<1> USE DEF PgInv
<1>0. /\ pgPc[o] = "body" /\ conn[o] \in Pg!Conns /\ link[conn[o]] # "none"
      /\ UNCHANGED <<free, used, closed, conn, outcome>>
      /\ effect[o] # "durable" /\ outcome[o] = "none"
    BY DEF Pg!Execute, Lending, Holding, Out, Pg!TypeOK, Progress
<1>1. CASE /\ link[conn[o]] \in {"idle", "active"}
           /\ link' = [link EXCEPT ![conn[o]] = "active"]
           /\ effect' = [effect EXCEPT ![o] = "pending"]
           /\ UNCHANGED pgPc
    <2>1. Pg!TypeOK'
        BY <1>0, <1>1 DEF Pg!TypeOK, Pg!LinkStates
    <2>2. /\ link'[conn[o]] = "active" /\ \A c \in Pg!Conns \ {conn[o]} : link'[c] = link[c]
          /\ effect'[o] = "pending" /\ \A q \in Ops \ {o} : effect'[q] = effect[q]
        BY <1>0, <1>1 DEF Pg!TypeOK
    <2> QED
        BY <1>0, <1>1, <2>1, <2>2, InsideIInv
<1>2. CASE /\ link' = [link EXCEPT ![conn[o]] = IF @ \in {"idle", "active"} THEN "failed" ELSE "closed"]
           /\ Pg!Goto(o, "rollback")
           /\ effect' = Pg!Undo(effect, o)
    <2>1. Pg!TypeOK'
        BY <1>0, <1>2 DEF Pg!TypeOK, Pg!LinkStates, Pg!Goto, Pg!Undo
    <2>2. /\ link'[conn[o]] \in {"closed", "failed"} /\ \A c \in Pg!Conns \ {conn[o]} : link'[c] = link[c]
          /\ link[conn[o]] = "closed" => link'[conn[o]] = "closed"
          /\ effect'[o] \notin {"pending", "durable"} /\ \A q \in Ops \ {o} : effect'[q] = effect[q]
          /\ pgPc'[o] = "rollback" /\ \A q \in Ops \ {o} : pgPc'[q] = pgPc[q]
        BY <1>0, <1>2 DEF Pg!TypeOK, Pg!Goto, Pg!Undo
    <2> QED
        BY <1>0, <2>1, <2>2, InsideIInv
<1> QED
    BY <1>1, <1>2 DEF Pg!Execute

(* The block ends or raises, or the generator is dropped. *)
LEMMA BodyEndsIInv ==
    ASSUME PgInv, NEW o \in Ops, Pg!BodyEnds(o) \/ Pg!BodyRaises(o) \/ Pg!Abandon(o) PROVE PgInv'
<1> USE DEF PgInv
<1>0. /\ pgPc[o] = "body" /\ link[conn[o]] # "none"
      /\ UNCHANGED <<link, free, used, closed, conn, effect>>
      /\ effect[o] # "durable" /\ outcome[o] = "none"
      /\ effect[o] \in {"none", "pending"} \/ link[conn[o]] \in {"lost", "closed"}
      /\ effect[o] = "pending" => link[conn[o]] = "active"
    BY DEF Pg!BodyEnds, Pg!BodyRaises, Pg!Abandon, Lending, Holding, Out, Progress, OpenWork
<1>1. \/ pgPc' = [pgPc EXCEPT ![o] = "commit"] /\ outcome' = outcome
      \/ pgPc' = [pgPc EXCEPT ![o] = "rollback"] /\ outcome' = outcome
      \/ pgPc' = [pgPc EXCEPT ![o] = "put"] /\ outcome' = [outcome EXCEPT ![o] = "abandoned"]
    BY DEF Pg!BodyEnds, Pg!BodyRaises, Pg!Abandon, Pg!Goto, Pg!Report
<1>2. Pg!TypeOK'
    BY <1>0, <1>1 DEF Pg!TypeOK
<1>3. /\ \A q \in Ops \ {o} : pgPc'[q] = pgPc[q] /\ outcome'[q] = outcome[q]
      /\ \/ pgPc'[o] \in {"commit", "rollback"} /\ outcome'[o] = "none"
         \/ pgPc'[o] = "put" /\ outcome'[o] = "abandoned"
    BY <1>0, <1>1 DEF Pg!TypeOK
<1> QED
    BY <1>0, <1>2, <1>3, InsideIInv

(* A commit makes the work of one borrower durable. *)
LEMMA CommitIInv == ASSUME PgInv, NEW o \in Ops, Pg!Commit(o) PROVE PgInv'
<1> USE DEF PgInv
<1>0. /\ pgPc[o] = "commit" /\ conn[o] \in Pg!Conns /\ link[conn[o]] # "none"
      /\ UNCHANGED <<free, used, closed, conn>>
      /\ effect[o] # "durable" /\ outcome[o] = "none"
      /\ effect[o] \in {"none", "pending"} \/ link[conn[o]] \in {"lost", "closed"}
      /\ effect[o] = "pending" => link[conn[o]] = "active"
    BY DEF Pg!Commit, Lending, Holding, Out, Pg!TypeOK, Progress, OpenWork
<1>1. CASE /\ link[conn[o]] \in {"idle", "stale"} /\ UNCHANGED <<link, effect>>
           /\ Pg!Goto(o, "put") /\ Pg!Report(o, "ok")
    <2>1. Pg!TypeOK'
        BY <1>0, <1>1 DEF Pg!TypeOK, Pg!Goto, Pg!Report
    <2>2. /\ pgPc'[o] = "put" /\ outcome'[o] = "ok" /\ effect'[o] = "none"
          /\ \A q \in Ops \ {o} : pgPc'[q] = pgPc[q] /\ outcome'[q] = outcome[q]
        BY <1>0, <1>1 DEF Pg!TypeOK, Pg!Goto, Pg!Report
    <2> QED
        BY <1>0, <1>1, <2>1, <2>2, InsideIInv
<1>2. CASE /\ link[conn[o]] = "active"
           /\ link' = [link EXCEPT ![conn[o]] = "idle"]
           /\ effect' = [effect EXCEPT ![o] = "durable"]
           /\ Pg!Goto(o, "put") /\ Pg!Report(o, "ok")
    <2>1. Pg!TypeOK'
        BY <1>0, <1>2 DEF Pg!TypeOK, Pg!LinkStates, Pg!Goto, Pg!Report
    <2>2. /\ link'[conn[o]] = "idle" /\ \A c \in Pg!Conns \ {conn[o]} : link'[c] = link[c]
          /\ effect'[o] = "durable" /\ \A q \in Ops \ {o} : effect'[q] = effect[q]
          /\ pgPc'[o] = "put" /\ outcome'[o] = "ok"
          /\ \A q \in Ops \ {o} : pgPc'[q] = pgPc[q] /\ outcome'[q] = outcome[q]
        BY <1>0, <1>2 DEF Pg!TypeOK, Pg!Goto, Pg!Report
    <2> QED
        BY <1>0, <1>2, <2>1, <2>2, InsideIInv
<1>3. CASE /\ link[conn[o]] \in {"active", "lost", "closed"}
           /\ link' = [link EXCEPT ![conn[o]] = IF @ = "active" THEN "idle" ELSE "closed"]
           /\ effect' = Pg!Undo(effect, o)
           /\ Pg!Goto(o, "rollback") /\ UNCHANGED outcome
    <2>1. Pg!TypeOK'
        BY <1>0, <1>3 DEF Pg!TypeOK, Pg!LinkStates, Pg!Goto, Pg!Undo
    <2>2. /\ link'[conn[o]] \in {"idle", "closed"} /\ \A c \in Pg!Conns \ {conn[o]} : link'[c] = link[c]
          /\ link[conn[o]] = "closed" => link'[conn[o]] = "closed"
          /\ effect'[o] \notin {"pending", "durable"} /\ \A q \in Ops \ {o} : effect'[q] = effect[q]
          /\ pgPc'[o] = "rollback" /\ \A q \in Ops \ {o} : pgPc'[q] = pgPc[q]
        BY <1>0, <1>3 DEF Pg!TypeOK, Pg!Goto, Pg!Undo
    <2> QED
        BY <1>0, <1>3, <2>1, <2>2, InsideIInv
<1> QED
    BY <1>1, <1>2, <1>3 DEF Pg!Commit

(* A rollback drops the work of one borrower. *)
LEMMA RollbackIInv == ASSUME PgInv, NEW o \in Ops, Pg!Rollback(o) PROVE PgInv'
<1> USE DEF PgInv
<1>0. /\ pgPc[o] = "rollback" /\ conn[o] \in Pg!Conns /\ link[conn[o]] # "none"
      /\ UNCHANGED <<free, used, closed, conn>>
      /\ effect[o] # "durable"
    BY DEF Pg!Rollback, Lending, Holding, Out, Pg!TypeOK, Progress
<1>1. /\ link' = [link EXCEPT ![conn[o]] = Pg!RolledBack(@)]
      /\ effect' = Pg!Undo(effect, o)
      /\ pgPc' = [pgPc EXCEPT ![o] = "put"]
      /\ outcome' = [outcome EXCEPT ![o] = "error"]
    BY DEF Pg!Rollback, Pg!Goto, Pg!Report
<1>2. Pg!TypeOK'
    BY <1>0, <1>1 DEF Pg!TypeOK, Pg!LinkStates, Pg!Undo, Pg!RolledBack
<1>3. /\ link'[conn[o]] \in {"closed", "idle", "stale"} /\ \A c \in Pg!Conns \ {conn[o]} : link'[c] = link[c]
      /\ link[conn[o]] = "closed" => link'[conn[o]] = "closed"
      /\ effect'[o] \notin {"pending", "durable"} /\ \A q \in Ops \ {o} : effect'[q] = effect[q]
      /\ pgPc'[o] = "put" /\ outcome'[o] = "error"
      /\ \A q \in Ops \ {o} : pgPc'[q] = pgPc[q] /\ outcome'[q] = outcome[q]
    BY <1>0, <1>1 DEF Pg!TypeOK, Pg!Undo, Pg!RolledBack
<1> QED
    BY <1>0, <1>2, <1>3, InsideIInv

(* putconn returns, or raises because the pool is closed. *)
LEMMA PutIInv == ASSUME PgInv, NEW o \in Ops, Pg!Put(o) PROVE PgInv'
<1> USE DEF PgInv
<1>0. /\ pgPc[o] = "put" /\ pgPc' = [pgPc EXCEPT ![o] = "ended"]
      /\ conn[o] \in Pg!Conns /\ conn[o] \in used
      /\ UNCHANGED <<closed, conn>>
    BY DEF Pg!Put, Pg!Goto, Lending, Holding, Out, Pg!TypeOK
<1>1. /\ pgPc'[o] = "ended" /\ \A q \in Ops \ {o} : pgPc'[q] = pgPc[q]
      /\ Holding(o) /\ ~Holding(o)' /\ \A q \in Ops \ {o} : Holding(q)' <=> Holding(q)
      /\ outcome[o] # "stranded"
    BY <1>0 DEF Pg!TypeOK, Holding, Lending
<1>2. CASE closed
    <2>1. outcome' = [outcome EXCEPT ![o] = "error"] /\ UNCHANGED <<link, free, used, effect>>
        BY <1>2 DEF Pg!Put, Pg!Report
    <2>2. Pg!TypeOK'
        BY <1>0, <2>1 DEF Pg!TypeOK
    <2>3. outcome'[o] = "error" /\ \A q \in Ops \ {o} : outcome'[q] = outcome[q]
        BY <2>1 DEF Pg!TypeOK
    <2>4. ~Out(o)' /\ \A q \in Ops \ {o} : Out(q)' <=> Out(q)
        BY <1>1, <2>3 DEF Out
    <2>5. Lending'
        BY <1>0, <1>1, <1>2, <2>1, <2>3, <2>4 DEF Lending
    <2>6. effect[o] # "pending"
        BY <1>0, <1>1, <1>2 DEF OpenWork, Lending
    <2>7. OpenWork'
        BY <1>0, <1>1, <2>1, <2>6 DEF OpenWork
    <2>8. Progress'
        BY <1>0, <1>1, <1>2, <2>1, <2>3 DEF Progress
    <2> QED
        BY <2>2, <2>5, <2>7, <2>8
<1>3. CASE ~closed
    <2>1. /\ used' = used \ {conn[o]} /\ effect' = Pg!Undo(effect, o) /\ UNCHANGED outcome
          /\ \/ /\ free' = free \cup {conn[o]}
                /\ link[conn[o]] \notin {"lost", "closed"}
                /\ link' = [link EXCEPT ![conn[o]] = Pg!RolledBack(@)]
             \/ free' = free /\ link' = [link EXCEPT ![conn[o]] = "closed"]
        BY <1>3 DEF Pg!Put
    <2>2. Pg!TypeOK'
        BY <1>0, <2>1 DEF Pg!TypeOK, Pg!LinkStates, Pg!Undo, Pg!RolledBack
    <2>3. /\ link'[conn[o]] # "none" /\ \A c \in Pg!Conns \ {conn[o]} : link'[c] = link[c]
          /\ effect'[o] # "pending" /\ effect'[o] \in {effect[o], "undone"}
          /\ effect[o] # "pending" => effect'[o] = effect[o]
          /\ \A q \in Ops \ {o} : effect'[q] = effect[q]
        BY <1>0, <2>1 DEF Pg!TypeOK, Pg!Undo, Pg!RolledBack
    <2>4. \A q \in Ops \ {o} : Out(q) => conn[q] # conn[o] /\ link'[conn[q]] = link[conn[q]]
        BY <1>1, <2>3, OthersKept DEF Lending, Out
    <2>5. ~Out(o)' /\ \A q \in Ops \ {o} : Out(q)' <=> Out(q)
        BY <1>1, <2>1 DEF Out
    <2>6. Lending'
        <3>1. ASSUME NEW c \in used' PROVE \E q \in Ops : Out(q)' /\ conn'[q] = c
            <4>1. PICK q \in Ops : Out(q) /\ conn[q] = c
                BY <1>3, <2>1 DEF Lending
            <4> QED
                BY <1>0, <2>1, <2>5, <4>1
        <3>2. free' \cap used' = {}
            BY <2>1 DEF Lending
        <3>3. \A c \in free' \cup used' : link'[c] # "none"
            BY <2>1, <2>3 DEF Lending, Pg!TypeOK
        <3>4. \A q \in Ops : Out(q)' => conn'[q] \in used'
            BY <1>0, <2>1, <2>4, <2>5 DEF Lending
        <3>5. \A q, r \in Ops : Out(q)' /\ Out(r)' /\ conn'[q] = conn'[r] => q = r
            BY <1>0, <2>5 DEF Lending
        <3>6. \A q \in Ops : outcome'[q] = "stranded" => pgPc'[q] = "ended" /\ link'[conn'[q]] = "closed"
            BY <1>0, <1>1, <2>1, <2>4 DEF Lending, Out
        <3> QED
            BY <1>0, <1>3, <3>1, <3>2, <3>3, <3>4, <3>5, <3>6 DEF Lending
    <2>7. OpenWork'
        BY <1>0, <1>1, <2>3, <2>4 DEF OpenWork, Out
    <2>8. Progress'
        <3>1. \A q \in Ops \ {o} : pgPc[q] \in {"body", "commit", "put"} => link'[conn[q]] = link[conn[q]]
            BY <2>4 DEF Holding, Out
        <3> QED
            BY <1>0, <1>1, <1>3, <2>1, <2>3, <3>1 DEF Progress
    <2> QED
        BY <2>2, <2>6, <2>7, <2>8
<1> QED
    BY <1>2, <1>3

(* The rollback of putconn raises: the connection stays counted as out. *)
LEMMA PutRaisesIInv == ASSUME PgInv, NEW o \in Ops, Pg!PutRaises(o) PROVE PgInv'
<1> USE DEF PgInv
<1>0. /\ pgPc[o] = "put" /\ pgPc' = [pgPc EXCEPT ![o] = "ended"]
      /\ outcome' = [outcome EXCEPT ![o] = "stranded"]
      /\ conn[o] \in Pg!Conns /\ link[conn[o]] = "lost" /\ ~closed
      /\ link' = [link EXCEPT ![conn[o]] = "closed"]
      /\ UNCHANGED <<free, used, closed, conn, effect>>
    BY DEF Pg!PutRaises, Pg!Goto, Pg!Report, Lending, Holding, Out, Pg!TypeOK
<1>1. /\ pgPc'[o] = "ended" /\ outcome'[o] = "stranded" /\ link'[conn[o]] = "closed"
      /\ \A q \in Ops \ {o} : pgPc'[q] = pgPc[q] /\ outcome'[q] = outcome[q]
      /\ \A c \in Pg!Conns \ {conn[o]} : link'[c] = link[c]
    BY <1>0 DEF Pg!TypeOK
<1>2. Pg!TypeOK'
    BY <1>0 DEF Pg!TypeOK, Pg!LinkStates
<1>3. /\ Holding(o) /\ ~Holding(o)' /\ \A q \in Ops \ {o} : Holding(q)' <=> Holding(q)
      /\ \A q \in Ops : Out(q)' <=> Out(q)
    BY <1>0, <1>1 DEF Holding, Out
<1>4. \A q \in Ops \ {o} : Out(q) => link'[conn[q]] = link[conn[q]]
    BY <1>1, <1>3, OthersKept
<1>5. Lending'
    <2>1. \A c \in free \cup used : link'[c] # "none"
        BY <1>1 DEF Lending, Pg!TypeOK
    <2>2. \A q \in Ops : outcome'[q] = "stranded" => pgPc'[q] = "ended" /\ link'[conn[q]] = "closed"
        BY <1>1, <1>4 DEF Lending, Out
    <2> QED
        BY <1>0, <1>3, <2>1, <2>2 DEF Lending
<1>6. effect[o] \notin {"pending", "durable"}
    BY <1>0 DEF OpenWork, Progress
<1>7. OpenWork'
    BY <1>0, <1>3, <1>4, <1>6 DEF OpenWork, Out
<1>8. Progress'
    <2>1. \A q \in Ops \ {o} : pgPc[q] \in {"body", "commit", "put"} => link'[conn[q]] = link[conn[q]]
        BY <1>4 DEF Holding, Out
    <2> QED
        BY <1>0, <1>1, <1>6, <2>1 DEF Progress
<1> QED
    BY <1>2, <1>5, <1>7, <1>8

(* closeall, from any thread. *)
LEMMA CloseIInv == ASSUME PgInv, Pg!Close PROVE PgInv'
<1> USE DEF PgInv
<1>1. /\ ~closed /\ closed' = TRUE
      /\ link' = [c \in Pg!Conns |-> IF c \in free \cup used THEN "closed" ELSE link[c]]
      /\ effect' = [o \in Ops |-> IF conn[o] \in used /\ effect[o] = "pending"
                                  THEN "undone" ELSE effect[o]]
      /\ UNCHANGED <<free, used, pgPc, conn, outcome>>
    BY DEF Pg!Close
<1>2. Pg!TypeOK'
    BY <1>1 DEF Pg!TypeOK, Pg!LinkStates
<1>3. \A o \in Ops : (Holding(o)' <=> Holding(o)) /\ (Out(o)' <=> Out(o))
    BY <1>1 DEF Holding, Out
<1>4. \A c \in free \cup used : link'[c] = "closed"
    BY <1>1 DEF Pg!TypeOK
<1>5. \A o \in Ops : Out(o) => link'[conn[o]] = "closed"
    BY <1>4 DEF Lending
<1>6. Lending'
    BY <1>1, <1>3, <1>4, <1>5 DEF Lending, Out
<1>7. \A o \in Ops : effect'[o] # "pending" /\ effect'[o] \in {effect[o], "undone"}
                    /\ (effect[o] # "pending" => effect'[o] = effect[o])
    BY <1>1 DEF OpenWork, Lending, Out
<1>8. OpenWork'
    BY <1>7 DEF OpenWork
<1>9. Progress'
    <2>1. \A o \in Ops : pgPc[o] \in {"body", "commit", "put"} => link'[conn[o]] = "closed"
        BY <1>5 DEF Out, Holding
    <2> QED
        BY <1>1, <1>7, <2>1 DEF Progress
<1> QED
    BY <1>2, <1>6, <1>8, <1>9

(* The server's end of a connection is lost, wherever the connection is. *)
LEMMA DropIInv == ASSUME PgInv, NEW c \in Pg!Conns, Pg!Drop(c) PROVE PgInv'
<1> USE DEF PgInv
<1>0. /\ c \in free \cup used /\ link[c] \in {"idle", "active", "failed"}
      /\ link' = [link EXCEPT ![c] = IF @ = "idle" THEN "stale" ELSE "lost"]
      /\ effect' = [o \in Ops |->
                        IF conn[o] = c /\ effect[o] = "pending"
                        THEN IF pgPc[o] = "commit" THEN "unknown" ELSE "undone"
                        ELSE effect[o]]
      /\ UNCHANGED <<free, used, closed, pgPc, conn, outcome>>
    BY DEF Pg!Drop
<1>1. Pg!TypeOK'
    BY <1>0 DEF Pg!TypeOK, Pg!LinkStates
<1>2. /\ link'[c] = IF link[c] = "idle" THEN "stale" ELSE "lost"
      /\ \A d \in Pg!Conns \ {c} : link'[d] = link[d]
    BY <1>0 DEF Pg!TypeOK
<1>3. \A o \in Ops : (Holding(o)' <=> Holding(o)) /\ (Out(o)' <=> Out(o))
    BY <1>0 DEF Holding, Out
<1>4. Lending'
    <2>1. \A d \in free \cup used : link'[d] # "none"
        BY <1>2 DEF Lending, Pg!TypeOK
    <2>2. ~closed
        BY <1>0 DEF Lending
    <2>3. \A o \in Ops : outcome[o] = "stranded" => link'[conn[o]] = "closed"
        BY <1>0, <1>2 DEF Lending, Out, Pg!TypeOK
    <2> QED
        BY <1>0, <1>3, <2>1, <2>2, <2>3 DEF Lending
<1>5. \A o \in Ops : /\ conn[o] = c => effect'[o] # "pending"
                     /\ conn[o] # c => effect'[o] = effect[o]
                     /\ effect'[o] \in {effect[o], "unknown", "undone"}
                     /\ effect[o] # "pending" => effect'[o] = effect[o]
    BY <1>0
<1>6. \A o \in Ops : Holding(o) => conn[o] \in Pg!Conns
    BY DEF Lending, Out, Pg!TypeOK
<1>7. OpenWork'
    BY <1>0, <1>2, <1>3, <1>5, <1>6 DEF OpenWork
<1>8. Progress'
    <2>1. ASSUME NEW o \in Ops, pgPc[o] \in {"body", "commit"}
          PROVE  effect'[o] \in {"none", "pending"} \/ link'[conn[o]] \in {"lost", "closed"}
        <3>1. Holding(o)
            BY <2>1 DEF Holding
        <3>2. CASE conn[o] = c
            BY <1>0, <1>2, <1>5, <2>1, <3>2 DEF Progress, OpenWork
        <3>3. CASE conn[o] # c
            BY <1>2, <1>5, <1>6, <2>1, <3>1, <3>3 DEF Progress
        <3> QED
            BY <3>2, <3>3
    <2>2. ASSUME NEW o \in Ops, pgPc[o] = "put", effect'[o] = "durable"
          PROVE  link'[conn[o]] \in {"idle", "stale", "closed"}
        <3>1. Holding(o) /\ effect[o] = "durable"
            BY <1>5, <2>2 DEF Holding
        <3>2. conn[o] \in Pg!Conns /\ link[conn[o]] \in {"idle", "stale", "closed"}
            BY <1>6, <2>2, <3>1 DEF Progress
        <3>3. CASE conn[o] = c
            BY <1>0, <1>2, <3>2, <3>3
        <3>4. CASE conn[o] # c
            BY <1>2, <3>2, <3>4
        <3> QED
            BY <3>3, <3>4
    <2>3. \A o \in Ops : outcome[o] = "ok" => effect'[o] = effect[o]
        BY <1>5 DEF Progress
    <2>4. \A o \in Ops : effect[o] # "durable" => effect'[o] # "durable"
        BY <1>5
    <2>5. \A o \in Ops : effect[o] = "none" => effect'[o] = "none"
        BY <1>5
    <2> QED
        BY <1>0, <2>1, <2>2, <2>3, <2>4, <2>5 DEF Progress
<1> QED
    BY <1>1, <1>4, <1>7, <1>8

(* Every step of an operation, of the server and of close keeps the invariant. *)
LEMMA NextIInv == ASSUME Arguments PROVE PgInv /\ [Pg!Next]_(Pg!vars) => PgInv'
<1> SUFFICES ASSUME PgInv, [Pg!Next]_(Pg!vars) PROVE PgInv'
    OBVIOUS
<1>1. ASSUME NEW o \in Ops, Pg!OpStep(o) PROVE PgInv'
    BY <1>1, BorrowIInv, BorrowRaisesIInv, ExecuteIInv, BodyEndsIInv, CommitIInv, RollbackIInv,
       PutIInv, PutRaisesIInv DEF Pg!OpStep
<1>2. ASSUME NEW c \in Pg!Conns, Pg!Drop(c) PROVE PgInv'
    BY <1>2, DropIInv
<1>3. CASE Pg!Close
    BY <1>3, CloseIInv
<1>4. CASE UNCHANGED Pg!vars
    BY <1>4 DEF Pg!vars, PgInv, Pg!TypeOK, Lending, OpenWork, Progress, Holding, Out
<1> QED
    BY <1>1, <1>2, <1>3, <1>4 DEF Pg!Next

-----------------------------------------------------------------------------

(* The invariant holds in every reachable state of PgStorage. *)
THEOREM PgInvariance == ASSUME Arguments PROVE Pg!Spec => []PgInv
<1>1. Pg!Init => PgInv
    BY InitIInv
<1>2. PgInv /\ [Pg!Next]_(Pg!vars) => PgInv'
    BY NextIInv
<1> QED
    BY <1>1, <1>2, PTL DEF Pg!Spec

(* Every variable of the pool and its operations keeps its type; so connections
   are never opened beyond the first minconn and one per operation. *)
THEOREM PgTypeCorrect == ASSUME Arguments PROVE Pg!Spec => []Pg!TypeOK
<1>1. PgInv => Pg!TypeOK
    BY DEF PgInv
<1> QED
    BY <1>1, PgInvariance, PTL

(* While the pool is open, the connections that are out are those of the
   operations under way, each its own, whatever exceptions, abandoned streams
   and lost connections there were -- but for closed ones, each of which an
   abandoned operation left when putconn itself met the loss. *)
THEOREM ConnectionsComeBack == ASSUME Arguments PROVE Pg!Spec => []NoConnectionLeaked
<1>1. PgInv => NoConnectionLeaked
    <2> SUFFICES ASSUME PgInv, ~closed PROVE NoConnectionLeaked
        BY DEF NoConnectionLeaked, Pg!NoConnectionLeaked
    <2>1. \A o \in Ops : Out(o) <=> Pg!UnderWay(o) \/ outcome[o] = "stranded"
        BY DEF Out, Holding, Pg!UnderWay
    <2> QED
        BY <2>1 DEF PgInv, Lending, NoConnectionLeaked, Pg!NoConnectionLeaked
<1> QED
    BY <1>1, PgInvariance, PTL

(* A normal return means durable, an abandoned stream never is, an error is
   durable only if the pool was closed between commit and putconn, and nothing
   stays pending -- whoever closes the pool, and wherever a connection is lost. *)
THEOREM OutcomesAreHonest == ASSUME Arguments PROVE Pg!Spec => []OutcomeTellsEffect
<1>1. PgInv => OutcomeTellsEffect
    BY DEF PgInv, Progress, OpenWork, Holding, OutcomeTellsEffect, Pg!OutcomeTellsEffect
<1> QED
    BY <1>1, PgInvariance, PTL

-----------------------------------------------------------------------------
(* DuckdbStorage. *)

(* Between the two halves of the constructor: as long as there is no file, an
   object that looked for it says that it is new. *)
DuckInv ==
    /\ Duck!TypeOK
    /\ \A d \in Objects : pc[d] = "checked" /\ ~file => isNew[d]
    /\ \A d \in creator : isNew[d] /\ pc[d] # "new"

(* Initially there is no object. *)
LEMMA DuckInit == ASSUME MaxCursors \in Nat, MaxRows \in Nat, Duck!Init PROVE DuckInv
BY DEF Duck!Init, DuckInv, Duck!TypeOK

(* Every step of an object keeps the invariant. *)
LEMMA DuckNext ==
    ASSUME MaxCursors \in Nat, MaxRows \in Nat, DuckInv, [Duck!Next]_(Duck!vars)
    PROVE  DuckInv'
<1> USE DEF DuckInv, Duck!TypeOK
<1>1. ASSUME NEW d \in Objects, Duck!LookForFile(d) PROVE DuckInv'
    BY <1>1 DEF Duck!LookForFile
<1>2. ASSUME NEW d \in Objects, Duck!Connect(d) PROVE DuckInv'
    BY <1>2 DEF Duck!Connect
<1>3. ASSUME NEW d \in Objects, Duck!ConnectRaises(d) \/ Duck!Delete(d) PROVE DuckInv'
    BY <1>3 DEF Duck!ConnectRaises, Duck!Delete
<1>4. ASSUME NEW d \in Objects, Duck!StreamBegins(d) \/ Duck!StreamEnds(d) PROVE DuckInv'
    BY <1>4 DEF Duck!StreamBegins, Duck!StreamEnds
<1>5. ASSUME NEW d \in Objects, Duck!Cursor(d) \/ Duck!CursorCloses(d) PROVE DuckInv'
    BY <1>5 DEF Duck!Cursor, Duck!CursorCloses
<1>6. ASSUME NEW d \in Objects, Duck!ImportBegins(d) \/ Duck!Copy(d) \/ Duck!ImportEnds(d) PROVE DuckInv'
    BY <1>6 DEF Duck!ImportBegins, Duck!Copy, Duck!ImportEnds
<1>7. CASE UNCHANGED Duck!vars
    BY <1>7 DEF Duck!vars
<1> QED
    BY <1>1, <1>2, <1>3, <1>4, <1>5, <1>6, <1>7 DEF Duck!Next

(* The object whose connect created the file says that it is newly created,
   however many objects and processes open the file at once. *)
THEOREM CreatorIsTold ==
    ASSUME MaxCursors \in Nat, MaxRows \in Nat PROVE Duck!Spec => []CreatorKnows
<1>1. Duck!Init => DuckInv
    BY DuckInit
<1>2. DuckInv /\ [Duck!Next]_(Duck!vars) => DuckInv'
    BY DuckNext
<1>3. DuckInv => CreatorKnows
    BY DEF DuckInv, CreatorKnows, Duck!CreatorKnows
<1> QED
    BY <1>1, <1>2, <1>3, PTL DEF Duck!Spec

-----------------------------------------------------------------------------
(* The three classes side by side: a step of one is none of the others', so
   the types of all are kept. *)
THEOREM AllTyped ==
    ASSUME Arguments, MaxCursors \in Nat, MaxRows \in Nat
    PROVE  AllSpec => []AllTypeOK
<1> DEFINE AllInv == TypeOK /\ PgInv /\ DuckInv
<1>1. AllInit => AllInv
    BY InitTx, InitIInv, DuckInit DEF AllInit, TxInv
<1>2. AllInv /\ [AllNext]_<<part, vars, pgVars, duckVars>> => AllInv'
    <2>1. [AllNext]_<<part, vars, pgVars, duckVars>> =>
              [Next]_vars /\ [Pg!Next]_(Pg!vars) /\ [Duck!Next]_(Duck!vars)
        BY DEF AllNext, pgVars, duckVars, Pg!vars, Duck!vars
    <2> QED
        BY <2>1, TypeStep, NextIInv, DuckNext
<1>3. AllInv => AllTypeOK
    BY DEF PgInv, DuckInv, AllTypeOK
<1> QED
    BY <1>1, <1>2, <1>3, PTL DEF AllSpec
=============================================================================
