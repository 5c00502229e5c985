--------------------------- MODULE SqliteByteStore ---------------------------
(***************************************************************************)
(* llm/langchain/sqlite_byte_store.py: a key-value store on one SQLite     *)
(* table.  Several stores, each with a connection of its own, may share    *)
(* the file.                                                               *)
(*                                                                         *)
(* Every method wraps its statement in "with self.conn", which commits     *)
(* when the block ends and rolls back when an exception leaves it.  The    *)
(* blocks of one connection nest: mset pulls its pairs from the caller's   *)
(* iterable inside its block, and that iterable may use the same store;    *)
(* and a yield_keys generator keeps its block open between two keys.  The  *)
(* transaction does not nest, so an inner block ends the outer one's.      *)
(*                                                                         *)
(* SQLite is external: the first write of a transaction takes the file's   *)
(* write lock, waits for it at most 5 s, then raises; others read what was *)
(* committed last.                                                         *)
(***************************************************************************)
EXTENDS Naturals, FiniteSets

CONSTANTS
    Stores,     \* SqliteByteStore objects on one file
    NoStore,
    Keys,
    Absent,     \* the value of a key without a row
    MaxCalls    \* bound: mset calls

ASSUME StoresAssumption == NoStore \notin Stores /\ Absent \notin Stores
ASSUME ArgsAssumption   == MaxCalls \in Nat

(* A row's value is the store that wrote it. *)
Tables == [Keys -> Stores \cup {Absent}]

VARIABLES
    table,      \* the committed rows
    writer,     \* the store whose transaction holds the write lock
    draft,      \* the rows as that transaction sees them
    inTx,       \* inTx[s]: conn.in_transaction
    at,         \* at[s]: "idle", "writing", "returned" or "raised" from mset
    batch,      \* batch[s]: the keys of the current mset
    todo,       \* todo[s]: those not pulled from the iterable yet
    listing,    \* listing[s]: is a yield_keys generator suspended?
    calls,
    written,    \* history: keys mset wrote and has not committed
    kept,       \* history: keys of the current mset that were committed
    undone,     \* history: keys of the current mset that were rolled back
    reentered   \* history: the iterable of the current mset used the store

txVars == <<table, writer, draft, inTx, written, kept, undone>>
vars   == <<txVars, at, batch, todo, listing, calls, reentered>>

TypeOK ==
    /\ table \in Tables
    /\ writer \in Stores \cup {NoStore}
    /\ draft \in Tables
    /\ inTx \in [Stores -> BOOLEAN]
    /\ at \in [Stores -> {"idle", "writing", "returned", "raised"}]
    /\ batch \in [Stores -> SUBSET Keys]
    /\ todo \in [Stores -> SUBSET Keys]
    /\ listing \in [Stores -> BOOLEAN]
    /\ calls \in 0 .. MaxCalls
    /\ written \in [Stores -> SUBSET Keys]
    /\ kept \in [Stores -> SUBSET Keys]
    /\ undone \in [Stores -> SUBSET Keys]
    /\ reentered \in [Stores -> BOOLEAN]

Init ==
    /\ table = [k \in Keys |-> Absent] /\ draft = table
    /\ writer = NoStore
    /\ inTx = [s \in Stores |-> FALSE]
    /\ at = [s \in Stores |-> "idle"]
    /\ batch = [s \in Stores |-> {}]
    /\ todo = [s \in Stores |-> {}]
    /\ listing = [s \in Stores |-> FALSE]
    /\ calls = 0
    /\ written = [s \in Stores |-> {}]
    /\ kept = [s \in Stores |-> {}]
    /\ undone = [s \in Stores |-> {}]
    /\ reentered = [s \in Stores |-> FALSE]

LockFree(s) == writer \in {NoStore, s}

(* What a statement of s reads. *)
View(s) == IF writer = s THEN draft ELSE table

Released(s) == IF writer = s THEN NoStore ELSE writer

(* "with self.conn" ends: the transaction is committed, whoever began it;
   changed is the rows that the block's own statement leaves. *)
CommitWith(s, changed) ==
    /\ table' = changed
    /\ draft' = changed
    /\ writer' = Released(s)
    /\ inTx' = [inTx EXCEPT ![s] = FALSE]
    /\ kept' = [kept EXCEPT ![s] = @ \cup written[s]]
    /\ written' = [written EXCEPT ![s] = {}]
    /\ UNCHANGED undone

(* Nothing changes in the file when s holds no lock, and the draft of another
   store goes on. *)
Commit(s) ==
    IF writer = s THEN CommitWith(s, draft)
    ELSE /\ inTx' = [inTx EXCEPT ![s] = FALSE]
         /\ UNCHANGED <<table, writer, draft, written, kept, undone>>

(* An exception leaves "with self.conn". *)
Rollback(s) ==
    /\ draft' = IF writer = s THEN table ELSE draft
    /\ writer' = Released(s)
    /\ inTx' = [inTx EXCEPT ![s] = FALSE]
    /\ undone' = [undone EXCEPT ![s] = @ \cup written[s]]
    /\ written' = [written EXCEPT ![s] = {}]
    /\ UNCHANGED <<table, kept>>

(* The store is used; inside the iterable of an mset, if one is going on. *)
Used(s) == reentered' = [reentered EXCEPT ![s] = @ \/ at[s] = "writing"]

(* mset begins: the transaction is opened before the first pair is pulled. *)
MSet(s, keys) ==
    /\ at[s] # "writing"
    /\ calls < MaxCalls
    /\ calls' = calls + 1
    /\ at' = [at EXCEPT ![s] = "writing"]
    /\ batch' = [batch EXCEPT ![s] = keys]
    /\ todo' = [todo EXCEPT ![s] = keys]
    /\ inTx' = [inTx EXCEPT ![s] = TRUE]
    /\ kept' = [kept EXCEPT ![s] = {}]
    /\ undone' = [undone EXCEPT ![s] = {}]
    /\ reentered' = [reentered EXCEPT ![s] = FALSE]
    /\ UNCHANGED <<table, writer, draft, written, listing>>

(* The next pair: INSERT OR REPLACE, in the transaction if it is still open,
   else committed by itself. *)
Insert(s, k) ==
    /\ at[s] = "writing" /\ k \in todo[s]
    /\ LockFree(s)
    /\ todo' = [todo EXCEPT ![s] = @ \ {k}]
    /\ IF inTx[s]
       THEN /\ draft' = [View(s) EXCEPT ![k] = s]
            /\ writer' = s
            /\ written' = [written EXCEPT ![s] = @ \cup {k}]
            /\ UNCHANGED <<table, inTx, kept>>
       ELSE /\ table' = [table EXCEPT ![k] = s]
            /\ draft' = table'
            /\ kept' = [kept EXCEPT ![s] = @ \cup {k}]
            /\ UNCHANGED <<writer, inTx, written>>
    /\ UNCHANGED <<at, batch, listing, calls, undone, reentered>>

(* Mutants -- wrong variants of the definition that follows, used to show that
   a property can fail -- are marked so.  Mutant: mset without the with block. *)
MSetNoCommit(s) ==
    /\ at[s] = "writing" /\ todo[s] = {}
    /\ at' = [at EXCEPT ![s] = "returned"]
    /\ UNCHANGED <<txVars, batch, todo, listing, calls, reentered>>

MSetReturns(s) ==
    /\ at[s] = "writing" /\ todo[s] = {}
    /\ at' = [at EXCEPT ![s] = "returned"]
    /\ Commit(s)
    /\ UNCHANGED <<batch, todo, listing, calls, reentered>>

(* Mutant: the block ends with a commit whatever happened. *)
MSetCommits(s) ==
    /\ at[s] = "writing"
    /\ at' = [at EXCEPT ![s] = "raised"]
    /\ Commit(s)
    /\ UNCHANGED <<batch, todo, listing, calls, reentered>>

(* The iterable raises, or "database is locked" does. *)
MSetRaises(s) ==
    /\ at[s] = "writing"
    /\ at' = [at EXCEPT ![s] = "raised"]
    /\ Rollback(s)
    /\ UNCHANGED <<batch, todo, listing, calls, reentered>>

(* mget, by itself or from the iterable of an mset. *)
MGet(s) ==
    /\ Commit(s)
    /\ Used(s)
    /\ UNCHANGED <<at, batch, todo, listing, calls>>

(* mdelete: one statement, in a transaction of its own or in the one that is
   open. *)
MDelete(s, k) ==
    /\ LockFree(s)
    /\ CommitWith(s, [View(s) EXCEPT ![k] = Absent])
    /\ Used(s)
    /\ UNCHANGED <<at, batch, todo, listing, calls>>

(* The statement of mget, of mdelete or of an mset inside the iterable raises:
   it is locked out, or does not take its arguments.  The exception leaves its
   block, and the iterable may let it pass. *)
CallRaises(s) ==
    /\ Rollback(s)
    /\ Used(s)
    /\ UNCHANGED <<at, batch, todo, listing, calls>>

(* yield_keys fetches the keys and stays in its block until the caller has
   seen the last one ... *)
ListStarts(s) ==
    /\ ~listing[s]
    /\ listing' = [listing EXCEPT ![s] = TRUE]
    /\ UNCHANGED <<txVars, at, batch, todo, calls, reentered>>

ListEnds(s) ==
    /\ listing[s]
    /\ listing' = [listing EXCEPT ![s] = FALSE]
    /\ Commit(s)
    /\ Used(s)
    /\ UNCHANGED <<at, batch, todo, calls>>

(* ... or drops the generator, which leaves the block by GeneratorExit. *)
ListAbandoned(s) ==
    /\ listing[s]
    /\ listing' = [listing EXCEPT ![s] = FALSE]
    /\ Rollback(s)
    /\ Used(s)
    /\ UNCHANGED <<at, batch, todo, calls>>

Next ==
    \E s \in Stores :
        \/ \E keys \in SUBSET Keys : MSet(s, keys)
        \/ \E k \in Keys : Insert(s, k) \/ MDelete(s, k)
        \/ MSetReturns(s) \/ MSetRaises(s) \/ MGet(s) \/ CallRaises(s)
        \/ ListStarts(s) \/ ListEnds(s) \/ ListAbandoned(s)

Spec == Init /\ [][Next]_vars

-----------------------------------------------------------------------------
(* mset sets the values for the given keys: when it returns, every pair was
   committed. *)
StoredWhenReturned ==
    \A s \in Stores : at[s] = "returned" => kept[s] = batch[s]

(* What holds of it: when mset returns, every pair was committed but for those
   that an inner block had taken back, which was left by an exception that the
   iterable caught or by a listing that it dropped: every pair, if the iterable
   did not use the store. *)
StoredOrUndone ==
    \A s \in Stores : at[s] = "returned" =>
        /\ batch[s] \ kept[s] \subseteq undone[s]
        /\ ~reentered[s] => undone[s] = {}

(* An mset that raises has stored nothing, unless its iterable used the store
   and so committed for it. *)
UntouchedWhenRaised ==
    \A s \in Stores : at[s] = "raised" /\ ~reentered[s] => kept[s] = {}

(* The write lock is never held between calls: other stores are locked out
   only while an mset pulls its pairs. *)
LockOnlyInCall == \A s \in Stores : writer = s => at[s] = "writing" /\ inTx[s]
=============================================================================
