------------------------------ MODULE PgStorage ------------------------------
(***************************************************************************)
(* storage/pg_storage.py: statements and streams on a psycopg2             *)
(* ThreadedConnectionPool.  Every operation borrows a connection through   *)
(* use_conn: commit when the block ends, rollback when an Exception leaves *)
(* it, neither when a stream is abandoned (GeneratorExit is no Exception), *)
(* and in every case the connection is put back.                           *)
(*                                                                         *)
(* The pool and the connections are external.  An operation is one thread  *)
(* of control: a call, or a generator that holds its connection between    *)
(* two fetches.  close() may come at any time, from any thread.  The       *)
(* server's end of a connection may be lost at any time; the client learns *)
(* of it when it next sends something.                                     *)
(***************************************************************************)
EXTENDS Naturals, FiniteSets

CONSTANTS
    Ops,        \* operations of a behaviour
    MinConn,    \* minconn
    MaxConn     \* maxconn

NoConn == 0
Conns  == 1 .. MinConn + Cardinality(Ops)   \* connections ever opened

VARIABLES
    link,       \* link[c]: see LinkStates
    free,       \* _pool: connections kept for reuse
    used,       \* _used: connections handed out
    closed,     \* the pool's closed flag
    pc,         \* pc[o]: "start", "body", "commit", "rollback", "put", "ended"
    conn,       \* conn[o]: the local conn of use_conn
    outcome,    \* outcome[o]: "none", "ok", "error", "abandoned" or "stranded"
    effect      \* history: effect[o]: "none", ... "undone" or "unknown"

vars == <<link, free, used, closed, pc, conn, outcome, effect>>

(* A connection is not opened, without a transaction, in one, in one that the
   server aborted, or closed; the server's end of an idle one may be gone
   ("stale"), or of one in a transaction ("lost"). *)
LinkStates == {"none", "idle", "active", "failed", "stale", "lost", "closed"}

TypeOK ==
    /\ link \in [Conns -> LinkStates]
    /\ free \subseteq Conns
    /\ used \subseteq Conns
    /\ closed \in BOOLEAN
    /\ pc \in [Ops -> {"start", "body", "commit", "rollback", "put", "ended"}]
    /\ conn \in [Ops -> Conns \cup {NoConn}]
    /\ outcome \in [Ops -> {"none", "ok", "error", "abandoned", "stranded"}]
    /\ effect \in [Ops -> {"none", "pending", "durable", "undone", "unknown"}]

(* The constructor opens minconn connections. *)
Init ==
    /\ link = [c \in Conns |-> IF c <= MinConn THEN "idle" ELSE "none"]
    /\ free = 1 .. MinConn
    /\ used = {}
    /\ closed = FALSE
    /\ pc = [o \in Ops |-> "start"]
    /\ conn = [o \in Ops |-> NoConn]
    /\ outcome = [o \in Ops |-> "none"]
    /\ effect = [o \in Ops |-> "none"]

Goto(o, l)  == pc' = [pc EXCEPT ![o] = l]
Report(o, r) == outcome' = [outcome EXCEPT ![o] = r]

Unopened == {c \in Conns : link[c] = "none"}
Lowest   == CHOOSE c \in Unopened : \A d \in Unopened : c <= d

(* getconn: a kept connection, else a new one while fewer than maxconn are
   out; otherwise, or after close(), PoolError. *)
Borrow(o) ==
    /\ pc[o] = "start"
    /\ ~closed
    /\ free # {} \/ (Cardinality(used) < MaxConn /\ Unopened # {})
    /\ \E c \in IF free # {} THEN free ELSE {Lowest} :
        /\ free' = free \ {c}
        /\ used' = used \cup {c}
        /\ link' = [link EXCEPT ![c] = IF @ = "none" THEN "idle" ELSE @]
        /\ conn' = [conn EXCEPT ![o] = c]
    /\ Goto(o, "body")
    /\ UNCHANGED <<closed, outcome, effect>>

(* All are out, or a new one cannot be opened. *)
BorrowRaises(o) ==
    /\ pc[o] = "start"
    /\ closed \/ free = {}
    /\ Goto(o, "ended")
    /\ Report(o, "error")
    /\ UNCHANGED <<link, free, used, closed, conn, effect>>

Undo(e, o) == [e EXCEPT ![o] = IF @ = "pending" THEN "undone" ELSE @]

(* A statement of the body, a fetch or the closing of a stream's cursor: the
   first one opens the transaction.  It succeeds, or the server aborts the
   transaction, or the connection turns out to be lost or closed; then an
   Exception leaves the block. *)
Execute(o) ==
    /\ pc[o] = "body"
    /\ \/ /\ link[conn[o]] \in {"idle", "active"}
          /\ link' = [link EXCEPT ![conn[o]] = "active"]
          /\ effect' = [effect EXCEPT ![o] = "pending"]
          /\ UNCHANGED pc
       \/ /\ link' = [link EXCEPT ![conn[o]] = IF @ \in {"idle", "active"} THEN "failed" ELSE "closed"]
          /\ Goto(o, "rollback")
          /\ effect' = Undo(effect, o)
    /\ UNCHANGED <<free, used, closed, conn, outcome>>

(* The body raises an Exception of its own. *)
BodyRaises(o) ==
    /\ pc[o] = "body"
    /\ Goto(o, "rollback")
    /\ UNCHANGED <<link, free, used, closed, conn, outcome, effect>>

(* Mutants -- wrong variants of the definition that follows, used to show that
   a property can fail -- are marked so.  Mutant: no commit. *)
BodySkipsCommit(o) ==
    /\ pc[o] = "body"
    /\ Goto(o, "put")
    /\ Report(o, "ok")
    /\ UNCHANGED <<link, free, used, closed, conn, effect>>

(* The block ends: the results are fetched, the stream is exhausted. *)
BodyEnds(o) ==
    /\ pc[o] = "body"
    /\ Goto(o, "commit")
    /\ UNCHANGED <<link, free, used, closed, conn, outcome, effect>>

(* The consumer drops the generator between two fetches. *)
Abandon(o) ==
    /\ pc[o] = "body"
    /\ Goto(o, "put")
    /\ Report(o, "abandoned")
    /\ UNCHANGED <<link, free, used, closed, conn, effect>>

(* conn.commit() sends nothing when no transaction is open.  It may fail on a
   live connection (a deferred constraint), which undoes the work too. *)
Commit(o) ==
    /\ pc[o] = "commit"
    /\ \/ /\ link[conn[o]] \in {"idle", "stale"}
          /\ Goto(o, "put")
          /\ Report(o, "ok")
          /\ UNCHANGED <<link, effect>>
       \/ /\ link[conn[o]] = "active"
          /\ link' = [link EXCEPT ![conn[o]] = "idle"]
          /\ effect' = [effect EXCEPT ![o] = "durable"]
          /\ Goto(o, "put")
          /\ Report(o, "ok")
       \/ /\ link[conn[o]] \in {"active", "lost", "closed"}
          /\ link' = [link EXCEPT ![conn[o]] = IF @ = "active" THEN "idle" ELSE "closed"]
          /\ effect' = Undo(effect, o)
          /\ Goto(o, "rollback")
          /\ UNCHANGED outcome
    /\ UNCHANGED <<free, used, closed, conn>>

(* What conn.rollback() leaves: without a transaction it sends nothing, on a
   lost or closed connection it raises and leaves a closed one. *)
RolledBack(l) ==
    CASE l = "stale"              -> "stale"
      [] l \in {"lost", "closed"} -> "closed"
      [] OTHER                    -> "idle"

(* Mutant: put back by the happy path only. *)
RollbackAndRaise(o) ==
    /\ pc[o] = "rollback"
    /\ link' = [link EXCEPT ![conn[o]] = RolledBack(@)]
    /\ effect' = Undo(effect, o)
    /\ Report(o, "error")
    /\ Goto(o, "ended")
    /\ UNCHANGED <<free, used, closed, conn>>

(* conn.rollback() and the exception goes on, or the one that the rollback
   raises.  Both pass through the finally clause. *)
Rollback(o) ==
    /\ pc[o] = "rollback"
    /\ link' = [link EXCEPT ![conn[o]] = RolledBack(@)]
    /\ effect' = Undo(effect, o)
    /\ Report(o, "error")
    /\ Goto(o, "put")
    /\ UNCHANGED <<free, used, closed, conn>>

(* putconn: a connection in excess of minconn, or a closed one, is dropped and
   one without a transaction kept.  After close() putconn raises and changes
   nothing: the outcome of the operation is then that error. *)
Put(o) ==
    /\ pc[o] = "put"
    /\ Goto(o, "ended")
    /\ \/ /\ closed
          /\ Report(o, "error")
          /\ UNCHANGED <<link, free, used, effect>>
       \/ /\ ~closed
          /\ link[conn[o]] = "closed" \/ Cardinality(free) >= MinConn
          /\ link' = [link EXCEPT ![conn[o]] = "closed"]
          /\ used' = used \ {conn[o]}
          /\ effect' = Undo(effect, o)
          /\ UNCHANGED <<free, outcome>>
       \/ /\ ~closed
          /\ link[conn[o]] \notin {"lost", "closed"} /\ Cardinality(free) < MinConn
          /\ link' = [link EXCEPT ![conn[o]] = RolledBack(@)]
          /\ used' = used \ {conn[o]}
          /\ free' = free \cup {conn[o]}
          /\ effect' = Undo(effect, o)
          /\ UNCHANGED outcome
    /\ UNCHANGED <<closed, conn>>

(* putconn rolls an open transaction back before it forgets the connection;
   when that raises, the pool counts a closed connection as out for good. *)
PutRaises(o) ==
    /\ pc[o] = "put"
    /\ ~closed
    /\ link[conn[o]] = "lost" /\ Cardinality(free) < MinConn
    /\ link' = [link EXCEPT ![conn[o]] = "closed"]
    /\ Goto(o, "ended")
    /\ Report(o, "stranded")
    /\ UNCHANGED <<free, used, closed, conn, effect>>

(* close, __exit__ and __del__: closeall closes every connection, the ones
   that are out too.  A second call raises PoolError and changes nothing. *)
Close ==
    /\ ~closed
    /\ closed' = TRUE
    /\ link' = [c \in Conns |-> IF c \in free \cup used THEN "closed" ELSE link[c]]
    /\ effect' = [o \in Ops |-> IF conn[o] \in used /\ effect[o] = "pending"
                                THEN "undone" ELSE effect[o]]
    /\ UNCHANGED <<free, used, pc, conn, outcome>>

(* The server's end of a connection is lost, and nobody notices yet.  An open
   transaction is undone; while its commit is under way nobody knows. *)
Drop(c) ==
    /\ c \in free \cup used /\ link[c] \in {"idle", "active", "failed"}
    /\ link' = [link EXCEPT ![c] = IF @ = "idle" THEN "stale" ELSE "lost"]
    /\ effect' = [o \in Ops |->
                      IF conn[o] = c /\ effect[o] = "pending"
                      THEN IF pc[o] = "commit" THEN "unknown" ELSE "undone"
                      ELSE effect[o]]
    /\ UNCHANGED <<free, used, closed, pc, conn, outcome>>

OpStep(o) ==
    \/ Borrow(o) \/ BorrowRaises(o)
    \/ Execute(o) \/ BodyRaises(o) \/ BodyEnds(o) \/ Abandon(o)
    \/ Commit(o) \/ Rollback(o) \/ Put(o) \/ PutRaises(o)

Next ==
    \/ \E o \in Ops : OpStep(o)
    \/ \E c \in Conns : Drop(c)
    \/ Close

Spec == Init /\ [][Next]_vars

-----------------------------------------------------------------------------
(* The connections that an open pool counts as out are those of the operations
   under way, each its own, whatever exceptions, abandoned streams and lost
   connections there were.  Only the one of an abandoned operation whose loss
   putconn itself found out stays counted, and it is closed: a place in the
   pool may be lost, but never a connection that works. *)
UnderWay(o) == pc[o] \notin {"start", "ended"}
NoConnectionLeaked ==
    ~closed =>
        /\ used = {conn[o] : o \in {q \in Ops : UnderWay(q) \/ outcome[q] = "stranded"}}
        /\ \A o, q \in Ops : UnderWay(o) /\ UnderWay(q) /\ conn[o] = conn[q] => o = q
        /\ \A o \in Ops : outcome[o] = "stranded" => link[conn[o]] = "closed"

(* An operation that returned normally is durable, and one that was abandoned
   never is; one that raised is durable only when the pool was closed between
   its commit and its putconn. *)
OutcomeTellsEffect ==
    \A o \in Ops : pc[o] = "ended" =>
        /\ outcome[o] = "ok" => effect[o] \in {"none", "durable"}
        /\ outcome[o] \in {"abandoned", "stranded"} => effect[o] # "durable"
        /\ outcome[o] = "error" /\ effect[o] = "durable" => closed
        /\ effect[o] # "pending"
=============================================================================
