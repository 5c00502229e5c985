---------------------------- MODULE DuckdbStorage ----------------------------
(***************************************************************************)
(* storage/duckdb_storage.py: one DuckDB file opened by several storage    *)
(* objects, of one process or of several.  The constructor looks whether   *)
(* the file exists and connects afterwards, so opening is two actions.     *)
(* Every operation works on a cursor of its own; a stream keeps its cursor *)
(* between two fetches, and the caller keeps the ones cursor() gave.       *)
(*                                                                         *)
(* DuckDB is external: a connect that may write creates a missing file; a  *)
(* database stays open while a connection or a cursor of it does; one      *)
(* process may have it open for writing, or several for reading; objects   *)
(* of one process share the open database and must agree on read_only.     *)
(***************************************************************************)
EXTENDS Naturals, FiniteSets

CONSTANTS
    Objects,    \* DuckdbStorage objects
    Process,    \* Process[d]: the process that creates d
    ReadOnly,   \* ReadOnly[d]: the read_only argument of d
    MaxCursors, \* bound: cursors of an object at a time
    MaxRows     \* bound: rows imported

VARIABLES
    file,       \* does the file exist?
    pc,         \* pc[d]: "new", "checked", "open", "failed" or "deleted"
    isNew,      \* _is_newly_created
    streams,    \* streams[d]: suspended streams of d
    cursors,    \* cursors[d]: cursors of d that the caller holds
    rows,       \* rows in the table of import_jsonl
    importing,  \* importing[d]: "no", "writing" the temporary file, "counting"
    creator     \* history: the objects whose connect created the file

vars == <<file, pc, isNew, streams, cursors, rows, importing, creator>>

TypeOK ==
    /\ file \in BOOLEAN
    /\ pc \in [Objects -> {"new", "checked", "open", "failed", "deleted"}]
    /\ isNew \in [Objects -> BOOLEAN]
    /\ streams \in [Objects -> 0 .. MaxCursors]
    /\ cursors \in [Objects -> 0 .. MaxCursors]
    /\ rows \in 0 .. MaxRows
    /\ importing \in [Objects -> {"no", "writing", "counting"}]
    /\ creator \subseteq Objects

Init ==
    /\ file \in BOOLEAN
    /\ pc = [d \in Objects |-> "new"]
    /\ isNew = [d \in Objects |-> FALSE]
    /\ streams = [d \in Objects |-> 0]
    /\ cursors = [d \in Objects |-> 0]
    /\ rows = 0
    /\ importing = [d \in Objects |-> "no"]
    /\ creator = {}

(* The first half of the constructor. *)
LookForFile(d) ==
    /\ pc[d] = "new"
    /\ isNew' = [isNew EXCEPT ![d] = ~file]
    /\ pc' = [pc EXCEPT ![d] = "checked"]
    /\ UNCHANGED <<file, streams, cursors, rows, importing, creator>>

(* d's process has the database open through d, or through cursors left of d. *)
Holds(d) == pc[d] = "open" \/ cursors[d] > 0

Compatible(d, e) ==
    IF Process[d] = Process[e] THEN ReadOnly[d] = ReadOnly[e] ELSE ReadOnly[d] /\ ReadOnly[e]

MayConnect(d) ==
    /\ \A e \in Objects : Holds(e) => Compatible(d, e)
    /\ file \/ ~ReadOnly[d]

(* Mutants -- wrong variants of the definition that follows, used to show that
   a property can fail -- are marked so.  Mutant: the file is looked for after
   the connect. *)
ConnectThenLook(d) ==
    /\ pc[d] = "checked"
    /\ MayConnect(d)
    /\ pc' = [pc EXCEPT ![d] = "open"]
    /\ file' = TRUE
    /\ isNew' = [isNew EXCEPT ![d] = FALSE]
    /\ creator' = IF file THEN creator ELSE creator \cup {d}
    /\ UNCHANGED <<streams, cursors, rows, importing>>

(* The second half: duckdb.connect. *)
Connect(d) ==
    /\ pc[d] = "checked"
    /\ MayConnect(d)
    /\ pc' = [pc EXCEPT ![d] = "open"]
    /\ file' = TRUE
    /\ creator' = IF file THEN creator ELSE creator \cup {d}
    /\ UNCHANGED <<isNew, streams, cursors, rows, importing>>

(* It raises; _conn stays None, so __del__ has nothing to close. *)
ConnectRaises(d) ==
    /\ pc[d] = "checked"
    /\ ~MayConnect(d)
    /\ pc' = [pc EXCEPT ![d] = "failed"]
    /\ UNCHANGED <<file, isNew, streams, cursors, rows, importing, creator>>

(* Mutant: the cursor is closed at the end and in the finally clause. *)
StreamClosesTwice(d) ==
    /\ streams[d] > 0
    /\ streams' = [streams EXCEPT ![d] = @ - 2]
    /\ UNCHANGED <<file, pc, isNew, cursors, rows, importing, creator>>

(* A stream begins; it ends, exhausted, abandoned or by an exception, in the
   finally clause that closes its cursor. *)
StreamBegins(d) ==
    /\ pc[d] = "open" /\ streams[d] < MaxCursors
    /\ streams' = [streams EXCEPT ![d] = @ + 1]
    /\ UNCHANGED <<file, pc, isNew, cursors, rows, importing, creator>>

StreamEnds(d) ==
    /\ streams[d] > 0
    /\ streams' = [streams EXCEPT ![d] = @ - 1]
    /\ UNCHANGED <<file, pc, isNew, cursors, rows, importing, creator>>

(* cursor(): the caller closes it, maybe after the object is gone. *)
Cursor(d) ==
    /\ pc[d] = "open" /\ cursors[d] < MaxCursors
    /\ cursors' = [cursors EXCEPT ![d] = @ + 1]
    /\ UNCHANGED <<file, pc, isNew, streams, rows, importing, creator>>

CursorCloses(d) ==
    /\ cursors[d] > 0
    /\ cursors' = [cursors EXCEPT ![d] = @ - 1]
    /\ UNCHANGED <<file, pc, isNew, streams, rows, importing, creator>>

(* import_jsonl writes the lines of the caller's iterator to a temporary file,
   copies the file in one statement, and counts in another. *)
ImportBegins(d) ==
    /\ pc[d] = "open" /\ importing[d] = "no"
    /\ importing' = [importing EXCEPT ![d] = "writing"]
    /\ UNCHANGED <<file, pc, isNew, streams, cursors, rows, creator>>

Copy(d) ==
    /\ importing[d] = "writing"
    /\ ~ReadOnly[d] /\ rows < MaxRows
    /\ rows' = rows + 1
    /\ importing' = [importing EXCEPT ![d] = "counting"]
    /\ UNCHANGED <<file, pc, isNew, streams, cursors, creator>>

(* It returns the count; or the iterator or the COPY raised before. *)
ImportEnds(d) ==
    /\ importing[d] # "no"
    /\ importing' = [importing EXCEPT ![d] = "no"]
    /\ UNCHANGED <<file, pc, isNew, streams, cursors, rows, creator>>

(* __del__ closes the root connection.  A running operation and a suspended
   stream refer to the object and keep it alive; a cursor does not. *)
Delete(d) ==
    /\ pc[d] = "open"
    /\ streams[d] = 0 /\ importing[d] = "no"
    /\ pc' = [pc EXCEPT ![d] = "deleted"]
    /\ UNCHANGED <<file, isNew, streams, cursors, rows, importing, creator>>

Next ==
    \E d \in Objects :
        \/ LookForFile(d) \/ Connect(d) \/ ConnectRaises(d)
        \/ StreamBegins(d) \/ StreamEnds(d)
        \/ Cursor(d) \/ CursorCloses(d)
        \/ ImportBegins(d) \/ Copy(d) \/ ImportEnds(d)
        \/ Delete(d)

Spec == Init /\ [][Next]_vars

-----------------------------------------------------------------------------
(* Somebody sets the new database up: the object whose connect created the
   file says that it is newly created, so the schema is never forgotten
   because two openers each took the other for the creator. *)
CreatorKnows == \A d \in creator : isNew[d]
=============================================================================
