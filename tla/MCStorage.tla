------------------------------ MODULE MCStorage ------------------------------
(***************************************************************************)
(* The three storage classes for TLC.  They share nothing, so a behaviour  *)
(* is one of SqliteByteStore (extended), of PgStorage or of DuckdbStorage  *)
(* (instantiated); Parts says of which.                                    *)
(***************************************************************************)
EXTENDS SqliteByteStore

CONSTANTS Parts, s1, s2, k1, k2

VARIABLES part,
    link, free, used, closed, pgPc, conn, outcome, effect,
    file, pc, isNew, streams, cursors, rows, importing, creator

CONSTANTS Ops, MinConn, MaxConn

Pg == INSTANCE PgStorage WITH pc <- pgPc

pgVars   == <<link, free, used, closed, pgPc, conn, outcome, effect>>
duckVars == <<file, pc, isNew, streams, cursors, rows, importing, creator>>

CONSTANTS Objects, Process, ReadOnly, MaxCursors, MaxRows

(* Objects 1 and 2 write in one process; 3 writes and 4 reads in others. *)
Processes == [d \in Objects |-> IF d <= 2 THEN 1 ELSE d]
Readers   == [d \in Objects |-> d >= 4]

Duck == INSTANCE DuckdbStorage

AllInit == part \in Parts /\ Init /\ Pg!Init /\ Duck!Init

AllNext ==
    \/ part = "sqlite" /\ Next /\ UNCHANGED <<part, pgVars, duckVars>>
    \/ part = "pg" /\ Pg!Next /\ UNCHANGED <<part, vars, duckVars>>
    \/ part = "duckdb" /\ Duck!Next /\ UNCHANGED <<part, vars, pgVars>>

AllSpec == AllInit /\ [][AllNext]_<<part, vars, pgVars, duckVars>>

(* The type invariants of the three modules. *)
AllTypeOK == TypeOK /\ Pg!TypeOK /\ Duck!TypeOK

(* See PgStorage: no connection is leaked or shared. *)
NoConnectionLeaked == Pg!NoConnectionLeaked

(* See PgStorage: the outcome of an operation tells what became of it. *)
OutcomeTellsEffect == Pg!OutcomeTellsEffect

(* See DuckdbStorage: who created the file knows. *)
CreatorKnows == Duck!CreatorKnows
=============================================================================
