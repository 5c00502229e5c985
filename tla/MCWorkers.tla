------------------------------ MODULE MCWorkers ------------------------------
(* Small instances of Workers for TLC. *)
EXTENDS Workers
=============================================================================
