--------------------------- MODULE MCLokyExecutor ---------------------------
(* Small instances of LokyExecutor for TLC. *)
EXTENDS LokyExecutor
=============================================================================
