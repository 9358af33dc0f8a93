--------------------------- MODULE MCActionBuilder ---------------------------
(* ActionBuilder for TLC. *)
EXTENDS ActionBuilder
=============================================================================
