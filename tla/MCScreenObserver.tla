-------------------------- MODULE MCScreenObserver --------------------------
(* ScreenObserver for TLC. *)
EXTENDS ScreenObserver
=============================================================================
