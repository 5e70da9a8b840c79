------------------------------- MODULE MCTui -------------------------------
(* Four stops of the core and two breakpoints. *)
EXTENDS Tui
=============================================================================
