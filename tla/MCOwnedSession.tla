--------------------------- MODULE MCOwnedSession ---------------------------
(* Every fault at once; no constant is left open. *)
EXTENDS OwnedCalls
MCFaults == AllFaults
=============================================================================
