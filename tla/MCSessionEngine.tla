-------------------------- MODULE MCSessionEngine --------------------------
(* One probe the caller holds and one it does not, every fault. *)
EXTENDS SessionEngine

CONSTANTS p1, p2, none

MCProbes == {p1, p2}
MCNoProbe == none
MCFaults == AllFaults
=============================================================================
