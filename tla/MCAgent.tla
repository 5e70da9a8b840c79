------------------------------ MODULE MCAgent ------------------------------
(* Three lines over two ids and a channel for one of them, every fault.     *)
EXTENDS Agent

CONSTANTS a, b, none

MCIds == {a, b}
MCNoId == none
MCFaults == AllFaults
=============================================================================
