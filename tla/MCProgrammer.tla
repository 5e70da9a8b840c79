---------------------------- MODULE MCProgrammer ----------------------------
(* Every operation, all four attempts, and an ELF that is built again twice. *)
EXTENDS Programmer
=============================================================================
