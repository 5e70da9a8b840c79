---------------------------- MODULE MCInstaller ----------------------------
(* Two setups, of which the second may follow the first one's crash or run  *)
(* beside it; an executable and another file.                               *)
EXTENDS Installer

CONSTANTS s1, s2, executable, library

MCSetups == {s1, s2}
MCFiles == {executable, library}
MCRequired == {executable}
=============================================================================
