--------------------------- MODULE DebugLifecycle ---------------------------
(***************************************************************************)
(* What a debug session promises to whoever watches its state: the forward *)
(* path, the two abnormal exits, and that every way out goes through       *)
(* disconnecting and says why the session ended.  One action per           *)
(* transition that the engine publishes as a State event.                  *)
(***************************************************************************)
EXTENDS Naturals

VARIABLES
  state,       \* the lifecycle state of the session
  generation,  \* grows each time a session starts
  ending       \* why the session is ending or ended; "none" while it lives

vars == <<state, generation, ending>>

Starting == {"probe_selected", "server_starting", "server_ready", "gdb_starting"}
Live == Starting \cup {"connected", "halted", "running"}
Unwinding == {"failed", "cancelling", "disconnecting"}
SessionState == {"idle"} \cup Live \cup Unwinding
Endings == {"requested", "error", "cancelled"}

\* The forward path and the two target transitions, as <<from, to>>.
Forward ==
  { <<"probe_selected", "server_starting">>, <<"server_starting", "server_ready">>,
    <<"server_ready", "gdb_starting">>, <<"gdb_starting", "connected">>,
    <<"connected", "halted">>, <<"halted", "running">>, <<"running", "halted">> }

TypeOK ==
  /\ state \in SessionState
  /\ generation \in Nat
  /\ ending \in Endings \cup {"none"}

\* An engine is created before its session starts, or handed a session whose
\* probe and server are already up.
Init ==
  /\ ending = "none"
  /\ \/ state = "idle" /\ generation = 0
     \/ state = "gdb_starting" /\ generation \in Nat \ {0}

Start ==
  /\ state = "idle"
  /\ state' = "probe_selected"
  /\ generation' = generation + 1
  /\ ending' = "none"

Advance ==
  /\ <<state, state'>> \in Forward
  /\ UNCHANGED <<generation, ending>>

Fail ==
  /\ state \in Live
  /\ state' = "failed"
  /\ ending' = "error"
  /\ UNCHANGED generation

Cancel ==
  /\ state \in Live
  /\ state' = "cancelling"
  /\ ending' = "cancelled"
  /\ UNCHANGED generation

\* A requested stop disconnects directly, an abnormal exit keeps its reason.
Disconnect ==
  /\ state' = "disconnecting"
  /\ \/ state \in Live /\ ending' = "requested"
     \/ state \in {"failed", "cancelling"} /\ UNCHANGED ending
  /\ UNCHANGED generation

Finish ==
  /\ state = "disconnecting"
  /\ state' = "idle"
  /\ UNCHANGED <<generation, ending>>

Next == Start \/ Advance \/ Fail \/ Cancel \/ Disconnect \/ Finish

Spec == Init /\ [][Next]_vars
=============================================================================
