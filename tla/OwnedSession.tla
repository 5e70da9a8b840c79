---------------------------- MODULE OwnedSession ----------------------------
(***************************************************************************)
(* OwnedDebugSession: one caller thread that owns an engine, an OpenOCD    *)
(* child and a GDB child; a supervisor thread that watches both children   *)
(* and the shared cancellation token; reader threads that cancel the token *)
(* when a child's output says the transport is lost; and whoever holds the *)
(* token or a DebugCancellationController.                                 *)
(*                                                                         *)
(* The engine appears by its lifecycle state and by the ways its current   *)
(* operation can end; SessionEngine has the operations themselves.  The    *)
(* child mutexes are held for one step: a holder always lets go.           *)
(***************************************************************************)
EXTENDS Naturals

CONSTANT Faults  \* what the environment may do, a subset of AllFaults

AllFaults == {"gdb_exit", "openocd_exit", "probe_loss", "garble", "hang", "spawn",
              "user_cancel", "token_cancel"}

ASSUME FaultsAssumption == Faults \subseteq AllFaults

VARIABLES
  caller,      \* where the owner's thread is
  call,        \* which call it is in
  state,       \* the engine's lifecycle state, as published
  token,       \* the shared cancellation token
  user,        \* user_cancel_requested
  gdb,         \* the GDB child
  openocd,     \* the OpenOCD child
  pipe,        \* the GDB record channel, as its reader threads leave it
  log,         \* whether the OpenOCD log holds a fatal transport line
  supervisor,  \* the supervisor thread
  failure,     \* supervisor_failure
  cause,       \* the error a startup or cleanup reports
  ret,         \* what the last call returned
  ends,        \* SessionStopped events published
  ending,      \* the reason in that event
  died         \* history: the children that exited by themselves

ownerVars == <<caller, call, state, cause, ret, ends, ending>>
threadVars == <<token, user, supervisor, failure>>
childVars == <<gdb, openocd, pipe, log, died>>
vars == <<ownerVars, threadVars, childVars>>

Child == {"none", "alive", "exited", "reaped"}
Gone(child) == child \in {"none", "reaped"}

Live == {"server_starting", "gdb_starting", "halted", "running"}
SessionState == {"idle", "failed", "cancelling", "disconnecting"} \cup Live
\* Faulty: what ended the channel is returned without its error code.
PipeErrorRaw == [closed |-> "closed", garbled |-> "garbled"]
PipeError == [closed |-> "GDB_EXITED", garbled |-> "MI_RECORD_INVALID"]
Codes == {"ok", "INTERRUPTED", "INVALID_SESSION_STATE", "GDB_COMMAND_FAILED",
          "GDB_COMMAND_TIMEOUT", "GDB_EXITED", "MI_RECORD_INVALID", "GDB_START_FAILED",
          "OPENOCD_START_FAILED", "OPENOCD_EXITED", "PROBE_DISCONNECTED",
          "DEBUG_TRANSPORT_FAILED"}
Resting == {"ready", "returned", "gone"}
-----------------------------------------------------------------------------
Init ==
  /\ caller = "start" /\ call = "launch"
  /\ state = "idle" /\ cause = "ok" /\ ret = "ok" /\ ends = 0 /\ ending = "none"
  /\ token = FALSE /\ user = FALSE /\ supervisor = "none" /\ failure = "ok"
  /\ gdb = "none" /\ openocd = "none" /\ pipe = "open" /\ log = "clean" /\ died = {}

\* The events of a startup that failed, or of fail_and_cleanup and cancel.
EndingOf(code) == IF code = "INTERRUPTED" THEN "cancelled" ELSE "error"
-----------------------------------------------------------------------------
\* launch_with_event_sink, up to the engine.
SpawnServer ==
  /\ caller = "start"
  /\ \/ /\ openocd' = "alive" /\ caller' = "wait_ready" /\ state' = "server_starting"
        /\ UNCHANGED <<cause, ends, ending>>
     \/ /\ "spawn" \in Faults
        /\ caller' = "join" /\ state' = "idle" /\ UNCHANGED openocd
        /\ cause' = "OPENOCD_START_FAILED" /\ ends' = ends + 1 /\ ending' = "error"
  /\ UNCHANGED <<call, ret, threadVars, gdb, pipe, log, died>>

\* OpenOcdDebugServer::wait_ready looks at the log, the token, the listener and
\* the child, in this order, until the deadline.
ServerReady ==
  /\ caller = "wait_ready" /\ log = "clean" /\ ~token
  /\ caller' = "server_up" /\ state' = "gdb_starting"
  /\ UNCHANGED <<call, cause, ret, ends, ending, threadVars, childVars>>

ServerFails ==
  /\ caller = "wait_ready"
  /\ \/ log = "fatal" /\ cause' = "PROBE_DISCONNECTED"
     \/ log = "clean" /\ token /\ cause' = "INTERRUPTED"
     \/ /\ log = "clean" /\ ~token /\ (openocd = "exited" \/ "hang" \in Faults)
        /\ cause' = "OPENOCD_START_FAILED"
  /\ caller' = "abandon"
  /\ UNCHANGED <<call, state, ret, ends, ending, threadVars, childVars>>

\* The server is stopped inside its launch, and the failure is emitted after.
AbandonServer ==
  /\ caller = "abandon"
  /\ openocd' = "reaped"
  /\ caller' = "join"
  /\ state' = "idle" /\ ends' = ends + 1 /\ ending' = EndingOf(cause)
  /\ UNCHANGED <<call, cause, ret, threadVars, gdb, pipe, log, died>>

\* With the server up, the failure is emitted first and the server stopped next.
LaunchGdb ==
  /\ caller = "server_up"
  /\ \/ /\ ~token
        /\ gdb' = "alive" /\ supervisor' = "watching" /\ caller' = "connect"
        /\ UNCHANGED <<state, cause, ends, ending>>
     \/ /\ \/ token /\ cause' = "INTERRUPTED"
           \/ ~token /\ "spawn" \in Faults /\ cause' = "GDB_START_FAILED"
        /\ caller' = "stop_server"
        /\ state' = "idle" /\ ends' = ends + 1 /\ ending' = EndingOf(cause')
        /\ UNCHANGED <<gdb, supervisor>>
  /\ UNCHANGED <<call, ret, token, user, failure, openocd, pipe, log, died>>

\* The session was published to its caller: halted, and without an error.
Connected ==
  /\ caller = "connect" /\ pipe = "open" /\ ~token
  /\ state' = "halted" /\ caller' = "ready" /\ call' = "none" /\ ret' = "ok"
  /\ UNCHANGED <<cause, ends, ending, threadVars, childVars>>
-----------------------------------------------------------------------------
\* How a command in flight can fail.  A channel that broke overrides the token.
CommandError ==
  (IF pipe # "open" THEN {PipeError[pipe]} ELSE IF token THEN {"INTERRUPTED"} ELSE {})
    \cup IF "hang" \in Faults THEN {"GDB_COMMAND_TIMEOUT"} ELSE {}

\* The engine starts to unwind: fail_and_cleanup or cancel.
Fail(code) ==
  /\ cause' = code
  /\ state' = "failed" /\ ending' = "error" /\ caller' = "disconnect"
Cancel ==
  /\ cause' = "INTERRUPTED"
  /\ state' = "cancelling" /\ ending' = "cancelled" /\ caller' = "disconnect"

\* What a failure without a user behind it is put down to.
Diagnosis ==
  IF log = "fatal" THEN "PROBE_DISCONNECTED"
  ELSE IF failure # "ok" THEN failure
  ELSE IF openocd # "alive" THEN "OPENOCD_EXITED"
  ELSE "DEBUG_TRANSPORT_FAILED"

\* connect_started fails; resolve_startup_error looks behind an interruption.
ConnectFails ==
  /\ caller = "connect"
  /\ \E code \in CommandError \cup {"GDB_COMMAND_FAILED"} :
       LET resolved == IF code # "INTERRUPTED" THEN code
                       ELSE IF log = "fatal" THEN "PROBE_DISCONNECTED"
                       ELSE IF failure # "ok" THEN failure
                       ELSE code
       IN IF resolved = "INTERRUPTED" THEN Cancel ELSE Fail(resolved)
  /\ UNCHANGED <<call, ret, ends, threadVars, childVars>>

\* The steps every cleanup shares: disconnecting; the engine shuts GDB down and
\* is idle; the server is stopped; the supervisor is joined.
Disconnect ==
  /\ caller = "disconnect"
  /\ state' = "disconnecting" /\ caller' = "shutdown"
  /\ UNCHANGED <<call, cause, ret, ends, ending, threadVars, childVars>>

Shutdown ==
  /\ caller = "shutdown"
  /\ gdb' = "reaped" /\ pipe' = "closed"
  /\ state' = "idle" /\ ends' = ends + 1
  /\ caller' = "stop_server"
  /\ UNCHANGED <<call, cause, ret, ending, threadVars, openocd, log, died>>

\* Faulty variant first: the caller returns without stopping the server.
StopServerNot ==
  /\ caller = "stop_server"
  /\ caller' = "join"
  /\ UNCHANGED <<call, state, cause, ret, ends, ending, threadVars, childVars>>
StopServer ==
  /\ caller = "stop_server"
  /\ openocd' = "reaped"
  /\ caller' = "join"
  /\ UNCHANGED <<call, state, cause, ret, ends, ending, threadVars, gdb, pipe, log, died>>

JoinSupervisor ==
  /\ caller = "join"
  /\ supervisor \in {"none", "done"}
  /\ caller' = CASE call = "launch" -> "returned" [] call = "drop" -> "gone"
                 [] call = "take_events" -> "synchronize" [] OTHER -> "ready"
  /\ call' = IF call = "take_events" THEN call ELSE "none"
  /\ ret' = cause
  /\ UNCHANGED <<state, cause, ends, ending, threadVars, childVars>>
-----------------------------------------------------------------------------
\* execute and take_events both begin with poll_transport.
Enter(c) ==
  /\ caller = "ready"
  /\ call' = c /\ caller' = "poll" /\ cause' = "ok"
  /\ UNCHANGED <<state, ret, ends, ending, threadVars, childVars>>
Execute == Enter("execute")
TakeEvents == Enter("take_events")

PollOk ==
  /\ caller = "poll"
  /\ state = "idle" \/ pipe = "open"
  /\ caller' = IF call = "execute" THEN "alive" ELSE "synchronize"
  /\ state' \in {state} \cup IF state = "running" THEN {"halted"} ELSE {}
  /\ UNCHANGED <<call, cause, ret, ends, ending, threadVars, childVars>>

\* Reading the channel fails; or a stop was read and asking for its frame
\* failed, in one of the ways a command can.
PollFails ==
  /\ caller = "poll" /\ state # "idle"
  /\ \E code \in CommandError \cup {"GDB_COMMAND_FAILED"} :
       /\ pipe = "open" => state = "running"
       /\ Fail(code)
  /\ UNCHANGED <<call, ret, ends, threadVars, childVars>>

\* alive: the engine, if it is idle already, is left alone.
CheckAlive ==
  /\ caller = "alive"
  /\ IF openocd = "alive"
     THEN caller' = "operate" /\ UNCHANGED <<state, cause, ending>>
     ELSE LET code == IF log = "fatal" /\ state # "idle" THEN "PROBE_DISCONNECTED"
                      ELSE "OPENOCD_EXITED"
          IN IF state = "idle"
             THEN cause' = code /\ caller' = "stop_server" /\ UNCHANGED <<state, ending>>
             ELSE Fail(code)
  /\ UNCHANGED <<call, ret, ends, threadVars, childVars>>

OperationReturns ==
  /\ caller = "operate"
  /\ \/ ret' = "ok" /\ pipe = "open" /\ ~token /\ state' \in {"halted", "running"}
     \/ ret' = "INVALID_SESSION_STATE" /\ UNCHANGED state
     \/ ret' = "GDB_COMMAND_FAILED" /\ pipe = "open" /\ ~token /\ state' \in {state, "halted"}
  /\ caller' = "ready" /\ call' = "none"
  /\ UNCHANGED <<cause, ends, ending, threadVars, childVars>>

OperationFails ==
  /\ caller = "operate"
  /\ \E code \in CommandError :
       IF code # "INTERRUPTED" THEN Fail(code)
       ELSE IF user THEN Cancel ELSE Fail(Diagnosis)
  /\ UNCHANGED <<call, ret, ends, threadVars, childVars>>

\* Faulty variant first: only a cancellation that the user asked for counts.
MustSynchronizeForUser == token /\ user /\ state # "idle"
MustSynchronize == token /\ state # "idle"

\* synchronize_supervisor, the second half of take_events.
Synchronize ==
  /\ caller = "synchronize"
  /\ IF MustSynchronize
     THEN /\ IF user THEN Cancel ELSE Fail(Diagnosis)
          /\ UNCHANGED <<call, ret>>
     ELSE /\ caller' = "ready" /\ call' = "none" /\ ret' = "ok"
          /\ UNCHANGED <<state, cause, ending>>
  /\ UNCHANGED <<ends, threadVars, childVars>>

\* stop, drop and cancel: the token first, then the engine.
End(c, next, why) ==
  /\ caller = "ready"
  /\ token' = TRUE
  /\ call' = c
  /\ IF state = "idle"
     THEN caller' = "stop_server" /\ cause' = "ok" /\ UNCHANGED <<state, ending>>
     ELSE /\ caller' = IF next = "disconnecting" THEN "shutdown" ELSE "disconnect"
          /\ state' = next /\ ending' = why /\ cause' = "ok"
  /\ UNCHANGED <<ret, ends, supervisor, failure, childVars>>

Stop == End("stop", "disconnecting", "requested") /\ UNCHANGED user
Drop == End("drop", "disconnecting", "requested") /\ UNCHANGED user
CancelSession == End("cancel", "cancelling", "cancelled") /\ user' = TRUE
-----------------------------------------------------------------------------
\* The supervisor looks every 10ms: the token first, then GDB, then OpenOCD.
\* Faulty variant first: only a cancellation that the user asked for counts.
SeeUserCancelled ==
  /\ supervisor = "watching" /\ token /\ user
  /\ supervisor' = "kill_gdb"
  /\ UNCHANGED <<ownerVars, token, user, failure, childVars>>
SeeCancelled ==
  /\ supervisor = "watching" /\ token
  /\ supervisor' = "kill_gdb"
  /\ UNCHANGED <<ownerVars, token, user, failure, childVars>>

\* Faulty variant first: OpenOCD is not watched.
SeeGdbExit ==
  /\ supervisor = "watching" /\ ~token
  /\ gdb # "alive"
  /\ failure' = "GDB_EXITED"
  /\ token' = TRUE
  /\ supervisor' = "kill_gdb"
  /\ UNCHANGED <<ownerVars, user, childVars>>
SeeExit ==
  /\ supervisor = "watching" /\ ~token
  /\ gdb # "alive" \/ openocd # "alive"
  /\ failure' = IF gdb # "alive" THEN "GDB_EXITED" ELSE "OPENOCD_EXITED"
  /\ token' = TRUE
  /\ supervisor' = "kill_gdb"
  /\ UNCHANGED <<ownerVars, user, childVars>>

KillGdb ==
  /\ supervisor = "kill_gdb"
  /\ gdb' = "reaped"
  /\ supervisor' = "kill_openocd"
  /\ UNCHANGED <<ownerVars, token, user, failure, openocd, pipe, log, died>>

\* Faulty variant first: the supervisor ends after the first child.
KillOpenOcdNot ==
  /\ supervisor = "kill_openocd"
  /\ supervisor' = "done"
  /\ UNCHANGED <<ownerVars, token, user, failure, childVars>>
KillOpenOcd ==
  /\ supervisor = "kill_openocd"
  /\ openocd' = "reaped"
  /\ supervisor' = "done"
  /\ UNCHANGED <<ownerVars, token, user, failure, gdb, pipe, log, died>>

Supervise == SeeCancelled \/ SeeExit \/ KillGdb \/ KillOpenOcd
-----------------------------------------------------------------------------
\* Readers: end of file closes the channel; a fatal line or a record that does
\* not parse cancels the token after it was stored.
PipeCloses ==
  /\ gdb \in {"exited", "reaped"} /\ pipe = "open"
  /\ pipe' = "closed"
  /\ UNCHANGED <<ownerVars, threadVars, gdb, openocd, log, died>>

ReaderCancels ==
  /\ log = "fatal" \/ pipe = "garbled"
  /\ ~token /\ token' = TRUE
  /\ UNCHANGED <<ownerVars, user, supervisor, failure, childVars>>

Read == PipeCloses \/ ReaderCancels

\* The children by themselves.
GdbExits ==
  /\ "gdb_exit" \in Faults /\ gdb = "alive"
  /\ gdb' = "exited" /\ died' = died \cup {"gdb"}
  /\ UNCHANGED <<ownerVars, threadVars, openocd, pipe, log>>

OpenOcdExits ==
  /\ "openocd_exit" \in Faults /\ openocd = "alive"
  /\ openocd' = "exited" /\ died' = died \cup {"openocd"}
  /\ UNCHANGED <<ownerVars, threadVars, gdb, pipe, log>>

ProbeLost ==
  /\ "probe_loss" \in Faults /\ openocd = "alive" /\ log = "clean"
  /\ log' = "fatal"
  /\ UNCHANGED <<ownerVars, threadVars, gdb, openocd, pipe, died>>

GdbGarbles ==
  /\ "garble" \in Faults /\ gdb = "alive" /\ pipe = "open"
  /\ pipe' = "garbled"
  /\ UNCHANGED <<ownerVars, threadVars, gdb, openocd, log, died>>

\* DebugCancellationController::cancel, which exists once launch returned:
\* the request is stored, then the token is cancelled.
UserRequests ==
  /\ "user_cancel" \in Faults /\ ~user /\ caller \notin {"returned", "gone"}
  /\ call # "launch"
  /\ user' = TRUE
  /\ UNCHANGED <<ownerVars, token, supervisor, failure, childVars>>

UserCancels ==
  /\ user /\ ~token
  /\ token' = TRUE
  /\ UNCHANGED <<ownerVars, user, supervisor, failure, childVars>>

\* Ctrl-C reaches the token alone.
TokenCancelled ==
  /\ "token_cancel" \in Faults /\ ~token
  /\ token' = TRUE
  /\ UNCHANGED <<ownerVars, user, supervisor, failure, childVars>>

World == GdbExits \/ OpenOcdExits \/ ProbeLost \/ GdbGarbles \/ UserRequests \/ TokenCancelled
-----------------------------------------------------------------------------
Calls == Execute \/ TakeEvents \/ Stop \/ Drop \/ CancelSession
Startup == SpawnServer \/ ServerReady \/ ServerFails \/ AbandonServer \/ LaunchGdb
             \/ Connected \/ ConnectFails
Work == PollOk \/ PollFails \/ CheckAlive \/ OperationReturns \/ OperationFails \/ Synchronize
          \/ Disconnect \/ Shutdown \/ StopServer \/ JoinSupervisor
Ended == caller \in {"returned", "gone"} /\ UNCHANGED vars

Next == Calls \/ Startup \/ Work \/ Supervise \/ Read \/ UserCancels \/ World \/ Ended

\* A call in progress, the supervisor, the readers and a controller's cancel
\* run on threads of their own; nobody is obliged to make another call.
Fairness ==
  /\ WF_vars(Startup \/ Work)
  /\ WF_vars(Supervise)
  /\ WF_vars(PipeCloses) /\ WF_vars(ReaderCancels) /\ WF_vars(UserCancels)

Spec == Init /\ [][Next]_vars
FairSpec == Spec /\ Fairness
-----------------------------------------------------------------------------
FlagsOK == token \in BOOLEAN /\ user \in BOOLEAN

OwnerOK ==
  /\ caller \in Resting \cup {"start", "wait_ready", "abandon", "server_up", "connect",
       "disconnect", "shutdown", "stop_server", "join", "poll", "alive", "operate",
       "synchronize"}
  /\ call \in {"none", "launch", "execute", "take_events", "stop", "drop", "cancel"}
  /\ state \in SessionState
  /\ cause \in Codes /\ ret \in Codes
  /\ ends \in Nat
  /\ ending \in {"none", "requested", "error", "cancelled"}

SupervisorOK ==
  /\ supervisor \in {"none", "watching", "kill_gdb", "kill_openocd", "done"}
  /\ failure \in Codes

ChildrenOK ==
  /\ gdb \in Child /\ openocd \in Child
  /\ pipe \in {"open"} \cup DOMAIN PipeError
  /\ log \in {"clean", "fatal"}
  /\ died \subseteq {"gdb", "openocd"}

\* Every variable keeps its type: whatever ends a session is a typed error.
TypeOK == OwnerOK /\ SupervisorOK /\ FlagsOK /\ ChildrenOK

\* Both children are gone and the supervisor has ended whenever a caller holds
\* a session that is idle, and when launch returns an error or the owner is
\* dropped: no path out of a session leaks a child or a thread.
IdleOwnsNothing ==
  caller \in Resting /\ state = "idle" =>
    /\ Gone(gdb) /\ Gone(openocd)
    /\ supervisor \in {"none", "done"}

\* However many of the threads notice the end of a session, its end is
\* published once, and always before a caller finds the session idle.
EndsOnce ==
  /\ ends <= 1
  /\ caller = "ready" => (ends = 1) = (state = "idle")

\* A cancelled token, whoever cancelled it, and the death of either child lead to
\* both children being reaped, whether or not the owner ever calls again.
LossReaps == token \/ died # {} ~> Gone(gdb) /\ Gone(openocd)

\* Every call returns: no cleanup waits for a thread that waits for it.
EveryCallReturns == caller \notin Resting ~> caller \in Resting
=============================================================================
