---------------------------- MODULE SessionEngine ----------------------------
(***************************************************************************)
(* The command/state engine of a debug session, over a GDB/MI transport    *)
(* and a target core, driven the way OwnedDebugSession::execute drives it. *)
(*                                                                         *)
(* An operation is a plan of MI commands.  Each command is sent, answered  *)
(* (or not) and accounted for in steps of its own, so the core may stop,   *)
(* the transport may break and the token may be cancelled in between.      *)
(*                                                                         *)
(* The record channel is reduced to the one record the engine acts upon:   *)
(* an unread *stopped.  Error codes that are handled alike share a name.   *)
(***************************************************************************)
EXTENDS Naturals

CONSTANTS
  Probes,         \* the serials a caller may name
  NoProbe,        \* what probe_serial: None is
  MaxGeneration,  \* bound: no new session starts at this generation
  Faults          \* what the environment may do wrong, a subset of AllFaults

AllFaults == {"refuse", "hang", "break", "miss", "cancel"}

ASSUME ConstantsAssumption ==
  /\ NoProbe \notin Probes
  /\ MaxGeneration \in Nat \ {0}
  /\ Faults \subseteq AllFaults

VARIABLES
  state,       \* SessionEngine.state
  generation,  \* SessionEngine.generation
  probe,       \* SessionEngine.probe_serial
  op,          \* the operation in progress; "none" between operations
  at,          \* the command or step the operation is at
  reply,       \* what the transport has read of the answer to the command at
  ret,         \* what the last operation returned
  owed,        \* the caller must clean up before it does anything else
  shown,       \* running or stopped, as the Running and Stopped events tell it
  ending,      \* the reason the session ends for
  ends,        \* SessionStopped events of this generation
  cancelled,   \* the shared cancellation token
  open,        \* the transport has not been shut down
  link,        \* the pipe to GDB: up, or what broke it
  target,      \* the core, and what GDB knows of it
  pending,     \* an unread *stopped record is in the channel
  doubt        \* a reset or an interrupt failed, and no stop was announced since

engineVars == <<state, generation, probe, op, at, reply, ret, owed>>
eventVars == <<shown, ending, ends>>
worldVars == <<cancelled, open, link, target, pending, doubt>>
vars == <<engineVars, eventVars, worldVars>>

Live == {"probe_selected", "server_starting", "server_ready", "gdb_starting",
         "connected", "halted", "running"}
SessionState == {"idle"} \cup Live \cup {"failed", "cancelling", "disconnecting"}

\* The public operations, the states each is accepted in, and its first step.
Operations == {"connect", "continue", "halt", "wait", "step", "reset", "query", "load"}
Allowed == [connect |-> {"gdb_starting"}, continue |-> {"halted"}, halt |-> {"running"},
            wait |-> {"running"}, step |-> {"halted"}, reset |-> {"halted", "running"},
            query |-> {"halted"}, load |-> {"halted"}]
First == [connect |-> "set", continue |-> "continue", halt |-> "interrupt", wait |-> "wait",
          step |-> "step", reset |-> "resetting", query |-> "query", load |-> "download"]
Cleanups == {"stop", "fail", "cancel"}

\* Commands that return on their result, and those that also wait for a stop.
Plain == {"set", "symbols", "select", "resetting", "confirm", "frame", "continue",
          "query", "more", "download", "compare"}
Waiting == {"step", "interrupt"}
Commands == Plain \cup Waiting
Startup == {"server", "ready", "gdb"}
Steps == Commands \cup Startup \cup {"none", "wait", "finish", "disconnect", "shutdown"}

\* Faulty: a command that timed out does not end the session.
FatalButTimeout == {"GDB_EXITED", "GDB_TARGET_DISCONNECTED", "MI_RECORD_INVALID",
                    "GDB_STOP_TIMEOUT"}

\* Faulty: what ended the channel is returned without its error code.
LinkErrorRaw == [lost |-> "lost", closed |-> "closed", garbled |-> "garbled"]
LinkError == [lost |-> "GDB_TARGET_DISCONNECTED", closed |-> "GDB_EXITED",
              garbled |-> "MI_RECORD_INVALID"]
Fatal == {"GDB_EXITED", "GDB_TARGET_DISCONNECTED", "MI_RECORD_INVALID",
          "GDB_COMMAND_TIMEOUT", "GDB_STOP_TIMEOUT"}
Codes == Fatal \cup {"ok", "INTERRUPTED", "INVALID_SESSION_STATE", "ARGUMENT_INVALID",
          "AUTHORIZATION_REJECTED", "GDB_COMMAND_FAILED", "GDB_RESPONSE_INVALID",
          "TARGET_HALT_UNCONFIRMED", "FIRMWARE_VERIFY_FAILED"}
-----------------------------------------------------------------------------
\* SessionEngine::new, or with_started_lifecycle for a session whose probe is
\* selected and whose server runs.  OpenOCD was started with "reset halt".
Init ==
  /\ \/ state = "idle" /\ generation = 0
     \/ state = "gdb_starting" /\ generation = 1
  /\ probe = NoProbe
  /\ op = "none" /\ at = "none" /\ reply = "none" /\ ret = "ok" /\ owed = FALSE
  /\ shown = "stopped" /\ ending = "none" /\ ends = 0
  /\ cancelled = FALSE /\ open = TRUE /\ link = "up"
  /\ target = "halted" /\ pending = FALSE /\ doubt = FALSE

Quiet == op = "none"
Callable == Quiet /\ ~owed

Return(code) ==
  /\ op' = "none" /\ at' = "none" /\ reply' = "none"
  /\ ret' = code

\* The next command of the operation, still to be sent.
Goto(step) ==
  /\ at' = step /\ reply' = "unsent"
  /\ UNCHANGED <<op, ret, owed>>

\* A stop whose frame cannot be read is announced all the same.
\* Faulty variant first: the error is returned without the Stopped event.
ShownOnErrorNot == shown
ShownOnError == IF at = "frame" THEN "stopped" ELSE shown

\* Failing any part of a startup or of a poll, or with a fatal or an
\* interrupted error, obliges the caller to clean up.
MustCleanUp(code) == code \in Fatal \cup {"INTERRUPTED"} \/ op \in {"connect", "poll"}
Abort(code) ==
  /\ Return(code)
  /\ owed' = MustCleanUp(code)
  /\ shown' = ShownOnError
  /\ doubt' = (doubt \/ at \in {"resetting", "confirm", "interrupt"})
  /\ UNCHANGED <<state, generation, probe, ending, ends>>
-----------------------------------------------------------------------------
\* Operations, called one at a time.  A call in another state is refused.
Begin(o) ==
  /\ Callable
  /\ state \in Allowed[o]
  /\ op' = o /\ at' = First[o]
  /\ reply' = IF o = "wait" THEN "done" ELSE "unsent"
  /\ UNCHANGED <<state, generation, ret, owed, eventVars, worldVars>>

Refuse(o) ==
  /\ Callable
  /\ state \notin Allowed[o]
  /\ ret' = "INVALID_SESSION_STATE"
  /\ UNCHANGED <<state, generation, probe, op, at, reply, owed, eventVars, worldVars>>

Connect(p) == Begin("connect") /\ probe' = p
Continue == Begin("continue") /\ UNCHANGED probe
Halt == Begin("halt") /\ UNCHANGED probe
WaitUntilStopped == Begin("wait") /\ UNCHANGED probe
Step == Begin("step") /\ UNCHANGED probe
ResetHalt == Begin("reset") /\ UNCHANGED probe
Query == Begin("query") /\ UNCHANGED probe

\* Breakpoint, stack, register, memory and disassembly arguments are checked
\* before anything is sent.
RejectArguments ==
  /\ Callable
  /\ state = "halted"
  /\ ret' = "ARGUMENT_INVALID"
  /\ UNCHANGED <<state, generation, probe, op, at, reply, owed, eventVars, worldVars>>

LoadFirmware(authorized) ==
  IF authorized = probe
  THEN Begin("load") /\ UNCHANGED probe
  ELSE /\ Callable
       /\ state \in Allowed["load"]
       /\ ret' = "AUTHORIZATION_REJECTED"
       /\ UNCHANGED <<state, generation, probe, op, at, reply, owed, eventVars, worldVars>>

StartConnected(p) ==
  /\ Callable
  /\ state = "idle"
  /\ generation < MaxGeneration
  /\ generation' = generation + 1
  /\ probe' = p
  /\ state' = "probe_selected"
  /\ op' = "connect" /\ at' = "server" /\ reply' = "none"
  /\ shown' = "stopped" /\ ending' = "none" /\ ends' = 0
  /\ UNCHANGED <<ret, owed, worldVars>>

\* start_connected publishes the four startup states before it connects.
AnnounceStartup ==
  /\ at \in Startup
  /\ \/ at = "server" /\ state' = "server_starting" /\ at' = "ready" /\ UNCHANGED reply
     \/ at = "ready" /\ state' = "server_ready" /\ at' = "gdb" /\ UNCHANGED reply
     \/ at = "gdb" /\ state' = "gdb_starting" /\ at' = "set" /\ reply' = "unsent"
  /\ UNCHANGED <<generation, probe, op, ret, owed, eventVars, worldVars>>

\* Faulty variant first: the stop is looked for in the wrong state.
StopFoundWhenHalted == state = "halted" /\ pending
StopFound == state = "running" /\ pending

\* poll: read what is there; a stop found while running is finished.
Poll ==
  /\ Callable
  /\ state # "idle"
  /\ IF ~open \/ link # "up"
     THEN /\ ret' = IF open THEN LinkError[link] ELSE "GDB_EXITED"
          /\ owed' = TRUE
          /\ UNCHANGED <<op, at, pending>>
     ELSE /\ pending' = FALSE
          /\ IF StopFound
             THEN op' = "poll" /\ at' = "finish"
             ELSE UNCHANGED <<op, at>>
          /\ UNCHANGED <<ret, owed>>
  /\ UNCHANGED <<state, generation, probe, reply, eventVars,
                 cancelled, open, link, target, doubt>>
-----------------------------------------------------------------------------
\* GdbMiProcess::command up to the write: stopped, cancelled, drain, write.
Send ==
  /\ reply = "unsent"
  /\ \/ ~open /\ Abort("GDB_EXITED") /\ UNCHANGED pending
     \/ open /\ cancelled /\ Abort("INTERRUPTED") /\ UNCHANGED pending
     \/ open /\ ~cancelled /\ link # "up" /\ Abort(LinkError[link]) /\ UNCHANGED pending
     \/ /\ open /\ ~cancelled /\ link = "up"
        /\ reply' = "sent"
        /\ pending' = FALSE
        /\ UNCHANGED <<state, generation, probe, op, at, ret, owed, eventVars, doubt>>
  /\ UNCHANGED <<cancelled, open, link, target>>

\* The result of a Plain command is read.  Every record read before it, a
\* stop included, is captured and otherwise dropped.
Answered(command) ==
  /\ at = command /\ reply = "sent" /\ link = "up"
  /\ pending' = FALSE
  /\ UNCHANGED <<generation, probe, cancelled, open, link>>

Succeed == Return("ok") /\ owed' = FALSE
NoEvent == UNCHANGED eventVars
SayStopped == shown' = "stopped" /\ UNCHANGED <<ending, ends>>

MiAsyncSet ==
  /\ Answered("set") /\ Goto("symbols")
  /\ NoEvent /\ UNCHANGED <<state, target, doubt>>

SymbolsRead ==
  /\ Answered("symbols") /\ Goto("select")
  /\ NoEvent /\ UNCHANGED <<state, target, doubt>>

TargetSelected ==
  /\ Answered("select") /\ Goto("resetting")
  /\ state' = "connected"
  /\ NoEvent /\ UNCHANGED <<target, doubt>>

\* "monitor reset halt" is answered.  GDB learns that a running core stopped
\* only later; with the fault "miss" the core resets and is not halted.
ResetDone ==
  /\ Answered("resetting") /\ Goto("confirm")
  /\ state' = IF op = "reset" /\ state = "running" THEN "halted" ELSE state
  /\ \/ target' = IF target = "halted" THEN "halted" ELSE "stopping"
     \/ "miss" \in Faults /\ target' = "running"
  /\ NoEvent /\ UNCHANGED doubt

\* GDB has a frame only when it knows the core halted.
HaltConfirmed ==
  /\ Answered("confirm") /\ target = "halted"
  /\ Succeed /\ doubt' = (doubt /\ op = "load")
  /\ state' = "halted"
  /\ IF op = "load" THEN NoEvent ELSE SayStopped
  /\ UNCHANGED target

HaltUnconfirmed ==
  /\ "refuse" \in Faults
  /\ at = "confirm" /\ reply = "sent" /\ link = "up"
  /\ pending' = FALSE
  /\ Abort("TARGET_HALT_UNCONFIRMED")
  /\ UNCHANGED <<cancelled, open, link, target>>

TargetRuns ==
  /\ Answered("continue") /\ target # "stopping"
  /\ Succeed
  /\ state' = "running" /\ shown' = "running" /\ UNCHANGED <<ending, ends>>
  /\ target' = "running" /\ doubt' = FALSE

\* variables and registers issue a second command after the first.
QueryAnswered ==
  /\ Answered("query") \/ Answered("more")
  /\ \/ at = "query" /\ Goto("more")
     \/ Return("ok") /\ owed' = FALSE
     \/ Return("GDB_RESPONSE_INVALID") /\ owed' = FALSE
  /\ NoEvent /\ UNCHANGED <<state, target, doubt>>

Downloaded ==
  /\ Answered("download") /\ Goto("compare")
  /\ NoEvent /\ UNCHANGED <<state, target, doubt>>

Compared ==
  /\ Answered("compare")
  /\ \/ Goto("resetting")
     \/ Return("FIRMWARE_VERIFY_FAILED") /\ owed' = FALSE
  /\ NoEvent /\ UNCHANGED <<state, target, doubt>>

\* The frame that completes a stop; the stop is announced with or without it.
FrameRead ==
  /\ Answered("frame")
  /\ Succeed /\ SayStopped
  /\ UNCHANGED <<state, target, doubt>>

\* What an ^error says; its message may tell that the target is gone.
CommandErrors ==
  {"GDB_COMMAND_FAILED"} \cup IF "break" \in Faults THEN {"GDB_TARGET_DISCONNECTED"} ELSE {}

\* A Waiting command has its result: the loop goes on until it reads a stop,
\* whatever the class of the result is.
ResultRead ==
  /\ at \in Waiting /\ reply = "sent" /\ link = "up"
  /\ \/ /\ at = "step" => target = "halted"
        /\ reply' = "done"
        /\ target' = IF at = "step" THEN "running" ELSE target
     \/ "refuse" \in Faults /\ reply' = "refused" /\ UNCHANGED target
  /\ UNCHANGED <<state, generation, probe, op, at, ret, owed, eventVars,
                 cancelled, open, link, pending, doubt>>

\* Both are there.  A refused command still fails, and takes the stop with it.
StopRead ==
  /\ at \in Waiting \cup {"wait"} /\ reply \in {"done", "refused"} /\ link = "up"
  /\ pending
  /\ pending' = FALSE
  /\ IF reply = "refused"
     THEN \E code \in CommandErrors : Abort(code)
     ELSE /\ at' = "finish" /\ reply' = "none"
          /\ doubt' = (doubt /\ at = "step")
          /\ IF at = "step"
             THEN state' = "running" /\ shown' = "running"
             ELSE UNCHANGED <<state, shown>>
          /\ UNCHANGED <<generation, probe, op, ret, owed, ending, ends>>
  /\ UNCHANGED <<cancelled, open, link, target>>

\* finish_stop: halted first, then the frame if the record carried none.
FinishStop ==
  /\ at = "finish"
  /\ state' = "halted"
  /\ \/ Succeed /\ SayStopped
     \/ Goto("frame") /\ NoEvent
  /\ UNCHANGED <<generation, probe, worldVars>>

\* A Plain command is answered ^error.  A refused reset may have reset the
\* core without halting it.
Refused ==
  /\ "refuse" \in Faults
  /\ at \in Plain /\ reply = "sent" /\ link = "up"
  /\ pending' = FALSE
  /\ target' \in {target} \cup
                 IF at = "resetting" /\ "miss" \in Faults THEN {"running"} ELSE {}
  /\ \E code \in CommandErrors : Abort(code)
  /\ UNCHANGED <<cancelled, open, link>>

\* The deadline passes; what was sent may still take effect.
MayLeave == {target} \cup IF at \in {"continue", "step", "resetting"} THEN {"running"} ELSE {}

\* A command that has its result goes on waiting only while no stop comes.
\* Faulty variant first: the deadline covers the result alone.
DeadlineForResult == "hang" \in Faults /\ reply = "sent"
Deadline ==
  \/ "hang" \in Faults /\ reply \in {"sent", "done", "refused"}
  \/ reply \in {"done", "refused"} /\ ~pending

TimedOut ==
  /\ Deadline
  /\ target' \in MayLeave
  /\ Abort(IF at = "wait" THEN "GDB_STOP_TIMEOUT" ELSE "GDB_COMMAND_TIMEOUT")
  /\ UNCHANGED <<cancelled, open, link, pending>>

\* The token is seen inside the loop; a broken link overrides it.
Interrupted ==
  /\ reply \in {"sent", "done", "refused"} /\ cancelled
  /\ target' \in MayLeave
  /\ pending' = FALSE
  /\ Abort(IF link = "up" THEN "INTERRUPTED" ELSE LinkError[link])
  /\ UNCHANGED <<cancelled, open, link>>

Broken ==
  /\ reply \in {"sent", "done", "refused"} /\ link # "up"
  /\ Abort(LinkError[link])
  /\ UNCHANGED <<cancelled, open, link, target, pending>>
-----------------------------------------------------------------------------
\* stop, fail_and_cleanup and cancel: nothing to do in idle, else an abnormal
\* state first, then disconnecting, the shutdown and idle.
\* Faulty variant first: a second cleanup is not a no-op.
SomethingAlways == TRUE
SomethingToCleanUp == state # "idle"

Unwind(o, next, step, why) ==
  /\ Quiet /\ SomethingToCleanUp
  /\ state' = next
  /\ op' = o /\ at' = step /\ reply' = "none"
  /\ ending' = why
  /\ owed' = FALSE
  /\ UNCHANGED <<generation, probe, ret, shown, ends, worldVars>>

Stop == ~owed /\ Unwind("stop", "disconnecting", "shutdown", "requested")
\* Faulty variant first: the failure is not published before the cleanup.
FailSilently == Unwind("fail", "disconnecting", "shutdown", "error")
FailAndCleanup == Unwind("fail", "failed", "disconnect", "error")
Cancel == Unwind("cancel", "cancelling", "disconnect", "cancelled")

Disconnect ==
  /\ at = "disconnect"
  /\ state' = "disconnecting" /\ at' = "shutdown"
  /\ UNCHANGED <<generation, probe, op, reply, ret, owed, eventVars, worldVars>>

Shutdown ==
  /\ at = "shutdown"
  /\ open' = FALSE
  /\ state' = "idle" /\ probe' = NoProbe
  /\ ends' = ends + 1
  /\ op' = "none" /\ at' = "none"
  /\ UNCHANGED <<generation, reply, ret, owed, shown, ending,
                 cancelled, link, target, pending, doubt>>
-----------------------------------------------------------------------------
\* The core, GDB, and whoever holds the token.
CoreStops ==
  /\ target = "running" /\ target' = "stopping"
  /\ UNCHANGED <<engineVars, eventVars, cancelled, open, link, pending, doubt>>

StopReported ==
  /\ target = "stopping" /\ link = "up"
  /\ target' = "halted" /\ pending' = TRUE
  /\ UNCHANGED <<engineVars, eventVars, cancelled, open, link, doubt>>

LinkBreaks ==
  /\ "break" \in Faults /\ link = "up"
  /\ link' \in DOMAIN LinkError
  /\ cancelled' = (cancelled \/ link' = "garbled")
  /\ UNCHANGED <<engineVars, eventVars, open, target, pending, doubt>>

TokenCancelled ==
  /\ "cancel" \in Faults /\ ~cancelled
  /\ cancelled' = TRUE
  /\ UNCHANGED <<engineVars, eventVars, open, link, target, pending, doubt>>
-----------------------------------------------------------------------------
Call ==
  \/ \E p \in Probes : Connect(p) \/ StartConnected(p) \/ LoadFirmware(p)
  \/ Continue \/ Halt \/ WaitUntilStopped \/ Step \/ ResetHalt \/ Query
  \/ RejectArguments \/ Poll
  \/ \E o \in Operations : Refuse(o)

Transport ==
  \/ Send \/ ResultRead \/ StopRead \/ Refused \/ TimedOut \/ Interrupted \/ Broken
  \/ MiAsyncSet \/ SymbolsRead \/ TargetSelected \/ ResetDone
  \/ HaltConfirmed \/ HaltUnconfirmed \/ TargetRuns
  \/ QueryAnswered \/ Downloaded \/ Compared \/ FrameRead

Internal == AnnounceStartup \/ FinishStop \/ Disconnect \/ Shutdown
CleanUp == Stop \/ FailAndCleanup \/ Cancel
World == CoreStops \/ StopReported \/ LinkBreaks \/ TokenCancelled

Next == Call \/ Transport \/ Internal \/ CleanUp \/ World

\* A call runs on its caller's thread and every wait has a deadline; a caller
\* that owes a cleanup performs it before it returns.
Fairness ==
  /\ WF_vars(Transport \/ Internal)
  /\ WF_vars(owed /\ CleanUp)

Spec == Init /\ [][Next]_vars
FairSpec == Spec /\ Fairness
-----------------------------------------------------------------------------
FlagsOK ==
  /\ owed \in BOOLEAN /\ cancelled \in BOOLEAN /\ open \in BOOLEAN
  /\ pending \in BOOLEAN /\ doubt \in BOOLEAN

FieldsOK ==
  /\ state \in SessionState
  /\ generation \in Nat
  /\ probe \in Probes \cup {NoProbe}
  /\ op \in Operations \cup Cleanups \cup {"none", "poll"}
  /\ at \in Steps
  /\ reply \in {"none", "unsent", "sent", "done", "refused"}
  /\ ret \in Codes
  /\ shown \in {"stopped", "running"}
  /\ ending \in {"none", "requested", "error", "cancelled"}
  /\ ends \in Nat
  /\ link \in {"up"} \cup DOMAIN LinkError
  /\ target \in {"halted", "stopping", "running"}

\* Every variable keeps its type: no error goes unnamed, and no operation is at
\* a command it does not have.
TypeOK == FieldsOK /\ FlagsOK

\* The engine says halted, between operations and while it inspects or
\* writes the target, only when the core is halted and GDB knows: every error
\* that could leave the core running under a halted engine is fatal, except a
\* reset that failed (doubt).
HaltedTruth ==
  (Quiet \/ at \in {"query", "more", "download", "compare"})
    /\ ~owed /\ ~doubt /\ state = "halted"
  => target = "halted"

\* The engine never waits for a stop that has gone by: when it says running
\* and GDB has reported the stop, the report is still to be read.  An interrupt
\* or a reset that GDB refused (doubt) may have consumed it.
NoLostStop ==
  Quiet /\ ~owed /\ ~doubt /\ state = "running" /\ target = "halted" => pending

\* Whoever follows only the Running and Stopped events agrees with the engine
\* on whether the core runs.
EventsTellState ==
  Quiet /\ ~owed /\ ~doubt /\ state \in {"halted", "running"}
  => (shown = "running" <=> state = "running")

\* A session ends once: SessionStopped is published as the engine reaches
\* idle, never again, and by then the transport is shut down.
EndsOnce ==
  /\ ends = IF state = "idle" /\ generation > 0 THEN 1 ELSE 0
  /\ ends = 1 => ~open /\ probe = NoProbe

\* Every operation returns to its caller, whatever GDB and the core do.
EveryCallReturns == ~Quiet ~> Quiet

\* The engine's transitions are the ones the lifecycle allows.
Lifecycle == INSTANCE DebugLifecycle WITH
  state <- state, generation <- generation, ending <- ending
LifecycleSpec == Lifecycle!Spec

\* The stop of a running core reaches the watcher as a halted state.
StopIsNeverLost ==
  Quiet /\ ~owed /\ state = "running" /\ target = "halted" => pending
=============================================================================
