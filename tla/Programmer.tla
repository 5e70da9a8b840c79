----------------------------- MODULE Programmer -----------------------------
(***************************************************************************)
(* One `samdebug erase`, `flash`, `reset` or `halt`: OpenOcdProgrammer, the *)
(* finite process runner below it, the OpenOCD it runs, the target, and a   *)
(* build that may replace the ELF meanwhile.                                *)
(*                                                                          *)
(* OpenOCD binds its ports and connects to the target in `init`; its script *)
(* of commands stops at the first one that fails.  It may hang anywhere.    *)
(***************************************************************************)
EXTENDS Naturals, Sequences

CONSTANTS
  Attempts,               \* PORT_BIND_ATTEMPTS
  MaxBuilds,              \* bound: the ELF is built so many times
  Old, Erased, Partial    \* contents of the flash that are no built image

Images == 1..MaxBuilds
ASSUME ProgrammerAssumption ==
  /\ Attempts \in Nat \ {0} /\ MaxBuilds \in Nat \ {0}
  /\ Old # Erased /\ Old # Partial /\ Erased # Partial
  /\ {Old, Erased, Partial} \cap Nat = {}

VARIABLES
  op,          \* the operation
  granted,     \* which of the checks before the first attempt pass
  pc, attempt, report,   \* OpenOcdProgrammer and run_finite
  server,      \* the OpenOCD process
  step, busy,  \* the command it is at, and whether the target is at work on it
  exit, text,  \* its exit status, and what its output mentions
  straggler,   \* another process holds its output pipe
  expired,     \* the deadline of this attempt has passed
  cancelled,
  elf, loading,   \* the ELF in the build directory, and the one being written
  flash, core     \* the target

runVars == <<pc, attempt, report>>
serverVars == <<server, step, busy, exit, text>>
targetVars == <<flash, core>>
vars == <<op, granted, runVars, serverVars, straggler, expired, cancelled, elf, loading, targetVars>>

Operations == {"erase", "flash", "reset", "halt"}
Destructive == {"erase", "flash"}
Checks == {"config", "probe", "authorization", "artifact"}

\* build_args; reset halt and halt are one command here.
Script == [o \in Operations |->
  CASE o = "erase" -> <<"halt", "erase", "check", "halt">>
    [] o = "flash" -> <<"halt", "write", "verify", "run">>
    [] o = "reset" -> <<"run">>
    [] o = "halt"  -> <<"halt">>]

Init ==
  /\ op \in Operations /\ granted \in SUBSET Checks
  /\ pc = "start" /\ attempt = 1 /\ report = "none"
  /\ server = "none" /\ step = 1 /\ busy = FALSE /\ exit = "none" /\ text = {}
  /\ straggler = FALSE /\ expired = FALSE /\ cancelled = FALSE
  /\ elf = 1 /\ loading = 1
  /\ flash = Old /\ core \in {"running", "halted"}
-----------------------------------------------------------------------------
(* execute *)

Ends(code) == pc' = "ended" /\ report' = code /\ UNCHANGED attempt
NotTheServer == UNCHANGED <<serverVars, straggler, loading, targetVars>>
NotTheUser == UNCHANGED <<op, granted, cancelled, elf>>

\* validate_config, select_probe, validate_authorization and validate_elf, in
\* this order; the last two only for what destroys, and what writes.
CheckOrder == <<"config", "probe", "authorization", "artifact">>
Needed(o) ==
  {"config", "probe"} \cup (IF o \in Destructive THEN {"authorization"} ELSE {})
                      \cup (IF o = "flash" THEN {"artifact"} ELSE {})
CheckCode(c) ==
  CASE c = "config" -> "OPENOCD_CONFIGURATION_INVALID" [] c = "probe" -> "PROBE_REJECTED"
    [] c = "authorization" -> "AUTHORIZATION_REJECTED" [] c = "artifact" -> "FIRMWARE_ARTIFACT_INVALID"

Refuse ==
  /\ pc = "start"
  /\ \E i \in 1..4 :
       /\ CheckOrder[i] \in Needed(op) \ granted
       /\ \A j \in 1..(i - 1) : CheckOrder[j] \in granted \/ CheckOrder[j] \notin Needed(op)
       /\ Ends(CheckCode(CheckOrder[i]))
  /\ NotTheServer /\ NotTheUser /\ UNCHANGED expired

Accept ==
  /\ pc = "start" /\ Needed(op) \subseteq granted
  /\ pc' = "attempt" /\ UNCHANGED <<attempt, report>>
  /\ NotTheServer /\ NotTheUser /\ UNCHANGED expired

\* PortProvider::reserve fails.
NoPorts ==
  /\ pc = "attempt" /\ Ends("LOCAL_PORT_UNAVAILABLE")
  /\ NotTheServer /\ NotTheUser /\ UNCHANGED expired

\* run_finite asks for the token before it spawns.
CancelledBefore ==
  /\ pc = "attempt" /\ cancelled /\ Ends("INTERRUPTED")
  /\ NotTheServer /\ NotTheUser /\ UNCHANGED expired

SpawnFails ==
  /\ pc = "attempt" /\ ~cancelled /\ Ends("PROCESS_RUN_FAILED")
  /\ NotTheServer /\ NotTheUser /\ UNCHANGED expired

\* Faulty variant first: what the attempt before left is not cleared.
SpawnAgain ==
  /\ pc = "attempt" /\ ~cancelled
  /\ pc' = "waiting" /\ UNCHANGED <<attempt, report>>
  /\ server' = "init" /\ step' = 1 /\ busy' = FALSE /\ expired' = FALSE
  /\ UNCHANGED <<exit, text, straggler, loading, targetVars>> /\ NotTheUser
Spawn ==
  /\ pc = "attempt" /\ ~cancelled
  /\ pc' = "waiting" /\ UNCHANGED <<attempt, report>>
  /\ server' = "init" /\ step' = 1 /\ busy' = FALSE /\ exit' = "none" /\ text' = {}
  /\ expired' = FALSE
  /\ UNCHANGED <<straggler, loading, targetVars>> /\ NotTheUser
-----------------------------------------------------------------------------
(* run_finite *)

\* kill_finite_process: SIGKILL to the process group, or to the child alone if
\* that fails; what holds the pipe may survive it.
\* Faulty variant first: the command is given up, and not killed.
LeftRunning == UNCHANGED <<server, busy, straggler>>
Killed ==
  /\ server' = "dead" /\ busy' = FALSE
  /\ straggler' \in {FALSE, straggler}

TimeoutCode(o) ==
  CASE o = "erase" -> "ERASE_TIMEOUT" [] o = "flash" -> "FLASH_TIMEOUT"
    [] OTHER -> "TARGET_COMMAND_TIMEOUT"

GiveUp(code) ==
  /\ pc = "waiting" /\ Killed
  /\ pc' = "killing" /\ report' = code /\ UNCHANGED attempt
  /\ UNCHANGED <<step, exit, text, expired, loading, targetVars>> /\ NotTheUser

\* The loop asks for the token, the deadline and the exit in turn: any that
\* holds may be the first it sees, after the command has succeeded too.
SeeCancelled == cancelled /\ GiveUp("INTERRUPTED")
\* Faulty variant first: only the token is looked at.
DeadlineUnseen == FALSE
SeeDeadline == expired /\ GiveUp(TimeoutCode(op))
WaitFails == GiveUp("PROCESS_WAIT_FAILED")
SeeExit ==
  /\ pc = "waiting" /\ server = "exited"
  /\ pc' = "joining" /\ UNCHANGED <<attempt, report>>
  /\ NotTheServer /\ NotTheUser /\ UNCHANGED expired

\* The readers end when nobody holds the pipes.
PipesClosed == ~straggler

KilledJoined ==
  /\ pc = "killing" /\ PipesClosed
  /\ pc' = "ended" /\ UNCHANGED <<attempt, report>>
  /\ NotTheServer /\ NotTheUser /\ UNCHANGED expired

\* Faulty variant first: every failed run is taken for a bind collision.
AnyFailure == exit = "bad"
\* is_port_bind_failure, after is_probe_transport_failure.
BindFailure == exit = "bad" /\ "bind" \in text /\ "transport" \notin text

FailureCode(o) ==
  CASE o = "erase" -> "ERASE_FAILED" [] o = "flash" -> "FLASH_FAILED"
    [] OTHER -> "TARGET_COMMAND_FAILED"
\* Faulty variant first: the exit status alone is believed.
ClassifyExit ==
  IF exit = "ok" THEN "ok"
  ELSE IF "transport" \in text THEN "PROBE_DISCONNECTED"
  ELSE IF "verify" \in text THEN "VERIFY_FAILED" ELSE FailureCode(op)
\* classify_output
Classify ==
  CASE exit = "bad" /\ "transport" \in text -> "PROBE_DISCONNECTED"
    [] exit = "bad" /\ "transport" \notin text /\ "verify" \in text -> "VERIFY_FAILED"
    [] exit = "bad" /\ text \cap {"transport", "verify"} = {} /\ "target" \in text -> "TARGET_UNREACHABLE"
    [] exit = "ok" /\ op = "flash" /\ "verify" \in text -> "VERIFY_FAILED"
    [] exit = "ok" /\ op = "erase" /\ "unerased" \in text -> "ERASE_VERIFICATION_FAILED"
    [] OTHER -> IF exit = "ok" THEN "ok" ELSE FailureCode(op)

Retry ==
  /\ pc = "joining" /\ PipesClosed /\ BindFailure /\ attempt < Attempts
  /\ pc' = "attempt" /\ attempt' = attempt + 1 /\ UNCHANGED report
  /\ NotTheServer /\ NotTheUser /\ UNCHANGED expired

GiveUpPorts ==
  /\ pc = "joining" /\ PipesClosed /\ BindFailure /\ attempt = Attempts
  /\ Ends("LOCAL_PORT_UNAVAILABLE")
  /\ NotTheServer /\ NotTheUser /\ UNCHANGED expired

\* A reader got an error instead of the output, whatever the command did.
OutputFails ==
  /\ pc = "joining" /\ PipesClosed /\ Ends("PROCESS_OUTPUT_FAILED")
  /\ NotTheServer /\ NotTheUser /\ UNCHANGED expired

Report ==
  /\ pc = "joining" /\ PipesClosed /\ ~BindFailure
  /\ Ends(Classify)
  /\ NotTheServer /\ NotTheUser /\ UNCHANGED expired
-----------------------------------------------------------------------------
(* OpenOCD and the target *)

Alive == server \in {"init", "script"}
NotTheRunner == UNCHANGED <<runVars, expired>> /\ NotTheUser

InitDone ==
  /\ server = "init" /\ server' = "script"
  /\ UNCHANGED <<step, busy, exit, text, straggler, loading, targetVars>> /\ NotTheRunner

Exits(status, mentions) ==
  /\ server' = "exited" /\ exit' = status /\ text' = mentions /\ busy' = FALSE
  /\ UNCHANGED <<step, straggler, loading, targetVars>> /\ NotTheRunner

InitFails ==
  /\ server = "init"
  /\ \E why \in {{"bind"}, {"transport"}, {"bind", "transport"}, {"target"}} : Exits("bad", why)

InScript == server = "script" /\ step <= Len(Script[op])
Is(command) == InScript /\ Script[op][step] = command
NextCommand(mentions) ==
  /\ step' = step + 1 /\ busy' = FALSE /\ text' = mentions
  /\ UNCHANGED <<server, exit, straggler>> /\ NotTheRunner

\* While the flash is being erased or written it holds a mixture; afterwards
\* perhaps still: that is what the check and the comparison are for.
WorkBegins ==
  /\ (Is("erase") \/ Is("write")) /\ ~busy
  /\ busy' = TRUE /\ flash' = Partial /\ loading' = elf
  /\ UNCHANGED <<server, step, exit, text, straggler, core>> /\ NotTheRunner

WorkEnds ==
  /\ (Is("erase") \/ Is("write")) /\ busy
  /\ flash' \in {Partial, IF Is("erase") THEN Erased ELSE loading}
  /\ NextCommand(text) /\ UNCHANGED <<loading, core>>

HaltOrRun ==
  /\ (Is("halt") \/ Is("run"))
  /\ core' = IF Is("halt") THEN "halted" ELSE "running"
  /\ NextCommand(text) /\ UNCHANGED <<loading, flash>>

\* verify_image reads the ELF again; erase_check only reports.
Compare ==
  /\ Is("verify") /\ UNCHANGED <<loading, targetVars>>
  /\ NextCommand(IF flash = elf THEN text ELSE text \cup {"verify"})
CompareFails == Is("verify") /\ flash # elf /\ Exits("bad", text \cup {"verify"})
CheckErased ==
  /\ Is("check") /\ UNCHANGED <<loading, targetVars>>
  /\ NextCommand(IF flash = Erased THEN text ELSE text \cup {"unerased"})

CommandFails ==
  /\ InScript
  /\ \E why \in {{}, {"transport"}, {"target"}} : Exits("bad", text \cup why)

ShutsDown == server = "script" /\ ~InScript /\ Exits("ok", text)

Forks ==
  /\ Alive /\ ~straggler /\ straggler' = TRUE
  /\ UNCHANGED <<serverVars, loading, targetVars>> /\ NotTheRunner
StragglerExits ==
  /\ straggler /\ straggler' = FALSE
  /\ UNCHANGED <<serverVars, loading, targetVars>> /\ NotTheRunner
-----------------------------------------------------------------------------
Expire ==
  /\ pc = "waiting" /\ ~expired /\ expired' = TRUE
  /\ UNCHANGED runVars /\ NotTheServer /\ NotTheUser
Cancel ==
  /\ pc # "ended" /\ ~cancelled /\ cancelled' = TRUE
  /\ UNCHANGED <<op, granted, elf, runVars, expired>> /\ NotTheServer
Rebuild ==
  /\ pc # "ended" /\ elf < MaxBuilds /\ elf' = elf + 1
  /\ UNCHANGED <<op, granted, cancelled, runVars, expired>> /\ NotTheServer

Runner ==
  \/ Refuse \/ Accept \/ NoPorts \/ CancelledBefore \/ SpawnFails \/ Spawn
  \/ SeeCancelled \/ SeeDeadline \/ SeeExit \/ KilledJoined
  \/ Retry \/ GiveUpPorts \/ OutputFails \/ Report
Server ==
  \/ InitDone \/ InitFails \/ WorkBegins \/ WorkEnds \/ HaltOrRun \/ Compare \/ CompareFails
  \/ CheckErased \/ CommandFails \/ ShutsDown \/ Forks \/ StragglerExits
Next == Runner \/ WaitFails \/ Server \/ Expire \/ Cancel \/ Rebuild

\* The runner polls every 10 ms and time passes; OpenOCD may hang, and whatever
\* holds its pipes may hold them for ever.
Spec == Init /\ [][Next]_vars
FairSpec == Spec /\ WF_vars(Runner) /\ WF_vars(Expire)
-----------------------------------------------------------------------------
Untouched == {"OPENOCD_CONFIGURATION_INVALID", "PROBE_REJECTED", "AUTHORIZATION_REJECTED",
  "FIRMWARE_ARTIFACT_INVALID", "LOCAL_PORT_UNAVAILABLE", "PROCESS_RUN_FAILED"}
Codes == Untouched \cup {"none", "ok", "INTERRUPTED", "PROCESS_WAIT_FAILED",
  "PROCESS_OUTPUT_FAILED", "ERASE_TIMEOUT", "FLASH_TIMEOUT", "TARGET_COMMAND_TIMEOUT",
  "PROBE_DISCONNECTED", "VERIFY_FAILED",
  "TARGET_UNREACHABLE", "ERASE_VERIFICATION_FAILED", "ERASE_FAILED", "FLASH_FAILED",
  "TARGET_COMMAND_FAILED"}

RunnerOK ==
  /\ op \in Operations /\ granted \subseteq Checks
  /\ pc \in {"start", "attempt", "waiting", "killing", "joining", "ended"}
  /\ attempt \in 1..Attempts /\ report \in Codes
ServerOK ==
  /\ server \in {"none", "init", "script", "exited", "dead"}
  /\ step \in 1..5 /\ exit \in {"none", "ok", "bad"}
  /\ text \subseteq {"bind", "transport", "target", "verify", "unerased"}
TargetOK ==
  /\ elf \in Images /\ loading \in Images
  /\ flash \in Images \cup {Old, Erased, Partial} /\ core \in {"running", "halted"}
FlagsOK ==
  busy \in BOOLEAN /\ straggler \in BOOLEAN /\ expired \in BOOLEAN /\ cancelled \in BOOLEAN
\* A server that has exited has said how; an operation ends with a report.
ProcessesOK ==
  /\ server # "dead" => (server = "exited" <=> exit # "none")
  /\ pc = "joining" => server = "exited"
  /\ pc \in {"killing", "ended"} => report # "none"

\* Every operation, process and target is in a state the code can reach.
TypeOK == RunnerOK /\ ServerOK /\ TargetOK /\ FlagsOK /\ ProcessesOK

\* execute: a bind collision is tried again.  No run that has written the
\* flash ever is, however it failed.
RetriesOnlyUntouched == [][attempt' # attempt => flash = Old]_vars

\* programming.md: the process is time-bounded.  An operation ends, unless a
\* process that survives OpenOCD keeps its output open.
EveryOperationEnds ==
  pc # "ended" ~> pc = "ended" \/ (pc \in {"joining", "killing"} /\ straggler)

Outcome ==
  IF pc # "ended" THEN "pending"
  ELSE IF report = "ok" THEN "done"
  ELSE IF report \in Untouched THEN "untouched" ELSE "unknown"
Contract == INSTANCE ProgramContract WITH
  Old <- Old, Erased <- Erased, Images <- Images,
  operation <- op, firmware <- flash, core <- core, outcome <- Outcome

\* The programmer keeps its contract.  programming.md: erase runs the check, flash
\* the comparison before success is reported; an error that blames the request,
\* the probe or the ports left the flash alone; nothing touches the target once
\* the operation has returned.
KeepsContract == Contract!Spec
=============================================================================
