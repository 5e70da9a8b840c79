-------------------------- MODULE ProgrammerProofs --------------------------
(***************************************************************************)
(* What holds of Programmer for any number of attempts and builds: the      *)
(* programmer keeps its contract, and no run that wrote the flash is tried  *)
(* again.                                                                   *)
(***************************************************************************)
EXTENDS Programmer, TLAPS

\* The step of the script at which each command is.
LEMMA ScriptOf ==
  ASSUME op \in Operations, step \in 1..5
  PROVE  /\ Len(Script[op]) = IF op \in Destructive THEN 4 ELSE 1
         /\ InScript => step <= IF op \in Destructive THEN 4 ELSE 1
         /\ Is("erase") => op = "erase" /\ step = 2
         /\ Is("write") => op = "flash" /\ step = 2
         /\ Is("check") => op = "erase" /\ step = 3
         /\ Is("verify") => op = "flash" /\ step = 3
         /\ Is("run") => (op = "flash" /\ step = 4) \/ (op = "reset" /\ step = 1)
         /\ Is("halt") => (op = "erase" /\ step \in {1, 4}) \/ (op \in {"flash", "halt"} /\ step = 1)
<1> USE DEF Is, InScript, Destructive
<1>1. CASE op = "erase"
  <2>1. Script[op] = <<"halt", "erase", "check", "halt">>
    BY <1>1 DEF Script, Operations
  <2>2. /\ Len(Script[op]) = 4
        /\ Script[op][1] = "halt" /\ Script[op][2] = "erase" /\ Script[op][3] = "check" /\ Script[op][4] = "halt"
    BY <2>1
  <2>3. step = 1 \/ step = 2 \/ step = 3 \/ step = 4 \/ step = 5
    OBVIOUS
  <2> QED
    BY <1>1, <2>2, <2>3
<1>2. CASE op = "flash"
  <2>1. Script[op] = <<"halt", "write", "verify", "run">>
    BY <1>2 DEF Script, Operations
  <2>2. /\ Len(Script[op]) = 4
        /\ Script[op][1] = "halt" /\ Script[op][2] = "write" /\ Script[op][3] = "verify" /\ Script[op][4] = "run"
    BY <2>1
  <2>3. step = 1 \/ step = 2 \/ step = 3 \/ step = 4 \/ step = 5
    OBVIOUS
  <2> QED
    BY <1>2, <2>2, <2>3
<1>3. CASE op = "reset"
  <2>1. Script[op] = <<"run">>
    BY <1>3 DEF Script, Operations
  <2> QED
    BY <1>3, <2>1
<1>4. CASE op = "halt"
  <2>1. Script[op] = <<"halt">>
    BY <1>4 DEF Script, Operations
  <2> QED
    BY <1>4, <2>1
<1> QED
  BY <1>1, <1>2, <1>3, <1>4 DEF Operations

LEMMA NextInScript ==
  ASSUME op \in Operations, step \in 1..5, InScript
  PROVE  step + 1 \in 1..5
<1>1. step <= IF op \in Destructive THEN 4 ELSE 1
  BY ScriptOf
<1> QED
  BY <1>1

LEMMA CodesOfChecks == \A i \in 1..4 : CheckCode(CheckOrder[i]) \in Codes
<1> SUFFICES ASSUME NEW i \in 1..4 PROVE CheckCode(CheckOrder[i]) \in Codes
  OBVIOUS
<1>1. CheckOrder[i] \in Checks
  BY DEF CheckOrder, Checks
<1> QED
  BY <1>1 DEF Checks, CheckCode, Codes, Untouched

\* The codes of the attempts, by what they say of the flash.
LEMMA CodesOfRuns ==
  ASSUME op \in Operations
  PROVE  /\ Classify \in Codes \ (Untouched \cup {"none"})
         /\ TimeoutCode(op) \in Codes \ (Untouched \cup {"none", "ok"})
         /\ Classify = "ok" => /\ exit = "ok"
                               /\ op = "flash" => "verify" \notin text
                               /\ op = "erase" => "unerased" \notin text
<1>1. FailureCode(op) \in {"ERASE_FAILED", "FLASH_FAILED", "TARGET_COMMAND_FAILED"}
  BY DEF FailureCode
<1>2. TimeoutCode(op) \in {"ERASE_TIMEOUT", "FLASH_TIMEOUT", "TARGET_COMMAND_TIMEOUT"}
  BY DEF TimeoutCode
<1>3. \/ Classify \in {"PROBE_DISCONNECTED", "VERIFY_FAILED", "TARGET_UNREACHABLE",
                       "ERASE_VERIFICATION_FAILED"}
      \/ Classify = "ok" /\ exit = "ok" /\ (op = "flash" => "verify" \notin text)
                         /\ (op = "erase" => "unerased" \notin text)
      \/ Classify = FailureCode(op)
  BY DEF Classify
<1> QED
  BY <1>1, <1>2, <1>3 DEF Codes, Untouched

(* Types *)

\* What OpenOCD does leaves the runner and the user alone.
LEMMA ServerKeeps ==
  ASSUME Server
  PROVE  UNCHANGED <<op, granted, cancelled, elf, pc, attempt, report, expired>>
BY DEF Server, InitDone, InitFails, WorkBegins, WorkEnds, HaltOrRun, Compare, CompareFails,
   CheckErased, CommandFails, ShutsDown, Forks, StragglerExits, Exits, NextCommand, NotTheRunner,
   NotTheUser, runVars

\* What the runner and the user do leaves the target alone, and the server but for
\* starting and killing it.
LEMMA RunnerKeeps ==
  ASSUME Runner \/ WaitFails \/ Expire \/ Cancel \/ Rebuild
  PROVE  /\ UNCHANGED <<op, granted, flash, core, loading>>
         /\ \/ UNCHANGED <<serverVars, straggler>>
            \/ Spawn
            \/ pc = "waiting" /\ Killed /\ pc' = "killing" /\ UNCHANGED <<step, exit, text>>
BY DEF Runner, WaitFails, Expire, Cancel, Rebuild, Refuse, Accept, NoPorts, CancelledBefore,
   SpawnFails, Spawn, SeeCancelled, SeeDeadline, SeeExit, KilledJoined, Retry, GiveUpPorts, OutputFails,
   Report,
   GiveUp, Ends, NotTheServer, NotTheUser, targetVars

LEMMA RunnerTyped == TypeOK /\ [Next]_vars => RunnerOK'
<1> SUFFICES ASSUME RunnerOK, [Next]_vars PROVE RunnerOK'
  BY DEF TypeOK
<1> USE DEF RunnerOK, Ends, NotTheUser, runVars
<1>1. CASE UNCHANGED vars
  BY <1>1 DEF vars
<1>2. CASE Refuse
  BY <1>2, CodesOfChecks DEF Refuse
<1>3. CASE Accept \/ NoPorts \/ CancelledBefore \/ SpawnFails \/ Spawn
  BY <1>3 DEF Accept, NoPorts, CancelledBefore, SpawnFails, Spawn, Codes, Untouched
<1>4. CASE SeeCancelled \/ SeeDeadline \/ WaitFails
  BY <1>4, CodesOfRuns DEF SeeCancelled, SeeDeadline, WaitFails, GiveUp, Codes
<1>5. CASE SeeExit \/ KilledJoined
  BY <1>5 DEF SeeExit, KilledJoined
<1>6. CASE Retry
  BY <1>6, ProgrammerAssumption DEF Retry
<1>7. CASE GiveUpPorts \/ OutputFails
  BY <1>7 DEF GiveUpPorts, OutputFails, Codes, Untouched
<1>8. CASE Report
  BY <1>8, CodesOfRuns DEF Report
<1>9. CASE Server
  BY <1>9, ServerKeeps
<1>10. CASE Expire \/ Cancel \/ Rebuild
  BY <1>10 DEF Expire, Cancel, Rebuild
<1> QED
  BY <1>1, <1>2, <1>3, <1>4, <1>5, <1>6, <1>7, <1>8, <1>9, <1>10 DEF Next, Runner

Mentions == {"bind", "transport", "target", "verify", "unerased"}

LEMMA ServerTyped == TypeOK /\ [Next]_vars => ServerOK'
<1> SUFFICES ASSUME TypeOK, [Next]_vars PROVE ServerOK'
  OBVIOUS
<1>0. ServerOK /\ op \in Operations /\ step \in 1..5
  BY DEF TypeOK, ServerOK, RunnerOK
<1> USE DEF ServerOK, serverVars
<1>1. CASE UNCHANGED vars
  BY <1>0, <1>1 DEF vars
<1>2. CASE Runner \/ WaitFails \/ Expire \/ Cancel \/ Rebuild
  <2>1. CASE UNCHANGED serverVars
    BY <1>0, <2>1
  <2>2. CASE Spawn
    <3>1. server' = "init" /\ step' = 1 /\ exit' = "none" /\ text' = {}
      BY <2>2 DEF Spawn
    <3> QED
      BY <3>1
  <2>3. CASE Killed /\ UNCHANGED <<step, exit, text>>
    BY <1>0, <2>3 DEF Killed
  <2> QED
    BY <1>2, <2>1, <2>2, <2>3, RunnerKeeps
<1>3. ASSUME NEW status \in {"ok", "bad"}, NEW mentions \in SUBSET Mentions, Exits(status, mentions)
      PROVE  ServerOK'
  BY <1>0, <1>3 DEF Exits, Mentions
<1>4. CASE InitFails \/ CompareFails \/ CommandFails \/ ShutsDown
  <2>1. /\ text \in SUBSET Mentions /\ text \cup {"verify"} \in SUBSET Mentions
        /\ \A why \in {{}, {"transport"}, {"target"}} : text \cup why \in SUBSET Mentions
        /\ \A why \in {{"bind"}, {"transport"}, {"bind", "transport"}, {"target"}} :
             why \in SUBSET Mentions
    BY <1>0 DEF Mentions
  <2> QED
    BY <1>3, <1>4, <2>1 DEF InitFails, CompareFails, CommandFails, ShutsDown
<1>5. ASSUME NEW mentions \in SUBSET Mentions, InScript, NextCommand(mentions) PROVE ServerOK'
  <2>1. step + 1 \in 1..5
    BY <1>0, <1>5, NextInScript
  <2> QED
    BY <1>0, <1>5, <2>1 DEF NextCommand, Mentions
<1>6. CASE WorkEnds \/ HaltOrRun \/ Compare \/ CheckErased
  <2>1. InScript
    BY <1>6 DEF WorkEnds, HaltOrRun, Compare, CheckErased, Is
  <2>2. /\ text \in SUBSET Mentions /\ text \cup {"verify"} \in SUBSET Mentions
        /\ text \cup {"unerased"} \in SUBSET Mentions
    BY <1>0 DEF Mentions
  <2> QED
    BY <1>5, <1>6, <2>1, <2>2 DEF WorkEnds, HaltOrRun, Compare, CheckErased
<1>7. CASE InitDone \/ WorkBegins \/ Forks \/ StragglerExits
  BY <1>0, <1>7 DEF InitDone, WorkBegins, Forks, StragglerExits
<1> QED
  BY <1>1, <1>2, <1>4, <1>6, <1>7 DEF Next, Server

LEMMA TargetTyped == TypeOK /\ [Next]_vars => TargetOK'
<1> SUFFICES ASSUME TargetOK, [Next]_vars PROVE TargetOK'
  BY DEF TypeOK
<1> USE DEF TargetOK
<1>1. CASE UNCHANGED vars
  BY <1>1 DEF vars, targetVars
<1>2. CASE Rebuild
  <2>1. elf' \in Images
    BY <1>2, ProgrammerAssumption DEF Rebuild, Images
  <2> QED
    BY <1>2, <2>1, RunnerKeeps
<1>3. CASE Runner \/ WaitFails \/ Expire \/ Cancel
  <2>1. elf' = elf
    BY <1>3 DEF Runner, WaitFails, Expire, Cancel, Refuse, Accept, NoPorts, CancelledBefore,
       SpawnFails, Spawn, SeeCancelled, SeeDeadline, SeeExit, KilledJoined, Retry, GiveUpPorts, OutputFails,
       Report, GiveUp, NotTheUser
  <2> QED
    BY <1>3, <2>1, RunnerKeeps
<1>4. CASE WorkBegins \/ WorkEnds \/ HaltOrRun
  BY <1>4, ServerKeeps DEF Server, WorkBegins, WorkEnds, HaltOrRun
<1>5. CASE InitDone \/ InitFails \/ Compare \/ CompareFails \/ CheckErased \/ CommandFails
           \/ ShutsDown \/ Forks \/ StragglerExits
  BY <1>5, ServerKeeps DEF Server, InitDone, InitFails, Compare, CompareFails, CheckErased,
     CommandFails, ShutsDown, Forks, StragglerExits, Exits, targetVars
<1> QED
  BY <1>1, <1>2, <1>3, <1>4, <1>5 DEF Next, Server

LEMMA FlagsTyped == TypeOK /\ [Next]_vars => FlagsOK'
<1> SUFFICES ASSUME FlagsOK, [Next]_vars PROVE FlagsOK'
  BY DEF TypeOK
<1> USE DEF FlagsOK, NotTheServer, NotTheUser, NotTheRunner, serverVars, runVars
<1>1. CASE UNCHANGED vars
  BY <1>1 DEF vars
<1>2. CASE Refuse \/ Accept \/ NoPorts \/ CancelledBefore \/ SpawnFails \/ Spawn
  BY <1>2 DEF Refuse, Accept, NoPorts, CancelledBefore, SpawnFails, Spawn
<1>3. CASE SeeCancelled \/ SeeDeadline \/ WaitFails \/ SeeExit \/ KilledJoined
  BY <1>3 DEF SeeCancelled, SeeDeadline, WaitFails, GiveUp, Killed, SeeExit, KilledJoined
<1>4. CASE Retry \/ GiveUpPorts \/ OutputFails \/ Report
  BY <1>4 DEF Retry, GiveUpPorts, OutputFails, Report
<1>5. CASE InitDone \/ InitFails \/ CompareFails \/ CommandFails \/ ShutsDown
  BY <1>5 DEF InitDone, InitFails, CompareFails, CommandFails, ShutsDown, Exits
<1>6. CASE WorkBegins \/ WorkEnds \/ HaltOrRun \/ Compare \/ CheckErased
  BY <1>6 DEF WorkBegins, WorkEnds, HaltOrRun, Compare, CheckErased, NextCommand
<1>7. CASE Forks \/ StragglerExits \/ Expire \/ Cancel \/ Rebuild
  BY <1>7 DEF Forks, StragglerExits, Expire, Cancel, Rebuild
<1> QED
  BY <1>1, <1>2, <1>3, <1>4, <1>5, <1>6, <1>7 DEF Next, Runner, Server

\* A server that runs is waited for, one that is waited for has not been left, and
\* has said nothing of its end; the code of a killed run is no success.
RunsOK ==
  /\ server \in {"init", "script"} => pc = "waiting" /\ exit = "none" /\ "bind" \notin text
  /\ pc = "killing" => report \in Codes \ (Untouched \cup {"none", "ok"})

LEMMA ProcessesTyped == TypeOK /\ RunsOK /\ [Next]_vars => ProcessesOK' /\ RunsOK'
<1> SUFFICES ASSUME TypeOK, RunsOK, [Next]_vars PROVE ProcessesOK' /\ RunsOK'
  OBVIOUS
<1>0. ProcessesOK /\ ServerOK /\ op \in Operations
  BY DEF TypeOK, RunnerOK
<1> USE DEF RunsOK, ProcessesOK, NotTheServer, serverVars, runVars
<1>1. CASE UNCHANGED vars
  BY <1>0, <1>1 DEF vars
<1>2. CASE Refuse
  <2>1. \A i \in 1..4 : CheckCode(CheckOrder[i]) # "none"
    BY CodesOfChecks DEF CheckCode, CheckOrder
  <2> QED
    BY <1>0, <1>2, <2>1 DEF Refuse, Ends
<1>3. CASE Accept \/ NoPorts \/ CancelledBefore \/ SpawnFails
  BY <1>0, <1>3 DEF Accept, NoPorts, CancelledBefore, SpawnFails, Ends
<1>4. CASE Spawn
  BY <1>0, <1>4 DEF Spawn
<1>5. CASE SeeCancelled \/ SeeDeadline \/ WaitFails
  <2>1. PICK code : GiveUp(code) /\ code \in {"INTERRUPTED", TimeoutCode(op), "PROCESS_WAIT_FAILED"}
    BY <1>5 DEF SeeCancelled, SeeDeadline, WaitFails
  <2>2. code \in Codes \ (Untouched \cup {"none", "ok"})
    BY <1>0, <2>1, CodesOfRuns DEF Codes, Untouched
  <2> QED
    BY <1>0, <2>1, <2>2 DEF GiveUp, Killed
<1>6. CASE SeeExit \/ KilledJoined
  BY <1>0, <1>6 DEF SeeExit, KilledJoined
<1>7. CASE Retry \/ GiveUpPorts \/ OutputFails \/ Report
  <2>1. Classify # "none"
    BY <1>0, CodesOfRuns
  <2> QED
    BY <1>0, <1>7, <2>1 DEF Retry, GiveUpPorts, OutputFails, Report, Ends
<1>8. CASE Server
  <2>1. UNCHANGED <<pc, attempt, report>>
    BY <1>8, ServerKeeps
  <2>2. CASE InitFails \/ CompareFails \/ CommandFails \/ ShutsDown
    <3>1. server' = "exited" /\ exit' \in {"ok", "bad"}
      BY <2>2 DEF InitFails, CompareFails, CommandFails, ShutsDown, Exits
    <3> QED
      BY <1>0, <2>1, <3>1
  <2>3. CASE InitDone \/ Forks \/ StragglerExits \/ WorkBegins
    BY <1>0, <2>1, <2>3 DEF InitDone, Forks, StragglerExits, WorkBegins
  <2>4. CASE WorkEnds \/ HaltOrRun \/ Compare \/ CheckErased
    <3>1. UNCHANGED <<server, exit>> /\ server = "script" /\ text' \subseteq text \cup {"verify", "unerased"}
      BY <2>4 DEF WorkEnds, HaltOrRun, Compare, CheckErased, NextCommand, Is, InScript
    <3> QED
      BY <1>0, <2>1, <3>1
  <2> QED
    BY <1>8, <2>2, <2>3, <2>4 DEF Server
<1>9. CASE Expire \/ Cancel \/ Rebuild
  BY <1>0, <1>9 DEF Expire, Cancel, Rebuild
<1> QED
  BY <1>1, <1>2, <1>3, <1>4, <1>5, <1>6, <1>7, <1>8, <1>9 DEF Next, Runner

LEMMA InitTyped == Init => TypeOK /\ RunsOK
<1> SUFFICES ASSUME Init PROVE TypeOK /\ RunsOK
  OBVIOUS
<1> USE DEF Init
<1>1. RunnerOK /\ ProcessesOK /\ RunsOK
  BY ProgrammerAssumption DEF RunnerOK, ProcessesOK, RunsOK, Codes, Untouched
<1>2. ServerOK
  BY DEF ServerOK
<1>3. TargetOK
  BY ProgrammerAssumption DEF TargetOK, Images
<1>4. FlagsOK
  BY DEF FlagsOK
<1> QED
  BY <1>1, <1>2, <1>3, <1>4 DEF TypeOK

LEMMA RunsAreOK == Spec => [](TypeOK /\ RunsOK)
<1>1. TypeOK /\ RunsOK /\ [Next]_vars => (TypeOK /\ RunsOK)'
  BY RunnerTyped, ServerTyped, TargetTyped, FlagsTyped, ProcessesTyped DEF TypeOK
<1> QED
  BY <1>1, InitTyped, PTL DEF Spec

\* The programmer, the OpenOCD it runs and the target keep their types, and agree
\* on how a run ended (TypeOK).
THEOREM TypeCorrect == Spec => []TypeOK
BY RunsAreOK, PTL

(* Retries *)

\* The flash is untouched until OpenOCD has bound its ports, and for good by an
\* operation that does not destroy.
FlashOK ==
  /\ pc \in {"start", "attempt"} => flash = Old
  /\ server = "init" => flash = Old /\ step = 1
  /\ "bind" \in text => flash = Old
  /\ op \notin Destructive => flash = Old

\* What OpenOCD has done of the script by now.
DoneSoFar ==
  server = "script" \/ exit = "ok" =>
    /\ op = "flash" /\ step > 3 => flash \in Images \/ "verify" \in text
    /\ op = "flash" /\ step > 4 => core = "running"
    /\ op = "erase" /\ step > 3 => flash = Erased \/ "unerased" \in text
    /\ op = "erase" /\ step > 4 => core = "halted"
    /\ op = "reset" /\ step > 1 => core = "running"
    /\ op = "halt" /\ step > 1 => core = "halted"
ScriptDone == exit = "ok" => step > IF op \in Destructive THEN 4 ELSE 1

Safe == TypeOK /\ RunsOK
WorkOK == FlashOK /\ DoneSoFar /\ ScriptDone

LEMMA SafeFacts ==
  ASSUME Safe
  PROVE  /\ op \in Operations /\ step \in 1..5 /\ step \in Nat
         /\ elf \in Images /\ loading \in Images /\ core \in {"running", "halted"}
         /\ Old \notin Images /\ Old # Erased /\ Old # Partial
<1>1. op \in Operations /\ step \in 1..5
  BY DEF Safe, TypeOK, RunnerOK, ServerOK
<1>2. step \in Nat
  BY <1>1
<1>3. elf \in Images /\ loading \in Images /\ core \in {"running", "halted"}
  BY DEF Safe, TypeOK, TargetOK
<1>4. Old \notin Images /\ Old # Erased /\ Old # Partial
  BY ProgrammerAssumption DEF Images
<1> QED
  BY <1>1, <1>2, <1>3, <1>4

LEMMA RunnerWorks ==
  ASSUME Safe, WorkOK, Runner \/ WaitFails \/ Expire \/ Cancel \/ Rebuild
  PROVE  WorkOK'
<1>0. op' = op /\ flash' = flash /\ core' = core
  BY RunnerKeeps
<1>1. CASE Spawn
  BY <1>0, <1>1 DEF Spawn, WorkOK, FlashOK, DoneSoFar, ScriptDone, Safe, TypeOK, RunnerOK
<1>2. ASSUME UNCHANGED <<step, exit, text>>, server' = server \/ server' = "dead"
      PROVE  DoneSoFar' /\ ScriptDone'
  BY <1>0, <1>2 DEF WorkOK, DoneSoFar, ScriptDone
<1>3. pc' \in {"start", "attempt"} => pc \in {"start", "attempt"} \/ Retry
  BY DEF Runner, WaitFails, Expire, Cancel, Rebuild, Refuse, Accept, NoPorts, CancelledBefore,
     SpawnFails, Spawn, SeeCancelled, SeeDeadline, SeeExit, KilledJoined, Retry, GiveUpPorts, OutputFails,
     Report,
     GiveUp, Ends, runVars
<1>4. Retry => flash = Old
  BY DEF Retry, BindFailure, WorkOK, FlashOK
<1>5. ~Spawn => UNCHANGED <<step, exit, text>> /\ (server' = server \/ server' = "dead")
  BY RunnerKeeps DEF serverVars, Killed
<1>6. ~Spawn => FlashOK'
  BY <1>0, <1>3, <1>4, <1>5 DEF WorkOK, FlashOK
<1> QED
  BY <1>1, <1>2, <1>5, <1>6 DEF WorkOK

LEMMA ServerWorks ==
  ASSUME Safe, WorkOK, Server
  PROVE  WorkOK'
<1>0. /\ op \in Operations /\ step \in 1..5
      /\ elf \in Images /\ Old \notin Images
  BY SafeFacts
<1>1. UNCHANGED <<op, pc, elf>>
  BY ServerKeeps
<1>2. server \in {"init", "script"} => pc = "waiting" /\ exit = "none" /\ "bind" \notin text
  BY DEF Safe, RunsOK
<1> USE DEF WorkOK, FlashOK, DoneSoFar, ScriptDone
<1>3. CASE InitDone
  BY <1>0, <1>1, <1>2, <1>3 DEF InitDone, targetVars
<1>4. CASE InitFails \/ CompareFails \/ CommandFails
  <2>1. /\ UNCHANGED <<flash, core, step>> /\ server' = "exited" /\ exit' = "bad"
        /\ server = "init" \/ (server = "script" /\ "bind" \notin text')
    BY <1>2, <1>4 DEF InitFails, CompareFails, CommandFails, Exits, Is, InScript, targetVars
  <2> QED
    BY <1>1, <2>1
<1>5. CASE ShutsDown
  <2>1. server = "script" /\ UNCHANGED <<flash, core, step, text>> /\ server' = "exited" /\ exit' = "ok"
    BY <1>5 DEF ShutsDown, Exits, targetVars
  <2>2. step > IF op \in Destructive THEN 4 ELSE 1
    <3>1. ~InScript /\ Len(Script[op]) = IF op \in Destructive THEN 4 ELSE 1
      BY <1>0, <1>5, ScriptOf DEF ShutsDown
    <3>2. ~(step <= IF op \in Destructive THEN 4 ELSE 1)
      BY <2>1, <3>1 DEF InScript
    <3> QED
      BY <1>0, <3>2
  <2> QED
    BY <1>1, <2>1, <2>2
<1>6. CASE Forks \/ StragglerExits
  <2>1. UNCHANGED <<server, step, exit, text, flash, core>>
    BY <1>6 DEF Forks, StragglerExits, serverVars, targetVars
  <2> QED
    BY <1>1, <2>1
<1>7. CASE WorkBegins \/ WorkEnds
  <2>1. server = "script" /\ op \in Destructive /\ step = 2
    BY <1>0, <1>7, ScriptOf DEF WorkBegins, WorkEnds, Is, InScript, Destructive
  <2>2. UNCHANGED <<server, exit, text, core>> /\ step' \in {2, 3}
    BY <1>7, <2>1 DEF WorkBegins, WorkEnds, NextCommand
  <2> QED
    BY <1>1, <1>2, <2>1, <2>2
<1>8. CASE HaltOrRun
  <2>1. /\ server = "script" /\ step' = step + 1 /\ UNCHANGED <<server, exit, text, flash>>
        /\ core' = IF Is("halt") THEN "halted" ELSE "running"
    BY <1>8 DEF HaltOrRun, NextCommand, Is, InScript
  <2>2. /\ Is("run") => (op = "flash" /\ step = 4) \/ (op = "reset" /\ step = 1)
        /\ Is("halt") => (op = "erase" /\ step \in {1, 4}) \/ (op \in {"flash", "halt"} /\ step = 1)
    BY <1>0, ScriptOf
  <2>3. Is("halt") \/ Is("run")
    BY <1>8 DEF HaltOrRun
  <2>4. CASE Is("halt")
    <3>1. core' = "halted"
      BY <2>1, <2>4
    <3>2. CASE op = "erase" /\ step = 1
      BY <1>1, <1>2, <2>1, <3>1, <3>2
    <3>3. CASE op = "erase" /\ step = 4
      BY <1>1, <1>2, <2>1, <3>1, <3>3
    <3>4. CASE op \in {"flash", "halt"} /\ step = 1
      BY <1>1, <1>2, <2>1, <3>1, <3>4
    <3> QED
      BY <2>2, <2>4, <3>2, <3>3, <3>4
  <2>5. CASE ~Is("halt")
    <3>1. core' = "running"
      BY <2>1, <2>5
    <3>2. CASE op = "flash" /\ step = 4
      BY <1>1, <1>2, <2>1, <3>1, <3>2
    <3>3. CASE op = "reset" /\ step = 1
      BY <1>1, <1>2, <2>1, <3>1, <3>3
    <3> QED
      BY <2>2, <2>3, <2>5, <3>2, <3>3
  <2> QED
    BY <2>4, <2>5
<1>9. CASE Compare
  <2>1. server = "script" /\ op = "flash" /\ step = 3
    BY <1>0, <1>9, ScriptOf DEF Compare, Is, InScript
  <2>2. /\ UNCHANGED <<server, exit, core, flash>> /\ step' = 4
        /\ text' = IF flash = elf THEN text ELSE text \cup {"verify"}
    BY <1>9, <2>1 DEF Compare, NextCommand, targetVars
  <2> QED
    BY <1>0, <1>1, <1>2, <2>1, <2>2
<1>10. CASE CheckErased
  <2>1. server = "script" /\ op = "erase" /\ step = 3
    BY <1>0, <1>10, ScriptOf DEF CheckErased, Is, InScript
  <2>2. /\ UNCHANGED <<server, exit, core, flash>> /\ step' = 4
        /\ text' = IF flash = Erased THEN text ELSE text \cup {"unerased"}
    BY <1>10, <2>1 DEF CheckErased, NextCommand, targetVars
  <2> QED
    BY <1>0, <1>1, <1>2, <2>1, <2>2
<1> QED
  BY <1>3, <1>4, <1>5, <1>6, <1>7, <1>8, <1>9, <1>10 DEF Server

LEMMA WorksOK == Spec => [](Safe /\ WorkOK)
<1>1. Init => WorkOK
  BY DEF Init, WorkOK, FlashOK, DoneSoFar, ScriptDone, Operations, Destructive
<1>2. Safe /\ WorkOK /\ UNCHANGED vars => WorkOK'
  BY DEF vars, runVars, serverVars, targetVars, WorkOK, FlashOK, DoneSoFar, ScriptDone
<1>3. Safe /\ WorkOK /\ [Next]_vars => WorkOK'
  BY <1>2, RunnerWorks, ServerWorks DEF Next
<1> QED
  BY <1>1, <1>3, RunsAreOK, PTL DEF Spec, Safe

\* An operation is tried again only while the flash holds what it held before
\* (RetriesOnlyUntouched).
THEOREM RetriesSafely == Spec => RetriesOnlyUntouched
<1>1. Safe /\ WorkOK /\ [Next]_vars => [attempt' # attempt => flash = Old]_vars
  <2> SUFFICES ASSUME Safe, WorkOK, Next, attempt' # attempt PROVE flash = Old
    OBVIOUS
  <2>1. Retry
    BY ServerKeeps DEF Next, Runner, WaitFails, Expire, Cancel, Rebuild, Refuse, Accept, NoPorts,
       CancelledBefore, SpawnFails, Spawn, SeeCancelled, SeeDeadline, SeeExit, KilledJoined,
       GiveUpPorts, OutputFails, Report, GiveUp, Ends, runVars
  <2> QED
    BY <2>1 DEF Retry, BindFailure, WorkOK, FlashOK
<1> QED
  BY <1>1, WorksOK, PTL DEF Spec, RetriesOnlyUntouched

(* The contract *)

LEMMA ContractInit == Init => Contract!Init
BY DEF Init, Contract!Init, Contract!Operations, Contract!Cores, Operations, Outcome

\* Before an operation ends, only OpenOCD changes the target.
LEMMA ServerRefines ==
  ASSUME Safe, WorkOK, Server
  PROVE  Contract!Next \/ UNCHANGED Contract!vars
<1>0. /\ op \in Operations /\ step \in 1..5 /\ elf \in Images /\ loading \in Images
      /\ core \in {"running", "halted"} /\ Old \notin Images
      /\ Old # Erased /\ Old # Partial
  BY SafeFacts
<1>1. UNCHANGED <<op, pc, report>>
  BY ServerKeeps
<1>2. Outcome' = Outcome
  BY <1>1 DEF Outcome
<1>3. UNCHANGED <<flash, core>> => UNCHANGED Contract!vars
  BY <1>1, <1>2 DEF Contract!vars
<1>4. server \in {"init", "script"} => Outcome = "pending"
  BY DEF Safe, RunsOK, Outcome
<1>5. CASE WorkBegins \/ WorkEnds
  <2>1. server = "script" /\ op \in Destructive
    BY <1>0, <1>5, ScriptOf DEF WorkBegins, WorkEnds, Is, InScript, Destructive
  <2>2. flash' # Old /\ core' = core
    BY <1>0, <1>5 DEF WorkBegins, WorkEnds
  <2>3. Contract!Change
    BY <1>1, <1>2, <1>4, <2>1, <2>2 DEF Contract!Change, Contract!Destructive, Destructive
  <2> QED
    BY <2>3 DEF Contract!Next
<1>6. CASE HaltOrRun
  <2>1. server = "script" /\ core' \in {"running", "halted"} /\ flash' = flash
    BY <1>6 DEF HaltOrRun, Is, InScript
  <2>2. Contract!Change
    BY <1>1, <1>2, <1>4, <2>1 DEF Contract!Change, Contract!Cores
  <2> QED
    BY <2>2 DEF Contract!Next
<1>7. CASE InitDone \/ InitFails \/ Compare \/ CompareFails \/ CheckErased \/ CommandFails
           \/ ShutsDown \/ Forks \/ StragglerExits
  BY <1>3, <1>7 DEF InitDone, InitFails, Compare, CompareFails, CheckErased,
     CommandFails, ShutsDown, Forks, StragglerExits, Exits, targetVars
<1> QED
  BY <1>5, <1>6, <1>7 DEF Server

\* A run that classifies as a success did what the operation says.
LEMMA SuccessIsTrue ==
  ASSUME Safe, WorkOK, Classify = "ok"
  PROVE  flash \in Contract!Wanted[op] /\ core = Contract!LeftAs[op]
<1>0. op \in Operations
  BY DEF Safe, TypeOK, RunnerOK
<1>1. /\ exit = "ok" /\ (op = "flash" => "verify" \notin text)
      /\ (op = "erase" => "unerased" \notin text)
  BY <1>0, CodesOfRuns
<1>2. step > IF op \in Destructive THEN 4 ELSE 1
  BY <1>1 DEF WorkOK, ScriptDone
<1>3. step \in Nat
  BY SafeFacts
<1> USE DEF Contract!Wanted, Contract!LeftAs, Contract!Operations, WorkOK, DoneSoFar, FlashOK,
        Destructive
<1>4. CASE op = "flash"
  BY <1>1, <1>2, <1>3, <1>4
<1>5. CASE op = "erase"
  BY <1>1, <1>2, <1>3, <1>5
<1>6. CASE op = "reset"
  BY <1>1, <1>2, <1>3, <1>6
<1>7. CASE op = "halt"
  BY <1>1, <1>2, <1>3, <1>7
<1> QED
  BY <1>0, <1>4, <1>5, <1>6, <1>7 DEF Operations

LEMMA RunnerRefines ==
  ASSUME Safe, WorkOK, Runner \/ WaitFails \/ Expire \/ Cancel \/ Rebuild
  PROVE  Contract!Next \/ UNCHANGED Contract!vars
<1>0. op' = op /\ flash' = flash /\ core' = core
  BY RunnerKeeps
<1>1. CASE pc' # "ended" /\ pc # "ended"
  BY <1>0, <1>1 DEF Contract!vars, Outcome
<1>2. CASE pc = "ended"
  <2>1. pc' = pc /\ report' = report
    BY <1>2 DEF Runner, WaitFails, Expire, Cancel, Rebuild, Refuse, Accept, NoPorts, CancelledBefore,
       SpawnFails, Spawn, SeeCancelled, SeeDeadline, SeeExit, KilledJoined, Retry, GiveUpPorts, OutputFails,
       Report, GiveUp
  <2> QED
    BY <1>0, <2>1 DEF Contract!vars, Outcome
<1>3. CASE pc # "ended" /\ pc' = "ended"
  <2>1. Outcome = "pending"
    BY <1>3 DEF Outcome
  <2>2. report' \in Untouched => flash = Old
    <3>1. CASE KilledJoined
      BY <3>1 DEF KilledJoined, Safe, RunsOK
    <3>2. CASE Report
      BY <3>2, CodesOfRuns DEF Report, Ends, Safe, TypeOK, RunnerOK
    <3>3. CASE GiveUpPorts
      BY <3>3 DEF GiveUpPorts, BindFailure, WorkOK, FlashOK
    <3>4. CASE pc \in {"start", "attempt"}
      BY <3>4 DEF WorkOK, FlashOK
    <3> QED
      BY <1>3, <3>1, <3>2, <3>3, <3>4 DEF Runner, WaitFails, Expire, Cancel, Rebuild, Refuse, Accept,
         NoPorts, CancelledBefore, SpawnFails, Spawn, SeeCancelled, SeeDeadline, SeeExit, Retry,
         OutputFails, GiveUp, Ends, Untouched, runVars
  <2>3. report' = "ok" => Classify = "ok"
    <3>1. CASE KilledJoined
      BY <3>1 DEF KilledJoined, Safe, RunsOK
    <3>2. CASE Report
      BY <3>2 DEF Report, Ends
    <3>3. CASE Refuse
      <4>1. \A i \in 1..4 : CheckCode(CheckOrder[i]) # "ok"
        BY CodesOfChecks DEF CheckCode, CheckOrder
      <4> QED
        BY <3>3, <4>1 DEF Refuse, Ends
    <3> QED
      BY <1>3, <3>1, <3>2, <3>3 DEF Runner, WaitFails, Expire, Cancel, Rebuild, Accept,
         NoPorts, CancelledBefore, SpawnFails, Spawn, SeeCancelled, SeeDeadline, SeeExit, Retry,
         GiveUpPorts, OutputFails, GiveUp, Ends, runVars
  <2>4. CASE report' = "ok"
    <3>1. Outcome' = "done"
      BY <1>3, <2>4 DEF Outcome
    <3> QED
      BY <1>0, <2>1, <2>3, <2>4, <3>1, SuccessIsTrue DEF Contract!Next, Contract!Succeed, Contract!Answer
  <2>5. CASE report' # "ok" /\ report' \in Untouched
    <3>1. Outcome' = "untouched"
      BY <1>3, <2>5 DEF Outcome
    <3> QED
      BY <1>0, <2>1, <2>2, <2>5, <3>1 DEF Contract!Next, Contract!LeftAlone, Contract!Answer
  <2>6. CASE report' # "ok" /\ report' \notin Untouched
    <3>1. Outcome' = "unknown"
      BY <1>3, <2>6 DEF Outcome
    <3> QED
      BY <1>0, <2>1, <3>1 DEF Contract!Next, Contract!Unknown, Contract!Answer
  <2> QED
    BY <2>4, <2>5, <2>6
<1> QED
  BY <1>1, <1>2, <1>3

\* The programmer implements its contract (KeepsContract): a success is true of the
\* flash and the core, a refusal left the flash alone, and an answer is final.
THEOREM ContractKept == Spec => KeepsContract
<1>1. Safe /\ WorkOK /\ UNCHANGED vars => UNCHANGED Contract!vars
  BY DEF vars, runVars, targetVars, Contract!vars, Outcome
<1>2. Safe /\ WorkOK /\ [Next]_vars => [Contract!Next]_(Contract!vars)
  BY <1>1, RunnerRefines, ServerRefines DEF Next
<1> QED
  BY <1>2, ContractInit, WorksOK, PTL DEF Spec, KeepsContract, Contract!Spec
-----------------------------------------------------------------------------
(* How far an operation is from its end *)

\* What an attempt has still to do, by where it is and whether its deadline has passed.
Place(at, late) ==
  CASE at = "start" -> 5 [] at = "attempt" -> 4 [] at = "waiting" /\ ~late -> 3
    [] at = "waiting" /\ late -> 2 [] OTHER -> 1
Left == IF pc = "ended" THEN 0 ELSE 5 * (Attempts - attempt) + Place(pc, expired)

LEMMA PlaceIs ==
  ASSUME NEW at, NEW late
  PROVE  /\ Place(at, late) \in 1..5
         /\ at = "start" => Place(at, late) = 5
         /\ at = "attempt" => Place(at, late) = 4
         /\ at = "waiting" /\ ~late => Place(at, late) = 3
         /\ at = "waiting" /\ late => Place(at, late) = 2
         /\ at \in {"killing", "joining"} => Place(at, late) = 1
BY DEF Place

LEMMA LeftIs == TypeOK => Left \in 0..5 * Attempts /\ (Left = 0 <=> pc = "ended")
<1> SUFFICES ASSUME TypeOK PROVE Left \in 0..5 * Attempts /\ (Left = 0 <=> pc = "ended")
  OBVIOUS
<1>1. PICK p : p = Place(pc, expired)
  OBVIOUS
<1>2. p \in 1..5 /\ attempt \in 1..Attempts /\ Attempts \in Nat
  BY <1>1, PlaceIs, ProgrammerAssumption DEF TypeOK, RunnerOK
<1>3. 5 * (Attempts - attempt) + p \in 1..5 * Attempts
  BY <1>2
<1>4. /\ 0 \in 0..5 * Attempts
      /\ pc # "ended" => Left = 5 * (Attempts - attempt) + p
      /\ pc = "ended" => Left = 0
  BY <1>1, <1>2 DEF Left
<1> QED
  BY <1>2, <1>3, <1>4

\* What a step of the runner does: it ends, gets further with this attempt, or
\* starts the next one after this one has been joined.
LEMMA RunnerGoesOn ==
  ASSUME TypeOK, Runner \/ WaitFails \/ Expire
  PROVE  /\ pc # "ended"
         /\ \/ pc' = "ended"
            \/ attempt' = attempt /\ pc = "start" /\ pc' = "attempt"
            \/ attempt' = attempt /\ pc = "attempt" /\ pc' = "waiting" /\ ~expired'
            \/ attempt' = attempt /\ pc = "waiting" /\ pc' = "waiting" /\ ~expired /\ expired'
            \/ attempt' = attempt /\ pc = "waiting" /\ pc' \in {"killing", "joining"}
            \/ attempt' = attempt + 1 /\ pc = "joining" /\ pc' = "attempt"
<1> USE DEF Ends
<1>1. CASE Refuse \/ Accept \/ NoPorts \/ CancelledBefore \/ SpawnFails \/ Spawn
  BY <1>1 DEF Refuse, Accept, NoPorts, CancelledBefore, SpawnFails, Spawn
<1>2. CASE SeeCancelled \/ SeeDeadline \/ WaitFails \/ SeeExit \/ KilledJoined
  BY <1>2 DEF SeeCancelled, SeeDeadline, WaitFails, GiveUp, SeeExit, KilledJoined
<1>3. CASE Retry \/ GiveUpPorts \/ OutputFails \/ Report
  BY <1>3 DEF Retry, GiveUpPorts, OutputFails, Report
<1>4. CASE Expire
  BY <1>4 DEF Expire, runVars
<1> QED
  BY <1>1, <1>2, <1>3, <1>4 DEF Runner

LEMMA LeftShrinks == TypeOK /\ TypeOK' /\ (Runner \/ WaitFails \/ Expire) => Left' < Left
<1> SUFFICES ASSUME TypeOK, TypeOK', Runner \/ WaitFails \/ Expire PROVE Left' < Left
  OBVIOUS
<1>1. PICK p, q : p = Place(pc, expired) /\ q = Place(pc', expired')
  OBVIOUS
<1>2. /\ p \in 1..5 /\ q \in 1..5 /\ Attempts \in Nat
      /\ attempt \in 1..Attempts /\ attempt' \in 1..Attempts
  BY <1>1, PlaceIs, ProgrammerAssumption DEF TypeOK, RunnerOK
<1>3. \/ pc' = "ended"
      \/ attempt' = attempt /\ q < p
      \/ attempt' = attempt + 1 /\ p = 1 /\ q = 4
  BY <1>1, PlaceIs, RunnerGoesOn DEF TypeOK, FlagsOK
<1>4. pc # "ended"
  BY RunnerGoesOn
<1>5. Left = 5 * (Attempts - attempt) + p
  BY <1>1, <1>4 DEF Left
<1>6. CASE pc' = "ended"
  <2>1. Left' = 0
    BY <1>6 DEF Left
  <2> QED
    BY <1>2, <1>5, <2>1
<1>7. CASE pc' # "ended"
  <2>1. Left' = 5 * (Attempts - attempt') + q
    BY <1>1, <1>7 DEF Left
  <2>2. PICK b : b = attempt'
    OBVIOUS
  <2>3. 5 * (Attempts - b) + q < 5 * (Attempts - attempt) + p
    <3>1. CASE b = attempt /\ q < p
      BY <1>2, <3>1
    <3>2. CASE b = attempt + 1 /\ p = 1 /\ q = 4
      BY <1>2, <3>2
    <3> QED
      BY <1>3, <1>7, <2>2, <3>1, <3>2
  <2> QED
    BY <1>5, <2>1, <2>2, <2>3
<1> QED
  BY <1>6, <1>7

LEMMA LeftStep == [Next]_vars => Runner \/ WaitFails \/ Expire \/ Left' = Left
<1>1. Server => Left' = Left
  BY ServerKeeps DEF Left, Place
<1>2. Cancel \/ Rebuild => Left' = Left
  BY DEF Cancel, Rebuild, Left, Place, runVars
<1>3. UNCHANGED vars => Left' = Left
  BY DEF vars, runVars, Left, Place
<1> QED
  BY <1>1, <1>2, <1>3 DEF Next

AttemptsAreBounded ==
  /\ [](Left \in 0..5 * Attempts /\ (Left = 0 <=> pc = "ended"))
  /\ [][((Runner \/ WaitFails \/ Expire) /\ Left' < Left) \/ Left' = Left]_vars

\* EveryOperationEnds, the half that is no matter of fairness: whatever OpenOCD does
\* and however the user and the build interfere, the loop of execute takes at most
\* five steps for each attempt before the operation is over.
THEOREM EveryOperationIsBounded == Spec => AttemptsAreBounded
<1>1. TypeOK => Left \in 0..5 * Attempts /\ (Left = 0 <=> pc = "ended")
  BY LeftIs
<1>2. TypeOK /\ TypeOK' /\ [Next]_vars =>
        [((Runner \/ WaitFails \/ Expire) /\ Left' < Left) \/ Left' = Left]_vars
  BY LeftStep, LeftShrinks
<1> QED
  BY <1>1, <1>2, TypeCorrect, PTL DEF Spec, AttemptsAreBounded
=============================================================================
