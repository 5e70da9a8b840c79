-------------------------------- MODULE Tui --------------------------------
(***************************************************************************)
(* `samdebug debug`: the loop that draws and reads keys, the terminal it   *)
(* takes over, the thread that passes Ctrl-C on to the session, and the    *)
(* session below as OwnedSession and SessionEngine leave it to a caller:   *)
(* what its calls may do, and the events they queue.                       *)
(*                                                                         *)
(* A stop of the core is a number: what a pane shows of an earlier stop is *)
(* stale.                                                                  *)
(***************************************************************************)
EXTENDS Naturals, FiniteSets, SequencesExt

CONSTANTS MaxStops, MaxPoints   \* bounds: stops of the core, breakpoints

ASSUME TuiAssumption == MaxStops \in Nat \ {0} /\ MaxPoints \in Nat

VARIABLES
  pc, result,              \* run and run_loop
  raw, screen, mouse,      \* what is switched on in the terminal
  guard,                   \* TerminalCleanup exists
  watcher,                 \* CancellationWatcher: its thread, and its stop flag
  interrupted, controller, \* the process's token, and the session's
  session, stop, queue,    \* the session: state, the core's last stop, events
  points, inserted,        \* breakpoints in the list, and in GDB
  shown,                   \* App.state
  stack, locals,           \* the stop that stack and source show, and that locals and registers do
  tried,                   \* history: the stop that was asked about last
  input, typed, call,      \* InputMode, its text, and the session call under way
  quit                     \* should_quit

terminalVars == <<raw, screen, mouse, guard>>
tokenVars == <<watcher, interrupted, controller>>
sessionVars == <<session, stop, queue, inserted>>
paneVars == <<stack, locals, tried>>
inputVars == <<input, typed, call, quit>>
vars == <<pc, result, terminalVars, tokenVars, sessionVars, points, shown, paneVars, inputVars>>

Calls == {"continue", "halt", "step", "reset", "load", "insert", "remove"}
Points == 1..MaxPoints

\* OwnedDebugSession::launch has returned: its events are to be taken.
Init ==
  /\ pc = "watch" /\ result = "none"
  /\ raw = FALSE /\ screen = FALSE /\ mouse = FALSE /\ guard = FALSE
  /\ watcher = "none" /\ interrupted = FALSE /\ controller = FALSE
  /\ session = "halted" /\ stop = 1 /\ queue = <<"halted", "stopped">> /\ inserted = {}
  /\ points = <<>> /\ shown = "halted"
  /\ stack = 0 /\ locals = 0 /\ tried = 0
  /\ input = "normal" /\ typed = "blank" /\ call = "none" /\ quit = FALSE
-----------------------------------------------------------------------------
(* run: taking the terminal over and giving it back *)

Goto(p) == pc' = p /\ UNCHANGED result
Leave(r) == pc' = "stop" /\ result' = r
Fails == pc' = "restore" /\ result' = "TERMINAL_ERROR"
NotTheApp == UNCHANGED <<points, shown, paneVars, inputVars>>

WatcherStarts ==
  /\ pc = "watch" /\ watcher' = "running" /\ Goto("raw")
  /\ UNCHANGED <<interrupted, controller, terminalVars, sessionVars>> /\ NotTheApp

RawMode ==
  /\ pc = "raw"
  /\ \/ raw' = TRUE /\ Goto("setup")
     \/ UNCHANGED raw /\ Fails
  /\ UNCHANGED <<screen, mouse, guard, tokenVars, sessionVars>> /\ NotTheApp

\* Faulty variant first: the guard is created once the setup has succeeded.
GuardAfter(ok) == guard' = ok
GuardBefore(ok) == guard' = TRUE

\* complete_terminal_setup: alternate screen, then mouse; either may fail.
Setup ==
  /\ pc = "setup"
  /\ screen' \in BOOLEAN /\ mouse' \in BOOLEAN /\ (mouse' => screen')
  /\ \E ok \in BOOLEAN :
       /\ ok => mouse'
       /\ IF ok THEN Goto("clear") ELSE Fails
       /\ GuardBefore(ok)
  /\ UNCHANGED <<raw, tokenVars, sessionVars>> /\ NotTheApp

ClearScreen ==
  /\ pc = "clear" /\ (Goto("first") \/ Fails)
  /\ UNCHANGED <<terminalVars, tokenVars, sessionVars>> /\ NotTheApp

\* OwnedDebugSession::stop, whatever the loop returned; then the guard is dropped
\* and the watcher is joined.
StopSession ==
  /\ pc = "stop" /\ Goto("restore")
  /\ session' = "idle" /\ controller' = TRUE
  /\ UNCHANGED <<stop, queue, inserted, terminalVars, watcher, interrupted>> /\ NotTheApp

Restore ==
  /\ pc = "restore" /\ Goto("join")
  /\ IF guard THEN raw' = FALSE /\ screen' = FALSE /\ mouse' = FALSE
     ELSE UNCHANGED <<raw, screen, mouse>>
  /\ guard' = FALSE
  /\ watcher' = IF watcher = "running" THEN "stopping" ELSE watcher
  /\ UNCHANGED <<interrupted, controller, sessionVars>> /\ NotTheApp

\* The session, which run owns, is dropped last.
Joined ==
  /\ pc = "join" /\ watcher = "done" /\ Goto("ended")
  /\ session' = "idle"
  /\ UNCHANGED <<stop, queue, inserted, terminalVars, tokenVars>> /\ NotTheApp

\* The watcher's thread looks at its stop flag, then at the token.
\* Faulty variant first: the session is not told.
KeepsToItself == UNCHANGED controller
CancelsSession == controller' = TRUE
WatcherSees ==
  /\ watcher = "running" /\ interrupted
  /\ watcher' = "done" /\ CancelsSession
  /\ UNCHANGED <<pc, result, interrupted, terminalVars, sessionVars>> /\ NotTheApp
WatcherStops ==
  /\ watcher = "stopping" /\ watcher' = "done"
  /\ UNCHANGED <<pc, result, interrupted, controller, terminalVars, sessionVars>> /\ NotTheApp

Interrupt ==
  /\ ~interrupted /\ pc # "ended" /\ interrupted' = TRUE
  /\ UNCHANGED <<pc, result, watcher, controller, terminalVars, sessionVars>> /\ NotTheApp
-----------------------------------------------------------------------------
(* The session *)

\* After a call the session has this state, and queued these events; the core
\* stopped anew if so said.
Becomes(s, anew, events) ==
  /\ session' = s
  /\ stop' = IF anew THEN stop + 1 ELSE stop
  /\ queue' = queue \o events
MayStop == stop < MaxStops
Stays == UNCHANGED <<session, stop, queue>>

\* A failure of any kind, or a cancellation, is cleaned up before the call returns.
SessionEnds == session # "idle" /\ Becomes("idle", FALSE, <<"idle">>)
\* A poll finds the stop of a running core.
PollFindsStop == session = "running" /\ MayStop /\ Becomes("halted", TRUE, <<"halted", "stopped">>)

ContinueCall ==
  /\ session = "halted"
  /\ \/ Becomes("running", FALSE, <<"running">>)
     \/ MayStop /\ Becomes("halted", TRUE, <<"running", "halted", "stopped">>)
HaltCall == session = "running" /\ MayStop /\ Becomes("halted", TRUE, <<"halted", "stopped">>)
StepCall ==
  /\ session = "halted"
  /\ \/ MayStop /\ Becomes("halted", TRUE, <<"running", "halted", "stopped">>)
     \/ Becomes("running", FALSE, <<"running">>)
\* The frame that confirms a reset may be refused: no stopped event then.
ResetCall ==
  /\ session \in {"halted", "running"} /\ MayStop
  /\ \E last \in {<<"stopped">>, <<>>} :
       Becomes("halted", TRUE, (IF session = "running" THEN <<"halted">> ELSE <<>>) \o last)
\* Loaded follows a load that was verified; one that failed half-way has moved
\* the core as well.
LoadCall ==
  /\ session = "halted" /\ MayStop
  /\ \E events \in {<<"loaded">>, <<>>} : Becomes("halted", TRUE, events)

\* synchronize_transport and synchronize_supervisor.
Synchronize ==
  \/ Stays /\ (controller => session = "idle")
  \/ SessionEnds
  \/ PollFindsStop /\ ~controller
-----------------------------------------------------------------------------
(* App *)

NotTheTerminal == UNCHANGED <<terminalVars, tokenVars>>

\* take_events, before the loop and at the end of an iteration.
TakeEvents ==
  /\ pc \in {"first", "take"} /\ Synchronize
  /\ Goto(IF pc = "first" THEN "firstEvents" ELSE "events")
  /\ UNCHANGED inserted /\ NotTheApp /\ NotTheTerminal

\* process_events.  A State event and one of its own tell that the core runs.
Telling(events) == {i \in DOMAIN events : events[i] # "loaded"}
ShownAfter(before, events) ==
  LET last == events[Max(Telling(events))]
  IN IF Telling(events) = {} THEN before ELSE IF last = "stopped" THEN "halted" ELSE last
\* Faulty variant first: only the first event is looked at.
StartsStopped(events) == events # <<>> /\ Head(events) = "stopped"
SaysStopped(events) == Contains(events, "stopped")

ProcessEvents ==
  /\ pc \in {"firstEvents", "events"}
  /\ queue' = <<>> /\ shown' = ShownAfter(shown, queue)
  /\ Goto(CASE pc = "firstEvents" -> "firstRefresh"
            [] pc = "events" /\ SaysStopped(queue) -> "stopRefresh"
            [] OTHER -> "check")
  /\ UNCHANGED <<session, stop, inserted, points, paneVars, inputVars>> /\ NotTheTerminal

\* refresh: the stack stays as it is when it cannot be read, the rest is emptied.
\* The session may end at any of the queries.
Refresh ==
  /\ pc \in {"firstRefresh", "stopRefresh", "keyRefresh"}
  /\ IF session # "halted" THEN UNCHANGED <<sessionVars, paneVars>>
     ELSE /\ Stays \/ SessionEnds
          /\ tried' = stop /\ stack' \in {stack, stop} /\ locals' \in {0, stop}
          /\ UNCHANGED inserted
  /\ Goto(CASE pc = "firstRefresh" -> "loop" [] pc = "stopRefresh" -> "check" [] OTHER -> "take")
  /\ UNCHANGED <<points, shown, inputVars>> /\ NotTheTerminal

\* A session that has ended ends the loop.
Check ==
  /\ pc = "check" /\ Goto("loop")
  /\ quit' = (quit \/ session = "idle")
  /\ UNCHANGED <<sessionVars, points, shown, paneVars, input, typed, call>> /\ NotTheTerminal

\* Faulty variant first: nothing is returned.
LoopEndsSilently ==
  /\ pc = "loop" /\ quit /\ Goto("stop")
  /\ UNCHANGED sessionVars /\ NotTheApp /\ NotTheTerminal
LoopEnds ==
  /\ pc = "loop" /\ quit /\ Leave("ok")
  /\ UNCHANGED sessionVars /\ NotTheApp /\ NotTheTerminal

\* Ctrl-C, by the token or as a key: the session is cancelled before the loop is
\* left.
Cancelling ==
  /\ Leave("INTERRUPTED") /\ controller' = TRUE
  /\ session' = "idle" /\ queue' = <<>> /\ shown' = "idle"
  /\ UNCHANGED <<stop, inserted, terminalVars, watcher, interrupted, points, paneVars, inputVars>>
TokenSeen == pc = "loop" /\ ~quit /\ interrupted /\ Cancelling
CtrlC == pc = "input" /\ Cancelling

\* draw, event::poll or event::read fails.
TerminalFails ==
  /\ pc \in {"loop", "input"} /\ ~quit /\ Leave("TERMINAL_ERROR")
  /\ UNCHANGED sessionVars /\ NotTheApp /\ NotTheTerminal

Draw ==
  /\ pc = "loop" /\ ~quit /\ ~interrupted /\ Goto("input")
  /\ UNCHANGED sessionVars /\ NotTheApp /\ NotTheTerminal

\* No key within 50 ms, or one that means nothing here.
NoKey ==
  /\ pc = "input" /\ Goto("take")
  /\ UNCHANGED sessionVars /\ NotTheApp /\ NotTheTerminal

Typing(mode, text) == input' = mode /\ typed' = text
Key ==
  /\ pc = "input" /\ UNCHANGED <<sessionVars, shown, paneVars>> /\ NotTheTerminal
AsksFor(c) == call' = c /\ Goto("call")
AsksNothing == UNCHANGED call /\ Goto("take")

NormalKey ==
  /\ Key /\ input = "normal" /\ UNCHANGED points
  /\ \/ quit' = TRUE /\ AsksNothing /\ UNCHANGED <<input, typed>>
     \/ UNCHANGED quit /\ AsksNothing
        /\ \E mode \in {"help", "breakpoint", "load"} : Typing(mode, "blank")
     \/ UNCHANGED <<quit, input, typed>> /\ \E c \in {"continue", "halt", "step", "reset"} : AsksFor(c)

\* `d` takes the last breakpoint off the list and then asks GDB to delete it.
DeleteKey ==
  /\ Key /\ input = "normal" /\ points # <<>>
  /\ AsksFor("remove") /\ UNCHANGED <<points, input, typed, quit>>

\* Text is edited; Esc leaves the mode, and any key the help.
EditKey ==
  /\ Key /\ input # "normal" /\ AsksNothing /\ UNCHANGED <<points, quit>>
  /\ \/ Typing("normal", "blank")
     \/ input # "help" /\ \E text \in {"blank", "right", "wrong"} : Typing(input, text)

\* Enter: a location for GDB, or the exact authorization of this probe.
EnterKey ==
  /\ Key /\ input \in {"breakpoint", "load"} /\ Typing("normal", "blank") /\ UNCHANGED <<points, quit>>
  /\ CASE input = "breakpoint" /\ typed # "blank" -> AsksFor("insert")
       [] input = "load" /\ typed = "right" -> AsksFor("load")
       [] OTHER -> AsksNothing

\* The call: a poll first, which may find that the core has stopped; then it is
\* carried out, is refused, or ends the session.
CallPolls ==
  /\ pc = "call" /\ ~controller /\ PollFindsStop
  /\ UNCHANGED <<pc, result, inserted>> /\ NotTheApp /\ NotTheTerminal

Called(c) ==
  CASE c = "continue" -> ContinueCall [] c = "halt" -> HaltCall [] c = "step" -> StepCall
    [] c = "reset" -> ResetCall [] c = "load" -> LoadCall
    [] OTHER -> session = "halted" /\ Stays
NextPoint == Cardinality(inserted) + 1
PointsCarriedOut ==
  CASE call = "insert" ->
         /\ NextPoint \in Points \ inserted
         /\ inserted' = inserted \cup {NextPoint} /\ points' = Append(points, NextPoint)
    [] call = "remove" -> points' = Front(points) /\ inserted' = inserted \ {Last(points)}
    [] OTHER -> UNCHANGED <<inserted, points>>
PointsRefused ==
  /\ UNCHANGED inserted
  /\ points' = IF call = "remove" THEN Front(points) ELSE points

\* continue and the breakpoints leave the panes to the events.
CallReturns ==
  /\ pc = "call"
  /\ \/ ~controller /\ Called(call) /\ PointsCarriedOut
     \/ (controller => session = "idle") /\ Stays /\ PointsRefused
     \/ SessionEnds /\ PointsRefused
  /\ call' = "none"
  /\ Goto(IF call \in {"halt", "step", "reset", "load"} THEN "keyRefresh" ELSE "take")
  /\ UNCHANGED <<shown, paneVars, input, typed, quit>> /\ NotTheTerminal
-----------------------------------------------------------------------------
Loop ==
  \/ TakeEvents \/ ProcessEvents \/ Check \/ LoopEnds \/ TokenSeen \/ CtrlC \/ TerminalFails
  \/ Draw \/ NoKey \/ NormalKey \/ DeleteKey \/ EditKey \/ EnterKey
Run == WatcherStarts \/ RawMode \/ Setup \/ ClearScreen \/ StopSession \/ Restore \/ Joined
SessionCall == CallPolls \/ CallReturns \/ Refresh
Watcher == WatcherSees \/ WatcherStops
Next == Loop \/ Run \/ SessionCall \/ Watcher \/ Interrupt

\* Whatever the session asks of GDB may take long, but not once it is cancelled or
\* has ended; event::poll returns after 50 ms, and the watcher wakes every 10 ms.
SureToReturn == controller \/ session = "idle" \/ (pc # "call" /\ session # "halted")
Spec == Init /\ [][Next]_vars
FairSpec ==
  Spec /\ WF_vars(Loop) /\ WF_vars(Run) /\ WF_vars(SureToReturn /\ SessionCall) /\ WF_vars(Watcher)
-----------------------------------------------------------------------------
PlacesOK ==
  /\ pc \in {"watch", "raw", "setup", "clear", "first", "firstEvents", "firstRefresh", "loop",
             "input", "call", "keyRefresh", "take", "events", "stopRefresh", "check", "stop",
             "restore", "join", "ended"}
  /\ result \in {"none", "ok", "INTERRUPTED", "TERMINAL_ERROR"}
  /\ (result # "none") = (pc \in {"stop", "restore", "join", "ended"})
  /\ (call # "none") = (pc = "call") /\ call \in Calls \cup {"none"}
  /\ watcher \in {"none", "running", "stopping", "done"}
SessionOK ==
  /\ session \in {"halted", "running", "idle"} /\ stop \in 1..MaxStops
  /\ queue \in Seq({"halted", "running", "idle", "stopped", "loaded"})
  /\ inserted \subseteq Points
AppOK ==
  /\ shown \in {"halted", "running", "idle"} /\ points \in Seq(Points)
  /\ {stack, locals, tried} \subseteq 0..stop
  /\ input \in {"normal", "help", "breakpoint", "load"} /\ typed \in {"blank", "right", "wrong"}
FlagsOK == {raw, screen, mouse, guard, interrupted, controller, quit} \subseteq BOOLEAN

\* The loop, the session and the terminal are in states the code can reach.
TypeOK == PlacesOK /\ SessionOK /\ AppOK /\ FlagsOK

\* What is drawn is the session: its state; of a halted core, the panes have been
\* asked for since its last stop, and locals and registers of no earlier stop are
\* shown; the breakpoints of the list are set.  However a stop was learned of: by
\* a key's own call, a poll before it, or an event.
ShowsTheSession ==
  pc = "input" /\ session # "idle" =>
    /\ shown = session
    /\ session = "halted" => tried = stop /\ locals \in {0, stop}
    /\ ToSet(points) \subseteq inserted

\* debugging.md: normal exit, Ctrl-C, errors and unwinding restore raw mode and
\* the alternate screen.  When run returns the terminal is as it was, also if its
\* setup failed half-way; the session has ended and the watcher is joined.
TerminalIsRestored ==
  pc = "ended" => ~raw /\ ~screen /\ ~mouse /\ session = "idle" /\ watcher = "done"

\* A Ctrl-C ends the command, while a call that GDB does not answer is under way,
\* too.
InterruptEnds == interrupted ~> pc = "ended"
=============================================================================
