-------------------------------- MODULE Agent --------------------------------
(***************************************************************************)
(* `samdebug debug --agent --stdio`: a reader thread that hands the lines  *)
(* of a client to the main loop over a bounded channel; the main loop      *)
(* that handles one line at a time and owns at most one debug session; and *)
(* a thread that forwards Ctrl-C to that session while it starts or runs.  *)
(*                                                                         *)
(* The session appears by the events it leaves for the loop to print and   *)
(* by the ways its calls end; OwnedSession has the session itself.  The    *)
(* client reads what is printed: printing fails but does not block.        *)
(* Refusals that do not depend on the session share the code REJECTED.     *)
(***************************************************************************)
EXTENDS Naturals, Sequences

CONSTANTS
  Ids,       \* request ids
  NoId,      \* the id of a line that has none
  Capacity,  \* of the channel
  MaxLines,  \* bound: the lines of the input
  Faults     \* what may go wrong, a subset of AllFaults

AllFaults == {"interrupt", "loss", "error", "stop", "output"}

ASSUME AgentAssumption ==
  /\ NoId \notin Ids
  /\ Capacity \in Nat \ {0} /\ MaxLines \in Nat
  /\ Faults \subseteq AllFaults

VARIABLES
  held,        \* the line the reader has read
  lines,       \* how many lines it has read
  asked,       \* history: the ids of the requests among them, in order
  reading,     \* the reader has not ended
  channel,     \* lines read and not received
  main,        \* where the main loop is
  line,        \* the line it handles
  seen,        \* seen_ids
  slot,        \* session: Option<ActiveSession> is Some
  exit,        \* why the loop is left
  engine,      \* the session last started
  generation,  \* its generation
  queue,       \* its events that the loop has not taken
  doomed,      \* its token is cancelled or its channel is closed
  watch,       \* for what the thread that forwards Ctrl-C runs
  external,    \* Ctrl-C
  broken,      \* the client no longer reads
  out,         \* history: the lines printed
  answered,    \* history: the ids of the responses among them, in order
  executed     \* history: the ids whose operation reached a session, in order

inputVars == <<held, lines, asked, reading, channel>>
sessionVars == <<engine, generation, queue, doomed, watch>>
outputVars == <<out, answered>>
vars == <<inputVars, main, line, seen, slot, exit, sessionVars, external, broken, outputVars, executed>>

\* All target operations are alike; a request of kind "other" is invalid, or of an
\* operation that does not exist.
Operations == {"start", "stop", "target"}
Requests == [id : Ids, kind : {"other"} \cup Operations]
NoLine == [id |-> NoId, kind |-> "none"]
Garbage == [id |-> NoId, kind |-> "garbage"]
Eof == [id |-> NoId, kind |-> "eof"]
Lines == Requests \cup {Garbage, Eof}
-----------------------------------------------------------------------------
\* hello has been printed.
Init ==
  /\ held = NoLine /\ lines = 0 /\ asked = <<>> /\ reading = TRUE /\ channel = <<>>
  /\ main = "top" /\ line = NoLine /\ seen = {} /\ slot = FALSE /\ exit = "none"
  /\ engine = "none" /\ generation = 0 /\ queue = <<>> /\ doomed = FALSE /\ watch = "none"
  /\ external = FALSE /\ broken = FALSE
  /\ out = <<>> /\ answered = <<>> /\ executed = <<>>

NotInput ==
  UNCHANGED <<main, line, seen, slot, exit, sessionVars, external, broken, outputVars, executed>>

\* read_bounded_line: whatever the client has written, or the end of it.
Read(l) ==
  /\ reading /\ held = NoLine
  /\ IF l = Eof THEN UNCHANGED lines ELSE lines < MaxLines /\ lines' = lines + 1
  /\ asked' = IF l.id = NoId THEN asked ELSE Append(asked, l.id)
  /\ held' = l
  /\ UNCHANGED <<reading, channel>> /\ NotInput

\* A send waits for room.  Faulty variants first: a request that finds none is
\* dropped; the end of file is not sent.
SendingOrNot ==
  IF Len(channel) < Capacity THEN channel' = Append(channel, held)
  ELSE held # Eof /\ channel' = channel
SendingLines == channel' = IF held = Eof THEN channel ELSE Append(channel, held)
Sending == Len(channel) < Capacity /\ channel' = Append(channel, held)

\* The reader ends after it has sent the end of file.
Send ==
  /\ held # NoLine /\ Sending
  /\ held' = NoLine /\ reading' = (held # Eof)
  /\ UNCHANGED <<lines, asked>> /\ NotInput
-----------------------------------------------------------------------------
Response(code) == <<[kind |-> "response", id |-> line.id, code |-> code]>>
Event(g, name) == [kind |-> "event", generation |-> g, name |-> name]
Events(names) == [i \in DOMAIN names |-> Event(generation, names[i])]

\* Emit events, and perhaps the response, and go on; or fail to, and leave run with
\* the error.
Emit(events, response, next, why) ==
  IF broken
  THEN main' = "leaving" /\ exit' = "failed" /\ UNCHANGED outputVars
  ELSE /\ main' = next /\ exit' = why /\ out' = out \o events \o response
       /\ answered' = answered \o [i \in DOMAIN response |-> response[i].id]
Answer(code) ==
  /\ Emit(<<>>, Response(code), "top", exit)
  /\ UNCHANGED <<inputVars, line, external, broken>>

\* What take_events returns of a session that is dead, or not.
AfterEnd == IF engine = "live" THEN Append(queue, "ended") ELSE queue
Taken == IF doomed THEN AfterEnd ELSE queue
Emptied == queue' = <<>> /\ engine' = IF doomed /\ engine = "live" THEN "ended" ELSE engine

\* The top of the loop: Ctrl-C cancels the session, whose last events follow.
Interrupted ==
  /\ main = "top" /\ external
  /\ IF slot
     THEN /\ Emit(Events(AfterEnd), <<>>, "leaving", "interrupted")
          /\ queue' = <<>> /\ doomed' = TRUE
          /\ engine' = IF engine = "live" THEN "ended" ELSE engine
     ELSE main' = "leaving" /\ exit' = "interrupted" /\ UNCHANGED <<outputVars, queue, doomed, engine>>
  /\ UNCHANGED <<inputVars, line, seen, slot, generation, watch, external, broken, executed>>

EmitEvents ==
  /\ main = "top" /\ ~external
  /\ IF slot THEN Emit(Events(Taken), <<>>, "receive", exit) /\ Emptied
     ELSE main' = "receive" /\ UNCHANGED <<exit, outputVars, queue, engine>>
  /\ UNCHANGED <<inputVars, line, seen, slot, generation, doomed, watch, external, broken, executed>>

Receive ==
  /\ main = "receive"
  /\ IF channel = <<>>
     THEN main' = "top" /\ UNCHANGED <<line, channel>>
     ELSE main' = "handle" /\ line' = Head(channel) /\ channel' = Tail(channel)
  /\ UNCHANGED <<held, lines, asked, reading, seen, slot, exit, sessionVars, external, broken,
                 outputVars, executed>>

\* handle_line, up to the operation.
\* Faulty variant first: an error response to a line without an id.
ProtocolErrorAnswered ==
  /\ main = "handle" /\ line = Garbage
  /\ Answer("REJECTED")
  /\ UNCHANGED <<seen, slot, sessionVars, executed>>
ProtocolError ==
  /\ main = "handle" /\ line = Garbage
  /\ Emit(<<Event(0, "protocol.error")>>, <<>>, "top", exit)
  /\ UNCHANGED <<inputVars, line, seen, slot, sessionVars, external, broken, executed>>

\* An invalid request does not use up its id, an unknown operation does.
Reject ==
  /\ main = "handle" /\ line.kind = "other"
  /\ Answer("REJECTED")
  /\ seen' \in {seen, seen \cup {line.id}}
  /\ UNCHANGED <<slot, sessionVars, executed>>

\* Faulty variant first: the id is looked up but not inserted.
RememberNothing == seen
Remember == seen \cup {line.id}

Accept ==
  /\ main = "handle" /\ line.kind \in Operations
  /\ IF line.id \in seen
     THEN Answer("REJECTED") /\ UNCHANGED seen
     ELSE /\ main' = line.kind /\ seen' = Remember
          /\ UNCHANGED <<inputVars, line, exit, external, broken, outputVars>>
  /\ UNCHANGED <<slot, sessionVars, executed>>

\* An operation is refused before it reaches a session: its payload is wrong,
\* or there is none, or (for a start) there is one.
Refuse ==
  /\ main \in Operations
  /\ \/ Answer("REJECTED")
     \/ main = (IF slot THEN "start" ELSE "target") /\ Answer("INVALID_SESSION_STATE")
  /\ UNCHANGED <<seen, slot, sessionVars, executed>>
-----------------------------------------------------------------------------
\* session.start.  The events of the startup are printed as they come; a printing
\* error is kept until the launch is over.
Live(messages) == out' = IF broken THEN out ELSE out \o messages

Executed == executed' = Append(executed, line.id)

\* Faulty variant first: Ctrl-C is forwarded once the session runs.
NotForwarded == "none"
Forwarded == "startup"

Launch ==
  /\ main = "start" /\ ~slot
  /\ main' = "launching" /\ Executed
  /\ generation' = generation + 1 /\ engine' = "starting" /\ queue' = <<>> /\ doomed' = FALSE
  /\ watch' = Forwarded
  /\ Live(<<Event(generation + 1, "begun")>>)
  /\ UNCHANGED <<inputVars, line, seen, slot, exit, external, broken, answered>>

LaunchFails ==
  /\ main = "launching" /\ (doomed \/ "error" \in Faults)
  /\ engine' = "ended" /\ watch' = "none"
  /\ Emit(Events(<<"ended">>), Response("FAILED"), "top", exit)
  /\ UNCHANGED <<inputVars, line, seen, slot, generation, queue, doomed, external, broken, executed>>

\* The engine is connected: the forwarder is joined.
Launched ==
  /\ main = "launching" /\ ~doomed
  /\ engine' = "live" /\ queue' = <<"halted">> /\ watch' = "none"
  /\ main' = "launched"
  /\ UNCHANGED <<inputVars, line, seen, slot, exit, generation, doomed, external, broken,
                 outputVars, executed>>

\* Whatever happened meanwhile, the rest of the events and the response follow; a
\* session that cannot be told of is dropped.
Started ==
  /\ main = "launched"
  /\ Emit(Events(Taken), Response("ok"), "top", exit)
  /\ queue' = <<>> /\ engine' = IF (doomed \/ broken) /\ engine = "live" THEN "ended" ELSE engine
  /\ slot' = ~broken /\ watch' = IF broken THEN "none" ELSE "session"
  /\ UNCHANGED <<inputVars, line, seen, generation, doomed, external, broken, executed>>

\* session.stop and the end of the input: the watcher is joined, the session is
\* stopped, and its last events are taken; they are lost when stopping it fails.
\* Faulty variant first: a session is dropped with its events.
StopQuietly == <<>>
StopEvents == IF slot THEN Events(AfterEnd) ELSE <<>>

Stopped ==
  /\ slot' = FALSE /\ watch' = "none" /\ queue' = <<>>
  /\ engine' = IF engine = "live" THEN "ended" ELSE engine
  /\ UNCHANGED <<inputVars, line, seen, generation, doomed, external, broken>>

Stop ==
  /\ main = "stop"
  /\ \/ Emit(StopEvents, Response("ok"), "top", exit)
     \/ "stop" \in Faults /\ slot /\ Emit(<<>>, Response("STOP_FAILED"), "top", exit)
  /\ IF slot THEN Executed ELSE UNCHANGED executed
  /\ Stopped

EndOfInput ==
  /\ main = "handle" /\ line = Eof
  /\ \/ Emit(StopEvents, <<>>, "leaving", "eof")
     \/ "stop" \in Faults /\ slot /\ main' = "leaving" /\ exit' = "failed" /\ UNCHANGED outputVars
  /\ UNCHANGED executed /\ Stopped

\* A target operation.  One that fails may end the session; one of a session
\* that has ended, or is doomed, does fail.
Operate ==
  /\ main = "target" /\ slot
  /\ main' = "operating" /\ Executed
  /\ UNCHANGED <<inputVars, line, seen, slot, exit, sessionVars, external, broken, outputVars>>

OperationFails ==
  /\ main = "operating" /\ (doomed \/ engine = "ended" \/ "error" \in Faults)
  /\ Answer("FAILED")
  /\ \/ queue' = AfterEnd /\ engine' = "ended"
     \/ UNCHANGED <<queue, engine>>
  /\ UNCHANGED <<seen, slot, generation, doomed, watch, executed>>

OperationReturns ==
  /\ main = "operating" /\ engine = "live" /\ ~doomed
  /\ Answer("ok")
  /\ UNCHANGED <<seen, slot, sessionVars, executed>>

\* run returns: what it owns is dropped, the session first of all.
Leave ==
  /\ main = "leaving"
  /\ main' = "exited" /\ slot' = FALSE /\ watch' = "none"
  /\ engine' = IF engine = "live" THEN "ended" ELSE engine
  /\ UNCHANGED <<inputVars, line, seen, exit, generation, queue, doomed, external, broken,
                 outputVars, executed>>
-----------------------------------------------------------------------------
NotWorld ==
  UNCHANGED <<inputVars, main, line, seen, slot, exit, engine, generation, queue, outputVars, executed>>

\* TokenForwarder, and the watcher of an ActiveSession.
Forward ==
  /\ watch # "none" /\ external
  /\ doomed' = TRUE /\ watch' = "none"
  /\ NotWorld /\ UNCHANGED <<external, broken>>

\* The probe, OpenOCD or GDB is lost, and the supervisor has noticed.
SessionLost ==
  /\ "loss" \in Faults /\ engine \in {"starting", "live"} /\ ~doomed
  /\ doomed' = TRUE
  /\ NotWorld /\ UNCHANGED <<watch, external, broken>>

CtrlC ==
  /\ "interrupt" \in Faults /\ ~external /\ external' = TRUE
  /\ NotWorld /\ UNCHANGED <<doomed, watch, broken>>

OutputBreaks ==
  /\ "output" \in Faults /\ ~broken /\ broken' = TRUE
  /\ NotWorld /\ UNCHANGED <<doomed, watch, external>>
-----------------------------------------------------------------------------
Client == \E l \in Lines : Read(l)
Step ==
  \/ Interrupted \/ EmitEvents \/ Receive
  \/ ProtocolError \/ Reject \/ Accept \/ Refuse \/ EndOfInput
  \/ Launch \/ Started \/ Stop \/ Operate \/ Leave
CallEnds == LaunchFails \/ Launched \/ OperationFails \/ OperationReturns
World == SessionLost \/ CtrlC \/ OutputBreaks
Exited == main = "exited" /\ UNCHANGED vars

Next == Client \/ Send \/ Step \/ CallEnds \/ Forward \/ World \/ Exited

\* The loop and the two threads run.  Of a call into a session only this is
\* assumed: one whose token is cancelled, or that has lost GDB, returns.
Fairness ==
  /\ WF_vars(Step) /\ WF_vars(Send) /\ WF_vars(Forward)
  /\ WF_vars((doomed \/ engine = "ended") /\ CallEnds)

Spec == Init /\ [][Next]_vars
FairSpec == Spec /\ Fairness
-----------------------------------------------------------------------------
Codes == {"ok", "REJECTED", "INVALID_SESSION_STATE", "FAILED", "STOP_FAILED"}
Names == {"begun", "halted", "ended", "protocol.error"}
Responses == [kind : {"response"}, id : Ids, code : Codes]
Messages == Responses \cup [kind : {"event"}, generation : Nat, name : Names]

InputOK ==
  /\ channel \in Seq(Lines) /\ held \in Lines \cup {NoLine}
  /\ reading \in BOOLEAN /\ lines \in Nat /\ asked \in Seq(Ids)
LoopOK ==
  /\ main \in {"top", "receive", "handle", "launching", "launched", "operating", "leaving", "exited"}
       \cup Operations
  /\ line \in Lines \cup {NoLine} /\ seen \subseteq Ids /\ slot \in BOOLEAN
  /\ main \in Operations \cup {"launching", "launched", "operating"} => line.id \in Ids
  /\ exit \in {"none", "eof", "interrupted", "failed"}
SessionOK ==
  /\ engine \in {"none", "starting", "live", "ended"} /\ generation \in Nat
  /\ queue \in Seq(Names) /\ doomed \in BOOLEAN /\ watch \in {"none", "startup", "session"}
HistoryOK ==
  /\ external \in BOOLEAN /\ broken \in BOOLEAN
  /\ out \in Seq(Messages) /\ answered \in Seq(Ids) /\ executed \in Seq(Ids)

\* Every variable keeps its type: what is carried out and answered has an id.
TypeOK == InputOK /\ LoopOK /\ SessionOK /\ HistoryOK

\* contracts.md: each request receives exactly one response with the same id.
\* The answers are those to the first requests, in order, repeated ids and
\* invalid requests included; a clean end of the input finds all answered.
OneAnswerEach ==
  /\ \A i \in DOMAIN answered : i \in DOMAIN asked /\ answered[i] = asked[i]
  /\ exit = "eof" => Len(answered) = Len(asked)

\* A request that is sent again under its id is not carried out again, also
\* when the first one failed.
CarriedOutOnce ==
  \A i, j \in DOMAIN executed : executed[i] = executed[j] => i = j

\* The lines printed about sessions, and what they tell of that of generation g.
IsTold(m) == m.kind = "event" /\ m.generation > 0
Told(g) == {out[i].name : i \in {i \in DOMAIN out : IsTold(out[i]) /\ out[i].generation = g}}
Ended(g) == "ended" \in Told(g)
Precedes(m, n) ==
  \/ m.generation < n.generation
  \/ /\ m.generation = n.generation
     /\ <<m.name, n.name>> \in {<<"begun", "halted">>, <<"begun", "ended">>, <<"halted", "ended">>}
StopFailed == \E i \in DOMAIN out : out[i].kind = "response" /\ out[i].code = "STOP_FAILED"

\* Each session is told once and in order, from its beginning, its startup not a
\* second time, and to its end before there can be another or the loop is left, as
\* long as printing works and no stop failed.
StoriesAreComplete ==
  /\ \A i, j \in DOMAIN out :
       i < j /\ IsTold(out[i]) /\ IsTold(out[j]) => Precedes(out[i], out[j])
  /\ \A g \in 1..generation :
       /\ Told(g) # {} => "begun" \in Told(g)
       /\ /\ g < generation \/ (main \in {"top", "exited"} /\ ~slot)
          /\ ~broken /\ ~StopFailed /\ exit # "failed"
          => Ended(g)

\* Ctrl-C ends the agent, wherever the loop is, although no call into the session
\* returns by itself.
CtrlCEnds == external ~> main = "exited"

\* So does the end of the input, if the calls do return, however many lines are
\* before it.
EndOfInputEnds ==
  []<>(main \notin {"launching", "operating"}) => (held = Eof ~> main = "exited")

\* architecture.md: cleanup reaches idle, then the caller issues a new
\* session.start.  None is refused once the end of the session was printed.
StartAfterEnd ==
  [][main = "start" /\ out' = out \o Response("INVALID_SESSION_STATE") => ~Ended(generation)]_vars
=============================================================================
