----------------------------- MODULE AgentProofs -----------------------------
(* Proofs about Agent, for all ids, capacities, inputs and faults.           *)
EXTENDS Agent, TLAPS

LEMMA ResponseTyped ==
  ASSUME line.id \in Ids, NEW code \in Codes
  PROVE  Response(code) \in Seq(Messages)
<1>1. [kind |-> "response", id |-> line.id, code |-> code] \in Messages
  BY DEF Messages, Responses
<1> QED BY <1>1 DEF Response

LEMMA EventTyped ==
  ASSUME NEW g \in Nat, NEW name \in Names
  PROVE  <<Event(g, name)>> \in Seq(Messages)
<1>1. Event(g, name) \in Messages
  BY DEF Event, Messages
<1> QED BY <1>1

LEMMA EventsTyped ==
  ASSUME generation \in Nat, NEW names \in Seq(Names)
  PROVE  Events(names) \in Seq(Messages)
<1>1. \A i \in 1..Len(names) : Event(generation, names[i]) \in Messages
  BY DEF Event, Messages
<1>2. DOMAIN names = 1..Len(names) /\ Len(names) \in Nat
  OBVIOUS
<1> QED BY <1>1, <1>2 DEF Events

LEMMA QueueTyped ==
  ASSUME SessionOK
  PROVE  AfterEnd \in Seq(Names) /\ Taken \in Seq(Names) /\ <<>> \in Seq(Names)
<1>1. "ended" \in Names
  BY DEF Names
<1> QED BY <1>1 DEF SessionOK, AfterEnd, Taken

\* Messages that may be printed, and responses among them; what was printed.
Typed(m) == m \in Seq(Messages)
WithIds(m) == Typed(m) /\ \A i \in DOMAIN m : m[i].id \in Ids
OutOK == out \in Seq(Messages) /\ answered \in Seq(Ids)

LEMMA EmitTyped ==
  ASSUME OutOK, NEW events, NEW response, Typed(events), WithIds(response),
         NEW next, NEW why, Emit(events, response, next, why)
  PROVE  OutOK'
<1> USE DEF OutOK, Typed, WithIds
<1>1. out \o events \o response \in Seq(Messages)
  OBVIOUS
<1>2. [i \in DOMAIN response |-> response[i].id] \in Seq(Ids)
  <2>1. DOMAIN response = 1..Len(response) /\ Len(response) \in Nat
    OBVIOUS
  <2> QED BY <2>1
<1>3. answered \o [i \in DOMAIN response |-> response[i].id] \in Seq(Ids)
  BY <1>2
<1> QED BY <1>1, <1>3 DEF Emit, outputVars
-----------------------------------------------------------------------------
\* Only the reader and Receive touch the input.
LEMMA InputTyped ==
  ASSUME InputOK, [Next]_vars
  PROVE  InputOK'
<1>1. ASSUME NEW l \in Lines, Read(l) PROVE InputOK'
  <2>1. l.id \in Ids \cup {NoId}
    BY DEF Lines, Requests, Garbage, Eof
  <2>2. asked' \in Seq(Ids) /\ lines' \in Nat
    BY <1>1, <2>1 DEF Read, InputOK
  <2> QED BY <1>1, <2>2 DEF Read, InputOK
<1>2. CASE Send
  <2>1. held \in Lines
    BY <1>2 DEF InputOK, Send
  <2>2. channel' \in Seq(Lines)
    BY <1>2, <2>1 DEF InputOK, Send, Sending
  <2> QED BY <1>2, <2>2 DEF InputOK, Send
<1>3. CASE Receive
  <2>1. channel \in Seq(Lines)
    BY DEF InputOK
  <2>2. channel' \in Seq(Lines)
    BY <1>3, <2>1 DEF Receive
  <2> QED BY <1>3, <2>2 DEF Receive, InputOK
<1>4. CASE UNCHANGED inputVars
  BY <1>4 DEF InputOK, inputVars
<1>5. ASSUME Interrupted \/ EmitEvents \/ ProtocolError \/ Reject \/ Accept \/ Refuse
             \/ EndOfInput \/ Launch \/ Started \/ Stop \/ Operate \/ Leave
      PROVE  UNCHANGED inputVars
  BY <1>5 DEF Interrupted, EmitEvents, ProtocolError, Reject, Accept, Refuse, Answer,
              EndOfInput, Launch, Started, Stop, Stopped, Operate, Leave
<1>6. ASSUME CallEnds \/ Forward \/ World \/ Exited \/ UNCHANGED vars
      PROVE  UNCHANGED inputVars
  BY <1>6 DEF CallEnds, LaunchFails, Launched, OperationFails, OperationReturns, Answer,
              Forward, World, SessionLost, CtrlC, OutputBreaks, NotWorld, Exited, vars
<1> QED BY <1>1, <1>2, <1>3, <1>4, <1>5, <1>6 DEF Next, Client, Step

\* The session's variables are touched by the calls into it and by its end.
LEMMA SessionTyped ==
  ASSUME SessionOK, [Next]_vars
  PROVE  SessionOK'
<1> USE QueueTyped
<1>1. CASE Interrupted \/ EmitEvents
  BY <1>1 DEF Interrupted, EmitEvents, Emptied, SessionOK
<1>2. CASE Launch
  <2>1. generation' \in Nat /\ engine' = "starting" /\ queue' = <<>> /\ watch' = "startup"
    BY <1>2 DEF Launch, Forwarded, SessionOK
  <2>2. doomed' \in BOOLEAN
    BY <1>2 DEF Launch
  <2> QED BY <2>1, <2>2 DEF SessionOK
<1>3. CASE LaunchFails
  BY <1>3 DEF LaunchFails, SessionOK
<1>4. CASE Launched
  <2>1. <<"halted">> \in Seq(Names)
    BY DEF Names
  <2> QED BY <1>4, <2>1 DEF Launched, SessionOK
<1>5. CASE Started
  BY <1>5 DEF Started, SessionOK
<1>6. CASE Stop \/ EndOfInput
  BY <1>6 DEF Stop, EndOfInput, Stopped, SessionOK
<1>7. CASE OperationFails
  BY <1>7 DEF OperationFails, SessionOK
<1>8. CASE Leave
  BY <1>8 DEF Leave, SessionOK
<1>9. CASE Forward \/ World
  BY <1>9 DEF Forward, World, SessionLost, CtrlC, OutputBreaks, NotWorld, SessionOK
<1>10. CASE UNCHANGED sessionVars
  BY <1>10 DEF SessionOK, sessionVars
<1>11. ASSUME Client \/ Send \/ Receive \/ ProtocolError \/ Reject \/ Accept \/ Refuse \/ Operate
              \/ OperationReturns \/ Exited \/ UNCHANGED vars
       PROVE  UNCHANGED sessionVars
  BY <1>11 DEF Client, Read, Send, NotInput, Receive, ProtocolError, Reject, Accept, Refuse,
               Operate, OperationReturns, Exited, vars
<1> QED BY <1>1, <1>2, <1>3, <1>4, <1>5, <1>6, <1>7, <1>8, <1>9, <1>10, <1>11
        DEF Next, Step, CallEnds

\* The request in hand has an id.
LEMMA LineHasId ==
  ASSUME LoopOK, main = "handle", line.kind \in {"other"} \cup Operations
  PROVE  line \in Requests /\ line.id \in Ids /\ main \notin Operations
  BY DEF LoopOK, Lines, Requests, NoLine, Garbage, Eof, Operations

LEMMA LoopTyped ==
  ASSUME TypeOK, [Next]_vars
  PROVE  LoopOK'
<1> DEFINE Exits == {"none", "eof", "interrupted", "failed"}
<1>0. /\ LoopOK /\ InputOK /\ SessionOK /\ HistoryOK
      /\ out \in Seq(Messages) /\ exit \in Exits
  BY DEF TypeOK, LoopOK, HistoryOK
<1> USE <1>0
<1>1. CASE Interrupted \/ EmitEvents
  <2>1. exit' \in Exits /\ main' \in {"leaving", "receive"}
    BY <1>1 DEF Interrupted, EmitEvents, Emit
  <2>2. UNCHANGED <<line, seen, slot>>
    BY <1>1 DEF Interrupted, EmitEvents
  <2> QED BY <2>1, <2>2 DEF LoopOK, Operations
<1>2. CASE Receive
  <2>1. channel # <<>> => Head(channel) \in Lines
    BY DEF InputOK
  <2>2. main' \in {"top", "handle"} /\ line' \in Lines \cup {NoLine}
    BY <1>2, <2>1 DEF Receive, LoopOK
  <2>3. UNCHANGED <<seen, slot, exit>>
    BY <1>2 DEF Receive
  <2> QED BY <2>2, <2>3 DEF LoopOK, Operations
<1>3. CASE ProtocolError \/ Reject \/ Refuse \/ OperationFails \/ OperationReturns
  <2>1. main' \in {"top", "leaving"} /\ exit' \in Exits
    BY <1>3 DEF ProtocolError, Reject, Refuse, OperationFails, OperationReturns, Answer, Emit
  <2>2. UNCHANGED <<line, slot>>
    BY <1>3 DEF ProtocolError, Reject, Refuse, OperationFails, OperationReturns, Answer
  <2>3. Reject => line.id \in Ids
    BY LineHasId DEF Reject
  <2>4. seen' \subseteq Ids
    BY <1>3, <2>3 DEF ProtocolError, Reject, Refuse, OperationFails, OperationReturns, LoopOK
  <2> QED BY <2>1, <2>2, <2>4 DEF LoopOK, Operations
<1>4. CASE Accept
  <2>1. line.id \in Ids /\ line.kind \in Operations
    BY <1>4, LineHasId DEF Accept
  <2>2. main' \in {"top", "leaving"} \cup Operations /\ exit' \in Exits
    BY <1>4, <2>1 DEF Accept, Answer, Emit
  <2>3. UNCHANGED <<line, slot>> /\ seen' \subseteq Ids
    BY <1>4, <2>1 DEF Accept, Answer, Remember, LoopOK
  <2> QED BY <2>1, <2>2, <2>3 DEF LoopOK, Operations
<1>5. CASE Launch \/ Launched \/ Operate
  <2>1. main' \in {"launching", "launched", "operating"} /\ line.id \in Ids
    BY <1>5 DEF Launch, Launched, Operate, LoopOK, Operations
  <2>2. UNCHANGED <<line, seen, slot, exit>>
    BY <1>5 DEF Launch, Launched, Operate
  <2> QED BY <2>1, <2>2 DEF LoopOK
<1>6. CASE LaunchFails \/ Started \/ Stop \/ EndOfInput
  <2>1. main' \in {"top", "leaving"} /\ exit' \in Exits
    BY <1>6 DEF LaunchFails, Started, Stop, EndOfInput, Emit
  <2>2. UNCHANGED <<line, seen>>
    BY <1>6 DEF LaunchFails, Started, Stop, EndOfInput, Stopped
  <2>3. slot' \in BOOLEAN
    BY <1>6, Zenon DEF LaunchFails, Started, Stop, EndOfInput, Stopped, LoopOK
  <2> QED BY <2>1, <2>2, <2>3 DEF LoopOK, Operations
<1>7. CASE Leave
  BY <1>7 DEF Leave, LoopOK, Operations
<1>8. CASE UNCHANGED <<main, line, seen, slot, exit>>
  BY <1>8 DEF LoopOK
<1>9. ASSUME Client \/ Send \/ Forward \/ World \/ Exited \/ UNCHANGED vars
      PROVE  UNCHANGED <<main, line, seen, slot, exit>>
  BY <1>9 DEF Client, Read, Send, NotInput, Forward, World, SessionLost, CtrlC, OutputBreaks,
              NotWorld, Exited, vars
<1> QED BY <1>1, <1>2, <1>3, <1>4, <1>5, <1>6, <1>7, <1>8, <1>9 DEF Next, Step, CallEnds

LEMMA ExecutedTyped ==
  ASSUME LoopOK, HistoryOK,
         main \in Operations \cup {"launching", "launched", "operating"},
         Executed \/ UNCHANGED executed
  PROVE  executed' \in Seq(Ids)
<1>1. executed \in Seq(Ids) /\ line.id \in Ids
  BY DEF LoopOK, HistoryOK
<1> QED BY <1>1 DEF Executed

\* What each action prints.
LEMMA OutTyped ==
  ASSUME TypeOK, [Next]_vars
  PROVE  OutOK'
<1>0. LoopOK /\ SessionOK /\ generation \in Nat /\ OutOK
  BY DEF TypeOK, LoopOK, SessionOK, HistoryOK, OutOK
<1> USE <1>0
<1>1. AfterEnd \in Seq(Names) /\ Taken \in Seq(Names) /\ <<"ended">> \in Seq(Names)
  BY QueueTyped DEF Names
<1>2. Typed(Events(AfterEnd)) /\ Typed(Events(Taken)) /\ Typed(Events(<<"ended">>))
  BY <1>1, EventsTyped DEF Typed
<1>3. Typed(<<>>) /\ WithIds(<<>>)
  BY DEF Typed, WithIds
<1>4. \A e, m, next, why : Typed(e) /\ WithIds(m) /\ Emit(e, m, next, why) => OutOK'
  BY EmitTyped
<1>5. Typed(StopEvents)
  BY <1>2, <1>3, Zenon DEF StopEvents
<1>6. ASSUME line.id \in Ids
      PROVE  /\ WithIds(Response("ok")) /\ WithIds(Response("REJECTED"))
             /\ WithIds(Response("INVALID_SESSION_STATE")) /\ WithIds(Response("FAILED"))
             /\ WithIds(Response("STOP_FAILED"))
  <2>1. \A code \in Codes : Typed(Response(code))
    BY <1>6, ResponseTyped DEF Typed
  <2>2. \A code \in Codes : \A i \in DOMAIN Response(code) : Response(code)[i].id \in Ids
    BY <1>6 DEF Response
  <2> QED BY <2>1, <2>2 DEF Codes, WithIds
<1>7. Typed(<<Event(0, "protocol.error")>>)
  BY EventTyped DEF Names, Typed
<1>8. CASE UNCHANGED outputVars
  BY <1>8 DEF outputVars, OutOK
<1>9. CASE Interrupted
  BY <1>2, <1>3, <1>4, <1>8, <1>9 DEF Interrupted, outputVars
<1>10. CASE EmitEvents
  BY <1>2, <1>3, <1>4, <1>8, <1>10 DEF EmitEvents, outputVars
<1>11. CASE ProtocolError
  BY <1>3, <1>4, <1>7, <1>11 DEF ProtocolError
<1>12. CASE Reject \/ Accept \/ Refuse
  <2>1. line.id \in Ids
    BY <1>12, LineHasId DEF Reject, Accept, Refuse, LoopOK
  <2> QED BY <1>3, <1>4, <1>6, <1>8, <1>12, <2>1 DEF Reject, Accept, Refuse, Answer
<1>13. CASE OperationFails \/ OperationReturns
  <2>1. line.id \in Ids
    BY <1>13 DEF OperationFails, OperationReturns, LoopOK
  <2> QED BY <1>3, <1>4, <1>6, <1>13, <2>1 DEF OperationFails, OperationReturns, Answer
<1>14. CASE LaunchFails \/ Started \/ Stop
  <2>1. line.id \in Ids
    BY <1>14 DEF LaunchFails, Started, Stop, LoopOK, Operations
  <2> QED BY <1>2, <1>3, <1>4, <1>5, <1>6, <1>14, <2>1 DEF LaunchFails, Started, Stop
<1>15. CASE EndOfInput
  BY <1>3, <1>4, <1>5, <1>8, <1>15 DEF EndOfInput
<1>16. CASE Launch
  <2>1. Typed(<<Event(generation + 1, "begun")>>)
    BY EventTyped DEF Names, Typed
  <2> QED BY <1>16, <2>1 DEF Launch, Live, Typed, OutOK
<1>17. ASSUME Receive \/ Operate \/ Leave \/ Launched \/ Client \/ Send \/ Forward \/ World
              \/ Exited \/ UNCHANGED vars
       PROVE  UNCHANGED outputVars
  BY <1>17 DEF Receive, Operate, Leave, Launched, Client, Read, Send, NotInput, Forward, World,
               SessionLost, CtrlC, OutputBreaks, NotWorld, Exited, vars
<1> QED BY <1>8, <1>9, <1>10, <1>11, <1>12, <1>13, <1>14, <1>15, <1>16, <1>17
        DEF Next, Step, CallEnds

\* An operation reaches a session by a launch, a stop or a target operation.
LEMMA ExecutedOrNot ==
  ASSUME [Next]_vars
  PROVE  UNCHANGED executed \/ (main \in Operations /\ Executed /\ (Launch \/ Stop \/ Operate))
<1>1. ASSUME Launch \/ Operate \/ Stop
      PROVE  UNCHANGED executed \/ (main \in Operations /\ Executed)
  BY <1>1 DEF Launch, Operate, Stop, Operations
<1>2. ASSUME Interrupted \/ EmitEvents \/ Receive \/ ProtocolError \/ Reject \/ Accept \/ Refuse
             \/ EndOfInput \/ Started \/ Leave \/ CallEnds
      PROVE  UNCHANGED executed
  BY <1>2 DEF Interrupted, EmitEvents, Receive, ProtocolError, Reject, Accept, Refuse,
              EndOfInput, Started, Leave, CallEnds, LaunchFails, Launched, OperationFails,
              OperationReturns
<1>3. ASSUME Client \/ Send \/ Forward \/ World \/ Exited \/ UNCHANGED vars
      PROVE  UNCHANGED executed
  BY <1>3 DEF Client, Read, Send, NotInput, Forward, World, SessionLost, CtrlC, OutputBreaks,
              NotWorld, Exited, vars
<1> QED BY <1>1, <1>2, <1>3 DEF Next, Step

LEMMA HistoryTyped ==
  ASSUME TypeOK, [Next]_vars
  PROVE  HistoryOK'
<1>1. external' \in BOOLEAN /\ broken' \in BOOLEAN
  <2>1. ASSUME Client \/ Send \/ Step \/ CallEnds \/ Exited \/ UNCHANGED vars
        PROVE  UNCHANGED <<external, broken>>
    BY <2>1 DEF Client, Read, Send, NotInput, Step, Interrupted, EmitEvents, Receive,
                ProtocolError, Reject, Accept, Refuse, Answer, EndOfInput, Stopped, Launch,
                Started, Stop, Operate, Leave, CallEnds, LaunchFails, Launched, OperationFails,
                OperationReturns, Exited, vars
  <2>2. ASSUME Forward \/ World
        PROVE  external' \in {external, TRUE} /\ broken' \in {broken, TRUE}
    BY <2>2 DEF Forward, World, SessionLost, CtrlC, OutputBreaks
  <2>3. external' \in {external, TRUE} /\ broken' \in {broken, TRUE}
    BY <2>1, <2>2 DEF Next
  <2> QED BY <2>3, Zenon DEF TypeOK, HistoryOK
<1>2. out' \in Seq(Messages) /\ answered' \in Seq(Ids)
  BY OutTyped DEF OutOK
<1>3. executed' \in Seq(Ids)
  BY ExecutedOrNot, ExecutedTyped DEF TypeOK, HistoryOK
<1> QED BY <1>1, <1>2, <1>3 DEF HistoryOK

\* Every variable keeps its type: what is answered and carried out has an id.
THEOREM TypeCorrect == Spec => []TypeOK
<1>1. Init => TypeOK
  <2> SUFFICES ASSUME Init PROVE TypeOK
    OBVIOUS
  <2>1. /\ reading \in BOOLEAN /\ slot \in BOOLEAN /\ doomed \in BOOLEAN
        /\ external \in BOOLEAN /\ broken \in BOOLEAN
    BY Zenon DEF Init
  <2>2. InputOK /\ LoopOK
    BY <2>1 DEF Init, InputOK, LoopOK, Operations
  <2>3. SessionOK /\ HistoryOK
    BY <2>1 DEF Init, SessionOK, HistoryOK
  <2> QED BY <2>2, <2>3 DEF TypeOK
<1>2. TypeOK /\ [Next]_vars => TypeOK'
  BY InputTyped, LoopTyped, SessionTyped, HistoryTyped DEF TypeOK
<1> QED BY <1>1, <1>2, PTL DEF Spec
-----------------------------------------------------------------------------
\* What has been carried out, and the operation in hand, is in seen; the latter
\* has not been carried out yet.
SeenOK ==
  /\ \A i \in DOMAIN executed : executed[i] \in seen
  /\ main \in Operations => line.id \in seen /\ \A i \in DOMAIN executed : executed[i] # line.id

\* Only Accept moves to an operation, with an id that is new; nothing leaves seen.
LEMMA OneOperation ==
  ASSUME LoopOK, [Next]_vars
  PROVE  /\ seen \subseteq seen'
         /\ main' \in Operations =>
              \/ UNCHANGED <<main, line>> /\ ~(Launch \/ Stop \/ Operate)
              \/ line.id \notin seen /\ UNCHANGED <<line, executed>> /\ seen' = seen \cup {line.id}
<1> USE DEF Operations
<1>1. CASE Accept
  BY <1>1, LineHasId DEF Accept, Answer, Emit, Remember
<1>2. CASE Interrupted \/ EmitEvents \/ Receive \/ Leave
  BY <1>2 DEF Interrupted, EmitEvents, Receive, Leave, Emit
<1>3. CASE ProtocolError \/ Reject \/ Refuse \/ OperationFails \/ OperationReturns
  BY <1>3 DEF ProtocolError, Reject, Refuse, OperationFails, OperationReturns, Answer, Emit
<1>4. CASE EndOfInput \/ Started \/ Stop \/ LaunchFails
  BY <1>4 DEF EndOfInput, Started, Stop, LaunchFails, Stopped, Emit
<1>5. CASE Launch \/ Operate \/ Launched
  BY <1>5 DEF Launch, Operate, Launched
<1>6. CASE Client \/ Send \/ Forward \/ World \/ Exited \/ UNCHANGED vars
  <2>1. UNCHANGED <<main, line, seen>>
    BY <1>6 DEF Client, Read, Send, NotInput, Forward, World, SessionLost, CtrlC, OutputBreaks,
                NotWorld, Exited, vars
  <2>2. main' \in Operations => ~(Launch \/ Stop \/ Operate)
    BY <2>1 DEF Launch, Stop, Operate, Emit
  <2> QED BY <2>1, <2>2
<1> QED BY <1>1, <1>2, <1>3, <1>4, <1>5, <1>6 DEF Next, Step, CallEnds

\* A request sent again under its id is not carried out again, however many
\* lines are in flight and whatever became of the first one.
THEOREM NothingTwice == Spec => []CarriedOutOnce
<1>1. Init => SeenOK /\ CarriedOutOnce
  BY DEF Init, SeenOK, CarriedOutOnce, Operations
<1>2. ASSUME TypeOK, SeenOK, CarriedOutOnce, [Next]_vars
      PROVE  SeenOK' /\ CarriedOutOnce'
  <2>0. executed \in Seq(Ids) /\ LoopOK
    BY <1>2 DEF TypeOK, HistoryOK
  <2>1. CASE UNCHANGED executed
    <3>1. CarriedOutOnce'
      BY <1>2, <2>1 DEF CarriedOutOnce
    <3>2. \A i \in DOMAIN executed' : executed'[i] \in seen'
      BY <1>2, <2>0, <2>1, OneOperation DEF SeenOK
    <3>3. ASSUME main' \in Operations
          PROVE  line'.id \in seen' /\ \A i \in DOMAIN executed' : executed'[i] # line'.id
      BY <1>2, <2>0, <2>1, <3>3, OneOperation DEF SeenOK
    <3> QED BY <3>1, <3>2, <3>3 DEF SeenOK
  <2>2. CASE main \in Operations /\ Executed /\ (Launch \/ Stop \/ Operate)
    <3>1. line.id \in seen /\ \A i \in DOMAIN executed : executed[i] # line.id
      BY <1>2, <2>2 DEF SeenOK
    <3>2. /\ DOMAIN executed' = 1..(Len(executed) + 1) /\ Len(executed) \in Nat
          /\ DOMAIN executed = 1..Len(executed)
          /\ executed'[Len(executed) + 1] = line.id
          /\ \A i \in DOMAIN executed : executed'[i] = executed[i]
      BY <2>0, <2>2 DEF Executed, LoopOK
    <3>3. CarriedOutOnce'
      BY <1>2, <3>1, <3>2 DEF CarriedOutOnce
    <3>4. \A i \in DOMAIN executed' : executed'[i] \in seen'
      BY <1>2, <2>0, <3>1, <3>2, OneOperation DEF SeenOK
    <3>5. main' \notin Operations
      BY <2>2 DEF Launch, Stop, Operate, Emit, Operations
    <3> QED BY <3>3, <3>4, <3>5 DEF SeenOK
  <2> QED BY <1>2, <2>1, <2>2, ExecutedOrNot
<1> QED BY <1>1, <1>2, TypeCorrect, PTL DEF Spec
-----------------------------------------------------------------------------
\* Where the requests are that have been read and not answered: one in hand,
\* those in the channel, and the one the reader holds.
IsRequest(l) == l.id # NoId
Busy == Operations \cup {"launching", "launched", "operating"}
InHand == main \in Busy \/ (main = "handle" /\ IsRequest(line))
Gone == main \in {"leaving", "exited"}
One(l) == IF IsRequest(l) THEN 1 ELSE 0

\* pos[i] is the place in asked of the i-th line of the channel, or of the next
\* request after it; the one in hand comes before them, the one held after.
Numbered(pos) ==
  /\ pos[1] = Len(answered) + (IF InHand THEN 2 ELSE 1)
  /\ InHand => Len(answered) < Len(asked) /\ asked[Len(answered) + 1] = line.id
  /\ \A i \in 1..Len(channel) :
       /\ pos[i + 1] = pos[i] + One(channel[i])
       /\ IsRequest(channel[i]) => pos[i] \in 1..Len(asked) /\ asked[pos[i]] = channel[i].id
  /\ Len(asked) + 1 = pos[Len(channel) + 1] + One(held)
  /\ IsRequest(held) => Len(asked) > 0 /\ asked[Len(asked)] = held.id
InOrder == \E pos \in [1..(Len(channel) + 1) -> Nat] : Numbered(pos)

\* The end of the input is the last line.
LastLine ==
  /\ held # NoLine => reading
  /\ \A i \in 1..Len(channel) : channel[i] = Eof => i = Len(channel) /\ ~reading
  /\ main = "handle" /\ line = Eof => channel = <<>> /\ ~reading
  /\ exit = "eof" => Gone /\ ~reading

\* What answers are about.
AnswersTyped ==
  /\ channel \in Seq(Lines) /\ held \in Lines \cup {NoLine} /\ asked \in Seq(Ids)
  /\ answered \in Seq(Ids)
  /\ main \in Busy => line.id \in Ids
  /\ main = "handle" /\ line.kind \in {"other"} \cup Operations => line.id \in Ids
  /\ reading \in BOOLEAN

LEMMA AnswersAreTyped == TypeOK => AnswersTyped
BY LineHasId DEF TypeOK, InputOK, LoopOK, HistoryOK, AnswersTyped, Busy

LEMMA EmitAnswers ==
  ASSUME AnswersTyped, NEW events, NEW next, NEW why
  PROVE  /\ Emit(events, <<>>, next, why) => answered' = answered
         /\ \A code : line.id \in Ids /\ Emit(events, Response(code), next, why) /\ ~broken =>
              answered' = Append(answered, line.id)
<1> USE DEF AnswersTyped, Emit, outputVars
<1>1. answered \o [i \in DOMAIN <<>> |-> <<>>[i].id] = answered
  <2>1. [i \in DOMAIN <<>> |-> <<>>[i].id] = <<>>
    OBVIOUS
  <2> QED BY <2>1
<1>2. ASSUME NEW code, line.id \in Ids, Emit(events, Response(code), next, why), ~broken
      PROVE  answered' = Append(answered, line.id)
  <2>1. [i \in DOMAIN Response(code) |-> Response(code)[i].id] = <<line.id>>
    BY DEF Response
  <2>2. answered \o <<line.id>> = Append(answered, line.id)
    BY <1>2
  <2> QED BY <1>2, <2>1, <2>2
<1> QED BY <1>1, <1>2

\* A step of the loop keeps the line it has in hand, answers it, or leaves run.
Keeps ==
  /\ UNCHANGED <<answered, exit, line>> /\ InHand' = InHand /\ Gone' = Gone
  /\ main' = "handle" => main = "handle"
Answers ==
  /\ InHand /\ ~InHand' /\ ~Gone /\ main' = "top"
  /\ answered' = Append(answered, line.id) /\ UNCHANGED <<exit, line>>
Stops ==
  /\ ~Gone /\ main' = "leaving" /\ UNCHANGED answered
  /\ exit' = "eof" => main = "handle" /\ line = Eof

LEMMA AnswerStep ==
  ASSUME AnswersTyped, line.id \in Ids, ~Gone, InHand, NEW events, NEW code,
         exit # "eof", Emit(events, Response(code), "top", exit), UNCHANGED line
  PROVE  Answers \/ Stops
<1>1. CASE broken
  BY <1>1 DEF Emit, outputVars, Stops
<1>2. CASE ~broken
  <2>1. answered' = Append(answered, line.id)
    BY <1>2, EmitAnswers
  <2>2. main' = "top" /\ exit' = exit
    BY <1>2 DEF Emit
  <2>3. ~InHand'
    BY <2>2 DEF InHand, Busy, Operations
  <2> QED BY <2>1, <2>2, <2>3 DEF Answers
<1> QED BY <1>1, <1>2

LEMMA LoopStep ==
  ASSUME AnswersTyped, LastLine, [Next]_vars, ~Client, ~Send, ~Receive
  PROVE  UNCHANGED inputVars /\ (Keeps \/ Answers \/ Stops)
<1> DEFINE Emitted == \A e, next, why : Emit(e, <<>>, next, why) =>
             /\ UNCHANGED answered
             /\ \/ main' = next /\ exit' = why
                \/ main' = "leaving" /\ exit' = "failed"
<1>0. Emitted
  BY EmitAnswers DEF Emit
<1>1. CASE Interrupted \/ EmitEvents
  <2>1. /\ main = "top" /\ UNCHANGED <<line, answered, inputVars>>
        /\ \/ main' = "leaving" /\ exit' \in {"interrupted", "failed"}
           \/ main' = "receive" /\ UNCHANGED exit
    BY <1>0, <1>1 DEF Interrupted, EmitEvents, outputVars
  <2> QED BY <2>1 DEF Keeps, Stops, InHand, Busy, Operations, Gone
<1>2. CASE ProtocolError
  <2>1. /\ main = "handle" /\ line.id = NoId /\ UNCHANGED <<line, answered, inputVars>>
        /\ \/ main' = "leaving" /\ exit' = "failed"
           \/ main' = "top" /\ UNCHANGED exit
    BY <1>0, <1>2 DEF ProtocolError, Garbage
  <2> QED BY <2>1 DEF Keeps, Stops, InHand, IsRequest, Busy, Operations, Gone
<1>3. CASE Reject \/ Refuse \/ OperationFails \/ OperationReturns \/ LaunchFails \/ Started \/ Stop
  <2>1. /\ (main = "handle" /\ line.kind \in {"other"} \cup Operations) \/ main \in Busy
        /\ UNCHANGED <<line, inputVars>>
        /\ \E e, code : Emit(e, Response(code), "top", exit)
    BY <1>3 DEF Reject, Refuse, OperationFails, OperationReturns, LaunchFails, Started, Stop,
                Stopped, Answer, Busy, Operations
  <2>2. line.id \in Ids /\ ~Gone /\ InHand /\ exit # "eof"
    BY <2>1, AgentAssumption DEF AnswersTyped, Gone, InHand, IsRequest, Busy, Operations, LastLine
  <2> QED BY <2>1, <2>2, AnswerStep
<1>4. CASE Accept
  <2>1. main = "handle" /\ line.kind \in Operations /\ UNCHANGED <<line, inputVars>>
    BY <1>4 DEF Accept, Answer
  <2>2. line.id \in Ids /\ ~Gone /\ InHand /\ exit # "eof"
    BY <2>1, AgentAssumption DEF AnswersTyped, Gone, InHand, IsRequest, LastLine
  <2>3. CASE Answer("REJECTED")
    BY <2>1, <2>2, <2>3, AnswerStep DEF Answer
  <2>4. CASE main' = line.kind /\ UNCHANGED <<exit, answered>>
    BY <2>1, <2>2, <2>4 DEF Keeps, InHand, Busy, Gone, Operations
  <2> QED BY <1>4, <2>3, <2>4 DEF Accept, outputVars
<1>5. CASE EndOfInput
  <2>1. /\ main = "handle" /\ line = Eof /\ UNCHANGED <<line, answered, inputVars>>
        /\ main' = "leaving"
    BY <1>0, <1>5 DEF EndOfInput, Stopped, outputVars
  <2> QED BY <2>1 DEF Stops, Gone
<1>6. CASE Launch \/ Operate \/ Launched
  <2>1. main \in Busy /\ main' \in Busy /\ UNCHANGED <<answered, exit, line, inputVars>>
    BY <1>6 DEF Launch, Operate, Launched, Busy, Operations, outputVars
  <2> QED BY <2>1 DEF Keeps, InHand, Busy, Gone, Operations
<1>7. CASE Leave
  BY <1>7 DEF Leave, Keeps, InHand, Busy, Gone, Operations, outputVars
<1>8. CASE Forward \/ World \/ Exited \/ UNCHANGED vars
  <2>1. UNCHANGED <<main, answered, exit, line, inputVars>>
    BY <1>8 DEF Forward, World, SessionLost, CtrlC, OutputBreaks, NotWorld, Exited, vars, outputVars
  <2> QED BY <2>1 DEF Keeps, InHand, Gone, Busy
<1> QED BY <1>1, <1>2, <1>3, <1>4, <1>5, <1>6, <1>7, <1>8 DEF Next, Step, CallEnds

AnswerInv == OneAnswerEach /\ LastLine /\ (~Gone => InOrder)

LEMMA LineTyped ==
  ASSUME NEW l \in Lines \cup {NoLine}
  PROVE  IsRequest(l) => l.id \in Ids /\ l # Eof /\ l # NoLine
BY DEF IsRequest, Lines, Requests, Garbage, Eof, NoLine

LEMMA ReadStep ==
  ASSUME AnswersTyped, AnswerInv, NEW l \in Lines, Read(l)
  PROVE  AnswerInv'
<1>1. /\ reading /\ held = NoLine /\ held' = l
      /\ asked' = IF IsRequest(l) THEN Append(asked, l.id) ELSE asked
      /\ UNCHANGED <<reading, channel, main, line, exit, answered>>
  <2>1. l.id = NoId \/ IsRequest(l)
    BY DEF IsRequest
  <2> QED BY <2>1 DEF Read, NotInput, IsRequest, outputVars
<1>2. /\ asked \in Seq(Ids) /\ answered \in Seq(Ids) /\ channel \in Seq(Lines)
      /\ Len(asked) \in Nat /\ Len(answered) \in Nat /\ Len(channel) \in Nat
      /\ DOMAIN asked = 1..Len(asked) /\ DOMAIN answered = 1..Len(answered)
  BY DEF AnswersTyped
<1>3. /\ Len(asked') = Len(asked) + One(l) /\ DOMAIN asked' = 1..Len(asked')
      /\ \A i \in 1..Len(asked) : asked'[i] = asked[i]
      /\ IsRequest(l) => asked'[Len(asked')] = l.id
  <2>1. asked \in Seq(Ids) /\ (IsRequest(l) => l.id \in Ids)
    BY <1>2, LineTyped
  <2>2. CASE IsRequest(l)
    BY <1>1, <2>1, <2>2 DEF One
  <2>3. CASE ~IsRequest(l)
    BY <1>1, <2>1, <2>3 DEF One
  <2> QED BY <2>2, <2>3
<1>4. LastLine'
  BY <1>1 DEF AnswerInv, LastLine, Gone
<1>5. OneAnswerEach'
  <2>1. \A i \in DOMAIN answered : i \in 1..Len(asked) /\ answered[i] = asked[i]
    BY <1>2 DEF AnswerInv, OneAnswerEach
  <2>2. Len(asked') >= Len(asked) /\ Len(asked') \in Nat /\ Len(asked) \in Nat
    BY <1>2, <1>3 DEF One
  <2>3. \A i \in 1..Len(asked) : i \in DOMAIN asked' /\ asked'[i] = asked[i]
    BY <1>3, <2>2
  <2>4. exit # "eof"
    BY <1>1 DEF AnswerInv, LastLine
  <2> QED BY <1>1, <2>1, <2>3, <2>4 DEF OneAnswerEach
<1>6. ASSUME ~Gone' PROVE InOrder'
  <2>1. PICK pos \in [1..(Len(channel) + 1) -> Nat] : Numbered(pos)
    BY <1>1, <1>6 DEF AnswerInv, InOrder, Gone
  <2>2. InHand' = InHand /\ One(held) = 0
    BY <1>1 DEF InHand, Busy, One, IsRequest, NoLine
  <2>3. pos[Len(channel) + 1] \in Nat /\ pos[1] \in Nat
    BY <1>2
  <2>4. Numbered(pos)'
    <3>1. /\ pos[1] = Len(answered)' + (IF InHand' THEN 2 ELSE 1)
          /\ InHand' => Len(answered)' < Len(asked)' /\ asked'[Len(answered)' + 1] = line'.id
      BY <1>1, <1>2, <1>3, <2>1, <2>2 DEF Numbered, One
    <3>2. \A i \in 1..Len(channel)' :
            /\ pos[i + 1] = pos[i] + One(channel'[i])
            /\ IsRequest(channel'[i]) => pos[i] \in 1..Len(asked)' /\ asked'[pos[i]] = channel'[i].id
      BY <1>1, <1>2, <1>3, <2>1 DEF Numbered, One
    <3>3. /\ Len(asked)' + 1 = pos[Len(channel)' + 1] + One(held')
          /\ IsRequest(held') => Len(asked)' > 0 /\ asked'[Len(asked)'] = held'.id
      <4>1. Len(asked) + 1 = pos[Len(channel) + 1] + 0
        BY <2>1, <2>2 DEF Numbered
      <4>2. Len(asked') + 1 = pos[Len(channel) + 1] + One(l)
        BY <1>2, <1>3, <2>3, <4>1 DEF One
      <4>3. IsRequest(l) => Len(asked') > 0
        BY <1>2, <1>3 DEF One
      <4> QED BY <1>1, <1>3, <4>2, <4>3
    <3> QED BY <3>1, <3>2, <3>3 DEF Numbered
  <2> QED BY <1>1, <2>4 DEF InOrder
<1> QED BY <1>4, <1>5, <1>6 DEF AnswerInv

LEMMA SendStep ==
  ASSUME AnswersTyped, AnswerInv, Send
  PROVE  AnswerInv'
<1>1. /\ held # NoLine /\ held \in Lines /\ held' = NoLine /\ reading' = (held # Eof)
      /\ channel' = Append(channel, held)
      /\ UNCHANGED <<asked, main, line, exit, answered>>
  BY DEF Send, Sending, NotInput, outputVars, AnswersTyped
<1>2. reading /\ \A i \in 1..Len(channel) : channel[i] # Eof
  BY <1>1 DEF AnswerInv, LastLine
<1>3. /\ channel \in Seq(Lines) /\ Len(channel) \in Nat /\ Len(channel') = Len(channel) + 1
      /\ \A i \in 1..Len(channel) : channel'[i] = channel[i]
      /\ channel'[Len(channel) + 1] = held
  <2>1. channel \in Seq(Lines)
    BY DEF AnswersTyped
  <2> QED BY <1>1, <2>1
<1>4. LastLine'
  <2>1. \A i \in 1..Len(channel') : channel'[i] = Eof => i = Len(channel') /\ ~reading'
    <3>1. held = Eof => ~reading'
      BY <1>1, Zenon
    <3>2. ASSUME NEW i \in 1..Len(channel'), channel'[i] = Eof
          PROVE  i = Len(channel') /\ held = Eof
      BY <1>2, <1>3, <3>2
    <3> QED BY <3>1, <3>2
  <2>2. ~(main' = "handle" /\ line' = Eof) /\ exit' # "eof"
    BY <1>1, <1>2 DEF AnswerInv, LastLine
  <2> QED BY <1>1, <2>1, <2>2 DEF LastLine
<1>5. OneAnswerEach'
  BY <1>1 DEF AnswerInv, OneAnswerEach
<1>6. ASSUME ~Gone' PROVE InOrder'
  <2>1. PICK pos \in [1..(Len(channel) + 1) -> Nat] : Numbered(pos)
    BY <1>1, <1>6 DEF AnswerInv, InOrder, Gone
  <2>2. InHand' = InHand /\ One(held') = 0 /\ ~IsRequest(held') /\ One(held) \in Nat
    BY <1>1 DEF InHand, Busy, One, IsRequest, NoLine
  <2> DEFINE last == pos[Len(channel) + 1]
  <2>3. PICK new \in [1..(Len(channel') + 1) -> Nat] :
          /\ \A i \in 1..(Len(channel) + 1) : new[i] = pos[i]
          /\ new[Len(channel') + 1] = last + One(held) /\ last \in Nat
    <3> DEFINE longer == [i \in 1..(Len(channel') + 1) |->
                            IF i <= Len(channel) + 1 THEN pos[i] ELSE last + One(held)]
    <3>1. /\ longer \in [1..(Len(channel') + 1) -> Nat]
          /\ \A i \in 1..(Len(channel) + 1) : longer[i] = pos[i]
          /\ longer[Len(channel') + 1] = last + One(held) /\ last \in Nat
      BY <1>3, <2>2
    <3> QED BY <3>1
  <2>4. Len(asked) + 1 = last + One(held) /\ Len(asked) \in Nat
    BY <2>1 DEF Numbered, AnswersTyped
  <2>5. IsRequest(held) => last \in 1..Len(asked) /\ asked[last] = held.id
    BY <2>1, <2>4 DEF Numbered, One
  <2>6. Numbered(new)'
    <3>1. /\ new[1] = Len(answered)' + (IF InHand' THEN 2 ELSE 1)
          /\ InHand' => Len(answered)' < Len(asked)' /\ asked'[Len(answered)' + 1] = line'.id
      BY <1>1, <1>3, <2>1, <2>2, <2>3 DEF Numbered
    <3>2. \A i \in 1..Len(channel)' :
            /\ new[i + 1] = new[i] + One(channel'[i])
            /\ IsRequest(channel'[i]) => new[i] \in 1..Len(asked)' /\ asked'[new[i]] = channel'[i].id
      BY <1>1, <1>3, <2>1, <2>3, <2>5 DEF Numbered
    <3>3. Len(asked)' + 1 = new[Len(channel)' + 1] + One(held')
      BY <1>1, <1>3, <2>2, <2>3, <2>4
    <3> QED BY <2>2, <3>1, <3>2, <3>3 DEF Numbered
  <2> QED BY <2>3, <2>6 DEF InOrder
<1> QED BY <1>4, <1>5, <1>6 DEF AnswerInv

LEMMA ReceiveStep ==
  ASSUME AnswersTyped, AnswerInv, Receive
  PROVE  AnswerInv'
<1>1. main = "receive" /\ ~Gone /\ ~InHand /\ UNCHANGED <<held, asked, reading, exit, answered>>
  BY DEF Receive, Gone, InHand, Busy, Operations, outputVars
<1>2. OneAnswerEach'
  BY <1>1 DEF AnswerInv, OneAnswerEach
<1>3. CASE channel = <<>>
  <2>1. main' = "top" /\ UNCHANGED <<line, channel>>
    BY <1>3 DEF Receive
  <2>2. ~InHand' /\ LastLine'
    BY <1>1, <2>1 DEF AnswerInv, LastLine, Gone, InHand, Busy, Operations
  <2>3. InOrder'
    BY <1>1, <2>1, <2>2 DEF AnswerInv, InOrder, Numbered
  <2> QED BY <1>2, <2>2, <2>3 DEF AnswerInv
<1>4. CASE channel # <<>>
  <2>1. /\ main' = "handle" /\ line' = channel[1] /\ Len(channel') = Len(channel) - 1
        /\ Len(channel) \in Nat \ {0} /\ (Len(channel') = 0 => channel' = <<>>)
        /\ \A i \in 1..Len(channel') : channel'[i] = channel[i + 1]
    <3>1. channel \in Seq(Lines)
      BY DEF AnswersTyped
    <3> QED BY <1>4, <3>1 DEF Receive
  <2>2. InHand' <=> IsRequest(channel[1])
    <3>1. main' \notin Busy /\ main' = "handle"
      BY <2>1 DEF Busy, Operations
    <3> QED BY <2>1, <3>1 DEF InHand
  <2>3. LastLine'
    <3>0. \A i \in 1..Len(channel) : channel[i] = Eof => i = Len(channel) /\ ~reading
      BY DEF AnswerInv, LastLine
    <3>1. line' = Eof => Len(channel) = 1 /\ ~reading
      <4>1. 1 \in 1..Len(channel) /\ line' = channel[1]
        BY <2>1
      <4> QED BY <3>0, <4>1, Zenon
    <3>2. line' = Eof => channel' = <<>>
      BY <2>1, <3>1
    <3>3. \A i \in 1..Len(channel') : channel'[i] = Eof => i = Len(channel') /\ ~reading
      BY <2>1, <3>0
    <3> QED BY <1>1, <2>1, <3>1, <3>2, <3>3 DEF AnswerInv, LastLine
  <2>4. PICK pos \in [1..(Len(channel) + 1) -> Nat] : Numbered(pos)
    BY <1>1 DEF AnswerInv, InOrder
  <2>5. PICK new \in [1..(Len(channel') + 1) -> Nat] :
          /\ \A i \in 1..(Len(channel') + 1) : new[i] = pos[i + 1]
          /\ pos[1] \in Nat
    <3> DEFINE shifted == [i \in 1..(Len(channel') + 1) |-> pos[i + 1]]
    <3>1. /\ shifted \in [1..(Len(channel') + 1) -> Nat] /\ pos[1] \in Nat
          /\ \A i \in 1..(Len(channel') + 1) : shifted[i] = pos[i + 1]
      BY <2>1
    <3> QED BY <3>1
  <2>6. /\ pos[1] = Len(answered) + 1 /\ pos[2] = pos[1] + One(channel[1])
        /\ IsRequest(channel[1]) => pos[1] \in 1..Len(asked) /\ asked[pos[1]] = channel[1].id
    BY <1>1, <2>1, <2>4 DEF Numbered
  <2>7. Len(answered) \in Nat /\ Len(asked) \in Nat
    BY DEF AnswersTyped
  <2>8. Numbered(new)'
    <3>1. /\ new[1] = Len(answered)' + (IF InHand' THEN 2 ELSE 1)
          /\ InHand' => Len(answered)' < Len(asked)' /\ asked'[Len(answered)' + 1] = line'.id
      BY <1>1, <2>1, <2>2, <2>5, <2>6, <2>7 DEF One
    <3>2. \A i \in 1..Len(channel)' :
            /\ new[i + 1] = new[i] + One(channel'[i])
            /\ IsRequest(channel'[i]) => new[i] \in 1..Len(asked)' /\ asked'[new[i]] = channel'[i].id
      <4>1. TAKE i \in 1..Len(channel')
      <4>2. i + 1 \in 1..Len(channel) /\ i \in 1..(Len(channel') + 1)
            /\ i + 1 \in 1..(Len(channel') + 1) /\ channel'[i] = channel[i + 1]
        BY <2>1
      <4>3. new[i] = pos[i + 1] /\ new[i + 1] = pos[(i + 1) + 1]
        BY <2>5, <4>2
      <4> QED BY <1>1, <2>4, <4>2, <4>3 DEF Numbered
    <3>3. /\ Len(asked)' + 1 = new[Len(channel)' + 1] + One(held')
          /\ IsRequest(held') => Len(asked)' > 0 /\ asked'[Len(asked)'] = held'.id
      <4>1. new[Len(channel') + 1] = pos[Len(channel) + 1]
        BY <2>1, <2>5
      <4> QED BY <1>1, <2>4, <4>1 DEF Numbered
    <3> QED BY <3>1, <3>2, <3>3 DEF Numbered
  <2> QED BY <1>2, <2>3, <2>5, <2>8 DEF AnswerInv, InOrder
<1> QED BY <1>3, <1>4

LEMMA OthersStep ==
  ASSUME AnswersTyped, AnswerInv, UNCHANGED inputVars, Keeps \/ Answers \/ Stops
  PROVE  AnswerInv'
<1> USE DEF inputVars
<1>1. CASE Keeps
  <2>1. OneAnswerEach' /\ LastLine'
    BY <1>1 DEF AnswerInv, OneAnswerEach, LastLine, Keeps
  <2>2. InOrder => InOrder'
    BY <1>1 DEF InOrder, Numbered, Keeps
  <2> QED BY <1>1, <2>1, <2>2 DEF AnswerInv, Keeps
<1>2. CASE Answers
  <2>1. ~Gone /\ InHand /\ ~InHand' /\ main' = "top" /\ answered' = Append(answered, line.id)
    BY <1>2 DEF Answers
  <2>2. PICK pos \in [1..(Len(channel) + 1) -> Nat] : Numbered(pos)
    BY <2>1 DEF AnswerInv, InOrder
  <2>3. /\ Len(answered) \in Nat /\ Len(asked) \in Nat
        /\ DOMAIN answered = 1..Len(answered) /\ DOMAIN asked = 1..Len(asked)
        /\ Len(answered) < Len(asked) /\ asked[Len(answered) + 1] = line.id
    BY <2>1, <2>2 DEF Numbered, AnswersTyped
  <2>4. /\ Len(answered') = Len(answered) + 1 /\ DOMAIN answered' = 1..Len(answered')
        /\ \A i \in 1..Len(answered) : answered'[i] = answered[i]
        /\ answered'[Len(answered) + 1] = line.id
    <3>1. answered \in Seq(Ids)
      BY DEF AnswersTyped
    <3> QED BY <2>1, <3>1
  <2>5. exit' # "eof"
    BY <1>2, <2>1 DEF Answers, AnswerInv, LastLine
  <2>6. OneAnswerEach'
    <3>1. \A i \in 1..Len(answered) : i \in DOMAIN asked /\ answered[i] = asked[i]
      BY <2>3 DEF AnswerInv, OneAnswerEach
    <3>2. ASSUME NEW i \in 1..(Len(answered) + 1)
          PROVE  i \in DOMAIN asked /\ answered'[i] = asked[i]
      <4>1. CASE i = Len(answered) + 1
        BY <2>3, <2>4, <4>1
      <4>2. CASE i \in 1..Len(answered)
        BY <2>4, <3>1, <4>2
      <4> QED BY <2>3, <4>1, <4>2
    <3> QED BY <2>4, <2>5, <3>2 DEF OneAnswerEach
  <2>7. LastLine'
    BY <2>1, <2>5 DEF AnswerInv, LastLine
  <2>8. Numbered(pos)'
    BY <2>1, <2>2, <2>3, <2>4 DEF Numbered
  <2> QED BY <2>6, <2>7, <2>8 DEF AnswerInv, InOrder
<1>3. CASE Stops
  <2>1. ~Gone /\ Gone' /\ answered' = answered /\ (exit' = "eof" => main = "handle" /\ line = Eof)
    BY <1>3 DEF Stops, Gone
  <2>2. PICK pos \in [1..(Len(channel) + 1) -> Nat] : Numbered(pos)
    BY <2>1 DEF AnswerInv, InOrder
  <2>3. exit' = "eof" => channel = <<>> /\ held = NoLine /\ ~reading
    BY <2>1 DEF AnswerInv, LastLine
  <2>4. exit' = "eof" => ~InHand /\ ~IsRequest(held)
    BY <2>1, <2>3 DEF InHand, Busy, Operations, IsRequest, Eof, NoLine
  <2>5. exit' = "eof" => Len(answered) = Len(asked)
    <3>1. channel = <<>> => Len(channel) = 0
      OBVIOUS
    <3> QED BY <2>2, <2>3, <2>4, <3>1 DEF Numbered, One
  <2>6. OneAnswerEach'
    BY <2>1, <2>5 DEF AnswerInv, OneAnswerEach
  <2>7. LastLine'
    BY <1>3, <2>1, <2>3 DEF AnswerInv, LastLine, Stops
  <2> QED BY <2>1, <2>6, <2>7 DEF AnswerInv
<1> QED BY <1>1, <1>2, <1>3

\* Every request that was read gets exactly one response, under its id and in the
\* order of the requests, whatever lines, faults and refusals there are; a clean
\* end of the input leaves none without.
THEOREM AnswersInOrder == Spec => []OneAnswerEach
<1>1. Init => AnswerInv
  <2> SUFFICES ASSUME Init PROVE AnswerInv
    OBVIOUS
  <2>1. OneAnswerEach /\ LastLine
    BY DEF Init, OneAnswerEach, LastLine
  <2>2. [i \in 1..1 |-> 1] \in [1..(Len(channel) + 1) -> Nat]
    BY DEF Init
  <2>3. Numbered([i \in 1..1 |-> 1])
    BY DEF Init, Numbered, InHand, Busy, Operations, IsRequest, One, NoLine
  <2> QED BY <2>1, <2>2, <2>3 DEF AnswerInv, InOrder
<1>2. TypeOK /\ AnswerInv /\ [Next]_vars => AnswerInv'
  BY AnswersAreTyped, ReadStep, SendStep, ReceiveStep, OthersStep, LoopStep DEF AnswerInv, Client
<1>3. AnswerInv => OneAnswerEach
  BY DEF AnswerInv
<1> QED BY <1>1, <1>2, <1>3, TypeCorrect, PTL DEF Spec
-----------------------------------------------------------------------------
\* What the messages o tell of the sessions up to the g-th.
Parts == {"begun", "halted", "ended"}
ToldIn(o, g) == {o[i].name : i \in {i \in DOMAIN o : IsTold(o[i]) /\ o[i].generation = g}}
FailedIn(o) == \E i \in DOMAIN o : o[i].kind = "response" /\ o[i].code = "STOP_FAILED"
Tale(o, g) ==
  /\ o \in Seq(Messages)
  /\ \A i, j \in DOMAIN o : i < j /\ IsTold(o[i]) /\ IsTold(o[j]) => Precedes(o[i], o[j])
  /\ \A i \in DOMAIN o : IsTold(o[i]) => o[i].generation <= g /\ o[i].name \in Parts

\* p is o and what it tells of the g-th session besides: names.
Adds(o, p, g, names) ==
  /\ Tale(p, g)
  /\ ToldIn(p, g) = ToldIn(o, g) \cup names
  /\ \A h : h # g => ToldIn(p, h) = ToldIn(o, h)
  /\ FailedIn(o) => FailedIn(p)

\* What comes next in the story of a session.
Follows(n, told) ==
  \/ n = "begun" /\ told = {}
  \/ n = "halted" /\ told \subseteq {"begun"}
  \/ n = "ended" /\ "ended" \notin told

LEMMA MessageTyped ==
  ASSUME NEW m \in Messages
  PROVE  IsTold(m) => m.generation \in Nat /\ m.name \in Names
BY DEF Messages, Responses, IsTold

LEMMA OneMore ==
  ASSUME NEW o \in Seq(Messages), NEW m \in Messages
  PROVE  /\ Append(o, m) \in Seq(Messages) /\ Len(o) \in Nat
         /\ DOMAIN o = 1..Len(o) /\ DOMAIN Append(o, m) = 1..(Len(o) + 1)
         /\ \A i \in 1..Len(o) : Append(o, m)[i] = o[i] /\ o[i] \in Messages
         /\ Append(o, m)[Len(o) + 1] = m
OBVIOUS

LEMMA AddMessage ==
  ASSUME NEW g \in Nat, NEW o, Tale(o, g), NEW m \in Messages,
         IsTold(m) => m.generation = g /\ Follows(m.name, ToldIn(o, g))
  PROVE  Adds(o, Append(o, m), g, IF IsTold(m) THEN {m.name} ELSE {})
<1> DEFINE p == Append(o, m)
           last == Len(o) + 1
<1>1. /\ p \in Seq(Messages) /\ Len(o) \in Nat
      /\ DOMAIN o = 1..Len(o) /\ DOMAIN p = 1..last
      /\ \A i \in 1..Len(o) : p[i] = o[i] /\ o[i] \in Messages
      /\ p[last] = m
  BY OneMore DEF Tale
<1> HIDE DEF p
<1>2. IsTold(m) => m.name \in Parts
  BY DEF Follows, Parts
<1>3. ASSUME NEW i \in 1..Len(o), IsTold(o[i]), IsTold(m)
      PROVE  Precedes(o[i], m)
  <2>1. o[i].generation <= g /\ o[i].name \in Parts /\ o[i].generation \in Nat
    BY <1>1, <1>3, MessageTyped DEF Tale
  <2>2. o[i].generation = g => o[i].name \in ToldIn(o, g)
    BY <1>1, <1>3 DEF ToldIn
  <2>3. CASE o[i].generation < g
    BY <1>3, <2>3 DEF Precedes
  <2>4. CASE o[i].generation = g
    <3>1. o[i].name \in ToldIn(o, g) /\ m.generation = o[i].generation
      BY <1>3, <2>2, <2>4
    <3>2. \/ m.name = "halted" /\ o[i].name = "begun"
          \/ m.name = "ended" /\ o[i].name \in {"begun", "halted"}
      BY <1>3, <2>1, <3>1 DEF Follows, Parts
    <3> QED BY <3>1, <3>2 DEF Precedes
  <2> QED BY <2>1, <2>3, <2>4
<1>4. Tale(p, g)
  <2>1. ASSUME NEW i \in 1..last, NEW j \in 1..last, i < j, IsTold(p[i]), IsTold(p[j])
        PROVE  Precedes(p[i], p[j])
    <3>1. i \in 1..Len(o) /\ p[i] = o[i]
      BY <1>1, <2>1
    <3>2. CASE j = last
      BY <1>1, <1>3, <2>1, <3>1, <3>2
    <3>3. CASE j \in 1..Len(o)
      BY <1>1, <2>1, <3>1, <3>3 DEF Tale
    <3> QED BY <1>1, <3>2, <3>3
  <2>2. ASSUME NEW i \in 1..last, IsTold(p[i])
        PROVE  p[i].generation <= g /\ p[i].name \in Parts
    <3>1. CASE i = last
      BY <1>1, <1>2, <2>2, <3>1
    <3>2. CASE i \in 1..Len(o)
      BY <1>1, <2>2, <3>2 DEF Tale
    <3> QED BY <1>1, <3>1, <3>2
  <2> QED BY <1>1, <2>1, <2>2 DEF Tale
<1>5. \A h : ToldIn(p, h) = ToldIn(o, h) \cup (IF IsTold(m) /\ m.generation = h THEN {m.name} ELSE {})
  <2>1. TAKE h
  <2>2. {i \in 1..last : IsTold(p[i]) /\ p[i].generation = h}
          = {i \in 1..Len(o) : IsTold(o[i]) /\ o[i].generation = h}
              \cup (IF IsTold(m) /\ m.generation = h THEN {last} ELSE {})
    BY <1>1
  <2> QED BY <1>1, <2>2 DEF ToldIn
<1>6. FailedIn(o) => FailedIn(p)
  BY <1>1 DEF FailedIn
<1>7. Adds(o, p, g, IF IsTold(m) THEN {m.name} ELSE {})
  BY <1>4, <1>5, <1>6, Zenon DEF Adds
<1> QED BY <1>7 DEF p

LEMMA AddEvent ==
  ASSUME NEW g \in Nat \ {0}, NEW o, Tale(o, g), NEW n \in Parts, Follows(n, ToldIn(o, g))
  PROVE  Adds(o, Append(o, Event(g, n)), g, {n})
<1> DEFINE m == Event(g, n)
<1>1. m \in Messages /\ IsTold(m) /\ m.generation = g /\ m.name = n
  BY DEF Messages, Event, Names, Parts, IsTold
<1> HIDE DEF m
<1>2. Adds(o, Append(o, m), g, IF IsTold(m) THEN {m.name} ELSE {})
  BY <1>1, AddMessage
<1>3. Adds(o, Append(o, m), g, {n})
  BY <1>1, <1>2
<1> QED BY <1>3 DEF m

LEMMA AddOther ==
  ASSUME NEW g \in Nat, NEW o, Tale(o, g), NEW m \in Messages, ~IsTold(m)
  PROVE  /\ Adds(o, Append(o, m), g, {})
         /\ m.kind = "response" /\ m.code = "STOP_FAILED" => FailedIn(Append(o, m))
<1>1. Adds(o, Append(o, m), g, {})
  <2>1. Adds(o, Append(o, m), g, IF IsTold(m) THEN {m.name} ELSE {})
    BY AddMessage
  <2> QED BY <2>1
<1>2. Len(o) + 1 \in DOMAIN Append(o, m) /\ Append(o, m)[Len(o) + 1] = m
  BY OneMore DEF Tale
<1> QED BY <1>1, <1>2 DEF FailedIn

LEMMA AddNothing ==
  ASSUME NEW g, NEW o, Tale(o, g)
  PROVE  Adds(o, o, g, {})
BY DEF Adds

LEMMA AddBoth ==
  ASSUME NEW g, NEW o, NEW p, NEW q, NEW m, NEW n, Adds(o, p, g, m), Adds(p, q, g, n)
  PROVE  Adds(o, q, g, m \cup n)
BY DEF Adds

\* The responses.
Answering == {<<>>} \cup {Response(code) : code \in Codes}

LEMMA AddResponse ==
  ASSUME NEW g \in Nat, NEW o, Tale(o, g), line.id \in Ids, NEW code \in Codes
  PROVE  /\ Adds(o, o \o Response(code), g, {})
         /\ code = "STOP_FAILED" => FailedIn(o \o Response(code))
<1> DEFINE m == [kind |-> "response", id |-> line.id, code |-> code]
<1>1. m \in Messages /\ ~IsTold(m) /\ m.kind = "response" /\ m.code = code
  BY DEF Messages, Responses, IsTold
<1>2. o \o Response(code) = Append(o, m)
  BY <1>1 DEF Tale, Response
<1> HIDE DEF m
<1> QED BY <1>1, <1>2, AddOther

\* The events that wait in the queue of a session, or those of a failed launch.
Queues == {<<>>, <<"halted">>, <<"ended">>, <<"halted", "ended">>}
NamesOf(names) == {names[i] : i \in DOMAIN names}

LEMMA QueueNames ==
  /\ NamesOf(<<>>) = {} /\ NamesOf(<<"halted">>) = {"halted"} /\ NamesOf(<<"ended">>) = {"ended"}
  /\ NamesOf(<<"halted", "ended">>) = {"halted", "ended"}
BY DEF NamesOf

LEMMA AddEvents ==
  ASSUME generation \in Nat \ {0}, NEW o, Tale(o, generation), NEW names \in Queues,
         "ended" \in NamesOf(names) => "ended" \notin ToldIn(o, generation),
         "halted" \in NamesOf(names) => ToldIn(o, generation) \subseteq {"begun"}
  PROVE  Adds(o, o \o Events(names), generation, NamesOf(names))
<1> DEFINE g == generation
           told == ToldIn(o, generation)
<1>0. o \in Seq(Messages) /\ \A n \in Parts : Event(g, n) \in Messages
  BY DEF Tale, Messages, Event, Names, Parts
<1>1. CASE names = <<>>
  <2>1. Events(names) = <<>>
    BY <1>1 DEF Events
  <2>2. o \o Events(names) = o
    BY <1>0, <2>1
  <2>3. Adds(o, o, g, {})
    BY AddNothing
  <2>4. NamesOf(names) = {}
    BY <1>1, QueueNames
  <2> QED BY <2>2, <2>3, <2>4, Zenon
<1>2. ASSUME NEW n \in Parts, names = <<n>>, Follows(n, told)
      PROVE  Adds(o, o \o Events(names), g, {n})
  <2>1. Events(names) = <<Event(g, n)>>
    BY <1>2 DEF Events
  <2>2. o \o Events(names) = Append(o, Event(g, n))
    BY <1>0, <2>1
  <2> QED BY <1>2, <2>2, AddEvent
<1>3. CASE names = <<"halted">>
  <2>1. Follows("halted", told) /\ "halted" \in Parts
    BY <1>3, QueueNames DEF Follows, Parts
  <2> QED BY <1>2, <1>3, <2>1, QueueNames
<1>4. CASE names = <<"ended">>
  <2>1. Follows("ended", told) /\ "ended" \in Parts
    BY <1>4, QueueNames DEF Follows, Parts
  <2> QED BY <1>2, <1>4, <2>1, QueueNames
<1>5. CASE names = <<"halted", "ended">>
  <2>1. Events(names) = <<Event(g, "halted"), Event(g, "ended")>>
    BY <1>5 DEF Events
  <2> DEFINE p == Append(o, Event(g, "halted"))
             q == Append(p, Event(g, "ended"))
  <2>2. o \o Events(names) = q
    BY <1>0, <2>1 DEF Parts
  <2>3. Adds(o, p, g, {"halted"})
    <3>1. Follows("halted", told) /\ "halted" \in Parts
      BY <1>5, QueueNames DEF Follows, Parts
    <3> QED BY <3>1, AddEvent
  <2> HIDE DEF p
  <2>4. Adds(p, q, g, {"ended"})
    <3>1. Follows("ended", ToldIn(p, g)) /\ "ended" \in Parts /\ Tale(p, g)
      BY <1>5, <2>3, QueueNames DEF Follows, Parts, Adds
    <3> QED BY <3>1, AddEvent
  <2> HIDE DEF q
  <2>5. Adds(o, q, g, {"halted"} \cup {"ended"})
    BY <2>3, <2>4, AddBoth
  <2> QED BY <1>5, <2>2, <2>5, QueueNames
<1> QED BY <1>1, <1>3, <1>4, <1>5 DEF Queues

\* Events and a response that are printed.
LEMMA Printed ==
  ASSUME generation \in Nat \ {0}, Tale(out, generation), NEW names \in Queues,
         "ended" \in NamesOf(names) => "ended" \notin ToldIn(out, generation),
         "halted" \in NamesOf(names) => ToldIn(out, generation) \subseteq {"begun"},
         NEW response \in Answering, response # <<>> => line.id \in Ids,
         NEW next, NEW why, Emit(Events(names), response, next, why), ~broken
  PROVE  Adds(out, out', generation, NamesOf(names)) /\ main' = next /\ exit' = why
<1> DEFINE p == out \o Events(names)
<1>1. Adds(out, p, generation, NamesOf(names))
  BY AddEvents
<1>2. out' = p \o response /\ main' = next /\ exit' = why
  BY DEF Emit
<1> HIDE DEF p
<1>3. Tale(p, generation)
  BY <1>1 DEF Adds
<1>4. Adds(p, p \o response, generation, {})
  <2>1. CASE response = <<>>
    <3>1. p \o response = p
      BY <1>3, <2>1 DEF Tale
    <3> QED BY <1>3, <3>1, AddNothing
  <2>2. CASE response # <<>>
    <3>1. PICK code \in Codes : response = Response(code)
      BY <2>2 DEF Answering
    <3> QED BY <1>3, <2>2, <3>1, AddResponse
  <2> QED BY <2>1, <2>2
<1>5. Adds(out, p \o response, generation, NamesOf(names) \cup {})
  BY <1>1, <1>4, AddBoth
<1> QED BY <1>2, <1>5

\* Why the rest of a story may not be told.
Excused == broken \/ StopFailed \/ exit = "failed"

\* The story of each session begins at the beginning; each is over before the next.
Past ==
  /\ Tale(out, generation)
  /\ \A g \in 1..generation :
       /\ Told(g) # {} => "begun" \in Told(g)
       /\ g < generation => Excused \/ Ended(g)

\* The last session: being launched, owned by the loop, or over.
Launching == main \in {"launching", "launched"}
LaunchStory ==
  Launching =>
    /\ ~slot /\ generation > 0
    /\ Told(generation) \subseteq {"begun"} /\ (broken \/ "begun" \in Told(generation))
    /\ engine = (IF main = "launching" THEN "starting" ELSE "live")
    /\ queue = (IF main = "launching" THEN <<>> ELSE <<"halted">>)
OwnedStory ==
  slot =>
    /\ generation > 0 /\ engine \in {"live", "ended"} /\ queue \in {<<>>, <<"ended">>}
    /\ broken \/ "begun" \in Told(generation)
    /\ engine = "live" => queue = <<>>
    /\ engine = "live" \/ queue # <<>> => ~Ended(generation)
    /\ engine = "ended" /\ queue = <<>> => broken \/ Ended(generation)
OverStory ==
  generation > 0 /\ (Gone \/ (~slot /\ ~Launching)) => Excused \/ Ended(generation)
ExitStory == exit # "none" => Gone

StoryInv == Past /\ LaunchStory /\ OwnedStory /\ OverStory /\ ExitStory
StoryTyped ==
  /\ generation \in Nat /\ broken \in BOOLEAN /\ slot \in BOOLEAN
  /\ engine \in {"none", "starting", "live", "ended"}
  /\ main \in Busy => line.id \in Ids

LEMMA StoryIsTyped == TypeOK => StoryTyped
BY DEF TypeOK, LoopOK, SessionOK, HistoryOK, StoryTyped, Busy

\* What is told of a session, under its two names.
LEMMA ToldOut ==
  /\ \A g : Told(g) = ToldIn(out, g)
  /\ StopFailed <=> FailedIn(out)
BY DEF Told, ToldIn, StopFailed, FailedIn

\* A session of which nothing more can be told has been told of.
LEMMA PastStep ==
  ASSUME StoryTyped, Past, generation' = generation, NEW names,
         Adds(out, out', generation, names),
         names # {} => generation > 0 /\ "begun" \in Told(generation),
         Excused => Excused'
  PROVE  Past' /\ Told(generation)' = Told(generation) \cup names
<1>1. /\ Told(generation)' = Told(generation) \cup names
      /\ \A h : h # generation => Told(h)' = Told(h)
  <2>1. /\ \A h : Told(h)' = ToldIn(out', h) /\ Told(h) = ToldIn(out, h)
        /\ Told(generation)' = ToldIn(out', generation')
    BY DEF Told, ToldIn
  <2> QED BY <2>1 DEF Adds
<1>2. Tale(out', generation')
  BY DEF Adds
<1>3. ASSUME NEW g \in 1..generation
      PROVE  /\ Told(g)' # {} => "begun" \in Told(g)'
             /\ g < generation => Excused' \/ Ended(g)'
  BY <1>1 DEF Past, Ended, StoryTyped
<1> QED BY <1>1, <1>2, <1>3 DEF Past

\* Steps that tell of no session: they leave what the story is about alone.
Idle == {"top", "receive", "handle", "operating"} \cup Operations
Quiet ==
  /\ UNCHANGED <<out, generation, queue, engine, slot, exit>> /\ (broken => broken')
  /\ main' = main \/ (main \in Idle /\ main' \in Idle)

LEMMA QuietStory ==
  ASSUME StoryTyped, StoryInv, Quiet
  PROVE  StoryInv'
<1>1. /\ UNCHANGED <<out, generation, queue, engine, slot, exit>> /\ (broken => broken')
      /\ Launching' = Launching /\ Gone' = Gone /\ (Launching => main' = main)
  BY DEF Quiet, Launching, Gone, Idle, Operations
<1>2. /\ \A g : Told(g)' = Told(g) /\ Ended(g)' = Ended(g)
      /\ Told(generation)' = Told(generation) /\ Ended(generation)' = Ended(generation)
      /\ StopFailed' = StopFailed
  BY <1>1 DEF Told, Ended, StopFailed
<1>3. Excused => Excused'
  BY <1>1, <1>2 DEF Excused
<1>4. Past'
  BY <1>1, <1>2, <1>3 DEF StoryInv, Past
<1>5. LaunchStory'
  BY <1>1, <1>2 DEF StoryInv, LaunchStory
<1>6. OwnedStory'
  BY <1>1, <1>2 DEF StoryInv, OwnedStory
<1>7. OverStory' /\ ExitStory'
  BY <1>1, <1>2, <1>3 DEF StoryInv, OverStory, ExitStory
<1> QED BY <1>4, <1>5, <1>6, <1>7 DEF StoryInv

\* What has been queued for a session is owed.
Owed ==
  slot' =>
    /\ slot /\ engine' \in {"live", "ended"} /\ queue' \in {<<>>, <<"ended">>}
    /\ engine' = "live" => engine = "live" /\ queue' = <<>>
    /\ queue' # <<>> => engine = "live" \/ queue # <<>>

\* Printing fails: the loop is left with an error.
LEMMA FailStory ==
  ASSUME StoryTyped, StoryInv, broken, broken', Owed,
         main' = "leaving", exit' = "failed", UNCHANGED <<out, generation>>
  PROVE  StoryInv'
<1>1. /\ \A g : Told(g)' = Told(g) /\ Ended(g)' = Ended(g)
      /\ Told(generation)' = Told(generation) /\ Ended(generation)' = Ended(generation)
      /\ Excused' /\ Gone' /\ ~Launching'
  BY DEF Told, Ended, Excused, Gone, Launching
<1>2. Past'
  BY <1>1 DEF StoryInv, Past
<1>3. OwnedStory'
  BY <1>1 DEF StoryInv, OwnedStory, Owed
<1>4. LaunchStory' /\ OverStory' /\ ExitStory'
  BY <1>1 DEF LaunchStory, OverStory, ExitStory
<1> QED BY <1>2, <1>3, <1>4 DEF StoryInv

\* Printing works: names more are told of the last session.
LEMMA TellStory ==
  ASSUME StoryTyped, StoryInv, ~broken, UNCHANGED <<broken, generation>>, ~Launching', exit # "failed",
         NEW names, Adds(out, out', generation, names),
         names # {} => generation > 0 /\ "begun" \in Told(generation),
         exit' # "none" => main' = "leaving",
         slot' => generation > 0 /\ "begun" \in Told(generation) \cup names
                  /\ engine' \in {"live", "ended"} /\ queue' \in {<<>>, <<"ended">>}
                  /\ (engine' = "live" => queue' = <<>>),
         slot' => (engine' = "live" \/ queue' # <<>> <=> "ended" \notin Told(generation) \cup names),
         generation > 0 /\ (Gone' \/ ~slot') => Excused' \/ "ended" \in Told(generation) \cup names
  PROVE  StoryInv'
<1>1. Excused => Excused'
  <2>1. StopFailed => StopFailed'
    BY ToldOut DEF Adds, StopFailed, FailedIn
  <2> QED BY <2>1 DEF Excused
<1>2. Past' /\ Told(generation)' = Told(generation) \cup names
  BY <1>1, PastStep DEF StoryInv
<1>3. Ended(generation)' <=> "ended" \in Told(generation) \cup names
  BY <1>2 DEF Ended
<1>4. LaunchStory' /\ ExitStory'
  BY DEF LaunchStory, ExitStory, Gone
<1>5. OwnedStory'
  BY <1>2, <1>3 DEF OwnedStory
<1>6. OverStory'
  BY <1>3 DEF OverStory
<1> QED BY <1>2, <1>4, <1>5, <1>6 DEF StoryInv

\* What waits in the queue of an owned session, once it has ended, is its end.
LEMMA AfterEndQueued ==
  ASSUME StoryTyped, StoryInv, slot
  PROVE  /\ generation \in Nat \ {0} /\ Tale(out, generation) /\ ToldIn(out, generation) = Told(generation)
         /\ AfterEnd \in {<<>>, <<"ended">>} /\ Taken \in {<<>>, <<"ended">>}
         /\ AfterEnd # <<>> => ~Ended(generation)
         /\ AfterEnd = <<>> => broken \/ Ended(generation)
         /\ Taken # AfterEnd => engine = "live" /\ Taken = <<>>
<1>1. generation \in Nat \ {0} /\ Tale(out, generation) /\ ToldIn(out, generation) = Told(generation)
  BY ToldOut DEF StoryTyped, StoryInv, OwnedStory, Past
<1>2. CASE engine = "live"
  <2>1. queue = <<>> /\ AfterEnd = <<"ended">> /\ ~Ended(generation)
    BY <1>2 DEF StoryInv, OwnedStory, AfterEnd
  <2>2. (Taken = <<>> \/ Taken = AfterEnd) /\ <<"ended">> # <<>>
    BY <2>1 DEF Taken
  <2>3. AfterEnd # <<>> /\ (Taken # AfterEnd => Taken = <<>>)
    BY <2>1, <2>2
  <2>4. AfterEnd \in {<<>>, <<"ended">>} /\ Taken \in {<<>>, <<"ended">>}
    BY <2>1, <2>2
  <2> QED BY <1>1, <1>2, <2>1, <2>3, <2>4, Zenon
<1>3. CASE engine # "live"
  <2>1. AfterEnd = queue /\ Taken = queue /\ engine = "ended"
    BY <1>3 DEF StoryInv, OwnedStory, AfterEnd, Taken
  <2> QED BY <1>1, <2>1 DEF StoryInv, OwnedStory
<1> QED BY <1>2, <1>3

LEMMA EmptiedStory ==
  ASSUME StoryTyped, StoryInv, slot, main = "top", NEW names \in {AfterEnd, Taken}, NEW next, NEW why,
         Emit(Events(names), <<>>, next, why), next \in {"leaving", "receive"},
         UNCHANGED <<generation, slot, broken>>, queue' = <<>>,
         why # "none" => next = "leaving", next = "leaving" => names = AfterEnd,
         engine' = IF names = AfterEnd /\ engine = "live" THEN "ended" ELSE engine
  PROVE  StoryInv'
<1>0. exit = "none" /\ engine \in {"live", "ended"}
  BY DEF StoryInv, ExitStory, OwnedStory, Gone
<1>3. names # AfterEnd => names = <<>> /\ AfterEnd # <<>> /\ engine = "live"
  <2>1. Taken # AfterEnd => engine = "live" /\ Taken = <<>>
    BY AfterEndQueued
  <2>2. names # AfterEnd => names = Taken
    OBVIOUS
  <2>3. names # AfterEnd => Taken = <<>> /\ engine = "live"
    BY <2>1, <2>2
  <2>4. names # AfterEnd => names = <<>>
    BY <2>2, <2>3
  <2> QED BY <2>3, <2>4
<1>1. CASE broken
  <2>1. main' = "leaving" /\ exit' = "failed" /\ out' = out
    BY <1>1 DEF Emit, outputVars
  <2>2. Owed
    BY <1>0 DEF Owed
  <2> QED BY <1>1, <2>1, <2>2, FailStory
<1>2. CASE ~broken
  <2>1. names \in Queues /\ names \in {<<>>, <<"ended">>}
    BY AfterEndQueued DEF Queues
  <2>2. NamesOf(names) = IF names = <<>> THEN {} ELSE {"ended"}
    BY <2>1, QueueNames
  <2>3. /\ "ended" \in NamesOf(names) => "ended" \notin ToldIn(out, generation)
        /\ "halted" \notin NamesOf(names)
    <3>1. names # <<>> => names = AfterEnd
      BY <1>3, Zenon
    <3>2. names # <<>> => "ended" \notin ToldIn(out, generation)
      BY <3>1, AfterEndQueued DEF Ended
    <3> QED BY <2>2, <3>2
  <2>4. Adds(out, out', generation, NamesOf(names)) /\ main' = next /\ exit' = why
    BY <1>2, <2>1, <2>3, AfterEndQueued, Printed DEF Answering
  <2>5. "begun" \in Told(generation) /\ generation > 0
    BY <1>2 DEF StoryInv, OwnedStory
  <2>6. engine' = "live" <=> "ended" \notin Told(generation) \cup NamesOf(names)
    <3>1. CASE names = AfterEnd
      <4>1. engine' = "ended"
        BY <1>0, <3>1
      <4>2. AfterEnd = <<>> => Ended(generation)
        BY <1>2, AfterEndQueued
      <4> QED BY <2>1, <2>2, <3>1, <4>1, <4>2 DEF Ended
    <3>2. CASE names # AfterEnd
      <4>1. engine' = "live" /\ names = <<>> /\ AfterEnd # <<>>
        BY <1>3, <3>2, Zenon
      <4>2. ~Ended(generation)
        BY <4>1, AfterEndQueued
      <4> QED BY <2>2, <4>1, <4>2 DEF Ended
    <3> QED BY <3>1, <3>2
  <2>7. next = "leaving" => "ended" \in Told(generation) \cup NamesOf(names)
    BY <1>2, <2>1, <2>2, AfterEndQueued DEF Ended
  <2>8. ~Launching' /\ (Gone' => next = "leaving")
    BY <2>4 DEF Launching, Gone
  <2> QED BY <1>0, <1>2, <2>4, <2>5, <2>6, <2>7, <2>8, TellStory
<1> QED BY <1>1, <1>2

LEMMA LoopTopStory ==
  ASSUME StoryTyped, StoryInv, EmitEvents \/ Interrupted
  PROVE  StoryInv'
<1>0. main = "top" /\ UNCHANGED <<generation, slot, broken>>
  BY DEF EmitEvents, Interrupted
<1>1. CASE slot /\ EmitEvents
  <2>1. exit = "none"
    BY <1>0 DEF StoryInv, ExitStory, Gone
  <2>2. Emit(Events(Taken), <<>>, "receive", "none") /\ Emptied
    BY <1>1, <2>1 DEF EmitEvents
  <2>3. engine' = IF Taken = AfterEnd /\ engine = "live" THEN "ended" ELSE engine
    <3>1. doomed => Taken = AfterEnd
      BY DEF Taken
    <3>2. engine = "live" /\ Taken = AfterEnd => doomed
      <4>1. engine = "live" => AfterEnd = <<"ended">> /\ queue = <<>>
        BY <1>1 DEF StoryInv, OwnedStory, AfterEnd
      <4> QED BY <4>1 DEF Taken
    <3> QED BY <2>2, <3>1, <3>2 DEF Emptied
  <2> QED BY <1>0, <1>1, <2>2, <2>3, EmptiedStory DEF Emptied
<1>2. CASE slot /\ Interrupted
  <2>1. /\ Emit(Events(AfterEnd), <<>>, "leaving", "interrupted") /\ queue' = <<>>
        /\ engine' = IF AfterEnd = AfterEnd /\ engine = "live" THEN "ended" ELSE engine
    BY <1>2 DEF Interrupted
  <2> QED BY <1>0, <1>2, <2>1, EmptiedStory
<1>3. CASE ~slot /\ EmitEvents
  <2>1. Quiet
    BY <1>3 DEF EmitEvents, Quiet, Idle, outputVars
  <2> QED BY <2>1, QuietStory
<1>4. CASE ~slot /\ Interrupted
  <2>1. /\ main' = "leaving" /\ exit' = "interrupted" /\ UNCHANGED <<out, queue, engine>>
    BY <1>4 DEF Interrupted, outputVars
  <2>2. CASE broken
    <3>1. /\ \A g : Told(g)' = Told(g) /\ Ended(g)' = Ended(g)
          /\ Told(generation)' = Told(generation) /\ Ended(generation)' = Ended(generation)
          /\ Excused' /\ Gone' /\ ~Launching' /\ ~slot'
      BY <1>0, <1>4, <2>1, <2>2 DEF Told, Ended, Excused, Gone, Launching
    <3> QED BY <1>0, <2>1, <3>1 DEF StoryInv, Past, LaunchStory, OwnedStory, OverStory, ExitStory
  <2>3. CASE ~broken
    <3>1. Adds(out, out', generation, {})
      BY <2>1, AddNothing DEF StoryInv, Past
    <3>2. ~Launching /\ ~Launching' /\ exit = "none"
      BY <1>0, <2>1 DEF Launching, StoryInv, ExitStory, Gone
    <3>3. generation > 0 => Excused' \/ "ended" \in Told(generation) \cup {}
      <4>1. Excused => Excused'
        BY <1>0, <2>1, <3>2 DEF Excused, StopFailed
      <4> QED BY <1>4, <3>2, <4>1 DEF StoryInv, OverStory, Ended
    <3> QED BY <1>0, <1>4, <2>1, <2>3, <3>1, <3>2, <3>3, TellStory
  <2> QED BY <2>2, <2>3
<1> QED BY <1>1, <1>2, <1>3, <1>4 DEF StoryTyped

\* A response, or a protocol error: the operation in hand may have ended the session.
LEMMA AnswerStory ==
  ASSUME StoryTyped, StoryInv, main \in Idle, UNCHANGED <<generation, slot, broken>>,
         UNCHANGED <<queue, engine>> \/ (queue' = AfterEnd /\ engine' = "ended"),
         broken => main' = "leaving" /\ exit' = "failed" /\ UNCHANGED out,
         ~broken => main' = "top" /\ UNCHANGED exit /\ Adds(out, out', generation, {})
  PROVE  StoryInv'
<1>0. exit = "none" /\ ~Launching /\ ~Gone
  BY DEF StoryInv, ExitStory, Gone, Idle, Operations, Launching
<1>1. slot => engine' \in {"live", "ended"} /\ queue' \in {<<>>, <<"ended">>} /\ (engine' = "live" => queue' = <<>>)
  BY AfterEndQueued DEF StoryInv, OwnedStory
<1>2. CASE broken
  <2>1. Owed
    BY <1>1, AfterEndQueued DEF Owed, StoryInv, OwnedStory, AfterEnd
  <2> QED BY <1>2, <2>1, FailStory
<1>3. CASE ~broken
  <2>1. slot => (engine' = "live" \/ queue' # <<>> <=> "ended" \notin Told(generation) \cup {})
    BY <1>3, AfterEndQueued DEF StoryInv, OwnedStory, Ended
  <2>2. Excused => Excused'
    <3>1. StopFailed => StopFailed'
      BY <1>3 DEF Adds, StopFailed, FailedIn
    <3> QED BY <1>3, <3>1 DEF Excused
  <2>3. ~Launching' /\ ~Gone' /\ exit' = "none"
    BY <1>0, <1>3 DEF Launching, Gone
  <2>4. generation > 0 /\ ~slot => Excused' \/ "ended" \in Told(generation) \cup {}
    BY <1>0, <2>2 DEF StoryInv, OverStory, Ended
  <2>5. slot => generation > 0 /\ "begun" \in Told(generation) \cup {}
    BY <1>3 DEF StoryInv, OwnedStory
  <2> QED BY <1>0, <1>1, <1>3, <2>1, <2>3, <2>4, <2>5, TellStory
<1> QED BY <1>2, <1>3

LEMMA ResponsePrinted ==
  ASSUME StoryTyped, StoryInv, NEW code \in Codes, line.id \in Ids, NEW next, NEW why,
         Emit(<<>>, Response(code), next, why), ~broken
  PROVE  /\ Adds(out, out', generation, {}) /\ main' = next /\ exit' = why
         /\ code = "STOP_FAILED" => StopFailed'
<1>1. Tale(out, generation) /\ generation \in Nat
  BY DEF StoryTyped, StoryInv, Past
<1>2. out' = out \o <<>> \o Response(code) /\ out \o <<>> = out
  BY <1>1 DEF Emit, Tale
<1>3. out' = out \o Response(code)
  BY <1>2
<1>4. Adds(out, out', generation, {}) /\ (code = "STOP_FAILED" => FailedIn(out'))
  BY <1>1, <1>3, AddResponse
<1> QED BY <1>4 DEF Emit, StopFailed, FailedIn

LEMMA AnsweringStory ==
  ASSUME TypeOK, StoryInv,
         ProtocolError \/ Reject \/ (Accept /\ line.id \in seen) \/ Refuse
           \/ OperationFails \/ OperationReturns
  PROVE  StoryInv'
<1>0. StoryTyped
  BY StoryIsTyped
<1>1. /\ main \in Idle /\ UNCHANGED <<generation, slot, broken>>
      /\ UNCHANGED <<queue, engine>> \/ (queue' = AfterEnd /\ engine' = "ended")
  BY DEF ProtocolError, Reject, Accept, Refuse, OperationFails, OperationReturns, Answer, Idle,
         sessionVars
<1>2. CASE ProtocolError
  <2> DEFINE m == Event(0, "protocol.error")
  <2>1. m \in Messages /\ ~IsTold(m)
    BY DEF Event, Messages, Names, IsTold
  <2>2. Tale(out, generation) /\ generation \in Nat
    BY <1>0 DEF StoryTyped, StoryInv, Past
  <2>3. out \o <<m>> \o <<>> = Append(out, m)
    BY <2>1, <2>2 DEF Tale
  <2>4. /\ ~broken => main' = "top" /\ UNCHANGED exit /\ out' = Append(out, m)
        /\ broken => main' = "leaving" /\ exit' = "failed" /\ UNCHANGED out
    BY <1>2, <2>3 DEF ProtocolError, Emit, outputVars
  <2> HIDE DEF m
  <2>5. ~broken => Adds(out, out', generation, {})
    BY <2>1, <2>2, <2>4, AddOther
  <2> QED BY <1>0, <1>1, <2>4, <2>5, AnswerStory
<1>3. CASE ~ProtocolError
  <2>1. PICK code \in Codes : Emit(<<>>, Response(code), "top", exit)
    BY <1>3 DEF Reject, Accept, Refuse, OperationFails, OperationReturns, Answer, Codes
  <2>2. line.id \in Ids
    <3>1. main \in Busy \/ (main = "handle" /\ line.kind \in {"other"} \cup Operations)
      BY <1>3 DEF Reject, Accept, Refuse, OperationFails, OperationReturns, Busy
    <3> QED BY <1>0, <3>1, LineHasId DEF StoryTyped, TypeOK
  <2>3. broken => main' = "leaving" /\ exit' = "failed" /\ UNCHANGED out
    BY <2>1 DEF Emit, outputVars
  <2>4. ~broken => main' = "top" /\ UNCHANGED exit /\ Adds(out, out', generation, {})
    BY <1>0, <2>1, <2>2, ResponsePrinted
  <2> QED BY <1>0, <1>1, <2>3, <2>4, AnswerStory
<1> QED BY <1>2, <1>3

LEMMA LaunchIsNext ==
  ASSUME StoryTyped, StoryInv, Launch
  PROVE  StoryInv'
<1> DEFINE g == generation + 1
           m == Event(g, "begun")
<1>0. /\ generation \in Nat /\ g \in Nat \ {0} /\ Tale(out, generation)
      /\ generation' = g /\ main' = "launching" /\ engine' = "starting" /\ queue' = <<>>
      /\ ~slot' /\ UNCHANGED <<broken, exit>> /\ exit = "none"
      /\ main = "start" /\ ~slot
  BY DEF Launch, StoryTyped, StoryInv, Past, ExitStory, Gone
<1>1. Tale(out, g) /\ ToldIn(out, g) = {}
  <2>1. \A i \in DOMAIN out : IsTold(out[i]) => out[i].generation \in Nat /\ out[i].generation <= generation
    <3>1. ASSUME NEW i \in DOMAIN out, IsTold(out[i])
          PROVE  out[i].generation \in Nat /\ out[i].generation <= generation
      <4>1. out[i] \in Messages
        BY <1>0 DEF Tale
      <4> QED BY <1>0, <3>1, <4>1, MessageTyped DEF Tale
    <3> QED BY <3>1
  <2>2. \A i \in DOMAIN out : IsTold(out[i]) => out[i].generation <= g /\ out[i].generation # g
    BY <1>0, <2>1
  <2>3. {i \in DOMAIN out : IsTold(out[i]) /\ out[i].generation = g} = {}
    BY <2>2
  <2> QED BY <1>0, <2>2, <2>3 DEF Tale, ToldIn
<1>2. /\ out' = IF broken THEN out ELSE Append(out, m)
  <2>1. out \o <<m>> = Append(out, m)
    BY <1>0, EventTyped DEF Tale, Names
  <2> QED BY <2>1 DEF Launch, Live
<1> HIDE DEF m
<1>3. Adds(out, Append(out, m), g, {"begun"})
  <2>1. Follows("begun", ToldIn(out, g)) /\ "begun" \in Parts
    BY <1>1 DEF Follows, Parts
  <2> QED BY <1>0, <1>1, <2>1, AddEvent DEF m
<1>4. /\ Tale(out', g)
      /\ \A h : h # g => ToldIn(out', h) = ToldIn(out, h)
      /\ ToldIn(out', g) = IF broken THEN {} ELSE {"begun"}
      /\ FailedIn(out) => FailedIn(out')
  BY <1>1, <1>2, <1>3 DEF Adds
<1> HIDE DEF g
<1>5. /\ \A h : Told(h)' = ToldIn(out', h) /\ Told(h) = ToldIn(out, h)
      /\ Told(generation)' = ToldIn(out', g)
      /\ Told(generation) = ToldIn(out, generation)
  BY <1>0 DEF Told, ToldIn
<1>6. Excused => Excused'
  <2>1. StopFailed => StopFailed'
    BY <1>4 DEF StopFailed, FailedIn
  <2> QED BY <1>0, <2>1 DEF Excused
<1>7. Past'
  <2>1. ASSUME NEW h \in 1..g
        PROVE  /\ Told(h)' # {} => "begun" \in Told(h)'
               /\ h < g => Excused' \/ Ended(h)'
    <3>1. CASE h = g
      <4>1. Told(h)' = ToldIn(out', g)
        BY <1>5, <3>1
      <4> QED BY <1>0, <1>4, <3>1, <4>1
    <3>2. CASE h \in 1..generation /\ h # g
      <4>1. Told(h)' = Told(h) /\ Ended(h)' = Ended(h)
        BY <1>4, <1>5, <3>2 DEF Ended
      <4>2. h = generation => Excused \/ Ended(h)
        BY <1>0, <3>2 DEF StoryInv, OverStory, Launching
      <4>3. h < generation => Excused \/ Ended(h)
        BY <3>2 DEF StoryInv, Past
      <4> QED BY <1>0, <1>6, <3>2, <4>1, <4>2, <4>3 DEF StoryInv, Past
    <3> QED BY <1>0, <3>1, <3>2 DEF g
  <2> QED BY <1>0, <1>4, <2>1 DEF Past
<1>8. LaunchStory' /\ OwnedStory' /\ OverStory' /\ ExitStory'
  BY <1>0, <1>4, <1>5 DEF LaunchStory, OwnedStory, OverStory, ExitStory, Launching, Gone, g
<1> QED BY <1>7, <1>8 DEF StoryInv

LEMMA AppendToOne ==
  ASSUME NEW q, q = <<"halted">>
  PROVE  Append(q, "ended") = <<"halted", "ended">>
<1>0. q \in Seq(Parts) /\ "ended" \in Parts
  BY DEF Parts
<1>1. /\ Append(q, "ended") \in Seq(Parts) /\ Len(Append(q, "ended")) = 2
      /\ Append(q, "ended")[1] = "halted" /\ Append(q, "ended")[2] = "ended"
  BY <1>0
<1>2. <<"halted", "ended">> \in Seq(Parts)
  BY DEF Parts
<1>3. \A s, t \in Seq(Parts) : Len(s) = 2 /\ Len(t) = 2 /\ s[1] = t[1] /\ s[2] = t[2] => s = t
  OBVIOUS
<1> QED BY <1>1, <1>2, <1>3

\* A launch that is over, one way or the other.
LEMMA LaunchingStory ==
  ASSUME StoryTyped, StoryInv, LaunchFails \/ Launched \/ Started
  PROVE  StoryInv'
<1>0. /\ generation \in Nat \ {0} /\ UNCHANGED <<generation, broken>> /\ Launching
      /\ Tale(out, generation) /\ ToldIn(out, generation) = Told(generation)
      /\ ~slot /\ Told(generation) \subseteq {"begun"} /\ (broken \/ "begun" \in Told(generation))
      /\ exit = "none" /\ line.id \in Ids
  BY ToldOut DEF LaunchFails, Launched, Started, StoryTyped, StoryInv, Past, LaunchStory, Launching,
                 ExitStory, Gone, Busy
<1>1. CASE Launched
  <2>1. /\ main' = "launched" /\ engine' = "live" /\ queue' = <<"halted">>
        /\ UNCHANGED <<slot, exit, out, broken, generation>>
    BY <1>1 DEF Launched, outputVars
  <2>2. /\ \A g : Told(g)' = Told(g) /\ Ended(g)' = Ended(g)
        /\ Told(generation)' = Told(generation) /\ Ended(generation)' = Ended(generation)
        /\ (Excused => Excused') /\ Launching' /\ ~Gone'
    BY <2>1 DEF Told, Ended, Excused, StopFailed, Launching, Gone
  <2>3. Past'
    BY <2>1, <2>2 DEF StoryInv, Past
  <2>4. LaunchStory'
    BY <1>0, <2>1, <2>2 DEF LaunchStory
  <2>5. OwnedStory' /\ OverStory' /\ ExitStory'
    BY <1>0, <2>1, <2>2 DEF OwnedStory, OverStory, ExitStory
  <2> QED BY <2>3, <2>4, <2>5 DEF StoryInv
<1>2. ASSUME NEW names \in Queues, NEW code \in Codes,
             Emit(Events(names), Response(code), "top", exit), slot' => slot' = ~broken,
             names = <<"ended">> \/ names = <<"halted">> \/ names = <<"halted", "ended">>,
             slot' \/ "ended" \in NamesOf(names) \/ broken,
             slot' => engine' \in {"live", "ended"} /\ queue' = <<>>
                      /\ (engine' = "live" <=> "ended" \notin NamesOf(names))
      PROVE  StoryInv'
  <2>1. CASE broken
    <3>1. main' = "leaving" /\ exit' = "failed" /\ out' = out /\ ~slot'
      BY <1>2, <2>1 DEF Emit, outputVars
    <3> QED BY <1>0, <2>1, <3>1, FailStory DEF Owed
  <2>2. CASE ~broken
    <3>1. /\ "ended" \notin ToldIn(out, generation) /\ ToldIn(out, generation) \subseteq {"begun"}
          /\ Response(code) \in Answering
      BY <1>0 DEF Answering
    <3>2. Adds(out, out', generation, NamesOf(names)) /\ main' = "top" /\ exit' = "none"
      BY <1>0, <1>2, <2>2, <3>1, Printed
    <3>3. ~Launching' /\ ~Gone'
      BY <3>2 DEF Launching, Gone
    <3>4. slot' => (engine' = "live" \/ queue' # <<>> <=> "ended" \notin Told(generation) \cup NamesOf(names))
      BY <1>0, <1>2
    <3> QED BY <1>0, <1>2, <2>2, <3>2, <3>3, <3>4, TellStory
  <2> QED BY <2>1, <2>2
<1>3. CASE LaunchFails
  <2>1. /\ Emit(Events(<<"ended">>), Response("FAILED"), "top", exit) /\ ~slot'
        /\ <<"ended">> \in Queues /\ "FAILED" \in Codes /\ "ended" \in NamesOf(<<"ended">>)
    BY <1>0, <1>3, QueueNames DEF LaunchFails, Queues, Codes
  <2> QED BY <1>2, <2>1
<1>4. CASE Started
  <2>1. engine = "live" /\ queue = <<"halted">>
    BY <1>4 DEF Started, StoryInv, LaunchStory, Launching
  <2>2. Taken = IF doomed THEN <<"halted", "ended">> ELSE <<"halted">>
    <3>1. Append(queue, "ended") = <<"halted", "ended">>
      BY <2>1, AppendToOne
    <3>2. AfterEnd = <<"halted", "ended">>
      BY <2>1, <3>1, Zenon DEF AfterEnd
    <3> QED BY <2>1, <3>2, Zenon DEF Taken
  <2>3. /\ Emit(Events(Taken), Response("ok"), "top", exit) /\ slot' = ~broken
        /\ queue' = <<>> /\ engine' = (IF doomed \/ broken THEN "ended" ELSE "live")
    BY <1>4, <2>1 DEF Started
  <2>4. slot' <=> ~broken
    BY <2>3, Zenon
  <2>5. /\ Taken \in Queues /\ "ok" \in Codes /\ ("ended" \in NamesOf(Taken) <=> doomed)
        /\ Taken = <<"halted">> \/ Taken = <<"halted", "ended">>
    BY <2>2, QueueNames DEF Queues, Codes
  <2> QED BY <1>2, <2>3, <2>4, <2>5
<1> QED BY <1>1, <1>3, <1>4

\* A stop, and the end of the input: the end of the session is told, unless the
\* stop failed.
LEMMA StopStory ==
  ASSUME StoryTyped, StoryInv, Stop \/ EndOfInput
  PROVE  StoryInv'
<1>0. /\ UNCHANGED <<generation, broken>> /\ ~slot' /\ exit = "none" /\ main \in {"stop", "handle"}
      /\ Tale(out, generation) /\ generation \in Nat /\ ~Launching /\ ToldIn(out, generation) = Told(generation)
      /\ Stop => line.id \in Ids
  BY ToldOut DEF Stop, EndOfInput, Stopped, StoryTyped, StoryInv, Past, ExitStory, Gone, Launching,
                 Busy, Operations
<1>1. CASE broken
  <2>1. main' = "leaving" /\ exit' = "failed" /\ out' = out
    BY <1>1 DEF Stop, EndOfInput, Emit, outputVars
  <2> QED BY <1>0, <1>1, <2>1, FailStory DEF Owed
<1>2. ASSUME ~broken, NEW response \in Answering, response # <<>> => line.id \in Ids, NEW next, NEW why,
             Emit(StopEvents, response, next, why), next \in {"top", "leaving"},
             why # "none" => next = "leaving"
      PROVE  StoryInv'
  <2>1. CASE slot
    <3>1. AfterEnd \in Queues /\ generation > 0 /\ "begun" \in Told(generation)
      BY <1>2, <2>1, AfterEndQueued DEF Queues, StoryInv, OwnedStory
    <3>2. NamesOf(AfterEnd) = IF AfterEnd = <<>> THEN {} ELSE {"ended"}
      BY <2>1, AfterEndQueued, QueueNames
    <3>3. /\ "ended" \in NamesOf(AfterEnd) => "ended" \notin ToldIn(out, generation)
          /\ "halted" \notin NamesOf(AfterEnd)
      BY <2>1, <3>2, AfterEndQueued DEF Ended
    <3>4. Emit(Events(AfterEnd), response, next, why)
      BY <1>2, <2>1 DEF StopEvents
    <3>5. Adds(out, out', generation, NamesOf(AfterEnd)) /\ main' = next /\ exit' = why
      BY <1>0, <1>2, <3>1, <3>3, <3>4, Printed
    <3>6. "ended" \in Told(generation) \cup NamesOf(AfterEnd)
      BY <1>2, <2>1, <3>2, AfterEndQueued DEF Ended
    <3>7. ~Launching' /\ (exit' # "none" => main' = "leaving")
      BY <1>2, <3>5 DEF Launching
    <3> QED BY <1>0, <1>2, <3>1, <3>5, <3>6, <3>7, TellStory
  <2>2. CASE ~slot
    <3>1. Emit(<<>>, response, next, why)
      BY <1>2, <2>2 DEF StopEvents
    <3>2. /\ Adds(out, out', generation, {}) /\ main' = next /\ exit' = why
      <4>1. CASE response = <<>>
        <5>1. out' = out /\ main' = next /\ exit' = why
          BY <1>0, <1>2, <3>1, <4>1 DEF Emit, Tale
        <5> QED BY <1>0, <5>1, AddNothing
      <4>2. CASE response # <<>>
        <5>1. PICK code \in Codes : response = Response(code)
          BY <1>2, <4>2 DEF Answering
        <5> QED BY <1>2, <3>1, <4>2, <5>1, ResponsePrinted
      <4> QED BY <4>1, <4>2
    <3>3. ~Launching' /\ (exit' # "none" => main' = "leaving")
      BY <1>2, <3>2 DEF Launching
    <3>4. generation > 0 => Excused' \/ "ended" \in Told(generation) \cup {}
      <4>1. StopFailed => StopFailed'
        BY <3>2 DEF Adds, StopFailed, FailedIn
      <4> QED BY <1>0, <1>2, <2>2, <4>1 DEF StoryInv, OverStory, Ended, Excused
    <3> QED BY <1>0, <1>2, <3>2, <3>3, <3>4, TellStory
  <2> QED BY <2>1, <2>2 DEF StoryTyped
<1>3. ASSUME ~broken, Stop, Emit(<<>>, Response("STOP_FAILED"), "top", exit)
      PROVE  StoryInv'
  <2>1. Adds(out, out', generation, {}) /\ main' = "top" /\ exit' = "none" /\ StopFailed'
    BY <1>0, <1>3, ResponsePrinted DEF Codes
  <2>2. ~Launching' /\ Excused'
    BY <2>1 DEF Launching, Excused
  <2> QED BY <1>0, <1>3, <2>1, <2>2, TellStory
<1>4. ASSUME ~broken, main' = "leaving", exit' = "failed", UNCHANGED outputVars
      PROVE  StoryInv'
  <2>1. Adds(out, out', generation, {}) /\ ~Launching' /\ Excused'
    BY <1>0, <1>4, AddNothing DEF outputVars, Launching, Excused
  <2> QED BY <1>0, <1>4, <2>1, TellStory
<1>5. CASE Stop /\ ~broken
  <2>1. Response("ok") \in Answering
    BY DEF Answering, Codes
  <2>2. Emit(StopEvents, Response("ok"), "top", "none") => StoryInv'
    BY <1>0, <1>2, <1>5, <2>1
  <2> QED BY <1>0, <1>3, <1>5, <2>2 DEF Stop
<1>6. CASE EndOfInput /\ ~broken
  <2>1. <<>> \in Answering
    BY DEF Answering
  <2>2. Emit(StopEvents, <<>>, "leaving", "eof") => StoryInv'
    BY <1>2, <1>6, <2>1
  <2> QED BY <1>4, <1>6, <2>2 DEF EndOfInput
<1> QED BY <1>1, <1>5, <1>6

LEMMA LeaveStory ==
  ASSUME StoryTyped, StoryInv, Leave
  PROVE  StoryInv'
<1>1. /\ main = "leaving" /\ main' = "exited" /\ ~slot' /\ UNCHANGED <<out, generation, broken, exit>>
      /\ Gone /\ Gone' /\ ~Launching'
  BY DEF Leave, outputVars, Gone, Launching
<1>2. /\ \A g : Told(g)' = Told(g) /\ Ended(g)' = Ended(g)
      /\ Ended(generation)' = Ended(generation) /\ Excused' = Excused
  BY <1>1 DEF Told, Ended, Excused, StopFailed
<1>3. Past'
  BY <1>1, <1>2 DEF StoryInv, Past
<1> QED BY <1>1, <1>2, <1>3 DEF StoryInv, LaunchStory, OwnedStory, OverStory, ExitStory

LEMMA StoryStep ==
  ASSUME TypeOK, StoryInv, [Next]_vars
  PROVE  StoryInv'
<1>0. StoryTyped
  BY StoryIsTyped
<1>1. CASE Client \/ Send \/ Receive \/ Operate \/ (Accept /\ line.id \notin seen) \/ Forward \/ World
           \/ Exited \/ UNCHANGED vars
  <2>1. /\ UNCHANGED <<out, generation, queue, engine, slot, exit>> /\ (broken => broken')
        /\ main' = main \/ (main \in Idle /\ main' \in Idle)
    <3>1. CASE Client \/ Send \/ Exited \/ UNCHANGED vars
      BY <3>1 DEF Client, Read, Send, NotInput, Exited, vars, sessionVars, outputVars
    <3>2. CASE Receive \/ Operate \/ (Accept /\ line.id \notin seen)
      BY <3>2 DEF Receive, Operate, Accept, sessionVars, outputVars, Idle, Operations
    <3>3. CASE Forward \/ World
      BY <3>3 DEF Forward, World, SessionLost, CtrlC, OutputBreaks, NotWorld, outputVars
    <3> QED BY <1>1, <3>1, <3>2, <3>3
  <2> QED BY <1>0, <2>1, QuietStory DEF Quiet
<1>2. CASE EmitEvents \/ Interrupted
  BY <1>0, <1>2, LoopTopStory
<1>3. CASE ProtocolError \/ Reject \/ (Accept /\ line.id \in seen) \/ Refuse
             \/ OperationFails \/ OperationReturns
  BY <1>3, AnsweringStory
<1>4. CASE Launch
  BY <1>0, <1>4, LaunchIsNext
<1>5. CASE LaunchFails \/ Launched \/ Started
  BY <1>0, <1>5, LaunchingStory
<1>6. CASE Stop \/ EndOfInput
  BY <1>0, <1>6, StopStory
<1>7. CASE Leave
  BY <1>0, <1>7, LeaveStory
<1> QED BY <1>1, <1>2, <1>3, <1>4, <1>5, <1>6, <1>7 DEF Next, Step, CallEnds

\* However operations, losses, Ctrl-C, the end of the input and failures fall
\* together, what the client reads of a session is one story, in order and from
\* its beginning; its end is there before the next session's beginning and when
\* the loop is left, unless printing or a stop failed.
THEOREM StoriesTold == Spec => []StoriesAreComplete
<1>1. Init => StoryInv
  <2> SUFFICES ASSUME Init PROVE StoryInv
    OBVIOUS
  <2>1. Past
    BY DEF Init, Past, Tale
  <2>2. LaunchStory /\ OwnedStory /\ OverStory /\ ExitStory
    BY DEF Init, LaunchStory, OwnedStory, OverStory, ExitStory, Launching
  <2> QED BY <2>1, <2>2 DEF StoryInv
<1>2. TypeOK /\ StoryInv /\ [Next]_vars => StoryInv'
  BY StoryStep
<1>3. TypeOK /\ StoryInv => StoriesAreComplete
  <2> SUFFICES ASSUME TypeOK, StoryInv PROVE StoriesAreComplete
    OBVIOUS
  <2>1. \A i, j \in DOMAIN out : i < j /\ IsTold(out[i]) /\ IsTold(out[j]) => Precedes(out[i], out[j])
    BY DEF StoryInv, Past, Tale
  <2>2. ASSUME NEW g \in 1..generation
        PROVE  /\ Told(g) # {} => "begun" \in Told(g)
               /\ /\ g < generation \/ (main \in {"top", "exited"} /\ ~slot)
                  /\ ~broken /\ ~StopFailed /\ exit # "failed"
                  => Ended(g)
    <3>1. g < generation \/ g = generation
      BY StoryIsTyped DEF StoryTyped
    <3>2. (Told(g) # {} => "begun" \in Told(g)) /\ (g < generation => Excused \/ Ended(g))
      BY DEF StoryInv, Past
    <3>3. g = generation /\ main \in {"top", "exited"} /\ ~slot => Excused \/ Ended(g)
      BY StoryIsTyped DEF StoryInv, OverStory, Launching, StoryTyped
    <3> QED BY <3>1, <3>2, <3>3 DEF Excused
  <2> QED BY <2>1, <2>2 DEF StoriesAreComplete
<1> QED BY <1>1, <1>2, <1>3, TypeCorrect, PTL DEF Spec
=============================================================================
