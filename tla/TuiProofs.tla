----------------------------- MODULE TuiProofs -----------------------------
(***************************************************************************)
(* Whatever way `samdebug debug` ends, however many stops and breakpoints  *)
(* there were, the terminal is given back; and until then what it draws is *)
(* the session.                                                            *)
(***************************************************************************)
EXTENDS Tui, SequenceTheorems, TLAPS

\* Where run and run_loop are while the guard exists.
Guarded == {"clear", "first", "firstEvents", "firstRefresh", "loop", "input", "call", "keyRefresh",
            "take", "events", "stopRefresh", "check", "stop"}
Plain == ~raw /\ ~screen /\ ~mouse

\* Nothing is switched on in the terminal that no guard will switch off, but raw
\* mode just before the guard is made; at the end nothing is.
TerminalOK ==
  /\ pc \in {"watch", "raw", "setup", "restore", "join", "ended"} \cup Guarded
  /\ pc \in {"watch", "raw", "join", "ended"} => Plain
  /\ pc \in Guarded => guard
  /\ pc = "restore" => guard \/ Plain
EndOK == pc = "ended" => session = "idle" /\ watcher = "done"

\* The loop and the calls of the session do nothing to the terminal, and go on in
\* the guarded part of run.
LEMMA LoopKeeps ==
  ASSUME Loop \/ SessionCall
  PROVE  UNCHANGED terminalVars /\ pc \in Guarded /\ pc' \in Guarded
<1> USE DEF Goto, Leave, NotTheTerminal, Guarded
<1>1. CASE TakeEvents \/ ProcessEvents \/ Check
  BY <1>1 DEF TakeEvents, ProcessEvents, Check
<1>2. CASE LoopEnds \/ TerminalFails \/ Draw \/ NoKey
  BY <1>2 DEF LoopEnds, TerminalFails, Draw, NoKey
<1>3. CASE TokenSeen \/ CtrlC
  BY <1>3 DEF TokenSeen, CtrlC, Cancelling, terminalVars
<1>4. CASE NormalKey \/ DeleteKey \/ EditKey \/ EnterKey
  BY <1>4 DEF NormalKey, DeleteKey, EditKey, EnterKey, Key, AsksFor, AsksNothing
<1>5. CASE SessionCall
  BY <1>5 DEF SessionCall, CallPolls, CallReturns, Refresh
<1> QED
  BY <1>1, <1>2, <1>3, <1>4, <1>5 DEF Loop

LEMMA TerminalStep == TerminalOK /\ EndOK /\ [Next]_vars => TerminalOK' /\ EndOK'
<1> SUFFICES ASSUME TerminalOK, EndOK, [Next]_vars PROVE TerminalOK' /\ EndOK'
  OBVIOUS
<1> USE DEF TerminalOK, EndOK, Plain, Goto, Fails, terminalVars
<1>1. CASE UNCHANGED vars
  BY <1>1 DEF vars, sessionVars, tokenVars
<1>2. CASE Loop \/ SessionCall
  BY <1>2, LoopKeeps DEF Guarded
<1>3. CASE WatcherStarts \/ RawMode
  BY <1>3 DEF WatcherStarts, RawMode, Guarded
<1>4. CASE Setup
  <2>1. guard' /\ (pc' = "clear" \/ pc' = "restore")
    BY <1>4 DEF Setup, GuardBefore
  <2> QED
    BY <2>1 DEF Guarded
<1>5. CASE ClearScreen \/ StopSession
  BY <1>5 DEF ClearScreen, StopSession, Guarded
<1>6. CASE Restore
  BY <1>6 DEF Restore, Guarded
<1>7. CASE Joined
  BY <1>7 DEF Joined, tokenVars, Guarded
<1>8. CASE Watcher \/ Interrupt
  BY <1>8 DEF Watcher, WatcherSees, WatcherStops, Interrupt, sessionVars, Guarded
<1> QED
  BY <1>1, <1>2, <1>3, <1>4, <1>5, <1>6, <1>7, <1>8 DEF Next, Run

\* run leaves the terminal as it found it, the session ended and the watcher joined
\* (TerminalIsRestored).
THEOREM TerminalRestored == Spec => []TerminalIsRestored
<1>1. Init => TerminalOK /\ EndOK
  BY DEF Init, TerminalOK, EndOK, Plain, Guarded
<1>2. TerminalOK /\ EndOK => TerminalIsRestored
  BY DEF TerminalOK, EndOK, Plain, TerminalIsRestored
<1> QED
  BY <1>1, <1>2, TerminalStep, PTL DEF Spec
-----------------------------------------------------------------------------
(* Types *)

Events == {"halted", "running", "idle", "stopped", "loaded"}
States == {"halted", "running", "idle"}

\* What a poll or a call may do to the session; some calls perhaps in silence.
Moves(quiet) ==
  \/ Stays \/ SessionEnds \/ PollFindsStop \/ ContinueCall \/ HaltCall \/ StepCall
  \/ quiet /\ (ResetCall \/ LoadCall)

\* Every way the session may move in one step leaves its part of the types.
LEMMA SessionMoves ==
  ASSUME SessionOK, NEW quiet, Moves(quiet)
  PROVE   /\ session' \in States /\ stop' \in 1..MaxStops /\ queue' \in Seq(Events)
         /\ stop <= stop' /\ stop \in Nat /\ stop' \in Nat
<1>1. /\ session \in States /\ stop \in 1..MaxStops /\ queue \in Seq(Events)
      /\ MaxStops \in Nat
  BY TuiAssumption DEF SessionOK, States, Events
<1>2. ASSUME NEW s, NEW anew \in BOOLEAN, NEW e \in Seq(Events), Becomes(s, anew, e),
             s \in States, anew => MayStop
      PROVE  /\ session' \in States /\ stop' \in 1..MaxStops /\ queue' \in Seq(Events)
             /\ stop <= stop' /\ stop \in Nat /\ stop' \in Nat
  <2>1. queue' \in Seq(Events)
    BY <1>1, <1>2 DEF Becomes
  <2> QED
    BY <2>1, <1>1, <1>2 DEF Becomes, MayStop
<1>3. /\ <<>> \in Seq(Events) /\ <<"idle">> \in Seq(Events) /\ <<"running">> \in Seq(Events)
      /\ <<"halted">> \in Seq(Events) /\ <<"stopped">> \in Seq(Events) /\ <<"loaded">> \in Seq(Events)
      /\ <<"halted", "stopped">> \in Seq(Events) /\ <<"running", "halted", "stopped">> \in Seq(Events)
  BY DEF Events
<1>4. CASE Stays
  BY <1>4, <1>1 DEF Stays
<1>5. CASE SessionEnds \/ PollFindsStop \/ HaltCall
  BY <1>5, <1>2, <1>3 DEF SessionEnds, PollFindsStop, HaltCall, States
<1>6. CASE ContinueCall \/ StepCall
  BY <1>6, <1>2, <1>3 DEF ContinueCall, StepCall, States
<1>7. CASE ResetCall
  <2>1. PICK last \in {<<"stopped">>, <<>>} :
          Becomes("halted", TRUE, (IF session = "running" THEN <<"halted">> ELSE <<>>) \o last)
    BY <1>7 DEF ResetCall
  <2>2. /\ (IF session = "running" THEN <<"halted">> ELSE <<>>) \in Seq(Events)
        /\ last \in Seq(Events)
    BY <1>3
  <2>3. (IF session = "running" THEN <<"halted">> ELSE <<>>) \o last \in Seq(Events)
    BY <2>2
  <2> QED
    BY <2>1, <2>3, <1>2, <1>7 DEF ResetCall, States
<1>8. CASE LoadCall
  BY <1>8, <1>2, <1>3 DEF LoadCall, States
<1> QED
  BY <1>4, <1>5, <1>6, <1>7, <1>8 DEF Moves

\* What a call does to the list and to GDB's breakpoints.
LEMMA PointsTyped ==
  ASSUME inserted \subseteq Points, points \in Seq(Points),
         PointsCarriedOut \/ PointsRefused,
         call = "remove" => points # <<>>
  PROVE  inserted' \subseteq Points /\ points' \in Seq(Points)
<1>1. points # <<>> => Front(points) \in Seq(Points)
  BY DEF Front
<1>2. CASE PointsRefused
  BY <1>1, <1>2 DEF PointsRefused
<1>3. CASE PointsCarriedOut /\ call = "insert"
  BY <1>3 DEF PointsCarriedOut
<1>4. CASE PointsCarriedOut /\ call # "insert"
  BY <1>1, <1>4 DEF PointsCarriedOut
<1> QED
  BY <1>2, <1>3, <1>4

\* A key asks for a call or for none, and leaves everything else but the text.
LEMMA KeyAsks ==
  ASSUME NormalKey \/ DeleteKey \/ EditKey \/ EnterKey
  PROVE  /\ pc = "input" /\ UNCHANGED <<result, sessionVars, shown, paneVars, points, tokenVars>>
         /\ \/ pc' = "take" /\ UNCHANGED call
            \/ pc' = "call" /\ call' \in Calls \ {"remove"}
            \/ pc' = "call" /\ call' = "remove" /\ points # <<>>
<1> USE DEF Key, AsksFor, AsksNothing, Goto, NotTheTerminal, Calls
<1>1. CASE NormalKey
  BY <1>1 DEF NormalKey
<1>2. CASE DeleteKey
  BY <1>2 DEF DeleteKey
<1>3. CASE EditKey
  BY <1>3 DEF EditKey
<1>4. CASE EnterKey
  BY <1>4 DEF EnterKey
<1> QED
  BY <1>1, <1>2, <1>3, <1>4

LEMMA PlacesStep == PlacesOK /\ [Next]_vars => PlacesOK'
<1> SUFFICES ASSUME PlacesOK, [Next]_vars PROVE PlacesOK'
  OBVIOUS
<1> USE DEF PlacesOK, Goto, Leave, Fails, NotTheApp, NotTheTerminal, inputVars, tokenVars, Calls
<1>1. CASE UNCHANGED vars
  BY <1>1 DEF vars
<1>2. CASE TakeEvents \/ Check \/ LoopEnds \/ TerminalFails \/ Draw \/ NoKey
  BY <1>2 DEF TakeEvents, Check, LoopEnds, TerminalFails, Draw, NoKey
<1>3. CASE ProcessEvents
  BY <1>3 DEF ProcessEvents
<1>4. CASE TokenSeen \/ CtrlC
  BY <1>4 DEF TokenSeen, CtrlC, Cancelling
<1>5. CASE NormalKey \/ DeleteKey \/ EditKey \/ EnterKey
  BY <1>5, KeyAsks
<1>6. CASE CallPolls \/ CallReturns \/ Refresh
  BY <1>6 DEF CallPolls, CallReturns, Refresh
<1>7. CASE Run
  BY <1>7 DEF Run, WatcherStarts, RawMode, Setup, ClearScreen, StopSession, Restore, Joined
<1>8. CASE Watcher \/ Interrupt
  BY <1>8 DEF Watcher, WatcherSees, WatcherStops, Interrupt
<1> QED
  BY <1>1, <1>2, <1>3, <1>4, <1>5, <1>6, <1>7, <1>8 DEF Next, Loop, SessionCall

LEMMA FlagsStep == FlagsOK /\ [Next]_vars => FlagsOK'
<1> SUFFICES ASSUME FlagsOK, [Next]_vars PROVE FlagsOK'
  OBVIOUS
<1> USE DEF FlagsOK, NotTheApp, NotTheTerminal, inputVars, tokenVars, terminalVars
<1>1. CASE UNCHANGED vars
  BY <1>1 DEF vars
<1>2. CASE TakeEvents \/ ProcessEvents \/ Check \/ LoopEnds \/ TerminalFails \/ Draw \/ NoKey
  BY <1>2 DEF TakeEvents, ProcessEvents, Check, LoopEnds, TerminalFails, Draw, NoKey
<1>3. CASE TokenSeen \/ CtrlC
  BY <1>3 DEF TokenSeen, CtrlC, Cancelling
<1>4. CASE NormalKey \/ DeleteKey \/ EditKey \/ EnterKey
  BY <1>4 DEF NormalKey, DeleteKey, EditKey, EnterKey, Key
<1>5. CASE CallPolls \/ CallReturns \/ Refresh
  BY <1>5 DEF CallPolls, CallReturns, Refresh
<1>6. CASE Run
  BY <1>6 DEF Run, WatcherStarts, RawMode, Setup, GuardBefore, ClearScreen, StopSession, Restore, Joined
<1>7. CASE Watcher \/ Interrupt
  BY <1>7 DEF Watcher, WatcherSees, CancelsSession, WatcherStops, Interrupt
<1> QED
  BY <1>1, <1>2, <1>3, <1>4, <1>5, <1>6, <1>7 DEF Next, Loop, SessionCall
-----------------------------------------------------------------------------
(* What the queued events tell *)

\* Some event is the last one that tells of the session's state, or none does.
HasLast(events) == Telling(events) = {} \/ Max(Telling(events)) \in Telling(events)

LEMMA MaxIs ==
  ASSUME NEW S \in SUBSET Nat, NEW m \in S, \A i \in S : i <= m
  PROVE  Max(S) = m
<1>1. \A i \in S : m >= i
  OBVIOUS
<1>2. Max(S) \in S /\ \A i \in S : Max(S) >= i
  BY <1>1 DEF Max
<1>3. Max(S) \in Nat /\ m \in Nat /\ Max(S) <= m /\ Max(S) >= m
  BY <1>2
<1> QED
  BY <1>3

\* The last event of the new ones that tells decides.
LEMMA NewTells ==
  ASSUME NEW q \in Seq(Events), NEW e \in Seq(Events), NEW before,
         NEW k \in Telling(e), \A i \in Telling(e) : i <= k
  PROVE  /\ HasLast(q \o e)
         /\ ShownAfter(before, q \o e) = IF e[k] = "stopped" THEN "halted" ELSE e[k]
<1> DEFINE m == Len(q) + k
<1>1. k \in 1..Len(e) /\ m \in 1..Len(q \o e) /\ (q \o e)[m] = e[k]
  BY DEF Telling
<1>2. m \in Telling(q \o e)
  BY <1>1 DEF Telling
<1>3. ASSUME NEW i \in Telling(q \o e) PROVE i <= m /\ i \in Nat
  <2>1. i \in 1..(Len(q) + Len(e)) /\ (q \o e)[i] # "loaded"
    BY DEF Telling
  <2>2. CASE i <= Len(q)
    BY <2>1, <2>2, <1>1
  <2>3. CASE i > Len(q)
    <3>1. i - Len(q) \in 1..Len(e) /\ (q \o e)[i] = e[i - Len(q)]
      BY <2>1, <2>3
    <3>2. i - Len(q) \in Telling(e)
      BY <3>1, <2>1 DEF Telling
    <3> QED
      BY <3>1, <3>2, <2>1, <1>1
  <2> QED
    BY <2>1, <2>2, <2>3
<1>4. Max(Telling(q \o e)) = m
  BY <1>2, <1>3, MaxIs
<1> HIDE DEF m
<1> QED
  BY <1>1, <1>2, <1>4 DEF ShownAfter, HasLast

\* Events that tell nothing change nothing.
LEMMA NothingTold ==
  ASSUME NEW q \in Seq(Events), NEW e \in Seq(Events), NEW before,
         Telling(e) = {}, HasLast(q)
  PROVE  HasLast(q \o e) /\ ShownAfter(before, q \o e) = ShownAfter(before, q)
<1>1. \A i \in 1..Len(e) : e[i] = "loaded"
  BY DEF Telling
<1>2. \A i \in 1..Len(q) : (q \o e)[i] = q[i]
  OBVIOUS
<1>3. \A i \in 1..(Len(q) + Len(e)) : i > Len(q) => (q \o e)[i] = "loaded"
  BY <1>1
<1>4. Telling(q \o e) = Telling(q)
  BY <1>2, <1>3 DEF Telling
<1>5. Telling(q) # {} => Max(Telling(q)) \in 1..Len(q)
  BY DEF HasLast, Telling
<1> QED
  BY <1>2, <1>4, <1>5 DEF ShownAfter, HasLast

\* What is in the queue stays there, and what is new is.
LEMMA Containing ==
  ASSUME NEW q \in Seq(Events), NEW e \in Seq(Events)
  PROVE  /\ Contains(q, "stopped") => Contains(q \o e, "stopped")
         /\ Contains(e, "stopped") => Contains(q \o e, "stopped")
<1>1. ASSUME NEW i \in 1..Len(q) PROVE i \in 1..Len(q \o e) /\ (q \o e)[i] = q[i]
  OBVIOUS
<1>2. ASSUME NEW i \in 1..Len(e)
      PROVE Len(q) + i \in 1..Len(q \o e) /\ (q \o e)[Len(q) + i] = e[i]
  OBVIOUS
<1> QED
  BY <1>1, <1>2 DEF Contains

\* The lists of events the session queues, and the state they tell of.
Lists == {<<"idle">>, <<"running">>, <<"halted">>, <<"stopped">>, <<"halted", "stopped">>,
          <<"running", "halted", "stopped">>, <<>>, <<"loaded">>}
LastOf(e) == IF e[Len(e)] = "stopped" THEN "halted" ELSE e[Len(e)]

LEMMA ListsTell ==
  ASSUME NEW q \in Seq(Events), NEW e \in Lists, NEW before, HasLast(q)
  PROVE  /\ e \in Seq(Events) /\ q \o e \in Seq(Events) /\ HasLast(q \o e)
         /\ e \notin {<<>>, <<"loaded">>} => ShownAfter(before, q \o e) = LastOf(e)
         /\ e \in {<<>>, <<"loaded">>} => ShownAfter(before, q \o e) = ShownAfter(before, q)
         /\ Contains(q, "stopped") => Contains(q \o e, "stopped")
         /\ e \in {<<"stopped">>, <<"halted", "stopped">>, <<"running", "halted", "stopped">>}
              => Contains(q \o e, "stopped")
<1>1. e \in Seq(Events)
  <2>1. /\ <<"idle">> \in Seq(Events) /\ <<"running">> \in Seq(Events)
        /\ <<"halted">> \in Seq(Events) /\ <<"stopped">> \in Seq(Events)
        /\ <<"loaded">> \in Seq(Events) /\ <<>> \in Seq(Events)
        /\ <<"halted", "stopped">> \in Seq(Events)
        /\ <<"running", "halted", "stopped">> \in Seq(Events)
    BY DEF Events
  <2> QED
    BY <2>1 DEF Lists
<1>2. q \o e \in Seq(Events)
  BY <1>1
<1>3. CASE e \in {<<>>, <<"loaded">>}
  <2>1. Telling(e) = {}
    BY <1>3 DEF Telling
  <2>2. HasLast(q \o e) /\ ShownAfter(before, q \o e) = ShownAfter(before, q)
    BY <1>1, <2>1, NothingTold
  <2>3. e \notin {<<"stopped">>, <<"halted", "stopped">>, <<"running", "halted", "stopped">>}
    <3>1. Len(e) = 0 \/ (Len(e) = 1 /\ e[1] = "loaded")
      BY <1>3
    <3>2. /\ Len(<<"stopped">>) = 1 /\ <<"stopped">>[1] = "stopped"
          /\ Len(<<"halted", "stopped">>) = 2 /\ Len(<<"running", "halted", "stopped">>) = 3
      OBVIOUS
    <3>3. e # <<"halted", "stopped">> /\ e # <<"running", "halted", "stopped">>
      BY <3>1, <3>2
    <3>4. e # <<"stopped">>
      BY <3>1, <3>2
    <3> QED
      BY <3>3, <3>4
  <2>4. Contains(q, "stopped") => Contains(q \o e, "stopped")
    BY <1>1, Containing
  <2> QED
    BY <1>1, <1>2, <1>3, <2>2, <2>3, <2>4
<1>4. CASE e \notin {<<>>, <<"loaded">>}
  <2>1. Len(e) \in Telling(e)
    BY <1>4 DEF Lists, Telling
  <2>2. \A i \in Telling(e) : i <= Len(e)
    BY <1>1 DEF Telling
  <2>3. HasLast(q \o e) /\ ShownAfter(before, q \o e) = LastOf(e)
    BY <1>1, <2>1, <2>2, NewTells DEF LastOf
  <2>4. e \in {<<"stopped">>, <<"halted", "stopped">>, <<"running", "halted", "stopped">>}
          => Contains(e, "stopped")
    BY DEF Contains
  <2> QED
    BY <1>1, <1>2, <1>4, <2>3, <2>4, Containing
<1> QED
  BY <1>3, <1>4

\* Whatever happens to the session, its events tell of: where it has come to, and
\* each stop, but for a reset and a load, after which the panes are filled anyway.
Told(before, quiet) ==
  /\ HasLast(queue')
  /\ ShownAfter(before, queue) = session => ShownAfter(before, queue') = session'
  /\ Contains(queue, "stopped") => Contains(queue', "stopped")
  /\ session' = "halted" =>
       \/ session = "halted" /\ stop' = stop
       \/ Contains(queue', "stopped") \/ quiet

LEMMA MovesTell ==
  ASSUME SessionOK, HasLast(queue), NEW quiet, Moves(quiet), NEW before
  PROVE  Told(before, quiet)
<1>1. queue \in Seq(Events)
  BY DEF SessionOK, Events
<1>2. ASSUME NEW s, NEW anew, NEW e \in Lists \ {<<>>, <<"loaded">>}, Becomes(s, anew, e),
             s = LastOf(e),
             \/ s # "halted" \/ quiet
             \/ e \in {<<"stopped">>, <<"halted", "stopped">>, <<"running", "halted", "stopped">>}
      PROVE Told(before, quiet)
  BY <1>1, <1>2, ListsTell DEF Becomes, Told
<1>3. CASE Stays
  BY <1>3 DEF Stays, Told
<1>4. LastOf(<<"idle">>) = "idle" /\ LastOf(<<"running">>) = "running"
  BY DEF LastOf
<1>5. /\ LastOf(<<"halted", "stopped">>) = "halted" /\ LastOf(<<"halted">>) = "halted"
      /\ LastOf(<<"running", "halted", "stopped">>) = "halted" /\ LastOf(<<"stopped">>) = "halted"
  BY DEF LastOf
<1>6. {<<"idle">>, <<"running">>, <<"halted">>, <<"stopped">>, <<"halted", "stopped">>,
       <<"running", "halted", "stopped">>} \subseteq Lists \ {<<>>, <<"loaded">>}
  <2>1. \A e \in {<<"idle">>, <<"running">>, <<"halted">>, <<"stopped">>} :
          Len(e) = 1 /\ e[1] # "loaded"
    OBVIOUS
  <2>2. Len(<<"halted", "stopped">>) = 2 /\ Len(<<"running", "halted", "stopped">>) = 3
    OBVIOUS
  <2>3. Len(<<>>) = 0 /\ Len(<<"loaded">>) = 1 /\ <<"loaded">>[1] = "loaded"
    OBVIOUS
  <2> QED
    BY <2>1, <2>2, <2>3 DEF Lists
<1>7. CASE SessionEnds
  BY <1>7, <1>2, <1>4, <1>6 DEF SessionEnds
<1>8. CASE PollFindsStop \/ HaltCall
  BY <1>8, <1>2, <1>5, <1>6 DEF PollFindsStop, HaltCall
<1>9. CASE ContinueCall \/ StepCall
  <2>1. CASE Becomes("running", FALSE, <<"running">>)
    BY <2>1, <1>2, <1>4, <1>6
  <2>2. CASE Becomes("halted", TRUE, <<"running", "halted", "stopped">>)
    BY <2>2, <1>2, <1>5, <1>6
  <2> QED
    BY <2>1, <2>2, <1>9 DEF ContinueCall, StepCall
<1>10. CASE quiet /\ LoadCall
  <2>1. session = "halted" /\ \E e \in {<<"loaded">>, <<>>} : Becomes("halted", TRUE, e)
    BY <1>10 DEF LoadCall
  <2>2. PICK e \in {<<"loaded">>, <<>>} : Becomes("halted", TRUE, e)
    BY <2>1
  <2>3. e \in Lists /\ queue' = queue \o e /\ session' = session
    BY <2>1, <2>2 DEF Lists, Becomes
  <2> QED
    BY <1>1, <1>10, <2>2, <2>3, ListsTell DEF Told
<1>11. CASE quiet /\ ResetCall
  <2>1. PICK last \in {<<"stopped">>, <<>>} :
          Becomes("halted", TRUE, (IF session = "running" THEN <<"halted">> ELSE <<>>) \o last)
    BY <1>11 DEF ResetCall
  <2>2. /\ <<"halted">> \o <<"stopped">> = <<"halted", "stopped">>
        /\ <<"halted">> \o <<>> = <<"halted">>
        /\ <<>> \o <<"stopped">> = <<"stopped">> /\ <<>> \o <<>> = <<>>
    <3>1. /\ <<"halted">> \in Seq(Events) /\ <<"stopped">> \in Seq(Events)
          /\ <<>> \in Seq(Events) /\ <<"halted", "stopped">> \in Seq(Events)
      BY DEF Events
    <3>2. <<"halted">> \o <<"stopped">> = <<"halted", "stopped">>
      <4> DEFINE s == <<"halted">> \o <<"stopped">>
                 r == <<"halted", "stopped">>
      <4>1. s \in Seq(Events) /\ Len(s) = 2 /\ s[1] = "halted" /\ s[2] = "stopped"
        BY <3>1
      <4>2. r \in Seq(Events) /\ Len(r) = 2 /\ r[1] = "halted" /\ r[2] = "stopped"
        BY <3>1
      <4> HIDE DEF s, r
      <4>3. Len(s) = Len(r) /\ \A i \in 1..Len(s) : s[i] = r[i]
        BY <4>1, <4>2
      <4>4. s = r
        BY <4>1, <4>2, <4>3, SeqEqual
      <4> QED
        BY <4>4 DEF s, r
    <3> QED
      BY <3>1, <3>2, ConcatEmptySeq
  <2>3. CASE session = "running"
    <3>1. \/ Becomes("halted", TRUE, <<"halted", "stopped">>)
          \/ Becomes("halted", TRUE, <<"halted">>)
      BY <2>1, <2>2, <2>3
    <3> QED
      BY <3>1, <1>2, <1>5, <1>6, <1>11
  <2>4. CASE session # "running"
    <3>1. \/ Becomes("halted", TRUE, <<"stopped">>) \/ Becomes("halted", TRUE, <<>>)
      BY <2>1, <2>2, <2>4
    <3>2. CASE Becomes("halted", TRUE, <<"stopped">>)
      BY <3>2, <1>2, <1>5, <1>6
    <3>3. CASE Becomes("halted", TRUE, <<>>)
      <4>1. session = "halted" /\ session' = session /\ queue' = queue \o <<>> /\ <<>> \in Lists
        BY <1>11, <2>4, <3>3 DEF ResetCall, Becomes, Lists
      <4> QED
        BY <1>1, <1>11, <4>1, ListsTell DEF Told
    <3> QED
      BY <3>1, <3>2, <3>3
  <2> QED
    BY <2>3, <2>4
<1> QED
  BY <1>3, <1>7, <1>8, <1>9, <1>10, <1>11 DEF Moves
-----------------------------------------------------------------------------
(* The inductive invariant *)

\* The state that is shown and the events still to be read tell the session's state,
\* until the session is given up.
ToldOK ==
  /\ HasLast(queue)
  /\ pc \notin {"restore", "join", "ended"} => ShownAfter(shown, queue) = session
\* Breakpoints are listed once, and those of the list are set; `d` is not passed on
\* without one.
PointsOK ==
  /\ \A i, j \in DOMAIN points : points[i] = points[j] => i = j
  /\ \A i \in DOMAIN points : points[i] \in inserted
  /\ pc = "call" /\ call = "remove" => points # <<>>
TuiInv == TypeOK /\ ToldOK /\ PointsOK

Refreshes == {"firstRefresh", "stopRefresh", "keyRefresh"}
\* Events are read before anything is drawn.
ReadOK == pc \in {"firstRefresh", "loop", "input", "check", "stopRefresh"} =>
            queue = <<>> \/ session = "idle"
\* A stop that was not asked about is announced in the queue, or is about to be.
AskedOK ==
  /\ session = "halted" =>
       tried = stop \/ Contains(queue, "stopped") \/ pc \in Refreshes
  /\ tried = stop => locals \in {0, stop}

\* What the session does in a step that asks something of it; the app looks on.
LEMMA Asks ==
  ASSUME TuiInv, TakeEvents \/ Refresh \/ CallPolls \/ CallReturns
  PROVE  /\ Moves(pc = "call" /\ call \in {"reset", "load"})
         /\ UNCHANGED shown
         /\ pc \notin {"restore", "join", "ended"} /\ pc' \notin {"restore", "join", "ended"}
<1> USE DEF Moves, Goto
<1>1. CASE TakeEvents
  <2>1. pc \in {"first", "take"} /\ pc' \in {"firstEvents", "events"}
    BY <1>1 DEF TakeEvents
  <2>2. UNCHANGED shown /\ Synchronize
    BY <1>1 DEF TakeEvents, NotTheApp
  <2>3. Stays \/ SessionEnds \/ PollFindsStop
    BY <2>2 DEF Synchronize
  <2> QED
    BY <2>1, <2>2, <2>3
<1>2. CASE Refresh
  BY <1>2 DEF Refresh, Stays, sessionVars
<1>3. CASE CallPolls
  BY <1>3 DEF CallPolls, NotTheApp
<1>4. CASE CallReturns
  <2>1. /\ pc = "call" /\ pc' \in {"keyRefresh", "take"} /\ UNCHANGED shown
        /\ Called(call) \/ Stays \/ SessionEnds
    BY <1>4 DEF CallReturns
  <2>2. ASSUME Called(call)
        PROVE  \/ Stays \/ ContinueCall \/ HaltCall \/ StepCall
               \/ call \in {"reset", "load"} /\ (ResetCall \/ LoadCall)
    BY <2>2 DEF Called
  <2> QED
    BY <2>1, <2>2
<1> QED
  BY <1>1, <1>2, <1>3, <1>4

\* What every other step does to the session and to what is shown of it.
LEMMA Others ==
  ASSUME TuiInv, [Next]_vars, ~(TakeEvents \/ Refresh \/ CallPolls \/ CallReturns)
  PROVE  /\ UNCHANGED <<stop, inserted, points>>
         /\ \/ UNCHANGED <<session, queue, shown>>
               /\ (pc \in {"restore", "join", "ended"} => pc' \in {"restore", "join", "ended"})
            \/ ProcessEvents
            \/ (TokenSeen \/ CtrlC) /\ session' = "idle" /\ queue' = <<>> /\ shown' = "idle"
            \/ /\ session' = "idle" /\ UNCHANGED <<queue, shown>>
               /\ pc' \in {"restore", "join", "ended"}
<1> USE DEF Goto, NotTheApp, NotTheTerminal, sessionVars
<1>1. CASE UNCHANGED vars
  BY <1>1 DEF vars
<1>2. CASE Check \/ LoopEnds \/ TerminalFails \/ Draw \/ NoKey
  BY <1>2 DEF Check, LoopEnds, Leave, TerminalFails, Draw, NoKey
<1>3. CASE ProcessEvents
  BY <1>3 DEF ProcessEvents
<1>4. CASE TokenSeen \/ CtrlC
  BY <1>4 DEF TokenSeen, CtrlC, Cancelling
<1>5. CASE NormalKey \/ DeleteKey \/ EditKey \/ EnterKey
  BY <1>5, KeyAsks
<1>6. CASE StopSession \/ Joined
  BY <1>6 DEF StopSession, Joined
<1>7. CASE WatcherStarts \/ RawMode \/ Setup \/ ClearScreen \/ Restore
  BY <1>7 DEF WatcherStarts, RawMode, Setup, ClearScreen, Restore, Fails
<1>8. CASE Watcher \/ Interrupt
  BY <1>8 DEF Watcher, WatcherSees, WatcherStops, Interrupt
<1> QED
  BY <1>1, <1>2, <1>3, <1>4, <1>5, <1>6, <1>7, <1>8 DEF Next, Loop, Run, SessionCall

LEMMA ToldStep == TuiInv /\ [Next]_vars => ToldOK'
<1> SUFFICES ASSUME TuiInv, [Next]_vars PROVE ToldOK'
  OBVIOUS
<1>0. SessionOK /\ ToldOK
  BY DEF TuiInv, TypeOK
<1>1. CASE TakeEvents \/ Refresh \/ CallPolls \/ CallReturns
  <2>1. Told(shown, pc = "call" /\ call \in {"reset", "load"})
    BY <1>0, <1>1, Asks, MovesTell DEF ToldOK
  <2> QED
    BY <1>0, <1>1, <2>1, Asks DEF Told, ToldOK
<1>2. CASE ~(TakeEvents \/ Refresh \/ CallPolls \/ CallReturns)
  <2>0. HasLast(<<>>) /\ \A s : ShownAfter(s, <<>>) = s
    BY DEF HasLast, ShownAfter, Telling
  <2>1. CASE ProcessEvents
    BY <1>0, <2>0, <2>1 DEF ProcessEvents, ToldOK
  <2>2. CASE session' = "idle" /\ queue' = <<>> /\ shown' = "idle"
    BY <2>0, <2>2 DEF ToldOK
  <2>3. CASE ~ProcessEvents /\ ~(session' = "idle" /\ queue' = <<>> /\ shown' = "idle")
    BY <1>0, <1>2, <2>3, Others DEF ToldOK
  <2> QED
    BY <2>1, <2>2, <2>3
<1> QED
  BY <1>1, <1>2

LEMMA PointsStep == TuiInv /\ [Next]_vars => PointsOK' /\ inserted' \in SUBSET Points
<1> SUFFICES ASSUME TuiInv, [Next]_vars PROVE PointsOK' /\ inserted' \in SUBSET Points
  OBVIOUS
<1>0. inserted \subseteq Points /\ points \in Seq(Points) /\ PointsOK /\ PlacesOK
  BY DEF TuiInv, TypeOK, SessionOK, AppOK
<1>1. CASE CallReturns
  <2>1. pc = "call" /\ pc' # "call" /\ (PointsCarriedOut \/ PointsRefused)
    BY <1>1 DEF CallReturns, Goto
  <2>2. inserted' \subseteq Points
    BY <1>0, <2>1, PointsTyped DEF PointsOK
  <2>3. CASE call \notin {"insert", "remove"} \/ (call = "insert" /\ PointsRefused)
    BY <1>0, <2>1, <2>2, <2>3 DEF PointsCarriedOut, PointsRefused, PointsOK
  <2>4. CASE call = "insert" /\ PointsCarriedOut
    <3>1. /\ NextPoint \in Points \ inserted
          /\ inserted' = inserted \cup {NextPoint} /\ points' = Append(points, NextPoint)
      BY <2>4 DEF PointsCarriedOut
    <3>2. /\ DOMAIN points = 1..Len(points) /\ Len(points) \in Nat
          /\ DOMAIN points' = 1..(Len(points) + 1)
          /\ points'[Len(points) + 1] = NextPoint
          /\ \A i \in 1..Len(points) : points'[i] = points[i]
      BY <1>0, <3>1
    <3>3. \A i \in DOMAIN points' : i \in DOMAIN points \/ points'[i] = NextPoint
      BY <3>2
    <3>4. \A i \in DOMAIN points' : points'[i] \in inserted'
      BY <1>0, <3>1, <3>2, <3>3 DEF PointsOK
    <3>5. \A i, j \in DOMAIN points' : points'[i] = points'[j] => i = j
      BY <1>0, <3>1, <3>2 DEF PointsOK
    <3> QED
      BY <2>1, <2>2, <3>4, <3>5 DEF PointsOK
  <2>5. CASE call = "remove"
    <3>1. points # <<>> /\ points' = Front(points)
      BY <1>0, <2>1, <2>5 DEF PointsOK, PointsCarriedOut, PointsRefused
    <3>2. /\ DOMAIN points = 1..Len(points) /\ Len(points) \in Nat \ {0}
          /\ DOMAIN points' = 1..(Len(points) - 1)
          /\ \A i \in DOMAIN points' : points'[i] = points[i]
      BY <1>0, <3>1 DEF Front
    <3>3. \A i \in DOMAIN points' : points[i] # Last(points)
      BY <1>0, <3>2 DEF PointsOK, Last
    <3>4. inserted' \in {inserted, inserted \ {Last(points)}}
      BY <2>1, <2>5 DEF PointsCarriedOut, PointsRefused
    <3> QED
      BY <1>0, <2>1, <2>2, <3>2, <3>3, <3>4 DEF PointsOK
  <2> QED
    BY <2>1, <2>3, <2>4, <2>5
<1>2. CASE NormalKey \/ DeleteKey \/ EditKey \/ EnterKey
  BY <1>0, <1>2, KeyAsks DEF sessionVars, PointsOK
<1>3. CASE TakeEvents \/ Refresh \/ CallPolls
  BY <1>0, <1>3
  DEF TakeEvents, Refresh, CallPolls, PointsOK, PlacesOK, NotTheApp, Goto, sessionVars, inputVars
<1>4. CASE ~(TakeEvents \/ Refresh \/ CallPolls \/ CallReturns)
           /\ ~(NormalKey \/ DeleteKey \/ EditKey \/ EnterKey)
  <2>1. UNCHANGED <<inserted, points>>
    BY <1>4, Others
  <2>2. pc' # "call" \/ UNCHANGED <<pc, call>>
    BY <1>4 DEF Next, vars, Loop, Run, SessionCall, Watcher, WatcherStarts, RawMode, Setup,
      ClearScreen, StopSession, Restore, Joined, WatcherSees, WatcherStops, Interrupt,
      ProcessEvents, Check, LoopEnds, TokenSeen, CtrlC, Cancelling, TerminalFails, Draw, NoKey,
      Goto, Leave, Fails, NotTheApp, inputVars
  <2> QED
    BY <1>0, <2>1, <2>2 DEF PointsOK
<1> QED
  BY <1>1, <1>2, <1>3, <1>4

LEMMA SessionStep == TuiInv /\ [Next]_vars => SessionOK'
<1> SUFFICES ASSUME TuiInv, [Next]_vars PROVE SessionOK'
  OBVIOUS
<1>0. SessionOK /\ inserted' \in SUBSET Points
  BY PointsStep DEF TuiInv, TypeOK
<1>1. CASE TakeEvents \/ Refresh \/ CallPolls \/ CallReturns
  <2>1. session' \in States /\ stop' \in 1..MaxStops /\ queue' \in Seq(Events)
    BY <1>0, <1>1, Asks, SessionMoves
  <2> QED
    BY <1>0, <2>1 DEF SessionOK, States, Events
<1>2. CASE ~(TakeEvents \/ Refresh \/ CallPolls \/ CallReturns)
  <2>1. session' \in {session, "idle"} /\ stop' = stop /\ queue' \in {queue, <<>>}
    BY <1>2, Others DEF ProcessEvents
  <2>2. <<>> \in Seq({"halted", "running", "idle", "stopped", "loaded"})
    OBVIOUS
  <2> QED
    BY <1>0, <2>1, <2>2 DEF SessionOK
<1> QED
  BY <1>1, <1>2

\* The numbers of the stops only grow, and the panes name one that has been.
LEMMA PanesStep ==
  TuiInv /\ [Next]_vars => {stack, locals, tried}' \subseteq 0..stop' /\ shown' \in States
<1> SUFFICES ASSUME TuiInv, [Next]_vars
             PROVE {stack, locals, tried}' \subseteq 0..stop' /\ shown' \in States
  OBVIOUS
<1>0. /\ SessionOK /\ ToldOK /\ {stack, locals, tried} \subseteq 0..stop /\ shown \in States
      /\ stop \in Nat /\ session \in States
  BY TuiAssumption DEF TuiInv, TypeOK, AppOK, SessionOK, States
<1>1. stop' \in Nat /\ stop <= stop'
  <2>1. CASE TakeEvents \/ Refresh \/ CallPolls \/ CallReturns
    BY <1>0, <2>1, Asks, SessionMoves
  <2> QED
    BY <1>0, <2>1, Others
<1>2. CASE Refresh
  BY <1>0, <1>1, <1>2 DEF Refresh, paneVars
<1>3. CASE ProcessEvents
  BY <1>0, <1>1, <1>3 DEF ProcessEvents, ToldOK, paneVars
<1>4. CASE TokenSeen \/ CtrlC
  BY <1>0, <1>1, <1>4 DEF TokenSeen, CtrlC, Cancelling, paneVars, States
<1>5. CASE NormalKey \/ DeleteKey \/ EditKey \/ EnterKey
  BY <1>0, <1>1, <1>5, KeyAsks DEF paneVars
<1>6. CASE UNCHANGED <<shown, paneVars>>
  BY <1>0, <1>1, <1>6 DEF paneVars
<1>7. \/ Refresh \/ ProcessEvents \/ TokenSeen \/ CtrlC
      \/ NormalKey \/ DeleteKey \/ EditKey \/ EnterKey \/ UNCHANGED <<shown, paneVars>>
  BY DEF Next, vars, Loop, Run, SessionCall, Watcher, WatcherStarts, RawMode, Setup, ClearScreen,
    StopSession, Restore, Joined, WatcherSees, WatcherStops, Interrupt, TakeEvents, Check, LoopEnds,
    TerminalFails, Draw, NoKey, CallPolls, CallReturns, NotTheApp
<1> QED
  BY <1>2, <1>3, <1>4, <1>5, <1>6, <1>7

Modes == {"normal", "help", "breakpoint", "load"}
LEMMA AppStep == TuiInv /\ [Next]_vars => AppOK'
<1> SUFFICES ASSUME TuiInv, [Next]_vars PROVE AppOK'
  OBVIOUS
<1>0. /\ points \in Seq(Points) /\ inserted \subseteq Points /\ PointsOK /\ PlacesOK
      /\ input \in Modes /\ typed \in {"blank", "right", "wrong"}
  BY DEF TuiInv, TypeOK, AppOK, SessionOK, Modes
<1>1. points' \in Seq(Points)
  <2>1. CASE CallReturns
    BY <1>0, <2>1, PointsTyped DEF CallReturns, PointsOK
  <2>2. CASE TakeEvents \/ Refresh \/ CallPolls
    BY <1>0, <2>2 DEF TakeEvents, Refresh, CallPolls, NotTheApp
  <2> QED
    BY <1>0, <2>1, <2>2, Others
<1>2. input' \in Modes /\ typed' \in {"blank", "right", "wrong"}
  <2>1. CASE NormalKey
    BY <1>0, <2>1 DEF NormalKey, Typing, Modes
  <2>2. CASE DeleteKey
    BY <1>0, <2>2 DEF DeleteKey
  <2>3. CASE EditKey
    BY <1>0, <2>3 DEF EditKey, Typing, Modes
  <2>4. CASE EnterKey
    BY <1>0, <2>4 DEF EnterKey, Typing, Modes
  <2>5. CASE UNCHANGED <<input, typed>>
    BY <1>0, <2>5
  <2>6. \/ NormalKey \/ DeleteKey \/ EditKey \/ EnterKey \/ UNCHANGED <<input, typed>>
    BY DEF Next, vars, Loop, Run, SessionCall, Watcher, WatcherStarts, RawMode, Setup, ClearScreen,
      StopSession, Restore, Joined, WatcherSees, WatcherStops, Interrupt, TakeEvents, ProcessEvents,
      Refresh, Check, LoopEnds, TokenSeen, CtrlC, Cancelling, TerminalFails, Draw, NoKey, CallPolls,
      CallReturns, NotTheApp, inputVars
  <2> QED
    BY <2>1, <2>2, <2>3, <2>4, <2>5, <2>6
<1> QED
  BY <1>1, <1>2, PanesStep DEF AppOK, Modes, States

LEMMA TuiInductive == TuiInv /\ [Next]_vars => TuiInv'
<1>1. TuiInv /\ [Next]_vars => TypeOK'
  BY PlacesStep, SessionStep, AppStep, FlagsStep DEF TuiInv, TypeOK
<1> QED
  BY <1>1, ToldStep, PointsStep DEF TuiInv

LEMMA TuiInitial == Init => TuiInv
<1> SUFFICES ASSUME Init PROVE TuiInv
  OBVIOUS
<1> USE DEF Init
<1>1. PlacesOK /\ FlagsOK
  <2>1. PlacesOK
    BY DEF PlacesOK
  <2>2. FlagsOK
    BY DEF FlagsOK
  <2> QED
    BY <2>1, <2>2
<1>2. SessionOK
  <2>1. <<"halted", "stopped">> \in Seq({"halted", "running", "idle", "stopped", "loaded"})
    OBVIOUS
  <2> QED
    BY <2>1, TuiAssumption DEF SessionOK
<1>3. AppOK
  BY DEF AppOK
<1>4. PointsOK
  BY DEF PointsOK
<1>5. ToldOK
  <2> DEFINE s == <<"halted", "stopped">>
  <2>1. Telling(s) = {1, 2} /\ s[2] = "stopped"
    BY DEF Telling
  <2>2. Max(Telling(s)) = 2
    BY <2>1, MaxIs
  <2> QED
    BY <2>1, <2>2 DEF ToldOK, HasLast, ShownAfter
<1> QED
  BY <1>1, <1>2, <1>3, <1>4, <1>5 DEF TuiInv, TypeOK

\* Every state the loop, the session and the app come to is one of those the code
\* can reach (TypeOK).
THEOREM TypeCorrect == Spec => []TypeOK
<1>1. TuiInv => TypeOK
  BY DEF TuiInv
<1> QED
  BY <1>1, TuiInitial, TuiInductive, PTL DEF Spec

LEMMA ReadStep == TuiInv /\ ReadOK /\ [Next]_vars => ReadOK'
<1> SUFFICES ASSUME TuiInv, ReadOK, [Next]_vars PROVE ReadOK'
  OBVIOUS
<1> USE DEF ReadOK
<1>1. CASE TakeEvents \/ CallPolls \/ CallReturns
  BY <1>1 DEF TakeEvents, CallPolls, CallReturns, Goto
<1>2. CASE Refresh
  <2>1. CASE pc = "keyRefresh"
    BY <1>2, <2>1 DEF Refresh, Goto
  <2>2. CASE pc # "keyRefresh"
    BY <1>2, <2>2 DEF Refresh, Stays, SessionEnds, Becomes, sessionVars
  <2> QED
    BY <2>1, <2>2
<1>3. CASE ProcessEvents
  BY <1>3 DEF ProcessEvents
<1>4. CASE TokenSeen \/ CtrlC
  BY <1>4 DEF TokenSeen, CtrlC, Cancelling, Leave
<1>5. CASE NormalKey \/ DeleteKey \/ EditKey \/ EnterKey
  BY <1>5, KeyAsks
<1>6. CASE Check \/ Draw
  BY <1>6 DEF Check, Draw, Goto, NotTheApp, sessionVars
<1>7. CASE LoopEnds \/ TerminalFails \/ NoKey \/ Run
  BY <1>7 DEF LoopEnds, TerminalFails, NoKey, Run, WatcherStarts, RawMode, Setup, ClearScreen,
    StopSession, Restore, Joined, Goto, Leave, Fails
<1>8. CASE Watcher \/ Interrupt \/ UNCHANGED vars
  BY <1>8 DEF Watcher, WatcherSees, WatcherStops, Interrupt, sessionVars, vars
<1> QED
  BY <1>1, <1>2, <1>3, <1>4, <1>5, <1>6, <1>7, <1>8 DEF Next, Loop, SessionCall

\* A poll that finds the core stopped says so.
LEMMA PollTells ==
  ASSUME SessionOK, HasLast(queue), PollFindsStop
  PROVE  Contains(queue', "stopped")
<1>1. Moves(FALSE) /\ session # "halted" /\ session' = "halted"
  BY DEF Moves, PollFindsStop, Becomes
<1>2. Told(shown, FALSE)
  BY <1>1, MovesTell
<1> QED
  BY <1>1, <1>2 DEF Told

LEMMA AskedStep == TuiInv /\ AskedOK /\ [Next]_vars => AskedOK'
<1> SUFFICES ASSUME TuiInv, AskedOK, [Next]_vars PROVE AskedOK'
  OBVIOUS
<1>0. SessionOK /\ ToldOK /\ PlacesOK /\ tried \in 0..stop /\ stop \in Nat
  BY TuiAssumption DEF TuiInv, TypeOK, SessionOK, AppOK
<1>1. CASE Refresh
  <2>1. CASE session # "halted"
    BY <1>0, <1>1, <2>1 DEF Refresh, AskedOK, sessionVars, paneVars
  <2>2. CASE session = "halted"
    BY <1>0, <1>1, <2>2 DEF Refresh, AskedOK, Stays, SessionEnds, Becomes
  <2> QED
    BY <2>1, <2>2
<1>2. CASE TakeEvents \/ CallPolls \/ CallReturns
  <2>1. /\ Told(shown, pc = "call" /\ call \in {"reset", "load"})
        /\ stop <= stop' /\ stop' \in Nat
    BY <1>0, <1>2, Asks, MovesTell, SessionMoves DEF ToldOK
  <2>2. UNCHANGED <<tried, locals>>
    BY <1>2 DEF TakeEvents, CallPolls, CallReturns, NotTheApp, paneVars
  <2>3. pc \notin Refreshes
    BY <1>2 DEF TakeEvents, CallPolls, CallReturns, Refreshes
  <2>4. pc = "call" /\ call \in {"reset", "load"} => CallPolls \/ pc' \in Refreshes
    BY <1>2 DEF TakeEvents, CallReturns, Goto, Refreshes
  <2>5. CallPolls => Contains(queue', "stopped")
    BY <1>0, PollTells DEF CallPolls, ToldOK
  <2> QED
    BY <1>0, <2>1, <2>2, <2>3, <2>4, <2>5 DEF AskedOK, Told
<1>3. CASE ProcessEvents
  <2>1. /\ UNCHANGED <<session, stop, tried, locals>> /\ pc \notin Refreshes
        /\ Contains(queue, "stopped") => pc' \in Refreshes
    BY <1>3 DEF ProcessEvents, paneVars, SaysStopped, Goto, Refreshes
  <2> QED
    BY <2>1 DEF AskedOK
<1>4. CASE ~(TakeEvents \/ Refresh \/ CallPolls \/ CallReturns) /\ ~ProcessEvents
  <2>1. UNCHANGED <<tried, locals>> /\ (pc \in Refreshes => pc' = pc)
    BY <1>4, KeyAsks DEF Next, vars, Loop, Run, SessionCall, Watcher, WatcherStarts, RawMode, Setup,
      ClearScreen, StopSession, Restore, Joined, WatcherSees, WatcherStops, Interrupt, Check,
      LoopEnds, TokenSeen, CtrlC, Cancelling, TerminalFails, Draw, NoKey, NotTheApp, paneVars,
      Refreshes
  <2>2. UNCHANGED stop /\ (UNCHANGED <<session, queue>> \/ session' = "idle")
    BY <1>4, Others
  <2> QED
    BY <2>1, <2>2 DEF AskedOK
<1> QED
  BY <1>1, <1>2, <1>3, <1>4

\* What is drawn when a key is read is the session (ShowsTheSession): the state, the
\* panes of a halted core, and the breakpoints, for any number of stops.
THEOREM SessionIsShown == Spec => []ShowsTheSession
<1>1. Init => TuiInv /\ ReadOK /\ AskedOK
  <2>1. Init => Contains(queue, "stopped") /\ pc = "watch" /\ locals = 0
    BY DEF Init, Contains
  <2> QED
    BY <2>1, TuiInitial DEF ReadOK, AskedOK
<1>2. TuiInv /\ ReadOK /\ AskedOK /\ [Next]_vars => (TuiInv /\ ReadOK /\ AskedOK)'
  BY TuiInductive, ReadStep, AskedStep
<1>3. TuiInv /\ ReadOK /\ AskedOK => ShowsTheSession
  <2> SUFFICES ASSUME TuiInv, ReadOK, AskedOK, pc = "input", session # "idle"
               PROVE  /\ shown = session
                      /\ session = "halted" => tried = stop /\ locals \in {0, stop}
                      /\ ToSet(points) \subseteq inserted
    BY DEF ShowsTheSession
  <2>1. queue = <<>>
    BY DEF ReadOK
  <2>2. shown = session
    BY <2>1 DEF TuiInv, ToldOK, ShownAfter, Telling
  <2>3. session = "halted" => tried = stop /\ locals \in {0, stop}
    BY <2>1 DEF AskedOK, Contains, Refreshes
  <2>4. ToSet(points) \subseteq inserted
    BY DEF TuiInv, PointsOK, ToSet
  <2> QED
    BY <2>2, <2>3, <2>4
<1> QED
  BY <1>1, <1>2, <1>3, PTL DEF Spec
=============================================================================
