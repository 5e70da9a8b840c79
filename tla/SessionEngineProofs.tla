------------------------- MODULE SessionEngineProofs -------------------------
(***************************************************************************)
(* What holds of SessionEngine for every set of probes, every bound and    *)
(* every set of faults.                                                    *)
(***************************************************************************)
EXTENDS SessionEngine, TLAPS

\* Where an operation is tells the state it finds: Place[at].
Place ==
  [none |-> {"idle"} \cup Live, server |-> {"probe_selected"}, ready |-> {"server_starting"},
   gdb |-> {"server_ready"}, set |-> {"gdb_starting"}, symbols |-> {"gdb_starting"},
   select |-> {"gdb_starting"}, resetting |-> {"connected", "halted", "running"},
   confirm |-> {"connected", "halted"}, continue |-> {"halted"}, interrupt |-> {"running"},
   wait |-> {"running"}, step |-> {"halted"}, finish |-> {"running"}, frame |-> {"halted"},
   query |-> {"halted"}, more |-> {"halted"}, download |-> {"halted"},
   compare |-> {"halted"}, disconnect |-> {"failed", "cancelling"},
   shutdown |-> {"disconnecting"}]

\* An operation is at a step exactly while it is in progress, it awaits a reply
\* exactly at a command, only a connect is in progress before the first halt,
\* only reset-halt resets a running core, and a session has a generation.
PlaceOK ==
  /\ op = "none" <=> at = "none"
  /\ reply = "none" <=> at \notin Commands \cup {"wait"}
  /\ at = "wait" => reply = "done"
  /\ state \in Place[at]
  /\ state # "idle" => generation > 0
  /\ at # "none" /\ state \in Live \ {"halted", "running"} => op = "connect"
  /\ at = "resetting" /\ state = "running" => op = "reset"

\* Where a halted engine has not touched the core yet, or has seen it stop.
Still == at \notin {"confirm", "step"} \/ (at = "step" /\ reply # "done")

\* What the engine knows of the core, of the unread stop and of the watcher.
KnowledgeOK ==
  /\ at # "none" => ~owed
  /\ ~owed /\ state = "running" /\ pending => target = "halted"
  /\ ~owed /\ ~doubt =>
       /\ state = "halted" /\ Still => target = "halted" /\ ~pending
       /\ at = "step" /\ reply = "done" /\ pending => target = "halted"
       /\ at = "finish" => target = "halted" /\ ~pending
       /\ state = "running" /\ at \in {"none", "wait"} /\ target = "halted" => pending

WatcherOK ==
  /\ state = "running" => shown = "running"
  /\ ~owed /\ ~doubt /\ state = "halted" =>
       at = "frame" \/ (at = "confirm" /\ op # "load") \/ shown = "stopped"

LEMMA FlagsStep == FlagsOK /\ [Next]_vars => FlagsOK'
<1> SUFFICES ASSUME FlagsOK, [Next]_vars PROVE FlagsOK'
  OBVIOUS
<1> USE DEF FlagsOK
<1>1. CASE Call
  <2> USE DEF Begin, eventVars, worldVars
  <2>1. ASSUME NEW p \in Probes, Connect(p) \/ StartConnected(p) \/ LoadFirmware(p)
        PROVE FlagsOK'
    BY <2>1 DEF Connect, StartConnected, LoadFirmware
  <2>2. CASE Continue \/ Halt \/ WaitUntilStopped \/ Step \/ ResetHalt \/ Query
    BY <2>2 DEF Continue, Halt, WaitUntilStopped, Step, ResetHalt, Query
  <2>3. CASE RejectArguments \/ Poll
    BY <2>3 DEF RejectArguments, Poll
  <2>4. ASSUME NEW o \in Operations, Refuse(o) PROVE FlagsOK'
    BY <2>4 DEF Refuse
  <2> QED
    BY <1>1, <2>1, <2>2, <2>3, <2>4 DEF Call
<1>2. CASE Transport
  <2> USE DEF Abort, Answered, Goto, Succeed, MustCleanUp
  <2>1. CASE Send \/ ResultRead
    BY <2>1 DEF Send, ResultRead
  <2>2. CASE StopRead \/ Refused 
    BY <2>2 DEF StopRead, Refused, CommandErrors
  <2>3. CASE TimedOut \/ Interrupted \/ Broken
    BY <2>3 DEF TimedOut, Interrupted, Broken
  <2>4. CASE MiAsyncSet \/ SymbolsRead \/ TargetSelected \/ ResetDone
    BY <2>4 DEF MiAsyncSet, SymbolsRead, TargetSelected, ResetDone
  <2>5. CASE HaltConfirmed \/ HaltUnconfirmed \/ TargetRuns
    BY <2>5 DEF HaltConfirmed, HaltUnconfirmed, TargetRuns
  <2>6. CASE QueryAnswered \/ Downloaded \/ Compared \/ FrameRead
    BY <2>6 DEF QueryAnswered, Downloaded, Compared, FrameRead
  <2> QED
    BY <1>2, <2>1, <2>2, <2>3, <2>4, <2>5, <2>6 DEF Transport
<1>3. CASE Internal \/ CleanUp
  BY <1>3 DEF Internal, AnnounceStartup, FinishStop, Disconnect, Shutdown, Succeed, Goto,
              CleanUp, Stop, FailAndCleanup, Cancel, Unwind, eventVars, worldVars
<1>4. CASE World
  BY <1>4 DEF World, CoreStops, StopReported, LinkBreaks, TokenCancelled, engineVars
<1>5. CASE UNCHANGED vars
  BY <1>5 DEF vars, engineVars, worldVars
<1> QED
  BY <1>1, <1>2, <1>3, <1>4, <1>5 DEF Next

LEMMA FieldsStep == TypeOK /\ [Next]_vars => FieldsOK'
<1> SUFFICES ASSUME FieldsOK, [Next]_vars PROVE FieldsOK'
  BY DEF TypeOK
<1> USE DEF FieldsOK
<1>1. CASE Call
  <2> USE DEF Begin, Operations, Allowed, First, Steps, Commands, Plain, Waiting,
              eventVars, worldVars
  <2>1. ASSUME NEW p \in Probes, Connect(p) PROVE FieldsOK'
    BY <2>1 DEF Connect
  <2>2. ASSUME NEW p \in Probes, StartConnected(p) PROVE FieldsOK'
    BY <2>2 DEF StartConnected, Startup, SessionState, Live
  <2>3. ASSUME NEW p \in Probes, LoadFirmware(p) PROVE FieldsOK'
    BY <2>3 DEF LoadFirmware, Codes
  <2>4. CASE Continue \/ Halt \/ WaitUntilStopped
    BY <2>4 DEF Continue, Halt, WaitUntilStopped
  <2>5. CASE Step \/ ResetHalt \/ Query
    BY <2>5 DEF Step, ResetHalt, Query
  <2>6. CASE RejectArguments \/ Poll
    BY <2>6 DEF RejectArguments, Poll, LinkError, Codes, Fatal
  <2>7. ASSUME NEW o \in Operations, Refuse(o) PROVE FieldsOK'
    BY <2>7 DEF Refuse, Codes
  <2> QED
    BY <1>1, <2>1, <2>2, <2>3, <2>4, <2>5, <2>6, <2>7 DEF Call
<1>2. CASE Transport
  <2> USE DEF Abort, Answered, Goto, Succeed, Return, ShownOnError, SayStopped, NoEvent,
              Steps, Commands, Plain, Waiting, Codes, Fatal, LinkError, eventVars
  <2>1. CASE Send
    BY <2>1 DEF Send
  <2>2. CASE ResultRead \/ StopRead
    BY <2>2 DEF ResultRead, StopRead, CommandErrors, SessionState, Live
  <2>3. CASE Refused \/ TimedOut
    BY <2>3 DEF Refused, CommandErrors, TimedOut, MayLeave
  <2>4. CASE Interrupted \/ Broken
    BY <2>4 DEF Interrupted, Broken, MayLeave
  <2>5. CASE MiAsyncSet \/ SymbolsRead \/ TargetSelected \/ ResetDone
    BY <2>5 DEF MiAsyncSet, SymbolsRead, TargetSelected, ResetDone, SessionState, Live
  <2>6. CASE HaltConfirmed \/ HaltUnconfirmed \/ TargetRuns
    BY <2>6 DEF HaltConfirmed, HaltUnconfirmed, TargetRuns, SessionState, Live
  <2>7. CASE QueryAnswered \/ Downloaded \/ Compared \/ FrameRead
    BY <2>7 DEF QueryAnswered, Downloaded, Compared, FrameRead
  <2> QED
    BY <1>2, <2>1, <2>2, <2>3, <2>4, <2>5, <2>6, <2>7 DEF Transport
<1>3. CASE Internal \/ CleanUp
  <2> USE DEF SessionState, Live, Steps, Commands, Plain, Cleanups, eventVars, worldVars
  <2>1. CASE AnnounceStartup
    BY <2>1 DEF AnnounceStartup, Startup
  <2>2. CASE FinishStop
    BY <2>2 DEF FinishStop, Succeed, Goto, Return, SayStopped, NoEvent, Codes
  <2>3. CASE Disconnect \/ Shutdown
    BY <2>3 DEF Disconnect, Shutdown
  <2>4. CASE CleanUp
    BY <2>4 DEF CleanUp, Stop, FailAndCleanup, Cancel, Unwind
  <2> QED
    BY <1>3, <2>1, <2>2, <2>3, <2>4 DEF Internal
<1>4. CASE World
  BY <1>4 DEF World, CoreStops, StopReported, LinkBreaks, TokenCancelled, engineVars, eventVars
<1>5. CASE UNCHANGED vars
  BY <1>5 DEF vars, engineVars, eventVars, worldVars
<1> QED
  BY <1>1, <1>2, <1>3, <1>4, <1>5 DEF Next

LEMMA TypeInit == Init => TypeOK
<1>1. Init => FieldsOK
  BY DEF Init, FieldsOK, SessionState, Live, Steps, Codes, Fatal
<1>2. Init => FlagsOK
  BY DEF Init, FlagsOK
<1> QED
  BY <1>1, <1>2 DEF TypeOK

THEOREM TypeCorrect == Spec => []TypeOK
<1>1. TypeOK /\ [Next]_vars => TypeOK'
  BY FieldsStep, FlagsStep DEF TypeOK
<1> QED
  BY TypeInit, <1>1, PTL DEF Spec
-----------------------------------------------------------------------------
LEMMA PlaceStep == TypeOK /\ PlaceOK /\ [Next]_vars => PlaceOK'
<1> SUFFICES ASSUME TypeOK, PlaceOK, [Next]_vars PROVE PlaceOK'
  OBVIOUS
<1> USE DEF PlaceOK, Place, TypeOK, FieldsOK
<1>1. CASE Call
  <2> USE DEF Begin, Callable, Quiet, Operations, Allowed, First, Commands, Plain, Waiting
  <2>1. ASSUME NEW p \in Probes, Connect(p) PROVE PlaceOK'
    BY <2>1 DEF Connect
  <2>2. ASSUME NEW p \in Probes, StartConnected(p) PROVE PlaceOK'
    BY <2>2 DEF StartConnected
  <2>3. ASSUME NEW p \in Probes, LoadFirmware(p) PROVE PlaceOK'
    BY <2>3 DEF LoadFirmware
  <2>4. CASE Continue \/ Halt \/ WaitUntilStopped
    BY <2>4 DEF Continue, Halt, WaitUntilStopped
  <2>5. CASE Step \/ ResetHalt \/ Query
    BY <2>5 DEF Step, ResetHalt, Query
  <2>6. CASE RejectArguments
    BY <2>6 DEF RejectArguments
  <2>7. CASE Poll
    BY <2>7 DEF Poll, StopFound
  <2>8. ASSUME NEW o \in Operations, Refuse(o) PROVE PlaceOK'
    BY <2>8 DEF Refuse
  <2> QED
    BY <1>1, <2>1, <2>2, <2>3, <2>4, <2>5, <2>6, <2>7, <2>8 DEF Call
<1>2. CASE Transport
  <2> USE DEF Abort, Answered, Goto, Succeed, Return, Commands, Plain, Waiting, Live
  <2>1. CASE Send
    BY <2>1 DEF Send
  <2>2. CASE ResultRead \/ StopRead
    BY <2>2 DEF ResultRead, StopRead, CommandErrors
  <2>3. CASE Refused \/ TimedOut
    BY <2>3 DEF Refused, CommandErrors, TimedOut, Deadline
  <2>4. CASE Interrupted \/ Broken
    BY <2>4 DEF Interrupted, Broken
  <2>5. CASE MiAsyncSet \/ SymbolsRead \/ TargetSelected
    BY <2>5 DEF MiAsyncSet, SymbolsRead, TargetSelected
  <2>6. CASE ResetDone
    BY <2>6 DEF ResetDone
  <2>7. CASE HaltConfirmed \/ HaltUnconfirmed \/ TargetRuns
    BY <2>7 DEF HaltConfirmed, HaltUnconfirmed, TargetRuns
  <2>8. CASE QueryAnswered \/ Downloaded \/ Compared \/ FrameRead
    BY <2>8 DEF QueryAnswered, Downloaded, Compared, FrameRead
  <2> QED
    BY <1>2, <2>1, <2>2, <2>3, <2>4, <2>5, <2>6, <2>7, <2>8 DEF Transport
<1>3. CASE Internal \/ CleanUp
  <2> USE DEF Commands, Plain, Waiting, Live
  <2>1. CASE AnnounceStartup
    BY <2>1 DEF AnnounceStartup, Startup
  <2>2. CASE FinishStop
    BY <2>2 DEF FinishStop, Succeed, Goto, Return
  <2>3. CASE Disconnect \/ Shutdown
    BY <2>3 DEF Disconnect, Shutdown
  <2>4. CASE CleanUp
    BY <2>4 DEF CleanUp, Stop, FailAndCleanup, Cancel, Unwind, Quiet, SomethingToCleanUp
  <2> QED
    BY <1>3, <2>1, <2>2, <2>3, <2>4 DEF Internal
<1>4. CASE World
  BY <1>4 DEF World, CoreStops, StopReported, LinkBreaks, TokenCancelled, engineVars
<1>5. CASE UNCHANGED vars
  BY <1>5 DEF vars, engineVars
<1> QED
  BY <1>1, <1>2, <1>3, <1>4, <1>5 DEF Next

\* What ends the channel, the deadline and the token are fatal to a command: the
\* caller must clean up.
LEMMA LinkErrorsAreFatal == FieldsOK /\ link # "up" => LinkError[link] \in Fatal
BY DEF FieldsOK, LinkError, Fatal

LEMMA FatalErrors ==
  ASSUME FieldsOK, TimedOut \/ Interrupted \/ Broken
  PROVE  owed' /\ at' = "none" /\ state' = state /\ shown' = ShownOnError
<1> USE DEF Abort, Return, MustCleanUp
<1>1. CASE TimedOut
  BY <1>1 DEF TimedOut, Fatal
<1>2. CASE Interrupted
  BY <1>2, LinkErrorsAreFatal DEF Interrupted
<1>3. CASE Broken
  BY <1>3, LinkErrorsAreFatal DEF Broken
<1> QED
  BY <1>1, <1>2, <1>3

LEMMA SendFailsOrSends ==
  ASSUME FieldsOK, Send
  PROVE  /\ reply = "unsent" /\ target' = target
         /\ \/ owed' /\ at' = "none" /\ state' = state /\ shown' = ShownOnError
            \/ /\ reply' = "sent" /\ ~pending'
               /\ UNCHANGED <<state, op, at, owed, shown, doubt>>
<1>1. CASE ~open \/ cancelled \/ link # "up"
  BY <1>1, LinkErrorsAreFatal DEF Send, Abort, Return, MustCleanUp, Fatal
<1>2. CASE open /\ ~cancelled /\ link = "up"
  BY <1>2 DEF Send, eventVars
<1> QED
  BY <1>1, <1>2

LEMMA KnowledgeStep == TypeOK /\ PlaceOK /\ KnowledgeOK /\ [Next]_vars => KnowledgeOK'
<1> SUFFICES ASSUME TypeOK, PlaceOK, KnowledgeOK, [Next]_vars, FlagsOK' PROVE KnowledgeOK'
  BY FlagsStep DEF TypeOK
<1> USE DEF KnowledgeOK, Still, PlaceOK, Place, TypeOK, FieldsOK, FlagsOK
<1>1. CASE Call
  <2> USE DEF Begin, Callable, Quiet, Operations, Allowed, First, Commands, Plain, Waiting,
              worldVars
  <2>1. ASSUME NEW p \in Probes, Connect(p) PROVE KnowledgeOK'
    BY <2>1 DEF Connect
  <2>2. ASSUME NEW p \in Probes, StartConnected(p) PROVE KnowledgeOK'
    BY <2>2 DEF StartConnected
  <2>3. ASSUME NEW p \in Probes, LoadFirmware(p) PROVE KnowledgeOK'
    BY <2>3 DEF LoadFirmware
  <2>4. CASE Continue \/ Halt \/ WaitUntilStopped
    BY <2>4 DEF Continue, Halt, WaitUntilStopped
  <2>5. CASE Step \/ ResetHalt \/ Query
    BY <2>5 DEF Step, ResetHalt, Query
  <2>6. CASE RejectArguments
    BY <2>6 DEF RejectArguments
  <2>7. CASE Poll
    BY <2>7 DEF Poll, StopFound
  <2>8. ASSUME NEW o \in Operations, Refuse(o) PROVE KnowledgeOK'
    BY <2>8 DEF Refuse
  <2> QED
    BY <1>1, <2>1, <2>2, <2>3, <2>4, <2>5, <2>6, <2>7, <2>8 DEF Call
<1>2. CASE Transport
  <2> USE DEF Abort, Answered, Goto, Succeed, Return, MustCleanUp, Fatal,
              Commands, Plain, Waiting, Live
  <2>1. CASE Send
    BY <2>1, SendFailsOrSends
  <2>2. CASE ResultRead \/ StopRead
    BY <2>2 DEF ResultRead, StopRead, CommandErrors
  <2>3. CASE Refused \/ HaltUnconfirmed
    BY <2>3 DEF Refused, CommandErrors, HaltUnconfirmed
  <2>4. CASE TimedOut \/ Interrupted \/ Broken
    BY <2>4, FatalErrors
  <2>5. CASE MiAsyncSet \/ SymbolsRead \/ TargetSelected
    BY <2>5 DEF MiAsyncSet, SymbolsRead, TargetSelected
  <2>6. CASE ResetDone
    BY <2>6 DEF ResetDone
  <2>7. CASE HaltConfirmed \/ TargetRuns
    BY <2>7 DEF HaltConfirmed, TargetRuns
  <2>8. CASE QueryAnswered \/ Downloaded \/ Compared \/ FrameRead
    BY <2>8 DEF QueryAnswered, Downloaded, Compared, FrameRead
  <2> QED
    BY <1>2, <2>1, <2>2, <2>3, <2>4, <2>5, <2>6, <2>7, <2>8 DEF Transport
<1>3. CASE Internal \/ CleanUp
  <2> USE DEF Commands, Plain, Waiting, Live, worldVars
  <2>1. CASE AnnounceStartup
    BY <2>1 DEF AnnounceStartup, Startup
  <2>2. CASE FinishStop
    BY <2>2 DEF FinishStop, Succeed, Goto, Return
  <2>3. CASE Disconnect \/ Shutdown
    BY <2>3 DEF Disconnect, Shutdown
  <2>4. CASE CleanUp
    BY <2>4 DEF CleanUp, Stop, FailAndCleanup, Cancel, Unwind, Quiet
  <2> QED
    BY <1>3, <2>1, <2>2, <2>3, <2>4 DEF Internal
<1>4. CASE World
  BY <1>4 DEF World, CoreStops, StopReported, LinkBreaks, TokenCancelled, engineVars, Live
<1>5. CASE UNCHANGED vars
  BY <1>5 DEF vars, engineVars, worldVars
<1> QED
  BY <1>1, <1>2, <1>3, <1>4, <1>5 DEF Next

LEMMA WatcherStep ==
  TypeOK /\ PlaceOK /\ KnowledgeOK /\ WatcherOK /\ [Next]_vars => WatcherOK'
<1> SUFFICES ASSUME TypeOK, PlaceOK, KnowledgeOK, WatcherOK, [Next]_vars, FlagsOK'
             PROVE  WatcherOK'
  BY FlagsStep DEF TypeOK
<1> USE DEF WatcherOK, KnowledgeOK, PlaceOK, Place, TypeOK, FieldsOK, FlagsOK
<1>1. CASE Call
  <2> USE DEF Begin, Callable, Quiet, Operations, Allowed, First, worldVars, eventVars
  <2>1. ASSUME NEW p \in Probes, Connect(p) \/ StartConnected(p) PROVE WatcherOK'
    BY <2>1 DEF Connect, StartConnected
  <2>2. ASSUME NEW p \in Probes, LoadFirmware(p) PROVE WatcherOK'
    BY <2>2 DEF LoadFirmware
  <2>3. CASE Continue \/ Halt \/ WaitUntilStopped
    BY <2>3 DEF Continue, Halt, WaitUntilStopped
  <2>4. CASE Step \/ ResetHalt \/ Query
    BY <2>4 DEF Step, ResetHalt, Query
  <2>5. CASE RejectArguments \/ Poll
    BY <2>5 DEF RejectArguments, Poll, StopFound
  <2>6. ASSUME NEW o \in Operations, Refuse(o) PROVE WatcherOK'
    BY <2>6 DEF Refuse
  <2> QED
    BY <1>1, <2>1, <2>2, <2>3, <2>4, <2>5, <2>6 DEF Call
<1>2. CASE Transport
  <2> USE DEF Abort, Answered, Goto, Succeed, Return, MustCleanUp, ShownOnError, Fatal,
              SayStopped, NoEvent, Commands, Plain, Waiting, Live, eventVars
  <2>1. CASE Send
    BY <2>1, SendFailsOrSends
  <2>2. CASE ResultRead \/ StopRead
    BY <2>2 DEF ResultRead, StopRead, CommandErrors
  <2>3. CASE Refused \/ HaltUnconfirmed
    BY <2>3 DEF Refused, CommandErrors, HaltUnconfirmed
  <2>4. CASE TimedOut \/ Interrupted \/ Broken
    BY <2>4, FatalErrors
  <2>5. CASE MiAsyncSet \/ SymbolsRead \/ TargetSelected \/ ResetDone
    BY <2>5 DEF MiAsyncSet, SymbolsRead, TargetSelected, ResetDone
  <2>6. CASE HaltConfirmed
    BY <2>6 DEF HaltConfirmed
  <2>7. CASE TargetRuns
    BY <2>7 DEF TargetRuns
  <2>8. CASE QueryAnswered \/ Downloaded \/ Compared \/ FrameRead
    BY <2>8 DEF QueryAnswered, Downloaded, Compared, FrameRead
  <2> QED
    BY <1>2, <2>1, <2>2, <2>3, <2>4, <2>5, <2>6, <2>7, <2>8 DEF Transport
<1>3. CASE Internal \/ CleanUp
  <2> USE DEF Live, eventVars, worldVars
  <2>1. CASE AnnounceStartup
    BY <2>1 DEF AnnounceStartup, Startup
  <2>2. CASE FinishStop
    BY <2>2 DEF FinishStop, Succeed, Goto, Return, SayStopped, NoEvent
  <2>3. CASE Disconnect \/ Shutdown
    BY <2>3 DEF Disconnect, Shutdown
  <2>4. CASE CleanUp
    BY <2>4 DEF CleanUp, Stop, FailAndCleanup, Cancel, Unwind
  <2> QED
    BY <1>3, <2>1, <2>2, <2>3, <2>4 DEF Internal
<1>4. CASE World
  BY <1>4 DEF World, CoreStops, StopReported, LinkBreaks, TokenCancelled, engineVars, eventVars
<1>5. CASE UNCHANGED vars
  BY <1>5 DEF vars, engineVars, eventVars, worldVars
<1> QED
  BY <1>1, <1>2, <1>3, <1>4, <1>5 DEF Next
-----------------------------------------------------------------------------
LEMMA StrongInit == Init => PlaceOK /\ KnowledgeOK /\ WatcherOK
BY DEF Init, PlaceOK, Place, Live, Commands, Plain, Waiting, KnowledgeOK, Still, WatcherOK

\* The inductive invariant behind the three theorems that follow.
LEMMA StrongInvariant == Spec => [](TypeOK /\ PlaceOK /\ KnowledgeOK /\ WatcherOK)
<1>1. Init => TypeOK /\ PlaceOK /\ KnowledgeOK /\ WatcherOK
  BY TypeInit, StrongInit
<1>2. TypeOK /\ PlaceOK /\ KnowledgeOK /\ WatcherOK /\ [Next]_vars
        => TypeOK' /\ PlaceOK' /\ KnowledgeOK' /\ WatcherOK'
  BY FieldsStep, FlagsStep, PlaceStep, KnowledgeStep, WatcherStep DEF TypeOK
<1> QED
  BY <1>1, <1>2, PTL DEF Spec

\* Between operations, and while it inspects or writes the target, an engine
\* that says halted has a halted core that GDB knows to be halted.
THEOREM HaltedIsTrue == Spec => []HaltedTruth
<1>1. PlaceOK /\ KnowledgeOK => HaltedTruth
  BY DEF PlaceOK, KnowledgeOK, Still, HaltedTruth, Quiet
<1> QED
  BY StrongInvariant, <1>1, PTL

\* An engine that says running has not let the stop of its core go by.
THEOREM StopIsKept == Spec => []NoLostStop
<1>1. PlaceOK /\ KnowledgeOK => NoLostStop
  BY DEF PlaceOK, KnowledgeOK, NoLostStop, Quiet
<1> QED
  BY StrongInvariant, <1>1, PTL

\* The Running and Stopped events tell a watcher the state of the engine.
THEOREM EventsAreTrue == Spec => []EventsTellState
<1>1. PlaceOK /\ WatcherOK /\ TypeOK => EventsTellState
  BY DEF PlaceOK, WatcherOK, EventsTellState, Quiet, TypeOK, FieldsOK
<1> QED
  BY StrongInvariant, <1>1, PTL
-----------------------------------------------------------------------------
\* The end of a session is counted at the only step that reaches idle.
LEMMA EndsOnceStep == TypeOK /\ PlaceOK /\ EndsOnce /\ [Next]_vars => EndsOnce'
<1> SUFFICES ASSUME TypeOK, PlaceOK, EndsOnce, [Next]_vars PROVE EndsOnce'
  OBVIOUS
<1> USE DEF EndsOnce, PlaceOK, Place, TypeOK, FieldsOK
<1>1. CASE Call
  <2> USE DEF Begin, Allowed, Operations, eventVars, worldVars
  <2>1. ASSUME NEW p \in Probes, Connect(p) PROVE EndsOnce'
    BY <2>1 DEF Connect
  <2>2. ASSUME NEW p \in Probes, StartConnected(p) PROVE EndsOnce'
    BY <2>2 DEF StartConnected
  <2>3. ASSUME NEW p \in Probes, LoadFirmware(p) PROVE EndsOnce'
    BY <2>3 DEF LoadFirmware
  <2>4. CASE Continue \/ Halt \/ WaitUntilStopped
    BY <2>4 DEF Continue, Halt, WaitUntilStopped
  <2>5. CASE Step \/ ResetHalt \/ Query
    BY <2>5 DEF Step, ResetHalt, Query
  <2>6. CASE RejectArguments \/ Poll
    BY <2>6 DEF RejectArguments, Poll
  <2>7. ASSUME NEW o \in Operations, Refuse(o) PROVE EndsOnce'
    BY <2>7 DEF Refuse
  <2> QED
    BY <1>1, <2>1, <2>2, <2>3, <2>4, <2>5, <2>6, <2>7 DEF Call
<1>2. CASE Transport
  <2> USE DEF Abort, Answered, Goto, Succeed, SayStopped, NoEvent, Commands, Plain, Waiting,
              Live, eventVars
  <2>1. CASE Send
    BY <2>1 DEF Send
  <2>2. CASE ResultRead \/ StopRead
    BY <2>2 DEF ResultRead, StopRead, CommandErrors
  <2>3. CASE Refused \/ TimedOut
    BY <2>3 DEF Refused, CommandErrors, TimedOut
  <2>4. CASE Interrupted \/ Broken
    BY <2>4 DEF Interrupted, Broken
  <2>5. CASE MiAsyncSet \/ SymbolsRead \/ TargetSelected \/ ResetDone
    BY <2>5 DEF MiAsyncSet, SymbolsRead, TargetSelected, ResetDone
  <2>6. CASE HaltConfirmed \/ HaltUnconfirmed \/ TargetRuns
    BY <2>6 DEF HaltConfirmed, HaltUnconfirmed, TargetRuns
  <2>7. CASE QueryAnswered \/ Downloaded \/ Compared \/ FrameRead
    BY <2>7 DEF QueryAnswered, Downloaded, Compared, FrameRead
  <2> QED
    BY <1>2, <2>1, <2>2, <2>3, <2>4, <2>5, <2>6, <2>7 DEF Transport
<1>3. CASE Internal \/ CleanUp
  <2> USE DEF eventVars, worldVars
  <2>1. CASE AnnounceStartup \/ FinishStop
    BY <2>1 DEF AnnounceStartup, FinishStop, Succeed, Goto, SayStopped, NoEvent
  <2>2. CASE Disconnect
    BY <2>2 DEF Disconnect
  <2>3. CASE Shutdown
    <3>1. ends = 0 /\ ends' = 1 /\ state' = "idle" /\ ~open' /\ probe' = NoProbe
      BY <2>3 DEF Shutdown
    <3>2. generation' > 0
      BY <2>3 DEF Shutdown
    <3> QED
      BY <3>1, <3>2
  <2>4. CASE CleanUp
    BY <2>4 DEF CleanUp, Stop, FailAndCleanup, Cancel, Unwind, SomethingToCleanUp
  <2> QED
    BY <1>3, <2>1, <2>2, <2>3, <2>4 DEF Internal
<1>4. CASE World
  BY <1>4 DEF World, CoreStops, StopReported, LinkBreaks, TokenCancelled, engineVars, eventVars
<1>5. CASE UNCHANGED vars
  BY <1>5 DEF vars, engineVars, eventVars, worldVars
<1> QED
  BY <1>1, <1>2, <1>3, <1>4, <1>5 DEF Next

\* The end of a session is published once, with the transport shut down.
THEOREM SessionEndsOnce == Spec => []EndsOnce
<1>1. Init => EndsOnce
  BY DEF Init, EndsOnce
<1> QED
  BY <1>1, EndsOnceStep, StrongInvariant, PTL DEF Spec
-----------------------------------------------------------------------------
Same == UNCHANGED <<state, generation, ending>>

LEMMA LifecycleStep == TypeOK /\ PlaceOK /\ [Next]_vars => [Lifecycle!Next]_(Lifecycle!vars)
<1> SUFFICES ASSUME TypeOK, PlaceOK, [Next]_vars PROVE Same \/ Lifecycle!Next
  BY DEF Same, Lifecycle!vars
<1> USE DEF PlaceOK, Place, TypeOK, FieldsOK, Same
<1>1. CASE Call
  <2> USE DEF Begin, eventVars
  <2>1. ASSUME NEW p \in Probes, Connect(p) \/ LoadFirmware(p) PROVE Same
    BY <2>1 DEF Connect, LoadFirmware
  <2>2. ASSUME NEW p \in Probes, StartConnected(p) PROVE Lifecycle!Start
    BY <2>2 DEF StartConnected, Lifecycle!Start
  <2>3. CASE Continue \/ Halt \/ WaitUntilStopped \/ Step \/ ResetHalt \/ Query
    BY <2>3 DEF Continue, Halt, WaitUntilStopped, Step, ResetHalt, Query
  <2>4. CASE RejectArguments \/ Poll
    BY <2>4 DEF RejectArguments, Poll
  <2>5. ASSUME NEW o \in Operations, Refuse(o) PROVE Same
    BY <2>5 DEF Refuse
  <2> QED
    BY <1>1, <2>1, <2>2, <2>3, <2>4, <2>5 DEF Call, Lifecycle!Next
<1>2. CASE Transport
  <2> USE DEF Abort, Answered, NoEvent, SayStopped, eventVars
  <2>1. CASE Send \/ ResultRead \/ Refused
    BY <2>1 DEF Send, ResultRead, Refused, CommandErrors
  <2>2. CASE TimedOut \/ Interrupted \/ Broken \/ HaltUnconfirmed
    BY <2>2 DEF TimedOut, Interrupted, Broken, HaltUnconfirmed
  <2>3. CASE MiAsyncSet \/ SymbolsRead \/ QueryAnswered \/ Downloaded \/ Compared \/ FrameRead
    BY <2>3 DEF MiAsyncSet, SymbolsRead, QueryAnswered, Downloaded, Compared, FrameRead
  <2>4. CASE StopRead
    BY <2>4 DEF StopRead, CommandErrors, Waiting, Lifecycle!Next, Lifecycle!Advance, Lifecycle!Forward
  <2>5. CASE TargetSelected
    BY <2>5 DEF TargetSelected, Lifecycle!Next, Lifecycle!Advance, Lifecycle!Forward
  <2>6. CASE ResetDone
    BY <2>6 DEF ResetDone, Lifecycle!Next, Lifecycle!Advance, Lifecycle!Forward
  <2>7. CASE HaltConfirmed
    BY <2>7 DEF HaltConfirmed, Lifecycle!Next, Lifecycle!Advance, Lifecycle!Forward
  <2>8. CASE TargetRuns
    BY <2>8 DEF TargetRuns, Lifecycle!Next, Lifecycle!Advance, Lifecycle!Forward
  <2> QED
    BY <1>2, <2>1, <2>2, <2>3, <2>4, <2>5, <2>6, <2>7, <2>8 DEF Transport
<1>3. CASE Internal
  <2>1. CASE AnnounceStartup
    BY <2>1 DEF AnnounceStartup, Startup, eventVars,
                Lifecycle!Next, Lifecycle!Advance, Lifecycle!Forward
  <2>2. CASE FinishStop
    BY <2>2 DEF FinishStop, NoEvent, SayStopped, eventVars,
                Lifecycle!Next, Lifecycle!Advance, Lifecycle!Forward
  <2>3. CASE Disconnect
    BY <2>3 DEF Disconnect, eventVars, Lifecycle!Next, Lifecycle!Disconnect
  <2>4. CASE Shutdown
    BY <2>4 DEF Shutdown, Lifecycle!Next, Lifecycle!Finish
  <2> QED
    BY <1>3, <2>1, <2>2, <2>3, <2>4 DEF Internal
<1>4. CASE CleanUp
  <2>1. Quiet /\ SomethingToCleanUp => state \in Lifecycle!Live
    BY DEF Quiet, SomethingToCleanUp, Live, Lifecycle!Live, Lifecycle!Starting
  <2>2. CASE Stop
    BY <2>1, <2>2 DEF Stop, Unwind, Lifecycle!Next, Lifecycle!Disconnect
  <2>3. CASE FailAndCleanup
    BY <2>1, <2>3 DEF FailAndCleanup, Unwind, Lifecycle!Next, Lifecycle!Fail
  <2>4. CASE Cancel
    BY <2>1, <2>4 DEF Cancel, Unwind, Lifecycle!Next, Lifecycle!Cancel
  <2> QED
    BY <1>4, <2>2, <2>3, <2>4 DEF CleanUp
<1>5. CASE World
  BY <1>5 DEF World, CoreStops, StopReported, LinkBreaks, TokenCancelled, engineVars, eventVars
<1>6. CASE UNCHANGED vars
  BY <1>6 DEF vars, engineVars, eventVars
<1> QED
  BY <1>1, <1>2, <1>3, <1>4, <1>5, <1>6 DEF Next

\* Every transition the engine publishes is one the lifecycle allows, for the
\* reason the lifecycle gives.
THEOREM EngineImplementsLifecycle == Spec => LifecycleSpec
<1>1. Init => Lifecycle!Init
  BY DEF Init, Lifecycle!Init
<1> QED
  BY <1>1, LifecycleStep, StrongInvariant, PTL DEF Spec, LifecycleSpec, Lifecycle!Spec
-----------------------------------------------------------------------------
(* How far an operation is from its end *)

\* How far an operation is from its end, in commands and steps, and within a command.
Ahead ==
  [none |-> 0, server |-> 8, ready |-> 7, gdb |-> 6, set |-> 5, symbols |-> 4, select |-> 3,
   resetting |-> 2, confirm |-> 1, continue |-> 1, interrupt |-> 3, wait |-> 3, step |-> 3,
   finish |-> 2, frame |-> 1, query |-> 2, more |-> 1, download |-> 4, compare |-> 3,
   disconnect |-> 2, shutdown |-> 1]
Unanswered == [none |-> 0, unsent |-> 2, sent |-> 1, done |-> 0, refused |-> 0]
Left == 3 * Ahead[at] + Unanswered[reply]

LEMMA AheadIs ==
  /\ \A s \in Steps : Ahead[s] \in 0..8 /\ (Ahead[s] = 0 <=> s = "none")
  /\ \A r \in {"none", "unsent", "sent", "done", "refused"} : Unanswered[r] \in 0..2
BY DEF Steps, Commands, Plain, Waiting, Startup, Ahead, Unanswered

LEMMA LeftIs ==
  ASSUME TypeOK, PlaceOK
  PROVE  Left \in 0..26 /\ (Left = 0 <=> Quiet)
<1>1. PICK a, u : a = Ahead[at] /\ u = Unanswered[reply]
  OBVIOUS
<1>2. a \in 0..8 /\ u \in 0..2 /\ (a = 0 <=> at = "none")
  BY <1>1, AheadIs DEF TypeOK, FieldsOK
<1>3. at = "none" => u = 0
  <2>1. at = "none" => reply = "none"
    BY DEF PlaceOK, Commands, Plain, Waiting
  <2>2. Unanswered["none"] = 0
    BY DEF Unanswered
  <2> QED BY <1>1, <2>1, <2>2
<1>4. Left = 3 * a + u
  BY <1>1 DEF Left
<1>5. Left \in 0..26 /\ (Left = 0 => at = "none") /\ (at = "none" => Left = 0)
  BY <1>2, <1>3, <1>4
<1>6. Quiet <=> at = "none"
  BY DEF PlaceOK, Quiet
<1> QED BY <1>5, <1>6

\* What the step of an operation does: it returns, or goes on to a later command or
\* step, or gets an answer.
LEMMA StepsGoOn ==
  ASSUME TypeOK, PlaceOK, Transport \/ Internal
  PROVE  \/ at # "none" /\ at' = "none" /\ reply' = "none"
         \/ Ahead[at'] < Ahead[at] /\ reply' \in {"none", "unsent"}
         \/ at' = at /\ Unanswered[reply'] < Unanswered[reply]
<1> USE DEF TypeOK, FieldsOK, PlaceOK, Commands, Plain, Waiting, Startup, Steps
<1>1. CASE Send \/ ResultRead \/ Refused
  BY <1>1 DEF Send, ResultRead, Refused, Abort, Return, Unanswered
<1>2. CASE TimedOut \/ Interrupted \/ Broken \/ HaltUnconfirmed
  BY <1>2 DEF TimedOut, Interrupted, Broken, HaltUnconfirmed, Deadline, Abort, Return
<1>3. CASE MiAsyncSet \/ SymbolsRead \/ TargetSelected \/ ResetDone \/ Downloaded
  BY <1>3 DEF MiAsyncSet, SymbolsRead, TargetSelected, ResetDone, Downloaded, Answered, Goto, Ahead
<1>4. CASE QueryAnswered \/ Compared
  BY <1>4 DEF QueryAnswered, Compared, Answered, Goto, Return, Ahead
<1>5. CASE HaltConfirmed \/ TargetRuns \/ FrameRead
  BY <1>5 DEF HaltConfirmed, TargetRuns, FrameRead, Answered, Succeed, Return
<1>6. CASE StopRead
  BY <1>6 DEF StopRead, Abort, Return, Ahead
<1>7. CASE AnnounceStartup
  BY <1>7 DEF AnnounceStartup, Ahead
<1>8. CASE FinishStop
  BY <1>8 DEF FinishStop, Succeed, Return, Goto, Ahead
<1>9. CASE Disconnect \/ Shutdown
  BY <1>9 DEF Disconnect, Shutdown, Ahead
<1> QED BY <1>1, <1>2, <1>3, <1>4, <1>5, <1>6, <1>7, <1>8, <1>9 DEF Transport, Internal

LEMMA LeftStep ==
  ASSUME TypeOK, PlaceOK, TypeOK', PlaceOK', [Next]_vars
  PROVE  Transport \/ Internal \/ Quiet \/ Left' = Left
<1>1. CASE Call \/ CleanUp
  BY <1>1 DEF Call, CleanUp, Connect, Continue, Halt, WaitUntilStopped, Step, ResetHalt, Query,
     RejectArguments, Poll, Refuse, LoadFirmware, StartConnected, Begin, Callable, Stop, FailAndCleanup, Cancel, Unwind
<1>2. CASE World \/ UNCHANGED vars
  BY <1>2 DEF World, CoreStops, StopReported, LinkBreaks, TokenCancelled, vars, engineVars, Left
<1> QED BY <1>1, <1>2 DEF Next

LEMMA LeftShrinks ==
  ASSUME TypeOK, PlaceOK, TypeOK', PlaceOK', Transport \/ Internal
  PROVE  Left' < Left
<1>1. PICK a, u, b, v : a = Ahead[at] /\ u = Unanswered[reply] /\ b = Ahead[at'] /\ v = Unanswered[reply']
  OBVIOUS
<1>2. /\ a \in 0..8 /\ u \in 0..2 /\ b \in 0..8 /\ v \in 0..2
      /\ (at # "none" => a > 0) /\ (at' = "none" => b = 0)
  BY <1>1, AheadIs DEF TypeOK, FieldsOK
<1>3. (reply' = "none" => v = 0) /\ (reply' = "unsent" => v = 2)
  BY <1>1 DEF Unanswered
<1>4. (b = 0 /\ v = 0 /\ a > 0) \/ b < a \/ (b = a /\ v < u)
  BY <1>1, <1>2, <1>3, StepsGoOn
<1> QED BY <1>1, <1>2, <1>4 DEF Left

OperationsAreBounded ==
  /\ [](Left \in 0..26 /\ (Left = 0 <=> Quiet))
  /\ [][~Quiet => \/ (Transport \/ Internal) /\ Left' < Left
                  \/ Left' = Left]_vars

\* EveryCallReturns, the half that is no matter of fairness: an operation in progress
\* is left by its own steps only, and it takes at most 26 of them, whatever GDB answers.
THEOREM EveryOperationIsBounded == Spec => OperationsAreBounded
<1>1. TypeOK /\ PlaceOK => Left \in 0..26 /\ (Left = 0 <=> Quiet)
  BY LeftIs
<1>2. TypeOK /\ PlaceOK /\ TypeOK' /\ PlaceOK' /\ [Next]_vars =>
        [~Quiet => \/ (Transport \/ Internal) /\ Left' < Left
                   \/ Left' = Left]_vars
  BY LeftStep, LeftShrinks
<1> QED BY <1>1, <1>2, StrongInvariant, PTL DEF Spec, OperationsAreBounded
=============================================================================
