------------------------- MODULE OwnedSessionProofs -------------------------
(***************************************************************************)
(* What holds of OwnedSession whatever the environment may do.             *)
(***************************************************************************)
EXTENDS OwnedCalls, TLAPS

\* Where the owner is tells the state it finds: Place[caller].
Place ==
  [start |-> {"idle"}, wait_ready |-> {"server_starting"}, abandon |-> {"server_starting"},
   server_up |-> {"gdb_starting"}, connect |-> {"gdb_starting"},
   ready |-> {"halted", "running", "idle"}, poll |-> {"halted", "running", "idle"},
   alive |-> {"halted", "running", "idle"}, synchronize |-> {"halted", "running", "idle"},
   operate |-> {"halted", "running"}, disconnect |-> {"failed", "cancelling"},
   shutdown |-> {"disconnecting"}, stop_server |-> {"idle"}, join |-> {"idle"},
   returned |-> {"idle"}, gone |-> {"idle"}]

\* What of the session is left, by where its owner is: nothing before GDB is
\* launched; and once the engine is idle, first no GDB, then no server, then no
\* supervisor.
LeftOver ==
  /\ state \in Place[caller]
  /\ caller \in {"start", "wait_ready", "abandon", "server_up"} =>
       gdb = "none" /\ supervisor = "none"
  /\ caller = "start" => openocd = "none"
  /\ state = "idle" => Gone(gdb)
  /\ state = "idle" /\ caller # "stop_server" => Gone(openocd)
  /\ state = "idle" /\ caller \notin {"stop_server", "join"} => supervisor \in {"none", "done"}
  /\ ends = IF state = "idle" /\ caller # "start" THEN 1 ELSE 0

LEMMA FlagsStep == FlagsOK /\ [Next]_vars => FlagsOK'
<1> SUFFICES ASSUME FlagsOK, [Next]_vars PROVE FlagsOK'
  OBVIOUS
<1> USE DEF FlagsOK, threadVars
<1>1. CASE Calls
  BY <1>1 DEF Calls, Execute, TakeEvents, Stop, Drop, CancelSession, Enter, End
<1>2. CASE Startup
  BY <1>2 DEF Startup, SpawnServer, ServerReady, ServerFails, AbandonServer, LaunchGdb,
              Connected, ConnectFails
<1>3. CASE Work
  BY <1>3 DEF Work, PollOk, PollFails, CheckAlive, OperationReturns, OperationFails,
              Synchronize, Disconnect, Shutdown, StopServer, JoinSupervisor
<1>4. CASE Supervise \/ Read \/ UserCancels
  BY <1>4 DEF Supervise, SeeCancelled, SeeExit, KillGdb, KillOpenOcd, Read, PipeCloses,
              ReaderCancels, UserCancels
<1>5. CASE World
  BY <1>5 DEF World, GdbExits, OpenOcdExits, ProbeLost, GdbGarbles, UserRequests,
              TokenCancelled
<1>6. CASE Ended \/ UNCHANGED vars
  BY <1>6 DEF Ended, vars
<1> QED
  BY <1>1, <1>2, <1>3, <1>4, <1>5, <1>6 DEF Next

LEMMA ChildrenStep == ChildrenOK /\ [Next]_vars => ChildrenOK'
<1> SUFFICES ASSUME ChildrenOK, [Next]_vars PROVE ChildrenOK'
  OBVIOUS
<1> USE DEF ChildrenOK, Child, childVars
<1>1. CASE Calls \/ UserCancels
  BY <1>1 DEF Calls, Execute, TakeEvents, Stop, Drop, CancelSession, Enter, End, UserCancels
<1>2. CASE Startup
  BY <1>2 DEF Startup, SpawnServer, ServerReady, ServerFails, AbandonServer, LaunchGdb,
              Connected, ConnectFails
<1>3. CASE Work
  <2>1. CASE Shutdown
    BY <2>1 DEF Shutdown, PipeError
  <2>2. CASE Work /\ ~Shutdown
    BY <2>2 DEF Work, PollOk, PollFails, CheckAlive, OperationReturns, OperationFails,
                Synchronize, Disconnect, StopServer, JoinSupervisor
  <2> QED
    BY <1>3, <2>1, <2>2
<1>4. CASE Supervise
  BY <1>4 DEF Supervise, SeeCancelled, SeeExit, KillGdb, KillOpenOcd
<1>5. CASE Read
  BY <1>5 DEF Read, PipeCloses, ReaderCancels, PipeError
<1>6. CASE World
  <2>1. CASE GdbGarbles
    BY <2>1 DEF GdbGarbles, PipeError
  <2>2. CASE World /\ ~GdbGarbles
    BY <2>2 DEF World, GdbExits, OpenOcdExits, ProbeLost, UserRequests, TokenCancelled
  <2> QED
    BY <1>6, <2>1, <2>2
<1>7. CASE Ended \/ UNCHANGED vars
  BY <1>7 DEF Ended, vars
<1> QED
  BY <1>1, <1>2, <1>3, <1>4, <1>5, <1>6, <1>7 DEF Next

LEMMA SupervisorStep == SupervisorOK /\ [Next]_vars => SupervisorOK'
<1> SUFFICES ASSUME SupervisorOK, [Next]_vars PROVE SupervisorOK'
  OBVIOUS
<1> USE DEF SupervisorOK, threadVars
<1>1. CASE Calls
  BY <1>1 DEF Calls, Execute, TakeEvents, Stop, Drop, CancelSession, Enter, End
<1>2. CASE Startup
  BY <1>2 DEF Startup, SpawnServer, ServerReady, ServerFails, AbandonServer, LaunchGdb,
              Connected, ConnectFails
<1>3. CASE Work
  BY <1>3 DEF Work, PollOk, PollFails, CheckAlive, OperationReturns, OperationFails,
              Synchronize, Disconnect, Shutdown, StopServer, JoinSupervisor
<1>4. CASE Supervise
  BY <1>4 DEF Supervise, SeeCancelled, SeeExit, KillGdb, KillOpenOcd, Codes
<1>5. CASE Read \/ UserCancels \/ World
  BY <1>5 DEF Read, PipeCloses, ReaderCancels, UserCancels, World, GdbExits, OpenOcdExits,
              ProbeLost, GdbGarbles, UserRequests, TokenCancelled
<1>6. CASE Ended \/ UNCHANGED vars
  BY <1>6 DEF Ended, vars
<1> QED
  BY <1>1, <1>2, <1>3, <1>4, <1>5, <1>6 DEF Next

\* A command, a poll and a cleanup only report errors that have a code.
LEMMA ErrorsHaveCodes ==
  ASSUME SupervisorOK, ChildrenOK
  PROVE  CommandError \cup {"GDB_COMMAND_FAILED", Diagnosis} \subseteq Codes
BY DEF SupervisorOK, ChildrenOK, CommandError, Diagnosis, PipeError, Codes

LEMMA OwnerStep == TypeOK /\ [Next]_vars => OwnerOK'
<1> SUFFICES ASSUME SupervisorOK, ChildrenOK, OwnerOK, [Next]_vars PROVE OwnerOK'
  BY DEF TypeOK
<1> USE DEF OwnerOK, SessionState, Live, Resting, ownerVars
<1>1. CASE Calls
  <2>1. CASE Execute \/ TakeEvents
    BY <2>1 DEF Execute, TakeEvents, Enter, Codes
  <2>2. CASE Stop \/ Drop \/ CancelSession
    BY <2>2 DEF Stop, Drop, CancelSession, End, Codes
  <2> QED
    BY <1>1, <2>1, <2>2 DEF Calls
<1>2. CASE Startup
  <2> USE DEF EndingOf
  <2>1. CASE SpawnServer
    BY <2>1 DEF SpawnServer, Codes
  <2>2. CASE ServerReady \/ Connected
    BY <2>2 DEF ServerReady, Connected, Codes
  <2>3. CASE ServerFails
    BY <2>3 DEF ServerFails, Codes
  <2>4. CASE AbandonServer
    BY <2>4 DEF AbandonServer
  <2>5. CASE LaunchGdb
    BY <2>5 DEF LaunchGdb, Codes
  <2>6. CASE ConnectFails
    BY <2>6, ErrorsHaveCodes DEF ConnectFails, Cancel, Fail, Codes, SupervisorOK
  <2> QED
    BY <1>2, <2>1, <2>2, <2>3, <2>4, <2>5, <2>6 DEF Startup
<1>3. CASE Work
  <2> USE ErrorsHaveCodes DEF Fail, Cancel
  <2>1. CASE PollOk
    BY <2>1 DEF PollOk
  <2>2. CASE PollFails
    BY <2>2 DEF PollFails
  <2>3. CASE CheckAlive
    BY <2>3 DEF CheckAlive, Codes
  <2>4. CASE OperationReturns
    BY <2>4 DEF OperationReturns, Codes
  <2>5. CASE OperationFails
    BY <2>5 DEF OperationFails, Codes
  <2>6. CASE Synchronize
    BY <2>6 DEF Synchronize, Codes
  <2>7. CASE Disconnect \/ Shutdown \/ StopServer
    BY <2>7 DEF Disconnect, Shutdown, StopServer
  <2>8. CASE JoinSupervisor
    BY <2>8 DEF JoinSupervisor
  <2> QED
    BY <1>3, <2>1, <2>2, <2>3, <2>4, <2>5, <2>6, <2>7, <2>8 DEF Work
<1>4. CASE Supervise \/ Read \/ UserCancels
  BY <1>4 DEF Supervise, SeeCancelled, SeeExit, KillGdb, KillOpenOcd, Read, PipeCloses,
              ReaderCancels, UserCancels
<1>5. CASE World
  BY <1>5 DEF World, GdbExits, OpenOcdExits, ProbeLost, GdbGarbles, UserRequests,
              TokenCancelled
<1>6. CASE Ended \/ UNCHANGED vars
  BY <1>6 DEF Ended, vars
<1> QED
  BY <1>1, <1>2, <1>3, <1>4, <1>5, <1>6 DEF Next

LEMMA TypeInit == Init => TypeOK
<1>1. Init => OwnerOK /\ SupervisorOK /\ ChildrenOK
  BY DEF Init, OwnerOK, SupervisorOK, ChildrenOK, SessionState, Child, Codes
<1>2. Init => FlagsOK
  BY DEF Init, FlagsOK
<1> QED
  BY <1>1, <1>2 DEF TypeOK

\* Every error that ends a call, a startup or a session is a typed one.
THEOREM TypeCorrect == Spec => []TypeOK
<1>1. TypeOK /\ [Next]_vars => TypeOK'
  BY OwnerStep, SupervisorStep, FlagsStep, ChildrenStep DEF TypeOK
<1> QED
  BY TypeInit, <1>1, PTL DEF Spec
-----------------------------------------------------------------------------
LEMMA LeftOverStep == TypeOK /\ LeftOver /\ [Next]_vars => LeftOver'
<1> SUFFICES ASSUME TypeOK, LeftOver, [Next]_vars PROVE LeftOver'
  OBVIOUS
<1> USE DEF LeftOver, Place, TypeOK, OwnerOK, Gone, childVars, threadVars
<1>1. CASE Calls
  <2>1. CASE Execute \/ TakeEvents
    BY <2>1 DEF Execute, TakeEvents, Enter
  <2>2. CASE Stop \/ Drop \/ CancelSession
    BY <2>2 DEF Stop, Drop, CancelSession, End
  <2> QED
    BY <1>1, <2>1, <2>2 DEF Calls
<1>2. CASE Startup
  <2>1. CASE SpawnServer \/ ServerReady
    BY <2>1 DEF SpawnServer, ServerReady
  <2>2. CASE ServerFails \/ AbandonServer
    BY <2>2 DEF ServerFails, AbandonServer
  <2>3. CASE LaunchGdb
    BY <2>3 DEF LaunchGdb
  <2>4. CASE Connected \/ ConnectFails
    BY <2>4 DEF Connected, ConnectFails, Cancel, Fail
  <2> QED
    BY <1>2, <2>1, <2>2, <2>3, <2>4 DEF Startup
<1>3. CASE Work
  <2> USE DEF Fail, Cancel
  <2>1. CASE PollOk \/ PollFails
    BY <2>1 DEF PollOk, PollFails
  <2>2. CASE CheckAlive
    BY <2>2 DEF CheckAlive
  <2>3. CASE OperationReturns \/ OperationFails
    BY <2>3 DEF OperationReturns, OperationFails
  <2>4. CASE Synchronize
    BY <2>4 DEF Synchronize, MustSynchronize
  <2>5. CASE Disconnect \/ Shutdown
    BY <2>5 DEF Disconnect, Shutdown
  <2>6. CASE StopServer \/ JoinSupervisor
    BY <2>6 DEF StopServer, JoinSupervisor
  <2> QED
    BY <1>3, <2>1, <2>2, <2>3, <2>4, <2>5, <2>6 DEF Work
<1>4. CASE Supervise \/ Read \/ UserCancels
  BY <1>4 DEF Supervise, SeeCancelled, SeeExit, KillGdb, KillOpenOcd, Read, PipeCloses,
              ReaderCancels, UserCancels, ownerVars
<1>5. CASE World
  BY <1>5 DEF World, GdbExits, OpenOcdExits, ProbeLost, GdbGarbles, UserRequests,
              TokenCancelled, ownerVars
<1>6. CASE Ended \/ UNCHANGED vars
  BY <1>6 DEF Ended, vars, ownerVars
<1> QED
  BY <1>1, <1>2, <1>3, <1>4, <1>5, <1>6 DEF Next

LEMMA LeftOverInvariant == Spec => [](TypeOK /\ LeftOver)
<1>1. Init => TypeOK /\ LeftOver
  BY TypeInit DEF Init, LeftOver, Place, Gone
<1>2. TypeOK /\ LeftOver /\ [Next]_vars => TypeOK' /\ LeftOver'
  BY OwnerStep, SupervisorStep, FlagsStep, ChildrenStep, LeftOverStep DEF TypeOK
<1> QED
  BY <1>1, <1>2, PTL DEF Spec

\* No path out of a session leaks a child or the supervisor.
THEOREM NothingLeaks == Spec => []IdleOwnsNothing
<1>1. TypeOK /\ LeftOver => IdleOwnsNothing
  BY DEF TypeOK, OwnerOK, LeftOver, Place, IdleOwnsNothing, Resting
<1> QED
  BY LeftOverInvariant, <1>1, PTL

\* Whoever notices it first, the end of a session is published once.
THEOREM SessionEndsOnce == Spec => []EndsOnce
<1>1. TypeOK /\ LeftOver => EndsOnce
  BY DEF TypeOK, OwnerOK, LeftOver, Place, EndsOnce
<1> QED
  BY LeftOverInvariant, <1>1, PTL
-----------------------------------------------------------------------------
(* The calls of a session keep SessionContract. *)

\* Where the owner is tells which call it is in: CallAt[caller].
CallAt ==
  [start |-> {"launch"}, wait_ready |-> {"launch"}, abandon |-> {"launch"}, server_up |-> {"launch"},
   connect |-> {"launch"}, poll |-> {"execute", "take_events"}, alive |-> {"execute"},
   operate |-> {"execute"}, synchronize |-> {"take_events"},
   ready |-> {"none"}, returned |-> {"none"}, gone |-> {"none"}]
CleaningUp == {"disconnect", "shutdown", "stop_server", "join"}

\* The call, and the error and the reason it will give.
CallOK ==
  /\ caller \in DOMAIN CallAt => call \in CallAt[caller]
  /\ caller \in CleaningUp => call # "none"
  /\ caller \in CleaningUp \cup {"abandon"} =>
       IF call \in {"stop", "drop", "cancel"} THEN cause = "ok"
       ELSE call # "take_events" => cause # "ok"
  /\ caller \in {"disconnect", "shutdown"} => ending \in Contract!Reasons[call]

\* What a session that was lost has come to.
LossOK ==
  /\ late \in BOOLEAN /\ (late => Lost)
  /\ call = "launch" => ~late
  /\ call \in {"stop", "drop", "cancel"} => late
  /\ caller = "synchronize" /\ late => token \/ state = "idle"
  /\ supervisor \in {"kill_gdb", "kill_openocd", "done"} => token
  /\ caller \in {"wait_ready", "abandon", "server_up"} => ~Gone(openocd)

LEMMA CallStep ==
  ASSUME TypeOK, LeftOver, CallOK, [Next]_vars
  PROVE  CallOK'
<1> USE DEF CallOK, CallAt, CleaningUp
<1>0. /\ call \in {"none", "launch", "execute", "take_events", "stop", "drop", "cancel"}
      /\ caller \in DOMAIN Place /\ state \in Place[caller]
      /\ SupervisorOK /\ ChildrenOK
  BY DEF TypeOK, OwnerOK, LeftOver, Place, Resting
<1>1. CASE Calls
  <2>1. CASE Execute \/ TakeEvents
    BY <2>1 DEF Execute, TakeEvents, Enter
  <2>2. CASE Stop \/ Drop \/ CancelSession
    BY <2>2 DEF Stop, Drop, CancelSession, End, Contract!Reasons
  <2> QED BY <1>1, <2>1, <2>2 DEF Calls
<1>2. CASE Startup
  <2>1. CASE SpawnServer \/ ServerReady \/ Connected
    BY <2>1 DEF SpawnServer, ServerReady, Connected
  <2>2. CASE ServerFails \/ AbandonServer \/ LaunchGdb
    BY <2>2 DEF ServerFails, AbandonServer, LaunchGdb
  <2>3. CASE ConnectFails
    <3>0. \A code \in CommandError \cup {"GDB_COMMAND_FAILED"} : code # "ok"
      BY <1>0 DEF CommandError, ChildrenOK, PipeError
    <3>1. Cancel \/ \E resolved : resolved # "ok" /\ Fail(resolved)
      BY <2>3, <3>0 DEF ConnectFails
    <3> QED BY <2>3, <3>1 DEF ConnectFails, Cancel, Fail, Contract!Reasons
  <2> QED BY <1>2, <2>1, <2>2, <2>3 DEF Startup
<1>3. CASE Work
  <2>0. \A code \in CommandError \cup {"GDB_COMMAND_FAILED", Diagnosis} : code # "ok"
    BY <1>0 DEF CommandError, Diagnosis, ChildrenOK, PipeError
  <2>1. CASE PollOk \/ OperationReturns
    BY <2>1 DEF PollOk, OperationReturns
  <2>2. CASE PollFails
    BY <2>0, <2>2 DEF PollFails, Fail, Contract!Reasons
  <2>3. CASE CheckAlive
    BY <2>3 DEF CheckAlive, Fail, Contract!Reasons
  <2>4. CASE OperationFails
    BY <2>0, <2>4 DEF OperationFails, Fail, Cancel, Contract!Reasons
  <2>5. CASE Synchronize
    BY <2>0, <2>5 DEF Synchronize, Fail, Cancel, Contract!Reasons
  <2>6. CASE Disconnect \/ Shutdown \/ StopServer \/ JoinSupervisor
    BY <1>0, <2>6 DEF Disconnect, Shutdown, StopServer, JoinSupervisor
  <2> QED BY <1>3, <2>1, <2>2, <2>3, <2>4, <2>5, <2>6 DEF Work
<1>4. CASE UNCHANGED ownerVars
  BY <1>4 DEF ownerVars
<1>5. CASE Supervise \/ Read \/ UserCancels \/ World \/ Ended \/ UNCHANGED vars
  BY <1>4, <1>5 DEF Supervise, SeeCancelled, SeeExit, KillGdb, KillOpenOcd, Read, PipeCloses,
     ReaderCancels, UserCancels, World, GdbExits, OpenOcdExits, ProbeLost, GdbGarbles, UserRequests,
     TokenCancelled, Ended, vars
<1> QED BY <1>1, <1>2, <1>3, <1>5 DEF Next

LEMMA LossStep ==
  ASSUME TypeOK, LeftOver, CallOK, LossOK, CallOK', CallsNext
  PROVE  LossOK'
<1> USE DEF LossOK, Lost
<1>0. /\ Next /\ late' = (IF Begins THEN Lost \/ call' \notin {"execute", "take_events"} ELSE late)
      /\ ends \in Nat /\ token \in BOOLEAN /\ caller \in DOMAIN Place /\ state \in Place[caller]
  BY DEF CallsNext, TypeOK, OwnerOK, FlagsOK, LeftOver, Place, Resting
<1>1. CASE Calls
  <2>1. caller = "ready" /\ caller' # "ready" /\ Begins /\ ends' = ends /\ pipe' = pipe
        /\ (token => token')
    BY <1>1 DEF Calls, Execute, TakeEvents, Stop, Drop, CancelSession, Enter, End, Begins, childVars, threadVars
  <2>2. CASE Execute \/ TakeEvents
    BY <1>0, <2>1, <2>2 DEF Execute, TakeEvents, Enter, threadVars, childVars
  <2>3. CASE Stop \/ Drop \/ CancelSession
    BY <1>0, <2>1, <2>3 DEF Stop, Drop, CancelSession, End, threadVars, childVars
  <2> QED BY <1>1, <2>2, <2>3 DEF Calls
<1>2. CASE ~Calls
  <2>1. late' = late
    <3>1. caller = "ready" => UNCHANGED caller
      BY <1>0, <1>2 DEF Next, Startup, SpawnServer, ServerReady, ServerFails, AbandonServer, LaunchGdb,
         Connected, ConnectFails, Work, PollOk, PollFails, CheckAlive, OperationReturns, OperationFails,
         Synchronize, Disconnect, Shutdown, StopServer, JoinSupervisor, Supervise, SeeCancelled, SeeExit,
         KillGdb, KillOpenOcd, Read, PipeCloses, ReaderCancels, UserCancels, World, GdbExits, OpenOcdExits,
         ProbeLost, GdbGarbles, UserRequests, TokenCancelled, Ended, ownerVars, vars
    <3> QED BY <1>0, <3>1 DEF Begins
  <2>2. CASE Startup
    <3>1. CASE SpawnServer \/ ServerReady \/ ServerFails \/ AbandonServer
      BY <1>0, <2>1, <3>1 DEF SpawnServer, ServerReady, ServerFails, AbandonServer, Gone, threadVars, childVars
    <3>2. CASE LaunchGdb \/ Connected \/ ConnectFails
      BY <1>0, <2>1, <3>2 DEF LaunchGdb, Connected, ConnectFails, Fail, Cancel, threadVars, childVars
    <3> QED BY <2>2, <3>1, <3>2 DEF Startup
  <2>3. CASE Work
    <3>1. CASE PollOk \/ PollFails \/ CheckAlive
      <4>1. UNCHANGED <<call, ends, threadVars, childVars>> /\ caller' \in {"alive", "operate", "synchronize"} \cup CleaningUp
        BY <3>1 DEF PollOk, PollFails, CheckAlive, Fail, CleaningUp
      <4>2. caller' = "synchronize" => (state' = "idle") \/ (pipe = "open" /\ ends = 0)
        BY <1>0, <3>1 DEF PollOk, PollFails, CheckAlive, Fail, CleaningUp, LeftOver, Place
      <4> QED BY <1>0, <2>1, <4>1, <4>2 DEF CleaningUp, threadVars, childVars
    <3>2. CASE OperationReturns \/ OperationFails \/ Synchronize
      BY <1>0, <2>1, <3>2 DEF OperationReturns, OperationFails, Synchronize, Fail, Cancel, threadVars, childVars
    <3>3. CASE Disconnect \/ Shutdown \/ StopServer \/ JoinSupervisor
      BY <1>0, <2>1, <3>3 DEF Disconnect, Shutdown, StopServer, JoinSupervisor, Place, threadVars, childVars
    <3> QED BY <2>3, <3>1, <3>2, <3>3 DEF Work
  <2>4. CASE Supervise
    BY <1>0, <2>1, <2>4 DEF Supervise, SeeCancelled, SeeExit, KillGdb, KillOpenOcd, LeftOver, ownerVars
  <2>5. CASE Read \/ UserCancels \/ World \/ Ended
    BY <1>0, <2>1, <2>5 DEF Read, PipeCloses, ReaderCancels, UserCancels, World, GdbExits, OpenOcdExits,
       ProbeLost, GdbGarbles, UserRequests, TokenCancelled, Ended, ownerVars, threadVars, childVars, vars, Gone
  <2> QED BY <1>0, <1>2, <2>2, <2>3, <2>4, <2>5 DEF Next
<1> QED BY <1>1, <1>2

\* What an owner can see: whether it was told of the end, and what it holds.
Kept == TypeOK /\ LeftOver /\ CallOK /\ LossOK

LEMMA LifeIs ==
  /\ TypeOK /\ LeftOver => ends \in {0, 1} /\ (ends = 1 <=> state = "idle" /\ caller # "start")
       /\ Life = IF ends = 1 THEN "over" ELSE IF call = "launch" THEN "starting" ELSE "live"
  /\ TypeOK' /\ LeftOver' => ends' \in {0, 1} /\ (ends' = 1 <=> state' = "idle" /\ caller' # "start")
       /\ Life' = IF ends' = 1 THEN "over" ELSE IF call' = "launch" THEN "starting" ELSE "live"
BY DEF LeftOver, Life

\* Steps that the owner does not see, but for a loss.
LEMMA Unseen ==
  ASSUME UNCHANGED <<Life, Reason, call, late, Answer, Owns>>, Lost => Lost',
         Lost \in BOOLEAN, Lost' \in BOOLEAN
  PROVE  Contract!Next \/ UNCHANGED Contract!vars
BY DEF Contract!Next, Contract!Lose, Contract!vars

\* Threads and children: they cost the owner no more than the session.
LEMMA WorldKeeps ==
  ASSUME Kept, Kept', UNCHANGED <<ownerVars, late>>, Supervise \/ Read \/ UserCancels \/ World
  PROVE  Contract!Next \/ UNCHANGED Contract!vars
<1>1. UNCHANGED <<Life, Reason, call, late, Answer>>
  BY DEF ownerVars, Life, Reason, Answer
<1>2. Lost \in BOOLEAN /\ Lost' \in BOOLEAN /\ (Lost => Lost')
  <2>1. token => token'
    BY DEF Supervise, SeeCancelled, SeeExit, KillGdb, KillOpenOcd, Read, PipeCloses, ReaderCancels,
       UserCancels, World, GdbExits, OpenOcdExits, ProbeLost, GdbGarbles, UserRequests, TokenCancelled,
       threadVars, childVars
  <2>2. pipe # "open" => pipe' # "open"
    BY DEF Supervise, SeeCancelled, SeeExit, KillGdb, KillOpenOcd, Read, PipeCloses, ReaderCancels,
       UserCancels, World, GdbExits, OpenOcdExits, ProbeLost, GdbGarbles, UserRequests, TokenCancelled,
       threadVars, childVars
  <2>3. token \in BOOLEAN /\ token' \in BOOLEAN /\ ends \in Nat /\ ends' = ends
    BY DEF Kept, TypeOK, FlagsOK, OwnerOK, ownerVars
  <2> QED BY <2>1, <2>2, <2>3 DEF Lost
<1>3. CASE ~KillOpenOcd
  <2>1. UNCHANGED Owns
    BY <1>3 DEF Supervise, SeeCancelled, SeeExit, KillGdb, Read, PipeCloses, ReaderCancels,
       UserCancels, World, GdbExits, OpenOcdExits, ProbeLost, GdbGarbles, UserRequests, TokenCancelled,
       threadVars, childVars, Owns, Gone
  <2> QED BY <1>1, <1>2, <2>1, Unseen
<1>4. CASE KillOpenOcd
  <2>1. Lost /\ Owns /\ Lost' = Lost
    BY <1>4 DEF KillOpenOcd, Kept, LossOK, Lost, Owns, ownerVars
  <2>2. Owns' \in {TRUE, FALSE}
    BY DEF Owns
  <2>3. CASE Owns'
    BY <1>1, <1>2, <2>1, <2>3, Unseen DEF Owns
  <2>4. CASE ~Owns'
    BY <1>1, <2>1, <2>2, <2>4 DEF Contract!Next, Contract!Release
  <2> QED BY <2>3, <2>4
<1> QED BY <1>3, <1>4

\* The steps by which an owner comes to hold something, and learns of an end.
LEMMA Acquires ==
  ASSUME UNCHANGED <<Life, Reason, Lost, call, late, Answer>>, Life = "starting", ~Owns, Owns',
         Owns' \in BOOLEAN
  PROVE  Contract!Next
BY DEF Contract!Next, Contract!Acquire

LEMMA Publishes ==
  ASSUME Life # "over", call # "none", Life' = "over", Reason' \in Contract!Reasons[call],
         Lost', Lost' \in BOOLEAN, Owns' => Owns,
         Owns' \in BOOLEAN, Owns \in BOOLEAN, UNCHANGED <<call, late, Answer>>
  PROVE  Contract!Next
<1>1. Owns' \in {Owns, FALSE}
  OBVIOUS
<1> QED BY <1>1 DEF Contract!Next, Contract!Publish

LEMMA StartupKeeps ==
  ASSUME Kept, Kept', Startup, UNCHANGED late
  PROVE  Contract!Next \/ UNCHANGED Contract!vars
<1>0. /\ TypeOK /\ LeftOver /\ CallOK /\ LossOK /\ TypeOK' /\ LeftOver'
      /\ ends \in {0, 1} /\ (ends = 1 <=> state = "idle" /\ caller # "start")
      /\ Life = IF ends = 1 THEN "over" ELSE IF call = "launch" THEN "starting" ELSE "live"
      /\ ends' \in {0, 1} /\ (ends' = 1 <=> state' = "idle" /\ caller' # "start")
      /\ Life' = IF ends' = 1 THEN "over" ELSE IF call' = "launch" THEN "starting" ELSE "live"
  BY LifeIs DEF Kept
<1>1. /\ caller \in {"start", "wait_ready", "abandon", "server_up", "connect"} /\ call = "launch"
      /\ (caller # "start" => state # "idle") /\ ends = 0 /\ Life = "starting"
      /\ Reason = "none" /\ Answer = "none"
  BY <1>0 DEF Startup, SpawnServer, ServerReady, ServerFails, AbandonServer, LaunchGdb, Connected,
     ConnectFails, CallOK, CallAt, LeftOver, Place, Reason, Answer
<1>2. Lost \in BOOLEAN /\ Lost' \in BOOLEAN
  BY DEF Kept, TypeOK, FlagsOK, Lost
<1>3. CASE SpawnServer
  <2>0. ~Owns /\ UNCHANGED <<call, late, Answer>>
    BY <1>0, <1>1, <1>3 DEF SpawnServer, Owns, Answer, Gone, LeftOver
  <2>1. CASE openocd' = "alive"
    <3>1. UNCHANGED <<ends, token, pipe, state, call>> \/ (ends' = 0 /\ UNCHANGED <<token, pipe, ends, call>>)
      BY <1>0, <1>1, <1>3, <2>1 DEF SpawnServer, threadVars, LeftOver
    <3>2. Life' = "starting" /\ Reason' = "none" /\ Lost' = Lost /\ Owns'
      BY <1>0, <1>1, <2>0, <2>1, <3>1 DEF Lost, Owns, Reason, Gone
    <3> QED BY <1>1, <2>0, <3>2, Acquires DEF Owns
  <2>2. CASE openocd' # "alive"
    <3>1. ends' = 1 /\ ending' = "error" /\ UNCHANGED <<gdb, openocd, supervisor>>
      BY <1>0, <1>1, <1>3, <2>2 DEF SpawnServer, threadVars
    <3>2. Life' = "over" /\ Reason' = "error" /\ Lost' /\ ~Owns'
      BY <1>0, <2>0, <3>1 DEF Lost, Owns, Reason
    <3> QED BY <1>1, <1>2, <2>0, <3>2, Publishes DEF Contract!Reasons, Owns
  <2> QED BY <2>1, <2>2
<1>4. CASE ServerReady \/ ServerFails \/ ConnectFails
  <2>1. UNCHANGED <<Life, Reason, call, late, Answer, Owns, Lost>>
    BY <1>0, <1>1, <1>4 DEF ServerReady, ServerFails, ConnectFails, Fail, Cancel, threadVars, childVars,
       Life, Reason, Answer, Owns, Lost
  <2> QED BY <1>2, <2>1, Unseen
<1>5. CASE AbandonServer
  <2>1. ends' = 1 /\ ending' \in {"error", "cancelled"} /\ openocd' = "reaped" /\ ~Gone(openocd)
        /\ UNCHANGED <<call, late, Answer>>
    BY <1>0, <1>1, <1>5 DEF AbandonServer, EndingOf, LossOK, Answer
  <2>2. Life' = "over" /\ Reason' \in {"error", "cancelled"} /\ Lost' /\ Owns
    BY <1>0, <2>1 DEF Lost, Owns, Reason
  <2> QED BY <1>1, <1>2, <2>1, <2>2, Publishes DEF Contract!Reasons, Owns
<1>6. CASE LaunchGdb
  <2>0. ~Gone(openocd) /\ UNCHANGED <<openocd, call, late, token, pipe, Answer>>
    BY <1>0, <1>1, <1>6 DEF LaunchGdb, LossOK, Answer
  <2>1. Owns /\ Owns'
    BY <2>0 DEF Owns
  <2>2. CASE caller' = "connect"
    <3>1. UNCHANGED <<state, ends>>
      BY <1>6, <2>2 DEF LaunchGdb
    <3>2. Life' = Life /\ Reason' = Reason /\ Lost' = Lost
      BY <1>0, <1>1, <2>0, <2>2, <3>1 DEF Lost, Reason
    <3> QED BY <1>2, <2>0, <2>1, <3>2, Unseen DEF Owns
  <2>3. CASE caller' # "connect"
    <3>1. ends' = 1 /\ ending' \in {"error", "cancelled"}
      BY <1>0, <1>1, <1>6, <2>3 DEF LaunchGdb, EndingOf
    <3>2. Life' = "over" /\ Reason' \in {"error", "cancelled"} /\ Lost'
      BY <1>0, <3>1 DEF Lost, Reason
    <3> QED BY <1>1, <1>2, <2>0, <2>1, <3>2, Publishes DEF Contract!Reasons, Owns
  <2> QED BY <2>2, <2>3
<1>7. CASE Connected
  BY <1>0, <1>1, <1>2, <1>7 DEF Connected, Lost, Owns, Reason, Answer, threadVars, childVars,
     Contract!Next, Contract!Launched, Contract!Return
<1> QED BY <1>3, <1>4, <1>5, <1>6, <1>7 DEF Startup

LEMMA CallKeeps ==
  ASSUME NEW c \in Contract!Queries \cup Contract!Endings,
         call = "none", call' = c, Life # "starting", Answer' = "none", UNCHANGED <<Life, Reason, Owns>>,
         late' <=> (Lost \/ c \in Contract!Endings), Lost' <=> (Lost \/ c \in Contract!Endings),
         Lost \in BOOLEAN, Lost' \in BOOLEAN, late' \in BOOLEAN
  PROVE  Contract!Next
<1>1. late' = (Lost \/ c \in Contract!Endings) /\ Lost' = (Lost \/ c \in Contract!Endings)
  OBVIOUS
<1> QED BY <1>1 DEF Contract!Next, Contract!Call

LEMMA CallsKeep ==
  ASSUME Kept, Kept', Calls,
         late' = IF Begins THEN Lost \/ call' \notin {"execute", "take_events"} ELSE late
  PROVE  Contract!Next
<1>0. /\ TypeOK /\ LeftOver /\ CallOK /\ LossOK /\ TypeOK' /\ LeftOver' /\ LossOK'
      /\ ends \in {0, 1} /\ (ends = 1 <=> state = "idle" /\ caller # "start")
      /\ Life = IF ends = 1 THEN "over" ELSE IF call = "launch" THEN "starting" ELSE "live"
      /\ ends' \in {0, 1} /\ (ends' = 1 <=> state' = "idle" /\ caller' # "start")
      /\ Life' = IF ends' = 1 THEN "over" ELSE IF call' = "launch" THEN "starting" ELSE "live"
  BY LifeIs DEF Kept
<1>1. /\ caller = "ready" /\ Begins /\ UNCHANGED <<ends, gdb, openocd, supervisor, pipe>>
      /\ call' \in Contract!Queries \cup Contract!Endings /\ (state = "idle" => ending' = ending)
      /\ (call' \in Contract!Endings => token') /\ (call' \in Contract!Queries => token' = token)
    BY DEF Calls, Execute, TakeEvents, Stop, Drop, CancelSession, Enter, End, Begins, childVars, threadVars,
       Contract!Queries, Contract!Endings
<1>2. call = "none" /\ Life # "starting" /\ Answer' = "none" /\ UNCHANGED <<Life, Reason>>
  BY <1>0, <1>1 DEF CallOK, CallAt, Reason, Answer, Contract!Queries, Contract!Endings
<1>3. UNCHANGED Owns
  BY <1>1 DEF Owns
<1>4. Lost \in BOOLEAN /\ Lost' \in BOOLEAN /\ late' \in BOOLEAN
  BY <1>0 DEF TypeOK, FlagsOK, Lost, LossOK
<1>5. late' <=> (Lost \/ call' \in Contract!Endings)
  BY <1>1, <1>4 DEF Contract!Queries, Contract!Endings
<1>6. Lost' <=> (Lost \/ call' \in Contract!Endings)
  BY <1>0, <1>1 DEF Lost, Contract!Queries, Contract!Endings, TypeOK, FlagsOK
<1> QED BY <1>1, <1>2, <1>3, <1>4, <1>5, <1>6, CallKeeps

LEMMA WorkKeeps ==
  ASSUME Kept, Kept', Work, UNCHANGED late
  PROVE  Contract!Next \/ UNCHANGED Contract!vars
<1>0. /\ TypeOK /\ LeftOver /\ CallOK /\ LossOK /\ TypeOK' /\ LeftOver'
      /\ ends \in {0, 1} /\ (ends = 1 <=> state = "idle" /\ caller # "start")
      /\ Life = IF ends = 1 THEN "over" ELSE IF call = "launch" THEN "starting" ELSE "live"
      /\ ends' \in {0, 1} /\ (ends' = 1 <=> state' = "idle" /\ caller' # "start")
      /\ Life' = IF ends' = 1 THEN "over" ELSE IF call' = "launch" THEN "starting" ELSE "live"
  BY LifeIs DEF Kept
<1>1. /\ caller \in {"poll", "alive", "operate", "synchronize"} \cup CleaningUp
      /\ call # "none" /\ Answer = "none"
      /\ caller \in {"poll", "alive", "operate", "synchronize"} => call \in {"execute", "take_events"}
      /\ caller \in {"alive", "operate"} => call = "execute"
      /\ caller = "synchronize" => call = "take_events"
      /\ caller \in {"operate", "disconnect", "shutdown"} => ends = 0
      /\ caller \in {"stop_server", "join"} => ends = 1
  BY <1>0 DEF Work, PollOk, PollFails, CheckAlive, OperationReturns, OperationFails, Synchronize,
     Disconnect, Shutdown, StopServer, JoinSupervisor, CallOK, CallAt, CleaningUp, LeftOver, Place, Answer
<1>2. Lost \in BOOLEAN /\ Lost' \in BOOLEAN /\ Owns \in BOOLEAN /\ Owns' \in BOOLEAN
  BY DEF Kept, TypeOK, FlagsOK, Lost, Owns
<1>3. Life = "over" /\ caller \in {"synchronize", "join"} /\ supervisor \in {"none", "done"} => ~Owns
  BY <1>0 DEF LeftOver, Owns
<1>4. CASE PollOk \/ PollFails \/ CheckAlive \/ OperationFails \/ Disconnect
  <2>1. UNCHANGED <<call, ends, threadVars, childVars>> /\ (ends = 1 => ending' = ending)
    BY <1>0, <1>1, <1>4 DEF PollOk, PollFails, CheckAlive, OperationFails, Disconnect, Fail, Cancel
  <2>2. UNCHANGED <<Life, Reason, Answer, Owns, Lost>>
    BY <1>0, <1>1, <2>1 DEF Reason, Answer, Owns, Lost, threadVars, childVars
  <2> QED BY <1>2, <2>1, <2>2, Unseen
<1>5. CASE OperationReturns
  <2>1. /\ caller = "operate" /\ call' = "none"
        /\ UNCHANGED <<ends, ending, gdb, openocd, supervisor, token, pipe>>
    BY <1>5 DEF OperationReturns, threadVars, childVars
  <2>2. call = "execute" /\ Life = "live" /\ UNCHANGED <<Life, Reason, Owns, Lost>>
    BY <1>0, <1>1, <2>1 DEF Reason, Owns, Lost
  <2>3. CASE ret' = "ok"
    <3>1. ~late /\ Answer' = "ok"
      BY <1>0, <1>1, <1>5, <2>1, <2>3 DEF OperationReturns, LossOK, Lost, Answer
    <3> QED BY <2>1, <2>2, <3>1 DEF Contract!Next, Contract!Operated, Contract!Return
  <2>4. CASE ret' # "ok"
    <3>1. Answer' = "error"
      BY <2>1, <2>4 DEF Answer
    <3> QED BY <2>1, <2>2, <3>1 DEF Contract!Next, Contract!OperationFails, Contract!Return
  <2> QED BY <2>3, <2>4
<1>6. CASE Synchronize
  <2>1. caller = "synchronize" /\ UNCHANGED <<ends, gdb, openocd, supervisor, token, pipe>>
    BY <1>6 DEF Synchronize, threadVars, childVars
  <2>2. UNCHANGED <<Owns, Lost>>
    BY <2>1 DEF Owns, Lost
  <2>3. CASE MustSynchronize
    <3>1. UNCHANGED call /\ ends = 0
      BY <1>0, <1>6, <2>1, <2>3 DEF Synchronize, MustSynchronize
    <3>2. UNCHANGED <<Life, Reason, Answer>>
      BY <1>0, <1>1, <2>1, <3>1 DEF Reason, Answer
    <3> QED BY <1>2, <2>2, <3>1, <3>2, Unseen
  <2>4. CASE ~MustSynchronize
    <3>1. call' = "none" /\ ret' = "ok" /\ UNCHANGED <<state, ending>> /\ caller' = "ready"
      BY <1>6, <2>4 DEF Synchronize
    <3>2. UNCHANGED <<Life, Reason>> /\ Answer' = "ok" /\ call = "take_events"
      BY <1>0, <1>1, <2>1, <3>1 DEF Reason, Answer
    <3>3. late => Life = "over"
      BY <1>0, <2>1, <2>4 DEF LossOK, MustSynchronize
    <3>4. Life = "over" => ~Owns
      BY <1>0, <2>1, <3>1 DEF LeftOver, Owns, Resting
    <3> QED BY <2>2, <3>1, <3>2, <3>3, <3>4 DEF Contract!Next, Contract!EventsTaken, Contract!Return
  <2> QED BY <2>3, <2>4
<1>7. CASE Shutdown
  <2>1. caller = "shutdown" /\ ends' = 1 /\ gdb' = "reaped" /\ UNCHANGED <<openocd, supervisor, call, ending>>
    BY <1>0, <1>1, <1>7 DEF Shutdown, threadVars
  <2>2. /\ Life # "over" /\ Life' = "over" /\ Reason' \in Contract!Reasons[call] /\ Lost' /\ Answer' = Answer
        /\ (Owns' => Owns)
    BY <1>0, <1>1, <2>1 DEF CallOK, Reason, Lost, Answer, Owns, Gone
  <2> QED BY <1>1, <1>2, <2>1, <2>2, Publishes
<1>8. CASE StopServer
  <2>1. /\ caller = "stop_server" /\ openocd' = "reaped"
        /\ UNCHANGED <<gdb, supervisor, call, ends, ending, token, pipe>>
    BY <1>8 DEF StopServer, threadVars
  <2>2. UNCHANGED <<Life, Reason, Answer, Lost>> /\ Lost /\ (Owns' => Owns)
    BY <1>0, <1>1, <2>1 DEF Reason, Lost, Answer, Owns, Gone
  <2>3. CASE Owns' = Owns
    BY <1>2, <2>1, <2>2, <2>3, Unseen
  <2>4. CASE Owns' # Owns
    BY <1>2, <2>1, <2>2, <2>4 DEF Contract!Next, Contract!Release
  <2> QED BY <2>3, <2>4
<1>9. CASE JoinSupervisor
  <2>1. /\ caller = "join" /\ supervisor \in {"none", "done"} /\ ends = 1 /\ Life = "over" /\ ~Owns
        /\ UNCHANGED <<gdb, openocd, supervisor, ends, ending, token, pipe>> /\ ret' = cause
    BY <1>0, <1>1, <1>3, <1>9 DEF JoinSupervisor, threadVars, childVars
  <2>2. UNCHANGED <<Life, Reason, Owns, Lost>>
    BY <1>0, <2>1 DEF Reason, Owns, Lost
  <2>3. CASE call = "take_events"
    <3>1. call' = call /\ Answer' = Answer
      BY <1>9, <2>3 DEF JoinSupervisor, Answer
    <3> QED BY <1>2, <2>2, <3>1, Unseen
  <2>4. CASE call # "take_events"
    <3>1. call' = "none" /\ Answer' = (IF cause = "ok" THEN "ok" ELSE "error")
      BY <1>9, <2>1, <2>4 DEF JoinSupervisor, Answer
    <3>2. call \in {"launch", "execute", "stop", "drop", "cancel"}
          /\ (cause = "ok" <=> call \in {"stop", "drop", "cancel"})
      BY <1>0, <1>1, <2>1, <2>4 DEF CallOK, CleaningUp, TypeOK, OwnerOK
    <3> QED BY <2>1, <2>2, <3>1, <3>2 DEF Contract!Next, Contract!LaunchFails, Contract!OperationFails,
               Contract!Over, Contract!Return, Contract!Endings
  <2> QED BY <2>3, <2>4
<1> QED BY <1>4, <1>5, <1>6, <1>7, <1>8, <1>9 DEF Work

\* Every step is one of the contract's, or nothing that an owner sees.
LEMMA StepKeeps ==
  ASSUME Kept, Kept', [CallsNext]_callVars
  PROVE  Contract!Next \/ UNCHANGED Contract!vars
<1>1. CASE UNCHANGED callVars
  BY <1>1 DEF callVars, vars, ownerVars, threadVars, childVars, Contract!vars, Life, Reason, Lost, Answer, Owns, Gone
<1>2. CASE CallsNext
  <2>0. Next /\ late' = (IF Begins THEN Lost \/ call' \notin {"execute", "take_events"} ELSE late)
    BY <1>2 DEF CallsNext
  <2>1. CASE Calls
    BY <2>0, <2>1, CallsKeep
  <2>2. CASE Startup
    <3>1. caller # "ready"
      BY <2>2 DEF Startup, SpawnServer, ServerReady, ServerFails, AbandonServer, LaunchGdb, Connected, ConnectFails
    <3> QED BY <2>0, <2>2, <3>1, StartupKeeps DEF Begins
  <2>3. CASE Work
    <3>1. caller # "ready"
      BY <2>3 DEF Work, PollOk, PollFails, CheckAlive, OperationReturns, OperationFails, Synchronize,
         Disconnect, Shutdown, StopServer, JoinSupervisor
    <3> QED BY <2>0, <2>3, <3>1, WorkKeeps DEF Begins
  <2>4. CASE Supervise \/ Read \/ UserCancels \/ World
    <3>1. UNCHANGED ownerVars
      BY <2>4 DEF Supervise, SeeCancelled, SeeExit, KillGdb, KillOpenOcd, Read, PipeCloses, ReaderCancels,
         UserCancels, World, GdbExits, OpenOcdExits, ProbeLost, GdbGarbles, UserRequests, TokenCancelled
    <3> QED BY <2>0, <2>4, <3>1, WorldKeeps DEF Begins, ownerVars
  <2>5. CASE Ended
    <3>1. UNCHANGED callVars
      BY <2>0, <2>5 DEF Ended, Begins, callVars, vars, ownerVars
    <3> QED BY <1>1, <3>1
  <2> QED BY <2>0, <2>1, <2>2, <2>3, <2>4, <2>5 DEF Next
<1> QED BY <1>1, <1>2

LEMMA KeptStep == Kept /\ [CallsNext]_callVars => Kept'
<1> SUFFICES ASSUME Kept, [CallsNext]_callVars PROVE Kept'
  OBVIOUS
<1>1. [Next]_vars
  BY DEF CallsNext, callVars
<1>2. TypeOK'
  BY <1>1, FlagsStep, ChildrenStep, SupervisorStep, OwnerStep DEF Kept, TypeOK
<1>3. LeftOver' /\ CallOK'
  BY <1>1, LeftOverStep, CallStep DEF Kept
<1>4. LossOK'
  <2>1. CASE CallsNext
    BY <1>3, <2>1, LossStep DEF Kept
  <2>2. CASE UNCHANGED callVars
    BY <2>2 DEF Kept, LossOK, Lost, Gone, callVars, vars, ownerVars, threadVars, childVars
  <2> QED BY <2>1, <2>2
<1> QED BY <1>2, <1>3, <1>4 DEF Kept

LEMMA KeptInit == CallsInit => Kept /\ Contract!Init
<1> SUFFICES ASSUME CallsInit PROVE Kept /\ Contract!Init
  OBVIOUS
<1>1. TypeOK /\ LeftOver
  BY TypeInit DEF CallsInit, Init, LeftOver, Place, Gone, Resting, TypeOK
<1>2. CallOK /\ LossOK
  BY DEF CallsInit, Init, CallOK, CallAt, CleaningUp, LossOK
<1>3. Contract!Init
  BY DEF CallsInit, Init, Contract!Init, Life, Reason, Lost, Answer, Owns, Gone
<1> QED BY <1>1, <1>2, <1>3 DEF Kept

\* What the owner of a session relies on, for every way its threads and children
\* can take turns: what each call may return (owned_session.rs, execute, take_events,
\* stop, cancel), one end with a reason that fits the call, and nothing left behind.
THEOREM SessionKept == CallsSpec => KeepsSession
<1>1. Kept /\ Kept' /\ [CallsNext]_callVars => [Contract!Next]_(Contract!vars)
  BY StepKeeps
<1> QED BY <1>1, KeptInit, KeptStep, PTL DEF CallsSpec, KeepsSession, Contract!Spec
=============================================================================
