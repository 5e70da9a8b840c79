-------------------------- MODULE SessionContract --------------------------
(***************************************************************************)
(* What an OwnedDebugSession promises to the thread that owns it, as its   *)
(* owners (the agent's loop, the terminal UI) rely on it: what a call may  *)
(* return, given whether the session was lost before it; when and how its  *)
(* end is published; and that an owner who has been told of the end holds  *)
(* no process and no thread.                                               *)
(***************************************************************************)
VARIABLES
  life,    \* of the session, as published: "starting", "live" or "over"
  reason,  \* why it is over
  lost,    \* its token is cancelled or its channel broken: it cannot go on
  call,    \* which call its owner is in
  late,    \* the session was lost before this call
  answer,  \* what the last call returned
  owns     \* there is a child or a supervisor
vars == <<life, reason, lost, call, late, answer, owns>>

Queries == {"execute", "take_events"}
Endings == {"stop", "drop", "cancel"}
Reasons == [stop |-> {"requested"}, drop |-> {"requested"}, cancel |-> {"cancelled"},
            execute |-> {"error", "cancelled"}, take_events |-> {"error", "cancelled"},
            launch |-> {"error", "cancelled"}]

Init ==
  /\ life = "starting" /\ reason = "none" /\ lost = FALSE
  /\ call = "launch" /\ late = FALSE /\ answer = "none" /\ owns = FALSE

\* By a cancellation, a death or garbage on the channel, at any time.
Lose ==
  /\ ~lost /\ lost' = TRUE
  /\ UNCHANGED <<life, reason, call, late, answer, owns>>

Acquire ==
  /\ life = "starting" /\ ~owns /\ owns' = TRUE
  /\ UNCHANGED <<life, reason, lost, call, late, answer>>

\* By the call that ends a session, or by the supervisor of a lost one.
Release ==
  /\ lost /\ owns /\ owns' = FALSE
  /\ UNCHANGED <<life, reason, lost, call, late, answer>>

\* Only within a call, and once.
Publish ==
  /\ life # "over" /\ call # "none"
  /\ life' = "over" /\ reason' \in Reasons[call] /\ lost' = TRUE
  /\ owns' \in {owns, FALSE}
  /\ UNCHANGED <<call, late, answer>>

\* To stop, to drop and to cancel is to lose the session.
Call(c) ==
  /\ call = "none" /\ life # "starting"
  /\ call' = c /\ late' = (lost \/ c \in Endings) /\ lost' = (lost \/ c \in Endings)
  /\ answer' = "none"
  /\ UNCHANGED <<life, reason, owns>>

Return(value) ==
  /\ call' = "none" /\ answer' = value
  /\ life = "over" => ~owns
  /\ UNCHANGED <<reason, lost, late, owns>>

\* A session that was lost before it was live never is.
Launched == call = "launch" /\ life = "starting" /\ ~lost /\ life' = "live" /\ Return("ok")
LaunchFails == call = "launch" /\ life = "over" /\ UNCHANGED life /\ Return("error")

\* No operation succeeds on a session that was lost before it, or is over; one that
\* fails may leave the session alone.
Operated == call = "execute" /\ life = "live" /\ ~late /\ UNCHANGED life /\ Return("ok")
OperationFails == call = "execute" /\ UNCHANGED life /\ Return("error")

\* Whoever looks for events learns of the end of a session that was lost before.
EventsTaken ==
  /\ call = "take_events" /\ (late => life = "over")
  /\ UNCHANGED life /\ Return("ok")

Over == call \in Endings /\ life = "over" /\ UNCHANGED life /\ Return("ok")

Next ==
  \/ Lose \/ Acquire \/ Release \/ Publish
  \/ \E c \in Queries \cup Endings : Call(c)
  \/ Launched \/ LaunchFails \/ Operated \/ OperationFails \/ EventsTaken \/ Over
Spec == Init /\ [][Next]_vars
=============================================================================
