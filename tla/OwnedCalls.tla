----------------------------- MODULE OwnedCalls -----------------------------
(***************************************************************************)
(* OwnedSession as its owner sees it, call by call: an implementation of   *)
(* SessionContract.  `late` is a history variable, of which OwnedSession's *)
(* steps know nothing.                                                     *)
(***************************************************************************)
EXTENDS OwnedSession

VARIABLE late  \* history: the session was lost before the call in progress
callVars == <<vars, late>>

Begins == caller = "ready" /\ caller' # "ready"
Lost == token \/ pipe # "open" \/ ends > 0

CallsInit == Init /\ late = FALSE
CallsNext == Next /\ late' = IF Begins THEN Lost \/ call' \notin {"execute", "take_events"} ELSE late
CallsSpec == CallsInit /\ [][CallsNext]_callVars
FairCallsSpec == CallsSpec /\ Fairness

\* A session that is over is idle, and is never published as over again.
Life ==
  CASE ends = 0 /\ (state = "idle" => caller = "start") -> IF call = "launch" THEN "starting" ELSE "live"
    [] ends = 1 /\ state = "idle" -> "over"
    [] OTHER -> "torn"
Reason == IF ends = 0 THEN "none" ELSE ending
Answer == IF call # "none" THEN "none" ELSE IF ret = "ok" THEN "ok" ELSE "error"
Owns == ~(Gone(gdb) /\ Gone(openocd) /\ supervisor \in {"none", "done"})

Contract == INSTANCE SessionContract WITH
  life <- Life, reason <- Reason, lost <- Lost, answer <- Answer, owns <- Owns

\* What the owner of a session relies on, whatever threads and children do: what a
\* call may return given whether the session was lost before it; an end that is
\* published once, with a reason that fits the call; and that a call that returns
\* after the end leaves no child and no thread.
KeepsSession == Contract!Spec
=============================================================================
