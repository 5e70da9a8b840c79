-------------------------- MODULE ProgramContract --------------------------
(***************************************************************************)
(* What `samdebug erase`, `flash`, `reset` and `halt` promise of the       *)
(* target: a success left the flash and the core as the operation says, an *)
(* error that says the target was not reached left the flash alone, and    *)
(* the answer is final: nothing touches the target after it.               *)
(***************************************************************************)
CONSTANTS
  Old,      \* what the flash held before
  Erased,
  Images    \* the images a build may leave in the build directory

VARIABLES operation, firmware, core, outcome
vars == <<operation, firmware, core, outcome>>

Operations == {"erase", "flash", "reset", "halt"}
Destructive == {"erase", "flash"}
Cores == {"running", "halted"}
Wanted == [o \in Operations |->
  IF o = "flash" THEN Images ELSE IF o = "erase" THEN {Erased} ELSE {Old}]
LeftAs == [o \in Operations |-> IF o \in {"flash", "reset"} THEN "running" ELSE "halted"]

Init ==
  /\ operation \in Operations /\ firmware = Old /\ core \in Cores
  /\ outcome = "pending"

\* The flash takes any contents, a mixture of two included.
Change ==
  /\ outcome = "pending" /\ UNCHANGED <<operation, outcome>>
  /\ \/ operation \in Destructive /\ firmware' # Old /\ UNCHANGED core
     \/ core' \in Cores /\ UNCHANGED firmware

Answer(o) == outcome = "pending" /\ outcome' = o /\ UNCHANGED <<operation, firmware, core>>
Succeed == firmware \in Wanted[operation] /\ core = LeftAs[operation] /\ Answer("done")
LeftAlone == firmware = Old /\ Answer("untouched")
Unknown == Answer("unknown")

Next == Change \/ Succeed \/ LeftAlone \/ Unknown
Spec == Init /\ [][Next]_vars
=============================================================================
