--------------------------- MODULE BuildPipeline ---------------------------
(***************************************************************************)
(* `samdebug init`, `build` and `clean` over the .samdebug directory of one *)
(* project and configuration.  Builds are processes named by their pid, as  *)
(* their staging directories are; a process that has ended may be followed  *)
(* by one of the same pid.  Nothing locks the directory, so that builds and *)
(* a clean may overlap, and the user edits sources, headers and the project *)
(* file at any time.                                                        *)
(*                                                                          *)
(* Modification times are kept as what is_current asks of them: which files *)
(* are newer than an object.  A file edited after the object was written is *)
(* newer; two times are never equal.                                        *)
(***************************************************************************)
EXTENDS Naturals

CONSTANTS
  Builders,     \* pids of build processes
  Sources,      \* the number of sources, compiled in order
  Headers,      \* headers of the project tree
  Rank,         \* the order of the input files' paths
  Commands,     \* compiler identities with the argv normalized from the project
  Derived,      \* the number of artifacts objcopy and objdump make of the ELF
  None,         \* no such file
  MaxEdits, MaxStarts, MaxStops   \* bounds: edits, builds, cancellations and kills

Units == 1..Sources
Files == Units \cup Headers
\* The published artifacts: two made with the staged image (the map stands for
\* itself and the size report), and those made later of the published ELF.
Elf == 1
Map == 2
Artifacts == 1..(Map + Derived)

\* What a file was made of: the command and the versions read; for an object also
\* the files that are newer, and whether one changed before it was written.
Versions == 0..MaxEdits
Contents == [cmd : Commands, deps : SUBSET Files, seen : [Files -> Versions]]
Objects == [made : Contents, newer : SUBSET Files, raced : BOOLEAN]
Images == [objs : [Units -> Contents], fits : BOOLEAN]

ASSUME BuildAssumption ==
  /\ Sources \in Nat \ {0} /\ Derived \in Nat
  /\ Headers \cap Nat = {}
  /\ Rank \in [Files -> Nat]
  /\ Commands # {}
  /\ {MaxEdits, MaxStarts, MaxStops} \subseteq Nat
  /\ None \notin Commands /\ None \notin Objects /\ None \notin Images

VARIABLES
  version, present, includes, command,  \* the project: files and settings
  toml, plan, init,                     \* samdebug.toml, import-plan.json, samdebug init
  object, dep, stamp,                   \* what obj/ holds for each source
  out,                                  \* the image each published artifact was made of
  dir,                                  \* the build directory exists
  stage, left,                          \* staging directories of running and of killed builds
  pc, unit, cmd, staged, image,         \* each build: place, index, command, staged outputs
  cancelled,                            \* builds whose token is cancelled
  intact,                               \* history: undisturbed builds over a whole cache
  edits, starts, stops                  \* bounds

projectVars == <<version, present, includes, command>>
initVars == <<toml, plan, init>>
cacheVars == <<object, dep, stamp>>
procVars == <<pc, unit, cmd, staged, image>>
boundVars == <<edits, starts, stops>>
vars == <<projectVars, initVars, cacheVars, out, dir, stage, left, procVars,
          cancelled, intact, boundVars>>

Places == {"idle", "check", "compiling", "object", "dependency", "stamp", "link", "elf",
           "map", "derive", "derived"}
Active(b) == pc[b] # "idle"
-----------------------------------------------------------------------------
\* What a compiler makes of source s now; files outside deps are not looked at.
InputsOf(s) == {s} \cup includes[s]
Content(c, s) ==
  [cmd |-> c, deps |-> InputsOf(s),
   seen |-> [f \in Files |-> IF f \in InputsOf(s) THEN version[f] ELSE 0]]

ObjectFile(content, newer, raced) == [made |-> content, newer |-> newer, raced |-> raced]

Init ==
  /\ version = [f \in Files |-> 0] /\ present = Headers
  /\ includes \in [Units -> SUBSET Headers] /\ command \in Commands
  /\ toml = FALSE /\ plan = FALSE /\ init = "idle"
  /\ object = [s \in Units |-> None] /\ dep = object /\ stamp = object
  /\ out = [a \in Artifacts |-> None]
  /\ dir = FALSE /\ stage = {} /\ left = {}
  /\ pc = [b \in Builders |-> "idle"] /\ unit = [b \in Builders |-> 0]
  /\ cmd = [b \in Builders |-> None] /\ staged = cmd /\ image = cmd
  /\ cancelled = {} /\ intact = {}
  /\ edits = 0 /\ starts = 0 /\ stops = 0
-----------------------------------------------------------------------------
(* samdebug init *)

\* initialize_project: hard links the plan, then samdebug.toml.  A plan that is
\* there already is not replaced: the command fails and changes nothing.
InitLinksPlan ==
  /\ init = "idle" /\ ~toml /\ ~plan
  /\ plan' = TRUE /\ init' = "plan"
  /\ UNCHANGED <<projectVars, toml, cacheVars, out, dir, stage, left, procVars,
                 cancelled, intact, boundVars>>

InitLinksConfig ==
  /\ init = "plan" /\ toml' = TRUE /\ init' = "idle"
  /\ UNCHANGED <<projectVars, plan, cacheVars, out, dir, stage, left, procVars,
                 cancelled, intact, boundVars>>

\* Faulty variant first: the plan of an init that failed stays.
InitFailsHalfway ==
  /\ init = "plan" /\ init' = "idle"
  /\ UNCHANGED <<projectVars, toml, plan, cacheVars, out, dir, stage, left, procVars,
                 cancelled, intact, boundVars>>
InitFails ==
  /\ init = "plan" /\ init' = "idle" /\ plan' = FALSE
  /\ UNCHANGED <<projectVars, toml, cacheVars, out, dir, stage, left, procVars,
                 cancelled, intact, boundVars>>

InitKilled ==
  /\ init = "plan" /\ stops < MaxStops
  /\ init' = "idle" /\ stops' = stops + 1
  /\ UNCHANGED <<projectVars, toml, plan, cacheVars, out, dir, stage, left, procVars,
                 cancelled, intact, edits, starts>>
-----------------------------------------------------------------------------
(* The user *)

Editing == edits < MaxEdits /\ edits' = edits + 1 /\ intact' = {}

\* File f gets new text, or is created again; a source may also include other
\* headers than before.  Every object written until now is older.
Newer(o, f) == IF o = None THEN None ELSE [o EXCEPT !.newer = @ \cup {f}]
NewerStaged(b, f) ==
  IF pc[b] = "compiling" /\ f \in staged[b].made.deps
  THEN [staged[b] EXCEPT !.raced = TRUE]
  ELSE Newer(staged[b], f)

Edit(f) ==
  /\ Editing
  /\ version' = [version EXCEPT ![f] = @ + 1]
  /\ present' = present \cup ({f} \cap Headers)
  /\ \E hs \in SUBSET Headers :
       includes' = IF f \in Units THEN [includes EXCEPT ![f] = hs] ELSE includes
  /\ object' = [s \in Units |-> Newer(object[s], f)]
  /\ staged' = [b \in Builders |-> NewerStaged(b, f)]
  /\ UNCHANGED <<command, initVars, dep, stamp, out, dir, stage, left, pc, unit, cmd, image,
                 cancelled, starts, stops>>

DeleteHeader(h) ==
  /\ Editing /\ h \in present
  /\ present' = present \ {h}
  /\ UNCHANGED <<version, includes, command, initVars, cacheVars, out, dir, stage, left, procVars,
                 cancelled, starts, stops>>

\* Other flags in the project file, or another compiler.
ChangeCommand ==
  /\ Editing
  /\ \E c \in Commands \ {command} : command' = c
  /\ UNCHANGED <<version, present, includes, initVars, cacheVars, out, dir, stage, left, procVars,
                 cancelled, starts, stops>>

Cancel(b) ==
  /\ Active(b) /\ b \notin cancelled /\ stops < MaxStops
  /\ cancelled' = cancelled \cup {b} /\ stops' = stops + 1
  /\ UNCHANGED <<projectVars, initVars, cacheVars, out, dir, stage, left, procVars,
                 intact, edits, starts>>

\* clean: remove_dir_all of the build directory, with the staging directories
\* of builds that are running or were killed.
Clean ==
  /\ dir
  /\ dir' = FALSE /\ stage' = {} /\ left' = {}
  /\ object' = [s \in Units |-> None] /\ dep' = object' /\ stamp' = object'
  /\ out' = [a \in Artifacts |-> None]
  /\ intact' = {}
  /\ UNCHANGED <<projectVars, initVars, procVars, cancelled, boundVars>>
-----------------------------------------------------------------------------
(* samdebug build *)

\* An object, its dependency file and its stamp of one compilation, none of
\* whose inputs was edited while the compiler ran; or one of them is missing.
Whole(s) ==
  object[s] # None /\ dep[s] # None /\ stamp[s] # None =>
    /\ dep[s] = object[s].made.deps /\ stamp[s] = object[s].made.cmd
    /\ ~object[s].raced

\* Reads the project and the compiler, and creates the staging directory, which
\* must not be there: one that a killed build of this pid left stops the build.
Start(b) ==
  /\ toml /\ ~Active(b) /\ b \notin left /\ starts < MaxStarts
  /\ pc' = [pc EXCEPT ![b] = "check"] /\ unit' = [unit EXCEPT ![b] = 1]
  /\ cmd' = [cmd EXCEPT ![b] = command]
  /\ plan' = TRUE /\ dir' = TRUE /\ stage' = stage \cup {b}
  /\ starts' = starts + 1
  /\ intact' = IF (\A q \in Builders : ~Active(q)) /\ (\A s \in Units : Whole(s))
               THEN {b} ELSE {}
  /\ UNCHANGED <<projectVars, toml, init, cacheVars, out, left, staged, image, cancelled,
                 edits, stops>>

\* Whatever ends a build but a kill removes its staging directory.
Ended(b) ==
  /\ pc' = [pc EXCEPT ![b] = "idle"] /\ unit' = [unit EXCEPT ![b] = 0]
  /\ cmd' = [cmd EXCEPT ![b] = None]
  /\ staged' = [staged EXCEPT ![b] = None] /\ image' = [image EXCEPT ![b] = None]
  /\ cancelled' = cancelled \ {b}
\* Faulty variant first: staging is removed on success only.
StageKept(b) == stage
StageRemoved(b) == stage \ {b}

\* An error of any step: of the file system, of a tool, of a check.
Fail(b) ==
  /\ Active(b) /\ Ended(b) /\ stage' = StageRemoved(b)
  /\ UNCHANGED <<projectVars, initVars, cacheVars, out, dir, left, intact, boundVars>>

\* check_cancelled and run_cancellable; promotions do not look at the token.
Interrupted(b) ==
  /\ b \in cancelled
  /\ pc[b] \in {"check", "compiling", "object", "link", "elf", "derive", "derived"}
  /\ Fail(b)

Kill(b) ==
  /\ Active(b) /\ stops < MaxStops
  /\ Ended(b) /\ stage' = stage \ {b} /\ left' = left \cup (stage \cap {b})
  /\ stops' = stops + 1
  /\ UNCHANGED <<projectVars, initVars, cacheVars, out, dir, intact, edits, starts>>

\* Faulty variant first: one source too many.
AdvancePast(b) ==
  /\ unit' = [unit EXCEPT ![b] = @ + 1]
  /\ pc' = [pc EXCEPT ![b] = IF unit[b] > Sources THEN "link" ELSE "check"]
Advance(b) ==
  /\ unit' = [unit EXCEPT ![b] = IF @ = Sources THEN 1 ELSE @ + 1]
  /\ pc' = [pc EXCEPT ![b] = IF unit[b] = Sources THEN "link" ELSE "check"]
BuildKeeps == UNCHANGED <<projectVars, initVars, dir, stage, left, cancelled, intact, boundVars>>

\* is_current.  The inputs are looked at in the order of their paths: a newer
\* one ends the search, and one that is gone ends the build.
Missing(f) == f \in Headers \ present
Recorded(b) == {unit[b]} \cup dep[unit[b]]
Cached(b) ==
  object[unit[b]] # None /\ dep[unit[b]] # None /\ stamp[unit[b]] = cmd[b]
\* Faulty variant first: only the source itself is looked at.
NewerSource(b) == object[unit[b]].newer \cap {unit[b]}
NewerInputs(b) == object[unit[b]].newer \cap Recorded(b)
Outdated(b) ==
  \E f \in NewerInputs(b) : \A m \in Recorded(b) : Missing(m) => Rank[f] < Rank[m]

Reuse(b) ==
  /\ pc[b] = "check" /\ b \notin cancelled /\ dir
  /\ Cached(b) /\ NewerInputs(b) = {} /\ \A f \in Recorded(b) : ~Missing(f)
  /\ Advance(b)
  /\ UNCHANGED <<cacheVars, out, cmd, staged, image>> /\ BuildKeeps

\* gcc reads the source and the headers it includes, and later writes the
\* object, whose time is that of the writing.
Compile(b) ==
  /\ pc[b] = "check" /\ b \notin cancelled /\ dir
  /\ Cached(b) => Outdated(b)
  /\ b \in stage /\ includes[unit[b]] \subseteq present
  /\ staged' = [staged EXCEPT ![b] = ObjectFile(Content(cmd[b], unit[b]), {}, FALSE)]
  /\ pc' = [pc EXCEPT ![b] = "compiling"]
  /\ UNCHANGED <<cacheVars, out, unit, cmd, image>> /\ BuildKeeps

CompilerWrites(b) ==
  /\ pc[b] = "compiling" /\ b \in stage
  /\ staged' = [staged EXCEPT ![b].newer = {}]
  /\ pc' = [pc EXCEPT ![b] = "object"]
  /\ UNCHANGED <<cacheVars, out, unit, cmd, image>> /\ BuildKeeps

PromoteObject(b) ==
  /\ pc[b] = "object" /\ b \in stage /\ dir
  /\ object' = [object EXCEPT ![unit[b]] = staged[b]]
  /\ pc' = [pc EXCEPT ![b] = "dependency"]
  /\ UNCHANGED <<dep, stamp, out, unit, cmd, staged, image>> /\ BuildKeeps

PromoteDependency(b) ==
  /\ pc[b] = "dependency" /\ b \in stage /\ dir
  /\ dep' = [dep EXCEPT ![unit[b]] = staged[b].made.deps]
  /\ pc' = [pc EXCEPT ![b] = "stamp"]
  /\ UNCHANGED <<object, stamp, out, unit, cmd, staged, image>> /\ BuildKeeps

WriteStamp(b) ==
  /\ pc[b] = "stamp" /\ dir
  /\ stamp' = [stamp EXCEPT ![unit[b]] = cmd[b]]
  /\ staged' = [staged EXCEPT ![b] = None] /\ Advance(b)
  /\ UNCHANGED <<object, dep, out, cmd, image>> /\ BuildKeeps

\* The linker reads the objects in obj/, whoever wrote them.  Whether the image
\* fits the flash and the RAM and is of the target is up to its contents.
\* Faulty variant first: what size and objdump report is not looked at.
Unchecked(ok) == TRUE
\* parse_size and validate_elf
Inspected(ok) == ok

Link(b) ==
  /\ pc[b] = "link" /\ b \notin cancelled /\ b \in stage
  /\ \A s \in Units : object[s] # None
  /\ \E ok \in BOOLEAN :
       /\ Inspected(ok)
       /\ image' = [image EXCEPT ![b] = [objs |-> [s \in Units |-> object[s].made], fits |-> ok]]
  /\ pc' = [pc EXCEPT ![b] = "elf"]
  /\ UNCHANGED <<cacheVars, out, unit, cmd, staged>> /\ BuildKeeps

PublishStep(b, artifact, next) ==
  /\ dir
  /\ out' = [out EXCEPT ![artifact] = image[b]]
  /\ pc' = [pc EXCEPT ![b] = next]
  /\ UNCHANGED <<cacheVars, cmd, staged, image>> /\ BuildKeeps

PublishElf(b) ==
  /\ pc[b] = "elf" /\ b \notin cancelled /\ b \in stage
  /\ PublishStep(b, Elf, "map") /\ UNCHANGED unit
PublishMap(b) ==
  /\ pc[b] = "map" /\ b \in stage
  /\ PublishStep(b, Map, "derive") /\ UNCHANGED unit

\* generate_artifacts: objcopy and objdump read the published ELF.  (The listing is
\* written beside its place and renamed; here it is staged as the others are.)
\* Faulty variant first: an artifact that is there already is kept.
DeriveMissing(b) ==
  /\ pc[b] = "derive" /\ unit[b] <= Derived
  /\ b \in stage /\ out[Elf] # None
  /\ image' = [image EXCEPT ![b] =
                 IF out[Map + unit[b]] = None THEN out[Elf] ELSE out[Map + unit[b]]]
  /\ pc' = [pc EXCEPT ![b] = "derived"]
  /\ UNCHANGED <<cacheVars, out, unit, cmd, staged>> /\ BuildKeeps
Derive(b) ==
  /\ pc[b] = "derive" /\ unit[b] <= Derived
  /\ b \in stage /\ out[Elf] # None
  /\ image' = [image EXCEPT ![b] = out[Elf]]
  /\ pc' = [pc EXCEPT ![b] = "derived"]
  /\ UNCHANGED <<cacheVars, out, unit, cmd, staged>> /\ BuildKeeps

PublishDerived(b) ==
  /\ pc[b] = "derived" /\ b \in stage
  /\ PublishStep(b, Map + unit[b], "derive") /\ unit' = [unit EXCEPT ![b] = @ + 1]

Finish(b) ==
  /\ pc[b] = "derive" /\ unit[b] > Derived
  /\ Ended(b) /\ stage' = StageRemoved(b)
  /\ UNCHANGED <<projectVars, initVars, cacheVars, out, dir, left, intact, boundVars>>

\* The checks that end a build: an input that is gone before a newer one, a
\* staged or cached file that is gone, an image that does not fit.
Refused(b) ==
  \/ /\ pc[b] = "check" /\ dir /\ Cached(b) /\ ~Outdated(b)
     /\ \E m \in Recorded(b) : Missing(m)
  \/ pc[b] = "check" /\ (Cached(b) => Outdated(b)) /\ ~(includes[unit[b]] \subseteq present)
  \/ pc[b] \in {"check", "stamp"} /\ ~dir
  \/ pc[b] \in {"compiling", "object", "dependency", "link", "elf", "map", "derived"}
     /\ b \notin stage
  \/ pc[b] = "link" /\ \E s \in Units : object[s] = None
  \/ pc[b] = "derive" /\ unit[b] <= Derived /\ (b \notin stage \/ out[Elf] = None)
CheckFails(b) == Refused(b) /\ Fail(b)

\* What the build process does of itself, the tools it runs aside.
Step(b) ==
  \/ Reuse(b) \/ Compile(b)
  \/ PromoteObject(b) \/ PromoteDependency(b) \/ WriteStamp(b)
  \/ PublishElf(b) \/ PublishMap(b) \/ PublishDerived(b) \/ Finish(b)
Tool(b) == CompilerWrites(b) \/ Link(b) \/ Derive(b)
User ==
  \/ \E f \in Files : Edit(f)
  \/ \E h \in Headers : DeleteHeader(h)
  \/ ChangeCommand \/ Clean
  \/ \E b \in Builders : Cancel(b)
Initialize == InitLinksPlan \/ InitLinksConfig \/ InitFails \/ InitKilled

Next ==
  \/ Initialize \/ User
  \/ \E b \in Builders :
       Start(b) \/ Step(b) \/ Tool(b) \/ CheckFails(b) \/ Fail(b) \/ Interrupted(b) \/ Kill(b)

Spec == Init /\ [][Next]_vars
-----------------------------------------------------------------------------
ProjectOK ==
  /\ version \in [Files -> 0..edits] /\ present \subseteq Headers
  /\ includes \in [Units -> SUBSET Headers] /\ command \in Commands
InitOK ==
  /\ toml \in BOOLEAN /\ plan \in BOOLEAN
  /\ init \in {"idle", "plan"}
CacheOK ==
  /\ object \in [Units -> Objects \cup {None}]
  /\ dep \in [Units -> (SUBSET Files) \cup {None}]
  /\ stamp \in [Units -> Commands \cup {None}]
  /\ out \in [Artifacts -> Images \cup {None}]
BuildersOK ==
  /\ pc \in [Builders -> Places] /\ unit \in [Builders -> Nat]
  /\ cmd \in [Builders -> Commands \cup {None}]
  /\ staged \in [Builders -> Objects \cup {None}]
  /\ image \in [Builders -> Images \cup {None}]
SetsOK ==
  /\ stage \subseteq Builders /\ left \subseteq Builders /\ cancelled \subseteq Builders
  /\ intact \subseteq Builders
  /\ dir \in BOOLEAN
BoundsOK == edits \in Versions /\ starts \in 0..MaxStarts /\ stops \in 0..MaxStops
\* A build that compiles has an index, a command and, once the compiler has read,
\* a staged object; one that has linked has an image.
PlacesOK ==
  \A b \in Builders :
    /\ pc[b] \in {"check", "compiling", "object", "dependency", "stamp"} =>
         unit[b] \in Units /\ cmd[b] \in Commands
    /\ pc[b] \in {"compiling", "object", "dependency", "stamp"} => staged[b] # None
    /\ pc[b] \in {"elf", "map", "derived"} => image[b] # None
    /\ pc[b] = "derived" => unit[b] \in 1..Derived
    /\ pc[b] \in {"link", "elf", "map"} => unit[b] = 1
    /\ pc[b] = "derive" => unit[b] \in 1..(Derived + 1)

\* Every path and process is in a state the code can leave it in.
TypeOK ==
  ProjectOK /\ InitOK /\ CacheOK /\ BuildersOK /\ SetsOK /\ BoundsOK /\ PlacesOK

\* A file on which an object was made and which is not newer than it is as the
\* compiler read it.
UpToDate(s, o) ==
  ~o.raced =>
    /\ \A f \in o.made.deps \ o.newer : o.made.seen[f] = version[f]
    /\ s \notin o.newer => o.made.deps = InputsOf(s)
\* What the compiler did not read is not recorded.
Sound(s, o) ==
  /\ s \in o.made.deps /\ \A f \in Files \ o.made.deps : o.made.seen[f] = 0
  /\ UpToDate(s, o)
\* The strengthening of ReuseIsSound, for the objects in obj/ and in staging.  While
\* the compiler runs an edit of what it read is a race and not a newer file.
ObjectSound(s) == object[s] # None => Sound(s, object[s])
StagedSound(b) ==
  pc[b] \in {"compiling", "object", "dependency", "stamp"} =>
    /\ Sound(unit[b], staged[b])
    /\ pc[b] = "compiling" /\ ~staged[b].raced => staged[b].newer \cap staged[b].made.deps = {}
ObjectsAreSound ==
  (\A s \in Units : ObjectSound(s)) /\ (\A b \in Builders : StagedSound(b))

\* is_current: a build that reuses an object rightly does so (it would compile
\* the same again), if the object, its dependency file and its stamp are of one
\* compilation and no input was edited while that ran.  Whatever happened in
\* between: edits, deleted and restored headers, killed and concurrent builds.
ReuseIsSound ==
  [][\A b \in Builders :
       Reuse(b) /\ Whole(unit[b]) =>
         object[unit[b]].made = Content(cmd[b], unit[b])]_vars

\* A successful build that found a whole cache, and beside which nothing was
\* edited, built or cleaned, publishes in every artifact what a build from
\* scratch would.
SuccessIsRebuild ==
  [][\A b \in Builders :
       Finish(b) /\ b \in intact =>
         \A a \in Artifacts :
           out[a] # None /\ out[a].objs = [s \in Units |-> Content(cmd[b], s)]]_vars

\* build.md: the build fails if flash or RAM overflow, the target or the entry
\* point is wrong.  Nothing published was ever made of such an image, by builds
\* that fail, are killed or overlap.
PublishedIsInspected == \A a \in Artifacts : out[a] # None => out[a].fits

\* initialize_project: an init that ends leaves both files or neither, unless
\* it is killed between them.  (Then every later init fails on the plan.)
InitIsAllOrNothing == init = "idle" /\ plan /\ stops = 0 => toml

\* build.md: Ctrl-C removes staging.  Whatever ends a build, its staging directory
\* goes with it; only a killed one leaves it, and then stops the next build of
\* that pid until a clean.
StagingIsOwned == \A b \in stage : Active(b)

\* build.md: the normalized argv and the compiler's identity drive incremental
\* compilation.  An object that is reused was compiled with the command the
\* build would compile it with.
ReusedHasCommand ==
  [][\A b \in Builders : Reuse(b) => object[unit[b]].made.cmd = cmd[b]]_vars
=============================================================================
