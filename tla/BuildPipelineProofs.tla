------------------------ MODULE BuildPipelineProofs ------------------------
(***************************************************************************)
(* What holds of BuildPipeline for any number of builds, sources, headers  *)
(* and artifacts, and however often the user edits.                        *)
(***************************************************************************)
EXTENDS BuildPipeline, TLAPS

USE BuildAssumption

\* Every way a build fails is Fail.
LEMMA Steps ==
  ASSUME Next
  PROVE  \/ Initialize \/ User
         \/ \E b \in Builders : Start(b) \/ Step(b) \/ Tool(b) \/ Fail(b) \/ Kill(b)
BY DEF Next, CheckFails, Interrupted

\* The tools and the build's own steps leave the project and the staging
\* directories of others alone.
LEMMA Keeps ==
  ASSUME NEW b \in Builders, Step(b) \/ Tool(b)
  PROVE  BuildKeeps \/ Finish(b)
BY DEF Step, Tool, Reuse, Compile, PromoteObject, PromoteDependency, WriteStamp,
   PublishElf, PublishMap, PublishDerived, PublishStep, CompilerWrites, Link, Derive

\* What a compiler makes is an object's content.
LEMMA ContentTyped ==
  ASSUME ProjectOK, BoundsOK, NEW c \in Commands, NEW s \in Units
  PROVE  Content(c, s) \in Contents
<1>1. InputsOf(s) \subseteq Files
  BY DEF InputsOf, ProjectOK, Files
<1>2. \A f \in Files : version[f] \in Versions
  BY DEF ProjectOK, BoundsOK, Versions
<1>3. 0 \in Versions
  BY DEF Versions
<1> QED
  BY <1>1, <1>2, <1>3 DEF Content, Contents

LEMMA ProjectStep == TypeOK /\ [Next]_vars => ProjectOK' /\ BoundsOK'
<1> SUFFICES ASSUME ProjectOK, BoundsOK, [Next]_vars PROVE ProjectOK' /\ BoundsOK'
  BY DEF TypeOK
<1> USE DEF ProjectOK, BoundsOK, Versions, projectVars, boundVars
<1>1. CASE UNCHANGED vars
  BY <1>1 DEF vars
<1>2. CASE Initialize
  BY <1>2 DEF Initialize, InitLinksPlan, InitLinksConfig, InitFails, InitKilled
<1>3. ASSUME NEW f \in Files, Edit(f) PROVE ProjectOK' /\ BoundsOK'
  <2>1. version' \in [Files -> 0..edits']
    BY <1>3 DEF Edit, Editing
  <2>2. includes' \in [Units -> SUBSET Headers]
    BY <1>3 DEF Edit
  <2> QED
    BY <1>3, <2>1, <2>2 DEF Edit, Editing
<1>4. CASE ChangeCommand \/ Clean \/ \E h \in Headers : DeleteHeader(h)
  <2>1. version \in [Files -> 0..(edits + 1)]
    OBVIOUS
  <2> QED
    BY <1>4, <2>1 DEF ChangeCommand, Clean, DeleteHeader, Editing
<1>5. ASSUME NEW b \in Builders, Cancel(b) \/ Start(b) \/ Fail(b) \/ Kill(b)
      PROVE  ProjectOK' /\ BoundsOK'
  BY <1>5 DEF Cancel, Start, Fail, Kill
<1>6. ASSUME NEW b \in Builders, Step(b) \/ Tool(b)
      PROVE  ProjectOK' /\ BoundsOK'
  BY <1>6, Keeps DEF BuildKeeps, Finish
<1> QED
  BY <1>1, <1>2, <1>3, <1>4, <1>5, <1>6, Steps DEF User

LEMMA InitStep == TypeOK /\ [Next]_vars => InitOK'
<1> SUFFICES ASSUME InitOK, [Next]_vars PROVE InitOK'
  BY DEF TypeOK
<1> USE DEF InitOK, initVars
<1>1. CASE UNCHANGED vars
  BY <1>1 DEF vars
<1>2. CASE Initialize
  BY <1>2 DEF Initialize, InitLinksPlan, InitLinksConfig, InitFails, InitKilled
<1>3. CASE User
  BY <1>3 DEF User, Edit, ChangeCommand, Clean, DeleteHeader, Cancel
<1>4. ASSUME NEW b \in Builders, Start(b) \/ Fail(b) \/ Kill(b) PROVE InitOK'
  BY <1>4 DEF Start, Fail, Kill
<1>5. ASSUME NEW b \in Builders, Step(b) \/ Tool(b) PROVE InitOK'
  BY <1>5, Keeps DEF BuildKeeps, Finish
<1> QED
  BY <1>1, <1>2, <1>3, <1>4, <1>5, Steps

LEMMA SetsStep == TypeOK /\ [Next]_vars => SetsOK'
<1> SUFFICES ASSUME SetsOK, [Next]_vars PROVE SetsOK'
  BY DEF TypeOK
<1> USE DEF SetsOK
<1>1. CASE UNCHANGED vars
  BY <1>1 DEF vars
<1>2. CASE Initialize
  BY <1>2 DEF Initialize, InitLinksPlan, InitLinksConfig, InitFails, InitKilled
<1>3. CASE User
  BY <1>3 DEF User, Edit, ChangeCommand, Clean, DeleteHeader, Cancel, Editing
<1>4. ASSUME NEW b \in Builders, Start(b) \/ Fail(b) \/ Kill(b) PROVE SetsOK'
  BY <1>4 DEF Start, Fail, Kill, StageRemoved, Ended
<1>5. ASSUME NEW b \in Builders, Step(b) \/ Tool(b) PROVE SetsOK'
  BY <1>5, Keeps DEF BuildKeeps, Finish, StageRemoved, Ended
<1> QED
  BY <1>1, <1>2, <1>3, <1>4, <1>5, Steps

\* An edit makes an object older, and nothing of what is not there.
LEMMA OlderTyped ==
  ASSUME NEW f \in Files, NEW o \in Objects \cup {None}
  PROVE  /\ Newer(o, f) \in Objects \cup {None}
         /\ Newer(o, f) = None <=> o = None
BY DEF Newer, Objects

LEMMA OlderStagedTyped ==
  ASSUME BuildersOK, NEW f \in Files, NEW b \in Builders,
         pc[b] = "compiling" => staged[b] # None
  PROVE  /\ NewerStaged(b, f) \in Objects \cup {None}
         /\ NewerStaged(b, f) = None <=> staged[b] = None
<1>1. staged[b] \in Objects \cup {None}
  BY DEF BuildersOK
<1>2. CASE pc[b] = "compiling" /\ f \in staged[b].made.deps
  BY <1>1, <1>2 DEF NewerStaged, Objects
<1> QED
  BY <1>1, <1>2, OlderTyped DEF NewerStaged

LEMMA CacheStep == TypeOK /\ [Next]_vars => CacheOK'
<1> SUFFICES ASSUME TypeOK, [Next]_vars PROVE CacheOK'
  OBVIOUS
<1> USE DEF CacheOK, cacheVars
<1>0. CacheOK /\ BuildersOK /\ PlacesOK
  BY DEF TypeOK
<1>1. CASE UNCHANGED vars
  BY <1>0, <1>1 DEF vars
<1>2. CASE Initialize
  BY <1>0, <1>2 DEF Initialize, InitLinksPlan, InitLinksConfig, InitFails, InitKilled
<1>3. ASSUME NEW f \in Files, Edit(f) PROVE CacheOK'
  BY <1>0, <1>3, OlderTyped DEF Edit
<1>4. CASE ChangeCommand \/ Clean \/ \E h \in Headers : DeleteHeader(h)
  BY <1>0, <1>4 DEF ChangeCommand, Clean, DeleteHeader
<1>5. ASSUME NEW b \in Builders, Cancel(b) \/ Start(b) \/ Fail(b) \/ Kill(b) PROVE CacheOK'
  BY <1>0, <1>5 DEF Cancel, Start, Fail, Kill
<1>6. ASSUME NEW b \in Builders, Tool(b) PROVE CacheOK'
  BY <1>0, <1>6 DEF Tool, CompilerWrites, Link, Derive
<1>7. ASSUME NEW b \in Builders, Step(b) PROVE CacheOK'
  <2>1. CASE Reuse(b) \/ Compile(b) \/ Finish(b)
    BY <1>0, <2>1 DEF Reuse, Compile, Finish
  <2>2. CASE PromoteObject(b)
    <3>1. staged[b] \in Objects
      BY <1>0, <2>2 DEF PromoteObject, BuildersOK, PlacesOK
    <3> QED
      BY <1>0, <2>2, <3>1 DEF PromoteObject
  <2>3. CASE PromoteDependency(b)
    <3>1. staged[b].made.deps \subseteq Files
      BY <1>0, <2>3 DEF PromoteDependency, BuildersOK, PlacesOK, Objects, Contents
    <3> QED
      BY <1>0, <2>3, <3>1 DEF PromoteDependency
  <2>4. CASE WriteStamp(b)
    <3>1. cmd[b] \in Commands
      BY <1>0, <2>4 DEF WriteStamp, PlacesOK
    <3> QED
      BY <1>0, <2>4, <3>1 DEF WriteStamp
  <2>5. CASE PublishElf(b) \/ PublishMap(b) \/ PublishDerived(b)
    <3>1. image[b] \in Images \cup {None}
      BY <1>0 DEF BuildersOK
    <3> QED
      BY <1>0, <2>5, <3>1 DEF PublishElf, PublishMap, PublishDerived, PublishStep
  <2> QED
    BY <1>7, <2>1, <2>2, <2>3, <2>4, <2>5 DEF Step
<1> QED
  BY <1>1, <1>2, <1>3, <1>4, <1>5, <1>6, <1>7, Steps DEF User

LEMMA BuildersStep == TypeOK /\ [Next]_vars => BuildersOK'
<1> SUFFICES ASSUME TypeOK, [Next]_vars PROVE BuildersOK'
  OBVIOUS
<1> USE DEF BuildersOK, procVars
<1>0. BuildersOK /\ PlacesOK /\ CacheOK
  BY DEF TypeOK
<1>1. CASE UNCHANGED vars
  BY <1>0, <1>1 DEF vars
<1>2. CASE Initialize
  BY <1>0, <1>2 DEF Initialize, InitLinksPlan, InitLinksConfig, InitFails, InitKilled
<1>3. ASSUME NEW f \in Files, Edit(f) PROVE BuildersOK'
  <2>1. \A b \in Builders : NewerStaged(b, f) \in Objects \cup {None}
    BY <1>0, OlderStagedTyped DEF PlacesOK
  <2> QED
    BY <1>0, <1>3, <2>1 DEF Edit
<1>4. CASE ChangeCommand \/ Clean \/ \E h \in Headers : DeleteHeader(h)
  BY <1>0, <1>4 DEF ChangeCommand, Clean, DeleteHeader
<1>5. ASSUME NEW b \in Builders, Cancel(b) PROVE BuildersOK'
  BY <1>0, <1>5 DEF Cancel
<1>6. ASSUME NEW b \in Builders, Start(b) PROVE BuildersOK'
  BY <1>0, <1>6 DEF Start, Places, TypeOK, ProjectOK
<1>7. ASSUME NEW b \in Builders, Fail(b) \/ Kill(b) \/ Finish(b) PROVE BuildersOK'
  BY <1>0, <1>7 DEF Fail, Kill, Finish, Ended, Places
<1>8. ASSUME NEW b \in Builders, Tool(b) PROVE BuildersOK'
  <2>1. CASE CompilerWrites(b)
    <3>1. staged[b] \in Objects
      BY <1>0, <2>1 DEF CompilerWrites, PlacesOK
    <3>2. [staged[b] EXCEPT !.newer = {}] \in Objects
      BY <3>1 DEF Objects
    <3>3. staged' = [staged EXCEPT ![b] = [staged[b] EXCEPT !.newer = {}]]
      BY <2>1 DEF CompilerWrites
    <3> QED
      BY <1>0, <2>1, <3>2, <3>3 DEF CompilerWrites, Places
  <2>2. CASE Link(b)
    <3>1. \A s \in Units : object[s].made \in Contents
      BY <1>0, <2>2 DEF Link, CacheOK, Objects
    <3>2. \A ok \in BOOLEAN : [objs |-> [s \in Units |-> object[s].made], fits |-> ok] \in Images
      BY <3>1 DEF Images
    <3> QED
      BY <1>0, <2>2, <3>2 DEF Link, Places
  <2>3. CASE Derive(b)
    <3>1. out[Elf] \in Images
      BY <1>0, <2>3 DEF Derive, CacheOK, Artifacts, Elf, Map
    <3> QED
      BY <1>0, <2>3, <3>1 DEF Derive, Places
  <2> QED
    BY <1>8, <2>1, <2>2, <2>3 DEF Tool
<1>9. ASSUME NEW b \in Builders, Step(b) PROVE BuildersOK'
  <2>1. CASE Reuse(b) \/ WriteStamp(b)
    BY <1>0, <2>1 DEF Reuse, WriteStamp, Advance, Places
  <2>2. CASE Compile(b)
    <3>1. cmd[b] \in Commands /\ unit[b] \in Units
      BY <1>0, <2>2 DEF Compile, PlacesOK
    <3>2. Content(cmd[b], unit[b]) \in Contents
      BY <3>1, ContentTyped DEF TypeOK
    <3>3. ObjectFile(Content(cmd[b], unit[b]), {}, FALSE) \in Objects
      BY <3>2 DEF ObjectFile, Objects
    <3> QED
      BY <1>0, <2>2, <3>3 DEF Compile, Places
  <2>3. CASE PromoteObject(b) \/ PromoteDependency(b)
    BY <1>0, <2>3 DEF PromoteObject, PromoteDependency, Places
  <2>4. CASE PublishElf(b) \/ PublishMap(b) \/ PublishDerived(b)
    BY <1>0, <2>4 DEF PublishElf, PublishMap, PublishDerived, PublishStep, Places
  <2>5. CASE Finish(b)
    BY <2>5, <1>7
  <2> QED
    BY <1>9, <2>1, <2>2, <2>3, <2>4, <2>5 DEF Step
<1> QED
  BY <1>1, <1>2, <1>3, <1>4, <1>5, <1>6, <1>7, <1>8, <1>9, Steps DEF User

\* PlacesOK of one build.
PlaceOK(b) ==
  /\ pc[b] \in {"check", "compiling", "object", "dependency", "stamp"} =>
       unit[b] \in Units /\ cmd[b] \in Commands
  /\ pc[b] \in {"compiling", "object", "dependency", "stamp"} => staged[b] # None
  /\ pc[b] \in {"elf", "map", "derived"} => image[b] # None
  /\ pc[b] = "derived" => unit[b] \in 1..Derived
  /\ pc[b] \in {"link", "elf", "map"} => unit[b] = 1
  /\ pc[b] = "derive" => unit[b] \in 1..(Derived + 1)

\* A step of one build leaves the others where they are.
LEMMA OthersStay ==
  ASSUME BuildersOK, NEW b \in Builders, NEW c \in Builders, b # c,
         Start(b) \/ Step(b) \/ Tool(b) \/ Fail(b) \/ Kill(b)
  PROVE  /\ pc'[c] = pc[c] /\ unit'[c] = unit[c] /\ cmd'[c] = cmd[c]
         /\ staged'[c] = staged[c] /\ image'[c] = image[c]
<1> USE DEF BuildersOK, procVars
<1>1. CASE Start(b) \/ Fail(b) \/ Kill(b)
  BY <1>1 DEF Start, Fail, Kill, Ended
<1>2. CASE Tool(b)
  BY <1>2 DEF Tool, CompilerWrites, Link, Derive
<1>3. CASE Step(b)
  BY <1>3 DEF Step, Reuse, Compile, PromoteObject, PromoteDependency, WriteStamp, PublishElf,
     PublishMap, PublishDerived, PublishStep, Finish, Advance, Ended
<1> QED
  BY <1>1, <1>2, <1>3

LEMMA PlacesStep == TypeOK /\ [Next]_vars => PlacesOK'
<1> SUFFICES ASSUME TypeOK, [Next]_vars, NEW c \in Builders PROVE PlaceOK(c)'
  BY DEF PlacesOK, PlaceOK
<1> USE DEF PlaceOK, procVars
<1>0. BuildersOK /\ CacheOK /\ PlaceOK(c) /\ Units = 1..Sources
  BY DEF TypeOK, PlacesOK, Units
<1>1. CASE UNCHANGED vars
  BY <1>0, <1>1 DEF vars
<1>2. CASE Initialize
  BY <1>0, <1>2 DEF Initialize, InitLinksPlan, InitLinksConfig, InitFails, InitKilled
<1>3. ASSUME NEW f \in Files, Edit(f) PROVE PlaceOK(c)'
  <2>1. staged'[c] = None <=> staged[c] = None
    BY <1>0, <1>3, OlderStagedTyped DEF Edit
  <2> QED
    BY <1>0, <1>3, <2>1 DEF Edit
<1>4. CASE ChangeCommand \/ Clean \/ \E h \in Headers : DeleteHeader(h)
  BY <1>0, <1>4 DEF ChangeCommand, Clean, DeleteHeader
<1>5. ASSUME NEW b \in Builders, Cancel(b) PROVE PlaceOK(c)'
  BY <1>0, <1>5 DEF Cancel
<1>6. ASSUME NEW b \in Builders, b # c,
             Start(b) \/ Step(b) \/ Tool(b) \/ Fail(b) \/ Kill(b)
      PROVE  PlaceOK(c)'
  BY <1>0, <1>6, OthersStay
<1>7. CASE Start(c)
  <2>1. 1 \in Units /\ command \in Commands
    BY <1>0 DEF TypeOK, ProjectOK
  <2> QED
    BY <1>0, <1>7, <2>1 DEF Start, BuildersOK
<1>8. CASE Fail(c) \/ Kill(c)
  BY <1>0, <1>8 DEF Fail, Kill, Ended, BuildersOK
<1>9. CASE Tool(c)
  <2>1. CASE CompilerWrites(c)
    <3>1. staged[c] \in Objects
      BY <1>0, <2>1 DEF CompilerWrites, BuildersOK
    <3>2. [staged[c] EXCEPT !.newer = {}] \in Objects
      BY <3>1 DEF Objects
    <3>3. staged'[c] # None
      BY <1>0, <2>1, <3>2 DEF CompilerWrites, BuildersOK
    <3> QED
      BY <1>0, <2>1, <3>3 DEF CompilerWrites, BuildersOK
  <2>2. CASE Link(c)
    <3>1. \A s \in Units : object[s].made \in Contents
      BY <1>0, <2>2 DEF Link, CacheOK, Objects
    <3>2. \A ok \in BOOLEAN : [objs |-> [s \in Units |-> object[s].made], fits |-> ok] \in Images
      BY <3>1 DEF Images
    <3> QED
      BY <1>0, <2>2, <3>2 DEF Link, BuildersOK
  <2>3. CASE Derive(c)
    BY <1>0, <2>3 DEF Derive, BuildersOK
  <2> QED
    BY <1>9, <2>1, <2>2, <2>3 DEF Tool
<1>10. CASE Step(c)
  <2>1. CASE Reuse(c) \/ WriteStamp(c)
    <3>1. unit[c] \in Units /\ cmd[c] \in Commands
      BY <1>0, <2>1 DEF Reuse, WriteStamp
    <3> QED
      BY <1>0, <2>1, <3>1 DEF Reuse, WriteStamp, Advance, BuildersOK
  <2>2. CASE Compile(c)
    <3>1. cmd[c] \in Commands /\ unit[c] \in Units
      BY <1>0, <2>2 DEF Compile
    <3>2. ObjectFile(Content(cmd[c], unit[c]), {}, FALSE) \in Objects
      BY <3>1, ContentTyped DEF TypeOK, ObjectFile, Objects
    <3> QED
      BY <1>0, <2>2, <3>1, <3>2 DEF Compile, BuildersOK
  <2>3. CASE PromoteObject(c) \/ PromoteDependency(c)
    BY <1>0, <2>3 DEF PromoteObject, PromoteDependency, BuildersOK
  <2>4. CASE PublishElf(c) \/ PublishMap(c) \/ PublishDerived(c)
    BY <1>0, <2>4 DEF PublishElf, PublishMap, PublishDerived, PublishStep, BuildersOK
  <2>5. CASE Finish(c)
    BY <1>0, <2>5 DEF Finish, Ended, BuildersOK
  <2> QED
    BY <1>10, <2>1, <2>2, <2>3, <2>4, <2>5 DEF Step
<1> QED
  BY <1>1, <1>2, <1>3, <1>4, <1>5, <1>6, <1>7, <1>8, <1>9, <1>10, Steps DEF User

LEMMA InitTyped == Init => TypeOK
<1> SUFFICES ASSUME Init PROVE TypeOK
  OBVIOUS
<1> USE DEF Init
<1>1. ProjectOK /\ InitOK /\ BoundsOK
  <2>1. BoundsOK
    BY DEF BoundsOK, Versions
  <2>2. version \in [Files -> 0..edits]
    OBVIOUS
  <2>3. present \subseteq Headers /\ includes \in [Units -> SUBSET Headers] /\ command \in Commands
    OBVIOUS
  <2>4. InitOK
    BY DEF InitOK
  <2> QED
    BY <2>1, <2>2, <2>3, <2>4 DEF ProjectOK
<1>2. CacheOK /\ SetsOK
  BY DEF CacheOK, SetsOK
<1>3. BuildersOK /\ PlacesOK
  BY DEF BuildersOK, PlacesOK, Places
<1> QED
  BY <1>1, <1>2, <1>3 DEF TypeOK

\* Files, processes and settings keep their types, and a build has what its place
\* needs.
THEOREM TypeCorrect == Spec => []TypeOK
<1>1. TypeOK /\ [Next]_vars => TypeOK'
  BY ProjectStep, InitStep, SetsStep, CacheStep, BuildersStep, PlacesStep DEF TypeOK
<1> QED
  BY <1>1, InitTyped, PTL DEF Spec

(* Reuse *)

\* An edit of f is seen by what was made of f, and of no other file.
LEMMA EditKeeps ==
  ASSUME ProjectOK, NEW f \in Files, Edit(f)
  PROVE  /\ \A g \in Files \ {f} : version'[g] = version[g]
         /\ \A s \in Units \ {f} : InputsOf(s)' = InputsOf(s)
<1>1. \A g \in Files \ {f} : version'[g] = version[g]
  BY DEF Edit, ProjectOK
<1>2. \A s \in Units \ {f} : includes'[s] = includes[s]
  BY DEF Edit, ProjectOK
<1> QED
  BY <1>1, <1>2 DEF InputsOf

\* Being newer than what was made of it is all that an edited file does to it.
LEMMA OlderIsSound ==
  ASSUME ProjectOK, NEW f \in Files, Edit(f), NEW s \in Units, NEW made \in Contents,
         NEW raced \in BOOLEAN, NEW newer \in SUBSET Files,
         Sound(s, ObjectFile(made, newer, raced))
  PROVE  Sound(s, ObjectFile(made, newer \cup {f}, raced))'
<1>1. made.deps \subseteq Files
  BY DEF Contents
<1> QED
  BY <1>1, EditKeeps DEF Sound, UpToDate, ObjectFile

\* What object[s] holds, or a build's staged object, as the record it is.
LEMMA ObjectParts ==
  ASSUME NEW o \in Objects
  PROVE  /\ o = ObjectFile(o.made, o.newer, o.raced)
         /\ o.made \in Contents /\ o.newer \in SUBSET Files /\ o.raced \in BOOLEAN
BY DEF Objects, ObjectFile

LEMMA EditedObjects ==
  ASSUME TypeOK, ObjectsAreSound, NEW f \in Files, Edit(f), NEW s \in Units, object'[s] # None
  PROVE  Sound(s, object[s])'
<1>1. object[s] \in Objects /\ object'[s] = [object[s] EXCEPT !.newer = @ \cup {f}]
  BY DEF Edit, Newer, TypeOK, CacheOK
<1>2. PICK o \in Objects : o = object[s]
  BY <1>1
<1>3. Sound(s, ObjectFile(o.made, o.newer, o.raced))
  BY <1>1, <1>2, ObjectParts DEF ObjectsAreSound, ObjectSound, TypeOK, CacheOK
<1>4. Sound(s, ObjectFile(o.made, o.newer \cup {f}, o.raced))'
  BY <1>3, ObjectParts, OlderIsSound DEF TypeOK
<1>5. object'[s] = ObjectFile(o.made, o.newer \cup {f}, o.raced)
  BY <1>1, <1>2 DEF ObjectFile, Objects
<1> QED
  BY <1>4, <1>5 DEF Sound, UpToDate, InputsOf

LEMMA EditedStaged ==
  ASSUME TypeOK, ObjectsAreSound, NEW f \in Files, Edit(f), NEW b \in Builders
  PROVE  StagedSound(b)'
<1> USE DEF StagedSound
<1>0. pc' = pc /\ unit' = unit
  BY DEF Edit
<1> SUFFICES ASSUME pc[b] \in {"compiling", "object", "dependency", "stamp"}
             PROVE  StagedSound(b)'
  BY <1>0
<1>1. staged[b] \in Objects /\ unit[b] \in Units /\ staged'[b] = NewerStaged(b, f)
  BY DEF Edit, TypeOK, BuildersOK, PlacesOK
<1>2. PICK o \in Objects : o = staged[b]
  BY <1>1
<1>3. PICK s \in Units : s = unit[b]
  BY <1>1
<1>4. Sound(s, ObjectFile(o.made, o.newer, o.raced))
  BY <1>2, <1>3, ObjectParts DEF ObjectsAreSound
<1>5. CASE pc[b] = "compiling" /\ f \in o.made.deps
  <2>1. staged'[b] = [o EXCEPT !.raced = TRUE]
    BY <1>1, <1>2, <1>5 DEF NewerStaged
  <2>2. staged'[b].raced /\ staged'[b].made = o.made
    BY <2>1 DEF Objects
  <2> QED
    BY <1>0, <1>3, <1>4, <2>2 DEF Sound, UpToDate, ObjectFile
<1>6. CASE ~(pc[b] = "compiling" /\ f \in o.made.deps)
  <2>1. staged'[b] = ObjectFile(o.made, o.newer \cup {f}, o.raced)
    BY <1>1, <1>2, <1>6 DEF NewerStaged, Newer, ObjectFile, Objects
  <2>2. Sound(s, ObjectFile(o.made, o.newer \cup {f}, o.raced))'
    BY <1>4, ObjectParts, OlderIsSound DEF TypeOK
  <2>3. Sound(unit[b], staged[b])'
    BY <1>0, <1>3, <2>1, <2>2 DEF Sound, UpToDate, InputsOf
  <2>4. pc[b] = "compiling" /\ ~o.raced => (o.newer \cup {f}) \cap o.made.deps = {}
    BY <1>2, <1>6 DEF ObjectsAreSound
  <2> QED
    BY <1>0, <2>1, <2>3, <2>4 DEF ObjectFile
<1> QED
  BY <1>5, <1>6

\* An object as the compiler makes it.
LEMMA CompiledIsSound ==
  ASSUME ProjectOK, BoundsOK, NEW c \in Commands, NEW s \in Units
  PROVE  Sound(s, ObjectFile(Content(c, s), {}, FALSE))
<1>1. InputsOf(s) \subseteq Files /\ s \in InputsOf(s)
  BY DEF InputsOf, ProjectOK, Files
<1> QED
  BY <1>1 DEF Sound, UpToDate, ObjectFile, Content

LEMMA SoundStep == TypeOK /\ ObjectsAreSound /\ [Next]_vars => ObjectsAreSound'
<1> SUFFICES ASSUME TypeOK, ObjectsAreSound, [Next]_vars PROVE ObjectsAreSound'
  OBVIOUS
<1>0. /\ \A s \in Units : ObjectSound(s)
      /\ \A b \in Builders : StagedSound(b)
      /\ ProjectOK /\ BoundsOK /\ CacheOK /\ BuildersOK /\ PlacesOK
  BY DEF ObjectsAreSound, TypeOK
<1>1. ASSUME NEW s \in Units, UNCHANGED <<version, includes>>, object'[s] = object[s]
      PROVE  ObjectSound(s)'
  BY <1>0, <1>1 DEF ObjectSound, Sound, UpToDate, InputsOf
<1>2. ASSUME NEW b \in Builders, UNCHANGED <<version, includes>>,
             pc'[b] = pc[b], unit'[b] = unit[b], staged'[b] = staged[b]
      PROVE  StagedSound(b)'
  BY <1>0, <1>2 DEF StagedSound, Sound, UpToDate, InputsOf
<1>3. CASE UNCHANGED vars \/ Initialize
  <2>1. UNCHANGED <<version, includes, object, pc, unit, staged>>
    BY <1>3 DEF vars, projectVars, cacheVars, procVars, Initialize, InitLinksPlan,
       InitLinksConfig, InitFails, InitKilled
  <2> QED
    BY <1>1, <1>2, <2>1 DEF ObjectsAreSound
<1>4. ASSUME NEW f \in Files, Edit(f) PROVE ObjectsAreSound'
  BY <1>4, EditedObjects, EditedStaged DEF ObjectsAreSound, ObjectSound
<1>5. CASE ChangeCommand \/ (\E h \in Headers : DeleteHeader(h)) \/ (\E b \in Builders : Cancel(b))
  <2>1. UNCHANGED <<version, includes, object, pc, unit, staged>>
    BY <1>5 DEF ChangeCommand, DeleteHeader, Cancel, projectVars, cacheVars, procVars
  <2> QED
    BY <1>1, <1>2, <2>1 DEF ObjectsAreSound
<1>6. CASE Clean
  <2>1. UNCHANGED <<version, includes, pc, unit, staged>> /\ \A s \in Units : object'[s] = None
    BY <1>6 DEF Clean, projectVars, procVars
  <2> QED
    BY <1>2, <2>1 DEF ObjectsAreSound, ObjectSound
<1>7. ASSUME NEW b \in Builders, Start(b) \/ Fail(b) \/ Kill(b) \/ Step(b) \/ Tool(b)
      PROVE  ObjectsAreSound'
  <2>1. UNCHANGED <<version, includes>>
    BY <1>7, Keeps DEF Start, Fail, Kill, BuildKeeps, Finish, projectVars
  <2>2. \A c \in Builders \ {b} : StagedSound(c)'
    BY <1>0, <1>2, <1>7, <2>1, OthersStay
  <2>3. \A s \in Units : object'[s] # object[s] => PromoteObject(b) /\ s = unit[b]
    BY <1>0, <1>7 DEF Start, Fail, Kill, Step, Tool, Reuse, Compile, PromoteObject, PromoteDependency,
       WriteStamp, PublishElf, PublishMap, PublishDerived, PublishStep, CompilerWrites, Link, Derive,
       Finish, cacheVars, CacheOK
  <2>4. ASSUME NEW s \in Units PROVE ObjectSound(s)'
    <3>1. CASE object'[s] = object[s]
      BY <1>1, <2>1, <3>1
    <3>2. CASE object'[s] # object[s]
      <4>1. PromoteObject(b) /\ s = unit[b] /\ object'[s] = staged[b] /\ staged' = staged
        BY <1>0, <2>3, <3>2 DEF PromoteObject, CacheOK
      <4>2. Sound(s, staged[b])
        BY <1>0, <4>1 DEF PromoteObject, StagedSound
      <4> QED
        BY <2>1, <4>1, <4>2 DEF ObjectSound, Sound, UpToDate, InputsOf
    <3> QED
      BY <3>1, <3>2
  <2>5. StagedSound(b)'
    <3>1. CASE Start(b) \/ Fail(b) \/ Kill(b) \/ Finish(b)
      BY <1>0, <3>1 DEF Start, Fail, Kill, Finish, Ended, BuildersOK, StagedSound
    <3>2. CASE Reuse(b) \/ WriteStamp(b) \/ Link(b) \/ Derive(b) \/ PublishElf(b) \/ PublishMap(b)
               \/ PublishDerived(b)
      <4>1. pc'[b] \notin {"compiling", "object", "dependency", "stamp"}
        BY <1>0, <3>2 DEF Reuse, WriteStamp, Advance, Link, Derive, PublishElf, PublishMap,
           PublishDerived, PublishStep, BuildersOK
      <4> QED
        BY <4>1 DEF StagedSound
    <3>3. CASE Compile(b)
      <4>1. cmd[b] \in Commands /\ unit[b] \in Units
        BY <1>0, <3>3 DEF Compile, PlacesOK
      <4>2. PICK o : o = ObjectFile(Content(cmd[b], unit[b]), {}, FALSE)
        OBVIOUS
      <4>3. staged'[b] = o /\ unit'[b] = unit[b] /\ pc'[b] = "compiling"
        BY <1>0, <3>3, <4>2 DEF Compile, BuildersOK
      <4>4. Sound(unit[b], o) /\ o.newer = {}
        BY <1>0, <4>1, <4>2, CompiledIsSound DEF ObjectFile
      <4> QED
        BY <2>1, <4>3, <4>4 DEF StagedSound, Sound, UpToDate, InputsOf
    <3>4. CASE CompilerWrites(b)
      <4>1. staged[b] \in Objects
        BY <1>0, <3>4 DEF CompilerWrites, BuildersOK, PlacesOK
      <4>2. staged'[b] = [staged[b] EXCEPT !.newer = {}] /\ unit'[b] = unit[b] /\ pc'[b] = "object"
        BY <1>0, <3>4 DEF CompilerWrites, BuildersOK
      <4>3. /\ staged'[b].made = staged[b].made /\ staged'[b].raced = staged[b].raced
            /\ staged'[b].newer = {}
        BY <4>1, <4>2 DEF Objects
      <4>4. Sound(unit[b], staged[b]) /\ (~staged[b].raced => staged[b].newer \cap staged[b].made.deps = {})
        BY <1>0, <3>4 DEF CompilerWrites, StagedSound
      <4>5. ~staged[b].raced =>
              /\ \A f \in staged[b].made.deps : staged[b].made.seen[f] = version[f]
              /\ staged[b].made.deps = InputsOf(unit[b])
        BY <4>4 DEF Sound, UpToDate
      <4> QED
        BY <2>1, <4>2, <4>3, <4>4, <4>5 DEF StagedSound, Sound, UpToDate, InputsOf
    <3>5. CASE PromoteObject(b) \/ PromoteDependency(b)
      <4>1. /\ staged'[b] = staged[b] /\ unit'[b] = unit[b] /\ Sound(unit[b], staged[b])
            /\ pc'[b] # "compiling"
        BY <1>0, <3>5 DEF PromoteObject, PromoteDependency, StagedSound, BuildersOK
      <4> QED
        BY <2>1, <4>1 DEF StagedSound, Sound, UpToDate, InputsOf
    <3> QED
      BY <1>7, <3>1, <3>2, <3>3, <3>4, <3>5 DEF Step, Tool
  <2> QED
    BY <2>2, <2>4, <2>5 DEF ObjectsAreSound
<1> QED
  BY <1>3, <1>4, <1>5, <1>6, <1>7, Steps DEF User

\* Whatever is edited, deleted, killed or built at the same time, an object that
\* is newer than a file it was made of was made of that file's current text.
THEOREM ObjectsStaySound == Spec => []ObjectsAreSound
<1>1. Init => ObjectsAreSound
  BY DEF Init, ObjectsAreSound, ObjectSound, StagedSound
<1> QED
  BY <1>1, TypeCorrect, SoundStep, PTL DEF Spec

\* is_current: what makes an object current makes it what a compiler would now make.
LEMMA ReusedIsCurrent ==
  ASSUME TypeOK, ObjectsAreSound, NEW b \in Builders, Reuse(b), Whole(unit[b])
  PROVE  object[unit[b]].made = Content(cmd[b], unit[b])
<1>1. unit[b] \in Units /\ cmd[b] \in Commands /\ cmd[b] # None
  BY DEF Reuse, TypeOK, PlacesOK
<1>2. PICK s \in Units : s = unit[b]
  BY <1>1
<1>3. PICK o \in Objects : o = object[s]
  BY <1>2 DEF Reuse, Cached, TypeOK, CacheOK
<1>4. dep[s] = o.made.deps /\ o.made.cmd = cmd[b] /\ ~o.raced
  BY <1>1, <1>2, <1>3 DEF Reuse, Cached, Whole
<1>5. Sound(s, o)
  BY <1>3, <1>2 DEF ObjectsAreSound, ObjectSound, Reuse, Cached
<1>6. o.newer \cap ({s} \cup o.made.deps) = {}
  BY <1>2, <1>3, <1>4 DEF Reuse, NewerInputs, Recorded
<1>7. o.made.deps = InputsOf(s)
  BY <1>4, <1>5, <1>6 DEF Sound, UpToDate
<1>8. o.made \in Contents
  BY DEF Objects
<1>9. \A f \in Files : o.made.seen[f] = IF f \in InputsOf(s) THEN version[f] ELSE 0
  BY <1>4, <1>5, <1>6, <1>7 DEF Sound, UpToDate
<1>10. o.made.seen = [f \in Files |-> IF f \in InputsOf(s) THEN version[f] ELSE 0]
  <2>1. o.made.seen \in [Files -> Versions]
    BY <1>8 DEF Contents
  <2> QED
    BY <1>9, <2>1
<1>11. o.made = [cmd |-> o.made.cmd, deps |-> o.made.deps, seen |-> o.made.seen]
  BY <1>8 DEF Contents
<1> QED
  BY <1>2, <1>3, <1>4, <1>7, <1>10, <1>11 DEF Content

\* A build that reuses an object of one undisturbed compilation would compile the
\* same again (ReuseIsSound).
THEOREM ReusesSoundly == Spec => ReuseIsSound
<1>1. TypeOK /\ ObjectsAreSound /\ [Next]_vars =>
        [\A b \in Builders :
           Reuse(b) /\ Whole(unit[b]) => object[unit[b]].made = Content(cmd[b], unit[b])]_vars
  BY ReusedIsCurrent
<1> QED
  BY <1>1, TypeCorrect, ObjectsStaySound, PTL DEF Spec, ReuseIsSound

(* What is published, staging and init *)

\* No build holds an image that was not inspected.
ImagesFit ==
  PublishedIsInspected /\ \A b \in Builders : image[b] # None => image[b].fits

LEMMA ImagesStep == TypeOK /\ ImagesFit /\ [Next]_vars => ImagesFit'
<1> SUFFICES ASSUME TypeOK, ImagesFit, [Next]_vars PROVE ImagesFit'
  OBVIOUS
<1> USE DEF ImagesFit, PublishedIsInspected
<1>0. CacheOK /\ BuildersOK
  BY DEF TypeOK
<1>1. ASSUME UNCHANGED <<out, image>> PROVE ImagesFit'
  BY <1>1
<1>2. CASE UNCHANGED vars \/ Initialize
  BY <1>1, <1>2 DEF vars, procVars, Initialize, InitLinksPlan, InitLinksConfig, InitFails,
     InitKilled
<1>3. CASE User
  <2>1. image' = image
    BY <1>3 DEF User, Edit, ChangeCommand, Clean, DeleteHeader, Cancel, procVars
  <2>2. out' = out \/ out' = [a \in Artifacts |-> None]
    BY <1>3 DEF User, Edit, ChangeCommand, Clean, DeleteHeader, Cancel
  <2> QED
    BY <2>1, <2>2
<1>4. ASSUME NEW b \in Builders, Start(b) \/ Fail(b) \/ Kill(b) \/ Finish(b) PROVE ImagesFit'
  <2>1. out' = out /\ \A c \in Builders : image'[c] = image[c] \/ image'[c] = None
    BY <1>0, <1>4 DEF Start, Fail, Kill, Finish, Ended, BuildersOK
  <2> QED
    BY <2>1
<1>5. ASSUME NEW b \in Builders, Step(b) \/ Tool(b), ~Finish(b) PROVE ImagesFit'
  <2>1. CASE Reuse(b) \/ Compile(b) \/ PromoteObject(b) \/ PromoteDependency(b) \/ WriteStamp(b)
             \/ CompilerWrites(b)
    BY <1>1, <2>1 DEF Reuse, Compile, PromoteObject, PromoteDependency, WriteStamp, CompilerWrites
  <2>2. CASE PublishElf(b) \/ PublishMap(b) \/ PublishDerived(b)
    <3>1. image' = image /\ \A a \in Artifacts : out'[a] = out[a] \/ out'[a] = image[b]
      BY <1>0, <2>2 DEF PublishElf, PublishMap, PublishDerived, PublishStep, CacheOK
    <3> QED
      BY <3>1
  <2>3. CASE Link(b)
    <3>1. PICK ok \in BOOLEAN :
            /\ Inspected(ok)
            /\ image' = [image EXCEPT ![b] = [objs |-> [s \in Units |-> object[s].made], fits |-> ok]]
      BY <2>3 DEF Link
    <3>2. image'[b].fits /\ \A c \in Builders \ {b} : image'[c] = image[c]
      BY <1>0, <3>1 DEF BuildersOK, Inspected
    <3>3. out' = out
      BY <2>3 DEF Link
    <3> QED
      BY <3>2, <3>3
  <2>4. CASE Derive(b)
    <3>1. Elf \in Artifacts
      BY DEF Elf, Artifacts, Map
    <3>2. image'[b] = out[Elf] /\ \A c \in Builders \ {b} : image'[c] = image[c]
      BY <1>0, <2>4 DEF Derive, BuildersOK
    <3>3. out' = out
      BY <2>4 DEF Derive
    <3> QED
      BY <3>1, <3>2, <3>3
  <2> QED
    BY <1>5, <2>1, <2>2, <2>3, <2>4 DEF Step, Tool
<1> QED
  BY <1>2, <1>3, <1>4, <1>5, Steps

\* Nothing published was made of an image that overflows or is for another target
\* (PublishedIsInspected).
THEOREM PublishesInspected == Spec => []PublishedIsInspected
<1>1. Init => ImagesFit
  BY DEF Init, ImagesFit, PublishedIsInspected
<1>2. ImagesFit => PublishedIsInspected
  BY DEF ImagesFit
<1> QED
  BY <1>1, <1>2, TypeCorrect, ImagesStep, PTL DEF Spec

LEMMA StagingStep == TypeOK /\ StagingIsOwned /\ [Next]_vars => StagingIsOwned'
<1> SUFFICES ASSUME TypeOK, StagingIsOwned, [Next]_vars PROVE StagingIsOwned'
  OBVIOUS
<1> USE DEF StagingIsOwned, Active
<1>0. BuildersOK /\ SetsOK
  BY DEF TypeOK
<1>1. CASE UNCHANGED vars \/ Initialize \/ User
  <2>1. pc' = pc /\ (stage' = stage \/ stage' = {})
    BY <1>1 DEF vars, procVars, Initialize, InitLinksPlan, InitLinksConfig, InitFails, InitKilled,
       User, Edit, ChangeCommand, Clean, DeleteHeader, Cancel
  <2> QED
    BY <2>1
<1>2. ASSUME NEW b \in Builders, Start(b) \/ Step(b) \/ Tool(b) \/ Fail(b) \/ Kill(b),
             NEW c \in stage', c # b
      PROVE  pc'[c] # "idle"
  <2>1. c \in stage
    BY <1>2, Keeps DEF Start, Fail, Kill, StageRemoved, BuildKeeps, Finish
  <2> QED
    BY <1>0, <1>2, <2>1, OthersStay DEF SetsOK
<1>3. ASSUME NEW b \in Builders, Fail(b) \/ Kill(b) \/ Finish(b) PROVE b \notin stage'
  BY <1>3 DEF Fail, Kill, Finish, StageRemoved
<1>4. ASSUME NEW b \in Builders, Start(b) \/ ((Step(b) \/ Tool(b)) /\ ~Finish(b))
      PROVE  pc'[b] # "idle"
  BY <1>0, <1>4 DEF Start, Step, Tool, Reuse, Compile, PromoteObject, PromoteDependency, WriteStamp,
     PublishElf, PublishMap, PublishDerived, PublishStep, CompilerWrites, Link, Derive, Advance,
     BuildersOK
<1> QED
  BY <1>1, <1>2, <1>3, <1>4, Steps

\* Every staging directory is that of a running build, or was left by a killed one
\* (StagingIsOwned).
THEOREM StagingOwned == Spec => []StagingIsOwned
<1>1. Init => StagingIsOwned
  BY DEF Init, StagingIsOwned
<1> QED
  BY <1>1, TypeCorrect, StagingStep, PTL DEF Spec

\* An init that is between its two files has written the first.
InitIsConsistent == InitIsAllOrNothing /\ (init = "plan" => plan)

LEMMA InitIsStep == TypeOK /\ InitIsConsistent /\ [Next]_vars => InitIsConsistent'
<1> SUFFICES ASSUME TypeOK, InitIsConsistent, [Next]_vars PROVE InitIsConsistent'
  OBVIOUS
<1> USE DEF InitIsConsistent, InitIsAllOrNothing
<1>0. InitOK /\ BoundsOK /\ stops \in Nat
  BY DEF TypeOK, BoundsOK
<1>1. ASSUME UNCHANGED initVars, stops' = stops \/ stops' = stops + 1
      PROVE  InitIsConsistent'
  BY <1>0, <1>1 DEF initVars
<1>2. CASE UNCHANGED vars
  BY <1>1, <1>2 DEF vars, boundVars
<1>3. CASE Initialize
  <2>1. CASE InitLinksPlan \/ InitLinksConfig \/ InitFails
    BY <1>0, <2>1 DEF InitLinksPlan, InitLinksConfig, InitFails, InitOK
  <2>2. CASE InitKilled
    BY <1>0, <2>2 DEF InitKilled
  <2> QED
    BY <1>3, <2>1, <2>2 DEF Initialize
<1>4. CASE User
  BY <1>1, <1>4 DEF User, Edit, ChangeCommand, Clean, DeleteHeader, Cancel, Editing, boundVars
<1>5. ASSUME NEW b \in Builders, Start(b) PROVE InitIsConsistent'
  BY <1>0, <1>5 DEF Start
<1>6. ASSUME NEW b \in Builders, Fail(b) \/ Kill(b) PROVE InitIsConsistent'
  BY <1>1, <1>6 DEF Fail, Kill, boundVars
<1>7. ASSUME NEW b \in Builders, Step(b) \/ Tool(b) PROVE InitIsConsistent'
  BY <1>1, <1>7, Keeps DEF BuildKeeps, Finish, boundVars
<1> QED
  BY <1>2, <1>3, <1>4, <1>5, <1>6, <1>7, Steps

\* An init that was not killed leaves both of its files or neither
\* (InitIsAllOrNothing).
THEOREM InitWhole == Spec => []InitIsAllOrNothing
<1>1. Init => InitIsConsistent
  BY DEF Init, InitIsConsistent, InitIsAllOrNothing
<1>2. InitIsConsistent => InitIsAllOrNothing
  BY DEF InitIsConsistent
<1> QED
  BY <1>1, <1>2, TypeCorrect, InitIsStep, PTL DEF Spec

(* Success *)

\* What build b has to make of its sources.
Goal(b) == [s \in Units |-> Content(cmd[b], s)]
Fresh(b, s) == object[s] # None /\ object[s].made = Goal(b)[s]
Made(b, a) == out[a] # None /\ out[a].objs = Goal(b)
\* The sources whose objects b has looked after by now.
Promoted(b) ==
  IF pc[b] \in {"check", "compiling", "object"} THEN 1..(unit[b] - 1)
  ELSE IF pc[b] \in {"dependency", "stamp"} THEN 1..unit[b] ELSE Units

Alone(b) == \A q \in Builders \ {b} : ~Active(q)
CacheFresh(b) == \A s \in Units : IF s \in Promoted(b) THEN Fresh(b, s) ELSE Whole(s)
StagedFresh(b) ==
  pc[b] \in {"compiling", "object", "dependency", "stamp"} =>
    staged[b].made = Goal(b)[unit[b]]
OutFresh(b) ==
  /\ pc[b] \in {"elf", "map", "derived"} => image[b].objs = Goal(b)
  /\ pc[b] = "map" => Made(b, Elf)
  /\ pc[b] \in {"derive", "derived"} =>
       \A a \in Artifacts : a < Map + unit[b] => Made(b, a)
\* An undisturbed build over a whole cache is alone, and all it has come to is as
\* if made from scratch.
OnItsWay(b) == Alone(b) /\ CacheFresh(b) /\ StagedFresh(b) /\ OutFresh(b)
Undisturbed == \A b \in Builders : b \in intact /\ Active(b) => OnItsWay(b)

\* What does not touch the project does not change the goal.
LEMMA GoalKeeps ==
  ASSUME NEW b \in Builders, UNCHANGED <<version, includes>>, cmd'[b] = cmd[b]
  PROVE  Goal(b)' = Goal(b)
BY DEF Goal, Content, InputsOf

\* In a step of its own an undisturbed build goes on as it has to.
LEMMA CacheGoesOn ==
  ASSUME TypeOK, ObjectsAreSound, NEW b \in Builders, OnItsWay(b),
         Step(b) \/ Tool(b), ~Finish(b), Goal(b)' = Goal(b)
  PROVE  CacheFresh(b)' /\ StagedFresh(b)'
<1>0. CacheOK /\ BuildersOK /\ PlacesOK /\ CacheFresh(b) /\ StagedFresh(b)
  BY DEF TypeOK, OnItsWay
<1>1. CASE Reuse(b)
  <2>1. unit[b] \in Units /\ Whole(unit[b]) /\ \A s \in 1..(unit[b] - 1) : s \in Units => Fresh(b, s)
    BY <1>0, <1>1 DEF Reuse, PlacesOK, CacheFresh, Promoted, Units
  <2>2. object[unit[b]] # None /\ object[unit[b]].made = Content(cmd[b], unit[b])
    BY <1>1, <2>1, ReusedIsCurrent DEF Reuse, Cached
  <2>3. Fresh(b, unit[b])
    BY <2>1, <2>2 DEF Fresh, Goal
  <2>4. UNCHANGED cacheVars
    BY <1>1 DEF Reuse
  <2>5. \/ pc'[b] = "check" /\ unit'[b] = unit[b] + 1
        \/ pc'[b] = "link" /\ unit[b] = Sources
    BY <1>0, <1>1, <2>1 DEF Reuse, Advance, BuildersOK
  <2>6. \A s \in Units : Fresh(b, s)' = Fresh(b, s) /\ Whole(s)' = Whole(s)
    BY <2>4 DEF Fresh, Whole, cacheVars
  <2>7. pc[b] = "check"
    BY <1>1 DEF Reuse
  <2>8. CacheFresh(b)'
    BY <1>0, <2>1, <2>3, <2>5, <2>6, <2>7 DEF CacheFresh, Promoted, Units
  <2> QED
    BY <2>5, <2>8 DEF StagedFresh
<1>2. CASE WriteStamp(b)
  <2>1. unit[b] \in Units /\ pc[b] = "stamp" /\ UNCHANGED <<object, dep>>
    BY <1>0, <1>2 DEF WriteStamp, PlacesOK
  <2>2. \/ pc'[b] = "check" /\ unit'[b] = unit[b] + 1
        \/ pc'[b] = "link" /\ unit[b] = Sources
    BY <1>0, <1>2, <2>1 DEF WriteStamp, Advance, BuildersOK
  <2>3. \A s \in Units : Fresh(b, s)' = Fresh(b, s)
    BY <2>1 DEF Fresh
  <2>4. \A s \in Units \ {unit[b]} : Whole(s)' = Whole(s)
    BY <1>0, <1>2, <2>1 DEF WriteStamp, Whole, CacheOK
  <2>5. CacheFresh(b)'
    BY <1>0, <2>1, <2>2, <2>3, <2>4 DEF CacheFresh, Promoted, Units
  <2> QED
    BY <2>2, <2>5 DEF StagedFresh
<1>3. CASE Compile(b) \/ CompilerWrites(b)
  <2>1. UNCHANGED <<cacheVars, unit>> /\ unit[b] \in Units
        /\ pc[b] \in {"check", "compiling"} /\ pc'[b] \in {"compiling", "object"}
    BY <1>0, <1>3 DEF Compile, CompilerWrites, PlacesOK, BuildersOK
  <2>2. \A s \in Units : Fresh(b, s)' = Fresh(b, s) /\ Whole(s)' = Whole(s)
    BY <2>1 DEF Fresh, Whole, cacheVars
  <2>3. CacheFresh(b)'
    BY <1>0, <2>1, <2>2 DEF CacheFresh, Promoted
  <2>4. CASE Compile(b)
    <3>1. staged'[b].made = Content(cmd[b], unit[b])
      BY <1>0, <2>4 DEF Compile, ObjectFile, BuildersOK
    <3> QED
      BY <2>1, <2>3, <3>1 DEF StagedFresh, Goal
  <2>5. CASE CompilerWrites(b)
    <3>1. staged[b] \in Objects /\ staged[b].made = Goal(b)[unit[b]]
      BY <1>0, <2>5 DEF CompilerWrites, BuildersOK, PlacesOK, StagedFresh
    <3>2. staged'[b].made = staged[b].made
      BY <1>0, <2>5, <3>1 DEF CompilerWrites, BuildersOK, Objects
    <3> QED
      BY <2>1, <2>3, <3>1, <3>2 DEF StagedFresh
  <2> QED
    BY <1>3, <2>4, <2>5
<1>4. CASE PromoteObject(b) \/ PromoteDependency(b)
  <2>1. /\ UNCHANGED <<unit, staged>> /\ unit[b] \in Units /\ staged[b] # None
        /\ pc[b] \in {"object", "dependency"} /\ pc'[b] \in {"dependency", "stamp"}
        /\ staged[b].made = Goal(b)[unit[b]]
    BY <1>0, <1>4 DEF PromoteObject, PromoteDependency, PlacesOK, BuildersOK, StagedFresh
  <2>2. \A s \in Units \ {unit[b]} : Fresh(b, s)' = Fresh(b, s) /\ Whole(s)' = Whole(s)
    BY <1>0, <1>4, <2>1 DEF PromoteObject, PromoteDependency, Fresh, Whole, CacheOK
  <2>3. Fresh(b, unit[b])'
    <3>1. CASE PromoteObject(b)
      BY <1>0, <2>1, <3>1 DEF PromoteObject, Fresh, CacheOK
    <3>2. CASE PromoteDependency(b)
      BY <1>0, <2>1, <3>2 DEF PromoteDependency, Fresh, CacheFresh, Promoted, Units
    <3> QED
      BY <1>4, <3>1, <3>2
  <2>4. CacheFresh(b)'
    BY <1>0, <2>1, <2>2, <2>3 DEF CacheFresh, Promoted, Units
  <2> QED
    BY <2>1, <2>4 DEF StagedFresh
<1>5. CASE Link(b) \/ Derive(b) \/ PublishElf(b) \/ PublishMap(b) \/ PublishDerived(b)
  <2>1. /\ UNCHANGED cacheVars
        /\ pc[b] \in {"link", "elf", "map", "derive", "derived"}
        /\ pc'[b] \in {"elf", "map", "derive", "derived"}
    BY <1>0, <1>5 DEF Link, Derive, PublishElf, PublishMap, PublishDerived, PublishStep, BuildersOK
  <2>2. \A s \in Units : Fresh(b, s)' = Fresh(b, s)
    BY <2>1 DEF Fresh, cacheVars
  <2> QED
    BY <1>0, <2>1, <2>2 DEF CacheFresh, Promoted, StagedFresh
<1> QED
  BY <1>1, <1>2, <1>3, <1>4, <1>5 DEF Step, Tool

LEMMA OutGoesOn ==
  ASSUME TypeOK, NEW b \in Builders, OnItsWay(b),
         Step(b) \/ Tool(b), ~Finish(b), Goal(b)' = Goal(b)
  PROVE  OutFresh(b)'
<1>0. CacheOK /\ BuildersOK /\ PlacesOK /\ CacheFresh(b) /\ OutFresh(b)
  BY DEF TypeOK, OnItsWay
<1>a. Derived \in Nat /\ Elf = 1 /\ Map = 2 /\ Artifacts = 1..(2 + Derived)
  BY DEF Elf, Map, Artifacts
<1>1. CASE Reuse(b) \/ WriteStamp(b) \/ Compile(b) \/ CompilerWrites(b) \/ PromoteObject(b)
           \/ PromoteDependency(b)
  <2>1. pc'[b] \notin {"elf", "map", "derive", "derived"}
    BY <1>0, <1>1 DEF Reuse, WriteStamp, Advance, Compile, CompilerWrites, PromoteObject,
       PromoteDependency, BuildersOK
  <2> QED
    BY <2>1 DEF OutFresh
<1>2. CASE Link(b)
  <2>1. pc[b] = "link" /\ pc'[b] = "elf"
    BY <1>0, <1>2 DEF Link, BuildersOK
  <2>2. image'[b].objs = [s \in Units |-> object[s].made]
    BY <1>0, <1>2 DEF Link, BuildersOK
  <2>3. \A s \in Units : object[s].made = Goal(b)[s]
    BY <1>0, <2>1 DEF CacheFresh, Promoted, Fresh
  <2>4. image'[b].objs = Goal(b)
    BY <2>2, <2>3 DEF Goal
  <2> QED
    BY <2>1, <2>4 DEF OutFresh
<1>3. CASE PublishElf(b)
  <2>1. /\ pc[b] = "elf" /\ pc'[b] = "map" /\ image' = image /\ image[b] # None
        /\ out'[Elf] = image[b]
    BY <1>0, <1>a, <1>3 DEF PublishElf, PublishStep, BuildersOK, PlacesOK, CacheOK
  <2> QED
    BY <1>0, <2>1 DEF OutFresh, Made
<1>4. CASE PublishMap(b)
  <2>1. /\ pc[b] = "map" /\ pc'[b] = "derive" /\ image[b] # None /\ unit' = unit /\ unit[b] = 1
        /\ out'[Map] = image[b] /\ out'[Elf] = out[Elf]
    BY <1>0, <1>a, <1>4 DEF PublishMap, PublishStep, BuildersOK, PlacesOK, CacheOK
  <2>2. Made(b, Map)' /\ Made(b, Elf)'
    BY <1>0, <2>1 DEF OutFresh, Made
  <2>3. \A a \in Artifacts : a < Map + 1 => a \in {Elf, Map}
    BY <1>a
  <2> QED
    BY <2>1, <2>2, <2>3 DEF OutFresh
<1>5. CASE Derive(b)
  <2>1. /\ pc[b] = "derive" /\ pc'[b] = "derived" /\ unit' = unit /\ out' = out
        /\ image'[b] = out[Elf] /\ unit[b] \in 1..(Derived + 1)
    BY <1>0, <1>5 DEF Derive, BuildersOK, PlacesOK
  <2>2. \A a \in Artifacts : Made(b, a)' = Made(b, a)
    BY <2>1 DEF Made
  <2>3. Made(b, Elf)
    BY <1>0, <1>a, <2>1 DEF OutFresh
  <2> QED
    BY <1>0, <2>1, <2>2, <2>3 DEF OutFresh, Made
<1>6. CASE PublishDerived(b)
  <2>1. /\ pc[b] = "derived" /\ pc'[b] = "derive" /\ image[b] # None
        /\ unit[b] \in 1..Derived /\ unit'[b] = unit[b] + 1
        /\ out' = [out EXCEPT ![Map + unit[b]] = image[b]]
    BY <1>0, <1>6 DEF PublishDerived, PublishStep, BuildersOK, PlacesOK
  <2>0. PICK k \in Artifacts : k = Map + unit[b]
    BY <1>a, <2>1
  <2>2. out'[k] = image[b] /\ \A a \in Artifacts \ {k} : out'[a] = out[a]
    BY <1>0, <2>0, <2>1 DEF CacheOK
  <2>3. Made(b, k)'
    BY <1>0, <2>1, <2>2 DEF OutFresh, Made
  <2>4. ASSUME NEW a \in Artifacts, a < Map + unit'[b] PROVE Made(b, a)'
    <3>1. CASE a = k
      BY <2>3, <3>1
    <3>2. CASE a # k
      <4>1. a < Map + unit[b]
        BY <1>a, <2>0, <2>1, <2>4, <3>2
      <4>2. Made(b, a)
        BY <1>0, <2>1, <4>1 DEF OutFresh
      <4> QED
        BY <2>2, <3>2, <4>2 DEF Made
    <3> QED
      BY <3>1, <3>2
  <2> QED
    BY <2>1, <2>4 DEF OutFresh
<1> QED
  BY <1>1, <1>2, <1>3, <1>4, <1>5, <1>6 DEF Step, Tool

LEMMA UndisturbedStep ==
  TypeOK /\ ObjectsAreSound /\ Undisturbed /\ [Next]_vars => Undisturbed'
<1> SUFFICES ASSUME TypeOK, ObjectsAreSound, Undisturbed, [Next]_vars PROVE Undisturbed'
  OBVIOUS
<1>0. BuildersOK /\ PlacesOK
  BY DEF TypeOK
<1>1. ASSUME UNCHANGED <<version, includes, cacheVars, out, procVars, intact>> PROVE Undisturbed'
  <2> SUFFICES ASSUME NEW b \in Builders, OnItsWay(b) PROVE OnItsWay(b)'
    BY <1>1 DEF Undisturbed, Active, procVars
  <2>1. Goal(b)' = Goal(b)
    BY <1>1, GoalKeeps DEF procVars
  <2>2. \A s \in Units : Fresh(b, s)' = Fresh(b, s) /\ Whole(s)' = Whole(s)
    BY <1>1, <2>1 DEF Fresh, Whole, cacheVars
  <2>3. CacheFresh(b)' /\ StagedFresh(b)' /\ Alone(b)'
    BY <1>1, <2>1, <2>2
    DEF OnItsWay, CacheFresh, Promoted, StagedFresh, Alone, Active, procVars
  <2>4. OutFresh(b)'
    BY <1>1, <2>1 DEF OnItsWay, OutFresh, Made, procVars
  <2> QED
    BY <2>3, <2>4 DEF OnItsWay
<1>2. CASE UNCHANGED vars \/ Initialize \/ (\E b \in Builders : Cancel(b))
  <2>1. UNCHANGED <<version, includes, cacheVars, out, procVars, intact>>
    BY <1>2 DEF vars, projectVars, cacheVars, procVars, Initialize, InitLinksPlan, InitLinksConfig,
       InitFails, InitKilled, Cancel
  <2> QED
    BY <1>1, <2>1
<1>3. ASSUME intact' = {} PROVE Undisturbed'
  BY <1>3 DEF Undisturbed
<1>4. CASE User /\ ~\E b \in Builders : Cancel(b)
  BY <1>3, <1>4 DEF User, Edit, DeleteHeader, ChangeCommand, Editing, Clean
<1>5. ASSUME NEW b \in Builders, Start(b) PROVE Undisturbed'
  <2>1. CASE (\A q \in Builders : ~Active(q)) /\ (\A s \in Units : Whole(s))
    <3>1. intact' = {b} /\ UNCHANGED cacheVars /\ pc'[b] = "check" /\ unit'[b] = 1
      BY <1>0, <1>5, <2>1 DEF Start, BuildersOK
    <3>2. Alone(b)'
      BY <1>0, <1>5, <2>1, OthersStay DEF Alone, Active
    <3>3. CacheFresh(b)'
      BY <2>1, <3>1 DEF CacheFresh, Promoted, Whole, cacheVars
    <3> QED
      BY <3>1, <3>2, <3>3 DEF Undisturbed, OnItsWay, StagedFresh, OutFresh
  <2>2. CASE ~((\A q \in Builders : ~Active(q)) /\ (\A s \in Units : Whole(s)))
    BY <1>3, <1>5, <2>2 DEF Start
  <2> QED
    BY <2>1, <2>2
<1>6. ASSUME NEW b \in Builders, Fail(b) \/ Kill(b) \/ Step(b) \/ Tool(b) PROVE Undisturbed'
  <2>1. Active(b) /\ intact' = intact
    BY <1>6 DEF Active, Fail, Kill, Step, Tool, Reuse, Compile, PromoteObject, PromoteDependency,
       WriteStamp, PublishElf, PublishMap, PublishDerived, PublishStep, CompilerWrites, Link, Derive,
       Finish, BuildKeeps
  <2> SUFFICES ASSUME NEW c \in Builders, c \in intact', Active(c)' PROVE OnItsWay(c)'
    BY DEF Undisturbed
  <2>2. Active(c)
    BY <1>0, <1>6, <2>1, OthersStay DEF Active
  <2>3. OnItsWay(c)
    BY <2>1, <2>2 DEF Undisturbed
  <2>4. c = b
    BY <2>1, <2>3 DEF OnItsWay, Alone
  <2>5. ~(Fail(b) \/ Kill(b) \/ Finish(b))
    BY <1>0, <2>4 DEF Fail, Kill, Finish, Ended, Active, BuildersOK
  <2>6. Alone(b)'
    BY <1>0, <1>6, <2>3, <2>4, OthersStay DEF OnItsWay, Alone, Active
  <2>7. UNCHANGED <<version, includes>> /\ cmd'[b] = cmd[b]
    BY <1>6, <2>5, Keeps DEF BuildKeeps, projectVars, Step, Tool, Reuse, Compile, PromoteObject,
       PromoteDependency, WriteStamp, PublishElf, PublishMap, PublishDerived, PublishStep,
       CompilerWrites, Link, Derive
  <2>8. Goal(b)' = Goal(b)
    BY <2>7, GoalKeeps
  <2> QED
    BY <1>6, <2>3, <2>4, <2>5, <2>6, <2>8, CacheGoesOn, OutGoesOn DEF OnItsWay
<1> QED
  BY <1>2, <1>4, <1>5, <1>6, Steps

\* A build that ends well has published what it set out to make.
LEMMA FinishedIsRebuilt ==
  ASSUME TypeOK, Undisturbed, NEW b \in Builders, Finish(b), b \in intact
  PROVE  \A a \in Artifacts :
           out[a] # None /\ out[a].objs = [s \in Units |-> Content(cmd[b], s)]
<1>1. pc[b] = "derive" /\ unit[b] > Derived /\ unit[b] \in 1..(Derived + 1)
  BY DEF Finish, TypeOK, PlacesOK
<1>2. \A a \in Artifacts : a < Map + unit[b]
  BY <1>1 DEF Artifacts, Map
<1>3. OutFresh(b)
  BY <1>1 DEF Undisturbed, Active, OnItsWay
<1> QED
  BY <1>1, <1>2, <1>3 DEF OutFresh, Made, Goal

\* A build over a whole cache that nothing disturbs publishes what a build from
\* scratch would (SuccessIsRebuild), whatever went before: edits, kills, concurrent
\* builds.
THEOREM SuccessRebuilds == Spec => SuccessIsRebuild
<1>1. Init => Undisturbed
  BY DEF Init, Undisturbed
<1>2. TypeOK /\ Undisturbed /\ [Next]_vars =>
        [\A b \in Builders :
           Finish(b) /\ b \in intact =>
             \A a \in Artifacts :
               out[a] # None /\ out[a].objs = [s \in Units |-> Content(cmd[b], s)]]_vars
  BY FinishedIsRebuilt
<1>3. Spec => []Undisturbed
  BY <1>1, UndisturbedStep, TypeCorrect, ObjectsStaySound, PTL DEF Spec
<1> QED
  BY <1>2, <1>3, TypeCorrect, PTL DEF Spec, SuccessIsRebuild
=============================================================================
