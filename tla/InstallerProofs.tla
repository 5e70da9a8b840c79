-------------------------- MODULE InstallerProofs --------------------------
(***************************************************************************)
(* What holds of Installer for any number of setups and any bundle.        *)
(***************************************************************************)
EXTENDS Installer, TLAPS

\* One constant-level fact about each set the variables range over.
LEMMA Contents == Nothing \in [Files -> Content] /\ Complete \in [Files -> Content]
BY DEF Nothing, Complete, Content

LEMMA FailCodes ==
  {"INTERRUPTED", "IO_FAILED", "EXECUTABLE_MISSING", "EXECUTABLE_VERSION_MISMATCH",
   "PARTIAL_INSTALL_CLEANUP_FAILED", "OFFLINE_CACHE_MISS", "HASH_OPEN_FAILED",
   "TOOL_CHECKSUM_MISMATCH", "ARCHIVE_OPEN_FAILED", "INSTALL_INTEGRITY_SCAN_FAILED",
   "ATOMIC_INSTALL_FAILED"} \subseteq Codes \ {"none"}
BY DEF Codes, Success

\* Writing or removing one file of one tree.
LEMMA PutTyped ==
  ASSUME TreesOK, NEW t, NEW f \in Files, NEW c \in Content
  PROVE  [tree EXCEPT ![t][f] = c] \in [Trees -> [Files -> Content]]
<1> DEFINE files == [tree[t] EXCEPT ![f] = c]
<1>1. t \in Trees => files \in [Files -> Content]
  BY DEF TreesOK
<1>2. [tree EXCEPT ![t] = files] \in [Trees -> [Files -> Content]]
  BY <1>1 DEF TreesOK
<1> QED
  BY <1>2

\* A setup that fails leaves every variable well typed.
LEMMA FailTyped ==
  ASSUME TreesOK, CacheOK, ProcessesOK, NEW s \in Setups, NEW code \in Codes \ {"none"},
         Fail(s, code)
  PROVE  TreesOK' /\ CacheOK' /\ ProcessesOK' /\ overlapped' = overlapped
<1>1. TreesOK'
  BY Contents DEF TreesOK, Fail, Trees
<1>2. CacheOK'
  BY DEF CacheOK, Fail, PartialRemoved, Content
<1>3. ProcessesOK'
  BY DEF ProcessesOK, Fail, Ends, Places
<1> QED
  BY <1>1, <1>2, <1>3 DEF Fail

LEMMA TreesStep == TypeOK /\ [Next]_vars => TreesOK'
<1> SUFFICES ASSUME TypeOK, [Next]_vars PROVE TreesOK'
  OBVIOUS
<1> USE DEF TypeOK, treeVars
<1> DEFINE Failed == \E s \in Setups, code \in Codes \ {"none"} : Fail(s, code)
<1>1. CASE Failed
  BY <1>1, FailTyped
<1>2. CASE AllOver \/ UNCHANGED vars
  BY <1>2 DEF AllOver, vars, TreesOK
<1>3. ASSUME NEW s \in Setups, ~Failed, Start(s) \/ Interrupted(s) \/ IoFails(s) \/ Crash(s)
      PROVE  TreesOK'
  BY <1>3, FailCodes DEF Start, Interrupted, IoFails, Crash, TreesOK
<1>4. ASSUME NEW s \in Setups, ~Failed, Sweeping(s)
      PROVE  TreesOK'
  <2>1. CASE Unlink(s)
    <3>1. removing[s] \in Trees \cup {NoTree}
      BY DEF ProcessesOK
    <3>2. tree' \in [Trees -> [Files -> Content]]
      <4>1. "absent" \in Content
        BY DEF Content
      <4>2. CASE UNCHANGED tree
        BY <4>2 DEF TreesOK
      <4>3. CASE \E f \in Files : tree' = [tree EXCEPT ![removing[s]][f] = "absent"]
        BY <4>1, <4>3, PutTyped
      <4> QED
        BY <2>1, <4>2, <4>3 DEF Unlink
    <3>3. marker' \in [Trees -> [Files -> Content] \cup {NoMarker, OtherMarker}]
      BY <2>1, <3>1 DEF Unlink, TreesOK
    <3> QED
      BY <2>1, <3>2, <3>3 DEF Unlink, TreesOK
  <2>2. CASE Swept(s)
    BY <2>2 DEF Swept, TreesOK
  <2>3. CASE StagingSwept(s) \/ DownloadsSwept(s) \/ \E q \in Setups : Sweep(s, q) \/ RemovePartial(s, q)
    BY <2>3 DEF StagingSwept, DownloadsSwept, Sweep, RemovePartial, TreesOK
  <2> QED
    BY <1>4, <2>1, <2>2, <2>3 DEF Sweeping
<1>5. ASSUME NEW s \in Setups, ~Failed, Installing(s)
      PROVE  TreesOK'
  <2>1. CASE CheckInstall(s) \/ Remove(s) \/ CheckCache(s) \/ Evict(s) \/ Fetch(s) \/ Promote(s)
             \/ Decompress(s) \/ Extracted(s) \/ Validate(s)
    BY <1>5, <2>1, FailCodes DEF CheckInstall, Remove, CheckCache, Evict, Fetch, Promote,
       Decompress, Extracted, Validate, TreesOK
  <2>2. CASE Removed(s) \/ CreateStaging(s) \/ RenameIntoPlace(s)
    BY <1>5, <2>2, FailCodes DEF Removed, CreateStaging, RenameIntoPlace, TreesOK, Trees
  <2>3. CASE Extract(s)
    <3>1. expanded[s] \in Content /\ todo[s] \subseteq Files
      BY DEF CacheOK, ProcessesOK
    <3>2. tree' \in [Trees -> [Files -> Content]]
      BY <2>3, <3>1, PutTyped DEF Extract
    <3> QED
      BY <2>3, <3>2 DEF Extract, TreesOK
  <2>4. CASE Mark(s)
    BY <1>5, <2>4, FailCodes DEF Mark, TreesOK, Trees
  <2> QED
    BY <1>5, <2>1, <2>2, <2>3, <2>4 DEF Installing
<1> QED
  BY <1>1, <1>2, <1>3, <1>4, <1>5 DEF Next, Run

LEMMA CacheStep == TypeOK /\ [Next]_vars => CacheOK'
<1> SUFFICES ASSUME TypeOK, [Next]_vars PROVE CacheOK'
  OBVIOUS
<1> USE DEF TypeOK, cacheVars
<1> DEFINE Failed == \E s \in Setups, code \in Codes \ {"none"} : Fail(s, code)
<1>1. CASE Failed
  BY <1>1, FailTyped
<1>2. CASE AllOver \/ UNCHANGED vars
  BY <1>2 DEF AllOver, vars, CacheOK
<1>3. ASSUME NEW s \in Setups, ~Failed, Start(s) \/ Interrupted(s) \/ IoFails(s) \/ Crash(s)
      PROVE  CacheOK'
  BY <1>3, FailCodes DEF Start, Interrupted, IoFails, Crash, CacheOK
<1>4. ASSUME NEW s \in Setups, ~Failed, Sweeping(s)
      PROVE  CacheOK'
  BY <1>4 DEF Sweeping, Unlink, Swept, StagingSwept, DownloadsSwept, Sweep, RemovePartial,
     CacheOK, Content
<1>5. ASSUME NEW s \in Setups, ~Failed, Installing(s)
      PROVE  CacheOK'
  <2>1. CASE CheckInstall(s) \/ Remove(s) \/ Removed(s) \/ CheckCache(s) \/ CreateStaging(s)
             \/ Extract(s) \/ Validate(s) \/ Mark(s) \/ RenameIntoPlace(s)
    BY <1>5, <2>1, FailCodes DEF CheckInstall, Remove, Removed, CheckCache, CreateStaging,
       Extract, Validate, Mark, RenameIntoPlace, CacheOK
  <2>2. CASE Evict(s) \/ Fetch(s) \/ Promote(s)
    BY <1>5, <2>2, FailCodes DEF Evict, Fetch, Promote, Matches, CacheOK, Content
  <2>3. CASE Decompress(s) \/ Extracted(s)
    BY <1>5, <2>3, FailCodes DEF Decompress, Extracted, CacheOK, Content
  <2> QED
    BY <1>5, <2>1, <2>2, <2>3 DEF Installing
<1> QED
  BY <1>1, <1>2, <1>3, <1>4, <1>5 DEF Next, Run

LEMMA ProcessesStep == TypeOK /\ [Next]_vars => ProcessesOK'
<1> SUFFICES ASSUME TypeOK, [Next]_vars PROVE ProcessesOK'
  OBVIOUS
<1> USE DEF TypeOK, procVars, Goto, Ends, At, Places
<1> DEFINE Failed == \E s \in Setups, code \in Codes \ {"none"} : Fail(s, code)
<1>1. CASE Failed
  BY <1>1, FailTyped
<1>2. CASE AllOver \/ UNCHANGED vars
  BY <1>2 DEF AllOver, vars, ProcessesOK
<1>3. ASSUME NEW s \in Setups, ~Failed, Start(s) \/ Interrupted(s) \/ IoFails(s) \/ Crash(s)
      PROVE  ProcessesOK'
  BY <1>3, FailCodes DEF Start, Interrupted, IoFails, Crash, ProcessesOK
<1>4. ASSUME NEW s \in Setups, ~Failed, Sweeping(s)
      PROVE  ProcessesOK'
  BY <1>4 DEF Sweeping, Unlink, Swept, StagingSwept, DownloadsSwept, Sweep, RemovePartial,
     ProcessesOK, Trees
<1>5. ASSUME NEW s \in Setups, ~Failed, Installing(s)
      PROVE  ProcessesOK'
  <2>1. CASE CheckInstall(s) \/ Remove(s) \/ Removed(s) \/ CheckCache(s) \/ Evict(s)
    BY <1>5, <2>1, FailCodes DEF CheckInstall, Remove, Removed, CheckCache, Evict,
       TreesOK, ProcessesOK, Codes, Success
  <2>2. CASE Fetch(s) \/ Promote(s) \/ CreateStaging(s) \/ Decompress(s)
    BY <1>5, <2>2, FailCodes DEF Fetch, Promote, CreateStaging, Decompress, ProcessesOK
  <2>3. CASE Extract(s) \/ Extracted(s) \/ Validate(s)
    BY <1>5, <2>3, FailCodes DEF Extract, Extracted, Validate, ProcessesOK
  <2>4. CASE Mark(s) \/ RenameIntoPlace(s)
    BY <1>5, <2>4, FailCodes DEF Mark, RenameIntoPlace, ProcessesOK, Codes, Success
  <2> QED
    BY <1>5, <2>1, <2>2, <2>3, <2>4 DEF Installing
<1> QED
  BY <1>1, <1>2, <1>3, <1>4, <1>5 DEF Next, Run

LEMMA TypeStep == TypeOK /\ [Next]_vars => TypeOK'
<1>1. TypeOK /\ [Next]_vars => overlapped' \in BOOLEAN
  <2> SUFFICES ASSUME overlapped \in BOOLEAN, [Next]_vars PROVE overlapped' \in BOOLEAN
    BY DEF TypeOK
  <2>1. ASSUME NEW s \in Setups, Start(s)
        PROVE  overlapped' \in BOOLEAN
    BY <2>1, Zenon DEF Start
  <2>2. ASSUME NEW s \in Setups, Run(s) \/ Interrupted(s) \/ IoFails(s) \/ Crash(s)
        PROVE  overlapped' = overlapped
    BY <2>2 DEF Run, Interrupted, IoFails, Crash, Fail, Sweeping, Unlink, Swept, StagingSwept,
       DownloadsSwept, Sweep, RemovePartial, Installing, CheckInstall, Remove, Removed,
       CheckCache, Evict, Fetch, Promote, CreateStaging, Decompress, Extract, Extracted,
       Validate, Mark, RenameIntoPlace, procVars
  <2>3. CASE AllOver \/ UNCHANGED vars
    BY <2>3 DEF AllOver, vars, procVars
  <2> QED
    BY <2>1, <2>2, <2>3 DEF Next
<1> QED
  BY <1>1, TreesStep, CacheStep, ProcessesStep DEF TypeOK

LEMMA InitTyped == Init => TypeOK
<1> SUFFICES ASSUME Init PROVE TypeOK
  OBVIOUS
<1>1. TreesOK
  BY Contents DEF Init, TreesOK, Trees, Content
<1>2. CacheOK
  BY DEF Init, CacheOK, Content
<1>3. ProcessesOK
  BY DEF Init, ProcessesOK, Places, Codes
<1> QED
  BY <1>1, <1>2, <1>3 DEF Init, TypeOK

\* Every variable of the installer keeps its type and every setup that ended
\* has a report, for any number of setups and any bundle.
THEOREM TypeCorrect == Spec => []TypeOK
BY InitTyped, TypeStep, PTL DEF Spec
-----------------------------------------------------------------------------
\* Where what a setup creates can be: only while it may still remove it.
Owned ==
  \A s \in Setups :
    /\ s \in staged => pc[s] \in {"unpack", "extract", "validate", "mark", "rename", "crashed"}
    /\ partial[s] # "absent" => pc[s] \in {"promote", "crashed"}
    /\ expanded[s] # "absent" => pc[s] \in {"extract", "crashed"}

\* Nothing that was not verified is on its way into a tree: an archive that is
\* about to be opened, an expanded tar, a file of a setup's tree.
Clean ==
  /\ \A s \in Setups : pc[s] \in {"stage", "unpack"} => archive # "bad"
  /\ \A s \in Setups : expanded[s] # "bad"
  /\ \A s \in Setups, f \in Files : tree[s][f] # "bad"

\* Whatever fails, the process that fails owns nothing any more.
LEMMA FailOwns ==
  ASSUME TypeOK, Owned, NEW s \in Setups, NEW code, Fail(s, code)
  PROVE  Owned'
BY DEF TypeOK, TreesOK, CacheOK, ProcessesOK, Owned, Fail, Ends, PartialRemoved

LEMMA FailClean ==
  ASSUME TypeOK, Clean, NEW s \in Setups, NEW code, Fail(s, code)
  PROVE  Clean'
<1>1. \A q \in Setups : tree'[q] = tree[q] \/ tree'[q] = Nothing
  BY DEF TypeOK, TreesOK, Fail, Trees
<1> QED
  BY <1>1 DEF TypeOK, TreesOK, CacheOK, ProcessesOK, Clean, Fail, Ends, Trees, Nothing

LEMMA OwnedStep == TypeOK /\ Owned /\ [Next]_vars => Owned'
<1> SUFFICES ASSUME TypeOK, Owned, [Next]_vars PROVE Owned'
  OBVIOUS
<1> USE DEF TypeOK, TreesOK, CacheOK, ProcessesOK, Owned, Goto, Ends, At
<1> DEFINE Failed == \E s \in Setups, code \in Codes \ {"none"} : Fail(s, code)
<1>1. CASE Failed
  BY <1>1, FailOwns
<1>2. CASE AllOver \/ UNCHANGED vars
  BY <1>2 DEF AllOver, vars, treeVars, cacheVars, procVars
<1>3. ASSUME NEW s \in Setups, ~Failed, Start(s) \/ Interrupted(s) \/ IoFails(s) \/ Crash(s)
      PROVE  Owned'
  BY <1>3, FailCodes DEF Start, Interrupted, IoFails, Crash, Live, treeVars, cacheVars
<1>4. ASSUME NEW s \in Setups, ~Failed, Sweeping(s)
      PROVE  Owned'
  BY <1>4 DEF Sweeping, Unlink, Swept, StagingSwept, DownloadsSwept, Sweep, RemovePartial,
     treeVars, cacheVars, procVars
<1>5. ASSUME NEW s \in Setups, ~Failed, Installing(s)
      PROVE  Owned'
  <2> USE DEF treeVars, cacheVars
  <2>1. CASE CheckInstall(s) \/ Remove(s) \/ Removed(s) \/ CheckCache(s) \/ Evict(s)
    BY <1>5, FailCodes, <2>1 DEF CheckInstall, Remove, Removed, CheckCache, Evict
  <2>2. CASE Fetch(s) \/ Promote(s) \/ CreateStaging(s) \/ Decompress(s)
    BY <1>5, FailCodes, <2>2 DEF Fetch, Promote, CreateStaging, Decompress
  <2>3. CASE Extract(s) \/ Extracted(s) \/ Validate(s)
    BY <1>5, FailCodes, <2>3 DEF Extract, Extracted, Validate
  <2>4. CASE Mark(s) \/ RenameIntoPlace(s)
    BY <1>5, FailCodes, <2>4 DEF Mark, RenameIntoPlace
  <2> QED
    BY <1>5, <2>1, <2>2, <2>3, <2>4 DEF Installing
<1> QED
  BY <1>1, <1>2, <1>3, <1>4, <1>5 DEF Next, Run

LEMMA CleanStep == TypeOK /\ Clean /\ [Next]_vars => Clean'
<1> SUFFICES ASSUME TypeOK, Clean, [Next]_vars PROVE Clean'
  OBVIOUS
<1> USE DEF TypeOK, TreesOK, CacheOK, ProcessesOK, Clean, Goto, Ends, At
<1> DEFINE Failed == \E s \in Setups, code \in Codes \ {"none"} : Fail(s, code)
<1>1. CASE Failed
  BY <1>1, FailClean
<1>2. CASE AllOver \/ UNCHANGED vars
  BY <1>2 DEF AllOver, vars, treeVars, cacheVars, procVars
<1>3. ASSUME NEW s \in Setups, ~Failed, Start(s) \/ Interrupted(s) \/ IoFails(s) \/ Crash(s)
      PROVE  Clean'
  BY <1>3, FailCodes DEF Start, Interrupted, IoFails, Crash, Live, treeVars, cacheVars
<1>4. ASSUME NEW s \in Setups, ~Failed, Sweeping(s)
      PROVE  Clean'
  <2>1. CASE Unlink(s)
    <3>1. \A q \in Setups, f \in Files : tree'[q][f] \in {tree[q][f], "absent"}
      <4>1. CASE UNCHANGED tree
        BY <4>1
      <4>2. ASSUME NEW t, NEW g \in Files, tree' = [tree EXCEPT ![t][g] = "absent"]
            PROVE  \A q \in Setups, f \in Files : tree'[q][f] \in {tree[q][f], "absent"}
        BY <4>2 DEF Trees
      <4> QED
        BY <2>1, <4>1, <4>2 DEF Unlink
    <3> QED
      BY <2>1, <3>1 DEF Unlink, cacheVars, procVars
  <2>2. CASE ~Unlink(s)
    BY <1>4, <2>2 DEF Sweeping, Swept, StagingSwept, DownloadsSwept, Sweep, RemovePartial,
       treeVars, cacheVars, procVars
  <2> QED
    BY <2>1, <2>2
<1>5. ASSUME NEW s \in Setups, ~Failed, Installing(s)
      PROVE  Clean'
  <2> USE DEF treeVars, cacheVars
  <2>1. CASE CheckInstall(s) \/ Remove(s) \/ Removed(s) \/ CheckCache(s) \/ Evict(s)
    BY <1>5, FailCodes, <2>1 DEF CheckInstall, Remove, Removed, CheckCache, CacheValid, Evict
  <2>2. CASE Fetch(s) \/ Promote(s) \/ CreateStaging(s) \/ Decompress(s)
    BY <1>5, FailCodes, <2>2 DEF Fetch, Promote, Matches, CreateStaging, Decompress
  <2>3. CASE Extract(s)
    BY <2>3 DEF Extract, Trees
  <2>4. CASE Extracted(s) \/ Validate(s) \/ Mark(s) \/ RenameIntoPlace(s)
    BY <1>5, FailCodes, <2>4 DEF Extracted, Validate, Mark, RenameIntoPlace
  <2> QED
    BY <1>5, <2>1, <2>2, <2>3, <2>4 DEF Installing
<1> QED
  BY <1>1, <1>2, <1>3, <1>4, <1>5 DEF Next, Run

LEMMA OwnedAndClean == Spec => [](TypeOK /\ Owned /\ Clean)
<1>1. Init => TypeOK /\ Owned /\ Clean
  <2> SUFFICES ASSUME Init PROVE Owned /\ Clean
    BY InitTyped
  <2>1. Owned
    BY DEF Init, Owned
  <2>2. Clean
    <3>1. \A s \in Setups : s \in Trees /\ s # dest
      BY InstallerAssumption DEF Init, Trees
    <3>2. \A s \in Setups : tree[s] = Nothing
      BY <3>1 DEF Init
    <3> QED
      BY <3>2 DEF Init, Clean, Nothing
  <2> QED
    BY <2>1, <2>2
<1> QED
  BY <1>1, TypeStep, OwnedStep, CleanStep, PTL DEF Spec

\* However setups overlap, are interrupted or are killed, one that ended has
\* left no staging directory, partial download or expanded tar of its own.
THEOREM PartialStateIsRemoved == Spec => []EndLeavesNothing
<1>1. TypeOK /\ Owned /\ Clean => EndLeavesNothing
  BY DEF TypeOK, Owned, EndLeavesNothing
<1> QED
  BY <1>1, OwnedAndClean, PTL

\* No interleaving of setups puts a file in place that is not the verified
\* archive's.
THEOREM NothingUnverifiedInstalled == Spec => []NothingUnverified
<1>1. TypeOK /\ Owned /\ Clean => NothingUnverified
  BY DEF Clean, NothingUnverified
<1> QED
  BY <1>1, OwnedAndClean, PTL
-----------------------------------------------------------------------------
\* As long as no two setups overlap, one process at most is alive.
OneAtATime == ~overlapped => \A s, q \in Setups : Live(s) /\ Live(q) => s = q

\* What has been extracted is there, and what is there when the inventory is
\* taken is the bundle: every inventory is then that of the whole bundle.
Faithful ==
  /\ \A s \in Setups : pc[s] = "extract" => expanded[s] = "good"
  /\ ~overlapped =>
       /\ \A s \in Setups : pc[s] = "extract" =>
            \A f \in Files \ todo[s] : tree[s][f] = "good"
       /\ \A s \in Setups : pc[s] \in {"validate", "mark"} => tree[s] = Complete
       /\ \A t \in Trees : marker[t] \in {NoMarker, OtherMarker, Complete}

LEMMA OneAtATimeStep == TypeOK /\ OneAtATime /\ [Next]_vars => OneAtATime'
<1> SUFFICES ASSUME TypeOK, OneAtATime, [Next]_vars PROVE OneAtATime'
  OBVIOUS
<1> USE DEF TypeOK, ProcessesOK, OneAtATime, Live, Goto, Ends, At
<1>1. ASSUME NEW s \in Setups, Start(s)
      PROVE  OneAtATime'
  <2>1. overlapped' \in BOOLEAN
    BY <1>1, Zenon DEF Start
  <2>2. ~overlapped' => ~overlapped /\ \A q \in Setups : ~Live(q)
    BY <1>1, <2>1 DEF Start
  <2> QED
    BY <1>1, <2>2 DEF Start
<1>2. ASSUME NEW s \in Setups, Run(s) \/ Interrupted(s) \/ IoFails(s) \/ Crash(s)
      PROVE  /\ overlapped' = overlapped
             /\ \A q \in Setups : pc'[q] = pc[q] \/ (q = s /\ Live(s))
  BY <1>2 DEF Run, Interrupted, IoFails, Crash, Fail, Sweeping, Unlink, Swept, StagingSwept,
     DownloadsSwept, Sweep, RemovePartial, Installing, CheckInstall, Remove, Removed,
     CheckCache, Evict, Fetch, Promote, CreateStaging, Decompress, Extract, Extracted,
     Validate, Mark, RenameIntoPlace, procVars
<1>3. ASSUME NEW s \in Setups, Run(s) \/ Interrupted(s) \/ IoFails(s) \/ Crash(s)
      PROVE  OneAtATime'
  BY <1>2, <1>3
<1>4. CASE AllOver \/ UNCHANGED vars
  BY <1>4 DEF AllOver, vars, procVars
<1> QED
  BY <1>1, <1>3, <1>4 DEF Next

\* A step that leaves alone the setups that extract, validate or take their
\* inventory, and writes no inventory, keeps it so.
LEMMA FaithfulFrame ==
  ASSUME Faithful, overlapped \in BOOLEAN, overlapped' = overlapped,
         \A q \in Setups : pc'[q] \in {"extract", "validate", "mark"} =>
           /\ pc'[q] = pc[q] /\ tree'[q] = tree[q]
           /\ todo'[q] = todo[q] /\ expanded'[q] = expanded[q],
         \A t \in Trees : marker'[t] \in {marker[t], NoMarker}
  PROVE  Faithful'
BY DEF Faithful

LEMMA FaithfulStep ==
  TypeOK /\ Owned /\ Clean /\ OneAtATime /\ Faithful /\ [Next]_vars => Faithful'
<1> SUFFICES ASSUME TypeOK, Owned, Clean, OneAtATime, Faithful, [Next]_vars PROVE Faithful'
  OBVIOUS
<1> USE DEF TypeOK, TreesOK, CacheOK, ProcessesOK, Goto, Ends, At, Trees
<1> DEFINE Failed == \E s \in Setups, code \in Codes \ {"none"} : Fail(s, code)
<1>1. CASE Failed
  <2>1. PICK s \in Setups, code \in Codes : Fail(s, code)
    BY <1>1
  <2>2. \A q \in Setups : q # s =>
          pc'[q] = pc[q] /\ tree'[q] = tree[q] /\ todo'[q] = todo[q] /\ expanded'[q] = expanded[q]
    BY <2>1 DEF Fail
  <2>3. pc'[s] = "ended" /\ overlapped' = overlapped
    BY <2>1 DEF Fail
  <2>4. \A t \in Trees : marker'[t] \in {marker[t], NoMarker}
    BY <2>1 DEF Fail
  <2> QED
    BY <2>2, <2>3, <2>4, FaithfulFrame
<1>2. CASE AllOver \/ UNCHANGED vars
  BY <1>2 DEF AllOver, vars, treeVars, cacheVars, procVars, Faithful
<1>3. ASSUME NEW s \in Setups, ~Failed, Start(s)
      PROVE  Faithful'
  <2>1. overlapped' \in BOOLEAN /\ (overlapped => overlapped')
    BY <1>3, Zenon DEF Start
  <2> QED
    BY <1>3, <2>1 DEF Start, treeVars, cacheVars, Faithful
<1>4. ASSUME NEW s \in Setups, ~Failed, Interrupted(s) \/ IoFails(s) \/ Crash(s)
      PROVE  Faithful'
  <2>1. Crash(s)
    BY <1>4, FailCodes DEF Interrupted, IoFails
  <2> QED
    BY <2>1, FaithfulFrame DEF Crash, treeVars, cacheVars
<1>5. ASSUME NEW s \in Setups, ~Failed, Sweeping(s)
      PROVE  Faithful'
  <2>1. CASE Unlink(s)
    <3>1. ~overlapped => \A q \in Setups : pc[q] \notin {"extract", "validate", "mark"}
      BY <2>1 DEF Unlink, OneAtATime, Live
    <3>2. \A t \in Trees : marker'[t] \in {marker[t], NoMarker}
      BY <2>1 DEF Unlink
    <3> QED
      BY <2>1, <3>1, <3>2 DEF Unlink, cacheVars, procVars, Faithful
  <2>2. CASE Swept(s) \/ StagingSwept(s) \/ DownloadsSwept(s)
    BY <2>2, FaithfulFrame DEF Swept, StagingSwept, DownloadsSwept, treeVars, cacheVars
  <2>3. ASSUME NEW q \in Setups, Sweep(s, q) \/ RemovePartial(s, q)
        PROVE  Faithful'
    BY <2>3, FaithfulFrame DEF Sweep, RemovePartial, treeVars, cacheVars, procVars
  <2> QED
    BY <1>5, <2>1, <2>2, <2>3 DEF Sweeping
<1>6. ASSUME NEW s \in Setups, ~Failed, Installing(s)
      PROVE  Faithful'
  <2> USE DEF treeVars, cacheVars
  <2>1. CASE CheckInstall(s)
    BY <1>6, FailCodes, <2>1, FaithfulFrame DEF CheckInstall
  <2>2. CASE Remove(s) \/ Removed(s)
    BY <1>6, FailCodes, <2>2, FaithfulFrame DEF Remove, Removed
  <2>3. CASE CheckCache(s) \/ Evict(s)
    BY <2>3, FaithfulFrame DEF CheckCache, Evict
  <2>4. CASE Fetch(s) \/ Promote(s) \/ CreateStaging(s)
    BY <1>6, FailCodes, <2>4, FaithfulFrame DEF Fetch, Promote, CreateStaging
  <2>5. CASE Decompress(s)
    <3>1. archive = "good" /\ expanded' = [expanded EXCEPT ![s] = archive]
      BY <1>6, FailCodes, <2>5 DEF Decompress, Clean, Content
    <3>2. todo' = [todo EXCEPT ![s] = Files] /\ pc' = [pc EXCEPT ![s] = "extract"]
      BY <1>6, FailCodes, <2>5 DEF Decompress
    <3>3. UNCHANGED <<tree, marker, overlapped>>
      BY <1>6, FailCodes, <2>5 DEF Decompress
    <3> QED
      BY <3>1, <3>2, <3>3 DEF Faithful
  <2>6. CASE Extract(s)
    BY <2>6 DEF Extract, Faithful
  <2>7. CASE Extracted(s)
    BY <2>7 DEF Extracted, ExtractedAll, Complete, Faithful
  <2>8. CASE Validate(s)
    <3>1. pc[s] = "validate" /\ pc' = [pc EXCEPT ![s] = "mark"]
      BY <1>6, FailCodes, <2>8 DEF Validate
    <3>2. UNCHANGED <<tree, marker, todo, expanded, overlapped>>
      BY <1>6, FailCodes, <2>8 DEF Validate
    <3> QED
      BY <3>1, <3>2 DEF Faithful
  <2>9. CASE Mark(s)
    <3>1. pc[s] = "mark" /\ pc' = [pc EXCEPT ![s] = "rename"]
      BY <1>6, FailCodes, <2>9 DEF Mark
    <3>2. marker' = [marker EXCEPT ![s] = tree[s]]
      BY <1>6, FailCodes, <2>9 DEF Mark
    <3>3. UNCHANGED <<tree, todo, expanded, overlapped>>
      BY <1>6, FailCodes, <2>9 DEF Mark
    <3> QED
      BY <3>1, <3>2, <3>3 DEF Faithful
  <2>10. CASE RenameIntoPlace(s)
    BY <1>6, FailCodes, <2>10, FaithfulFrame DEF RenameIntoPlace
  <2> QED
    BY <1>6, <2>1, <2>2, <2>3, <2>4, <2>5, <2>6, <2>7, <2>8, <2>9, <2>10 DEF Installing
<1> QED
  BY <1>1, <1>2, <1>3, <1>4, <1>5, <1>6 DEF Next, Run

\* As long as no two setups ran at the same time, whatever reuse and doctor
\* accept is the whole verified bundle.
THEOREM AcceptedTreesAreComplete == Spec => []AcceptedIsComplete
<1>1. Init => OneAtATime /\ Faithful
  <2> SUFFICES ASSUME Init PROVE OneAtATime /\ Faithful
    OBVIOUS
  <2>1. \A s \in Setups : pc[s] = "idle"
    BY DEF Init
  <2>2. \A t \in Trees : marker[t] \in {NoMarker, OtherMarker, Complete}
    BY DEF Init
  <2> QED
    BY <2>1, <2>2 DEF OneAtATime, Faithful, Live
<1>2. Faithful /\ TypeOK => AcceptedIsComplete
  BY DEF Faithful, TypeOK, TreesOK, AcceptedIsComplete, Accepted, Marked
<1> QED
  BY <1>1, <1>2, OwnedAndClean, OneAtATimeStep, FaithfulStep, PTL DEF Spec
-----------------------------------------------------------------------------
\* What a setup that runs alone has achieved: past its first sweep no staging
\* directory but its own, past its second no partial download but its own, and
\* before the rename a whole bundle with its inventory.
AfterSweep == {"downloads", "check", "remove", "removing", "cache", "evict", "fetch", "promote",
               "stage", "unpack", "extract", "validate", "mark", "rename"}
Prepared(s) ==
  /\ pc[s] \in AfterSweep => staged \subseteq {s}
  /\ pc[s] \in AfterSweep \ {"downloads"} =>
       \A q \in Setups \ {s} : partial[q] = "absent"
  /\ pc[s] = "rename" => tree[s] = Complete /\ marker[s] = Complete
PreparedOK == ~overlapped => \A s \in Setups : Prepared(s)

\* Only the process that acts moves, and of several a step may be of one alone.
LEMMA OneMoves ==
  ASSUME ProcessesOK, NEW s \in Setups, Run(s) \/ Interrupted(s) \/ IoFails(s) \/ Crash(s)
  PROVE  /\ overlapped' = overlapped /\ Live(s)
         /\ \A q \in Setups \ {s} : pc'[q] = pc[q]
BY DEF ProcessesOK, Live, At, Goto, Ends, Run, Interrupted, IoFails, Crash, Fail, Sweeping, Unlink,
   Swept, StagingSwept, DownloadsSwept, Sweep, RemovePartial, Installing, CheckInstall, Remove,
   Removed, CheckCache, Evict, Fetch, Promote, CreateStaging, Decompress, Extract, Extracted,
   Validate, Mark, RenameIntoPlace, procVars

LEMMA SweepingPrepares ==
  ASSUME TypeOK, Owned, OneAtATime, ~overlapped, NEW s \in Setups, Prepared(s), Sweeping(s)
  PROVE  Prepared(s)'
<1> USE DEF TypeOK, ProcessesOK, TreesOK, CacheOK, Prepared, AfterSweep, Goto, At
<1>1. CASE Unlink(s)
  BY <1>1 DEF Unlink, cacheVars, procVars
<1>2. CASE Swept(s)
  BY <1>2 DEF Swept
<1>3. CASE StagingSwept(s)
  BY <1>3 DEF StagingSwept, Owned, OneAtATime, Live, treeVars, cacheVars
<1>4. CASE DownloadsSwept(s)
  BY <1>4 DEF DownloadsSwept, OneAtATime, Live, treeVars, cacheVars
<1>5. ASSUME NEW q \in Setups, Sweep(s, q) \/ RemovePartial(s, q)
      PROVE  Prepared(s)'
  BY <1>5 DEF Sweep, RemovePartial, treeVars, cacheVars, procVars
<1> QED
  BY <1>1, <1>2, <1>3, <1>4, <1>5 DEF Sweeping

LEMMA InstallingPrepares ==
  ASSUME TypeOK, Faithful, ~overlapped, NEW s \in Setups, Prepared(s), Installing(s),
         ~ \E code \in Codes \ {"none"} : Fail(s, code)
  PROVE  Prepared(s)'
<1> USE DEF TypeOK, ProcessesOK, TreesOK, CacheOK, Prepared, AfterSweep, Goto, At, Ends,
        treeVars, cacheVars
<1>1. CASE CheckInstall(s) \/ Remove(s) \/ Removed(s) \/ CheckCache(s) \/ Evict(s)
  BY <1>1, FailCodes DEF CheckInstall, Remove, Removed, CheckCache, Evict
<1>2. CASE Fetch(s) \/ Promote(s) \/ CreateStaging(s) \/ Decompress(s)
  BY <1>2, FailCodes DEF Fetch, Promote, CreateStaging, Decompress
<1>3. CASE Extract(s) \/ Extracted(s) \/ Validate(s)
  BY <1>3, FailCodes DEF Extract, Extracted, Validate
<1>4. CASE Mark(s)
  <2>1. pc[s] = "mark" /\ tree[s] = Complete
    BY <1>4 DEF Mark, Faithful
  <2>2. marker' = [marker EXCEPT ![s] = tree[s]] /\ UNCHANGED <<tree, staged, partial>>
    BY <1>4, FailCodes DEF Mark
  <2> QED
    BY <2>1, <2>2 DEF Trees
<1>5. CASE RenameIntoPlace(s)
  BY <1>5, FailCodes DEF RenameIntoPlace
<1> QED
  BY <1>1, <1>2, <1>3, <1>4, <1>5 DEF Installing

LEMMA PreparedStep ==
  TypeOK /\ Owned /\ OneAtATime /\ Faithful /\ PreparedOK /\ [Next]_vars => PreparedOK'
<1> SUFFICES ASSUME TypeOK, Owned, OneAtATime, Faithful, PreparedOK, [Next]_vars, ~overlapped'
             PROVE  \A q \in Setups : Prepared(q)'
  BY DEF PreparedOK
<1> DEFINE Steps(s) == Run(s) \/ Interrupted(s) \/ IoFails(s) \/ Crash(s)
<1>1. ASSUME NEW s \in Setups, Start(s)
      PROVE  \A q \in Setups : Prepared(q)'
  <2>1. \A q \in Setups : ~Live(q)
    BY <1>1 DEF Start
  <2>2. \A q \in Setups : pc'[q] \notin AfterSweep
    BY <1>1, <2>1 DEF Start, Goto, Live, AfterSweep, TypeOK, ProcessesOK
  <2> QED
    BY <2>2 DEF Prepared, AfterSweep
<1>2. ASSUME NEW s \in Setups, Steps(s)
      PROVE  \A q \in Setups : Prepared(q)'
  <2>1. ~overlapped /\ Live(s) /\ \A q \in Setups \ {s} : pc'[q] = pc[q]
    BY <1>2, OneMoves DEF TypeOK
  <2>2. \A q \in Setups \ {s} : pc'[q] \notin AfterSweep
    BY <2>1 DEF OneAtATime, Live, AfterSweep
  <2>3. \A q \in Setups \ {s} : Prepared(q)'
    BY <2>2 DEF Prepared, AfterSweep
  <2>4. Prepared(s)
    BY <2>1 DEF PreparedOK
  <2>5. Prepared(s)'
    <3>1. CASE \E code \in Codes \ {"none"} : Fail(s, code)
      BY <3>1 DEF Fail, Ends, Prepared, AfterSweep, TypeOK, ProcessesOK
    <3>2. CASE Crash(s)
      BY <3>2 DEF Crash, Goto, Prepared, AfterSweep, TypeOK, ProcessesOK
    <3>3. CASE Run(s) /\ ~ \E code \in Codes \ {"none"} : Fail(s, code)
      BY <2>1, <2>4, <3>3, SweepingPrepares, InstallingPrepares DEF Run
    <3> QED
      BY <1>2, <3>1, <3>2, <3>3, FailCodes DEF Interrupted, IoFails
  <2> QED
    BY <2>3, <2>5
<1>3. CASE AllOver \/ UNCHANGED vars
  BY <1>3 DEF AllOver, vars, treeVars, cacheVars, procVars, PreparedOK, Prepared
<1> QED
  BY <1>1, <1>2, <1>3 DEF Next

\* A step that makes a report is a failure, a reuse, an eviction offline or the
\* rename.
LEMMA WhoReports ==
  ASSUME TypeOK, [Next]_vars, NEW s \in Setups, report[s] = "none", report'[s] \in Success
  PROVE  \/ CheckInstall(s) /\ Marked /\ FilesMatch /\ UNCHANGED <<treeVars, cacheVars, overlapped>>
         \/ /\ At(s, "rename") /\ s \in staged
            /\ dest' = s /\ staged' = staged \ {s}
            /\ UNCHANGED <<tree, marker, cacheVars, overlapped>>
<1> USE DEF TypeOK, ProcessesOK, Success, Ends, Goto
<1>1. ASSUME NEW q \in Setups, NEW code \in Codes \ Success, Fail(q, code)
      PROVE  FALSE
  BY <1>1 DEF Fail, Codes
<1> DEFINE Failing == {"INTERRUPTED", "IO_FAILED", "EXECUTABLE_MISSING",
     "EXECUTABLE_VERSION_MISMATCH", "PARTIAL_INSTALL_CLEANUP_FAILED", "OFFLINE_CACHE_MISS",
     "HASH_OPEN_FAILED", "TOOL_CHECKSUM_MISMATCH", "ARCHIVE_OPEN_FAILED",
     "INSTALL_INTEGRITY_SCAN_FAILED", "ATOMIC_INSTALL_FAILED"}
<1>2. Failing \subseteq Codes \ Success
  BY DEF Codes
<1> HIDE DEF Failing
<1>3. \A q \in Setups, code \in Failing : ~Fail(q, code)
  BY <1>1, <1>2
<1> USE DEF Failing
<1>4. ASSUME NEW q \in Setups, Start(q) \/ Interrupted(q) \/ IoFails(q) \/ Crash(q)
      PROVE  FALSE
  BY <1>3, <1>4 DEF Start, Interrupted, IoFails, Crash
<1>5. ASSUME NEW q \in Setups, Sweeping(q)
      PROVE  FALSE
  BY <1>5 DEF Sweeping, Unlink, Swept, StagingSwept, DownloadsSwept, Sweep, RemovePartial, procVars
<1>6. ASSUME NEW q \in Setups, Installing(q)
      PROVE  (CheckInstall(q) \/ RenameIntoPlace(q)) /\ q = s
  <2>1. ~(Remove(q) \/ Removed(q) \/ CheckCache(q) \/ Evict(q))
    BY <1>3 DEF Remove, Removed, CheckCache, Evict
  <2>2. ~(Fetch(q) \/ Promote(q) \/ CreateStaging(q) \/ Decompress(q))
    BY <1>3 DEF Fetch, Promote, CreateStaging, Decompress
  <2>3. ~(Extract(q) \/ Extracted(q) \/ Validate(q) \/ Mark(q))
    BY <1>3 DEF Extract, Extracted, Validate, Mark
  <2>4. CheckInstall(q) \/ RenameIntoPlace(q) => q = s
    BY <1>3 DEF CheckInstall, RenameIntoPlace
  <2> QED
    BY <1>6, <2>1, <2>2, <2>3, <2>4 DEF Installing
<1>7. CASE CheckInstall(s)
  BY <1>3, <1>7 DEF CheckInstall
<1>8. CASE RenameIntoPlace(s)
  BY <1>3, <1>8 DEF RenameIntoPlace
<1>9. CASE AllOver \/ UNCHANGED vars
  BY <1>9 DEF AllOver, vars, procVars
<1> QED
  BY <1>4, <1>5, <1>6, <1>7, <1>8, <1>9 DEF Next, Run

\* Whatever setups before it left behind, one that ran alone and reports success
\* has the whole verified bundle in place and nothing beside it but expanded tars.
THEOREM SuccessInstalls == Spec => SuccessIsInstalled
<1> DEFINE IInv == TypeOK /\ Owned /\ Clean /\ OneAtATime /\ Faithful /\ PreparedOK
<1>1. Init => OneAtATime /\ Faithful /\ PreparedOK
  <2> SUFFICES ASSUME Init PROVE OneAtATime /\ Faithful /\ PreparedOK
    OBVIOUS
  <2>1. \A s \in Setups : pc[s] = "idle"
    BY DEF Init
  <2>2. \A t \in Trees : marker[t] \in {NoMarker, OtherMarker, Complete}
    BY DEF Init
  <2> QED
    BY <2>1, <2>2 DEF OneAtATime, Faithful, Live, PreparedOK, Prepared, AfterSweep
<1>2. ASSUME IInv, [Next]_vars, NEW s \in Setups, report[s] = "none", report'[s] \in Success,
             ~overlapped
      PROVE  /\ Accepted' /\ tree'[dest'] = Complete
             /\ staged' = {} /\ \A q \in Setups : partial'[q] = "absent"
  <2> USE DEF TypeOK, TreesOK, CacheOK, ProcessesOK, At
  <2>0. Prepared(s)
    BY <1>2 DEF PreparedOK
  <2>1. CASE CheckInstall(s) /\ Marked /\ FilesMatch /\ UNCHANGED <<treeVars, cacheVars, overlapped>>
    <3>1. pc[s] = "check" /\ s \notin staged /\ partial[s] = "absent"
      BY <1>2, <2>1 DEF CheckInstall, Owned
    <3>2. staged = {} /\ \A q \in Setups : partial[q] = "absent"
      BY <2>0, <3>1 DEF Prepared, AfterSweep
    <3>3. Accepted /\ tree[dest] = Complete
      BY <1>2, <2>1 DEF Accepted, Marked, FilesMatch, Faithful
    <3> QED
      BY <2>1, <3>2, <3>3 DEF treeVars, cacheVars, Accepted, Marked
  <2>2. CASE /\ At(s, "rename") /\ s \in staged
             /\ dest' = s /\ staged' = staged \ {s}
             /\ UNCHANGED <<tree, marker, cacheVars, overlapped>>
    <3>1. tree[s] = Complete /\ marker[s] = Complete /\ staged' = {}
      BY <2>0, <2>2 DEF Prepared, AfterSweep
    <3>2. \A q \in Setups : partial'[q] = "absent"
      BY <1>2, <2>0, <2>2 DEF Prepared, AfterSweep, Owned, cacheVars
    <3>3. s # NoTree /\ Complete \notin {NoMarker, OtherMarker}
      BY InstallerAssumption, Contents DEF Content
    <3> QED
      BY <2>2, <3>1, <3>2, <3>3 DEF Accepted, Marked
  <2> QED
    BY <1>2, <2>1, <2>2, WhoReports
<1>3. IInv /\ [Next]_vars =>
        [\A s \in Setups :
           report[s] = "none" /\ report'[s] \in Success /\ ~overlapped =>
             /\ Accepted' /\ tree'[dest'] = Complete
             /\ staged' = {} /\ \A q \in Setups : partial'[q] = "absent"]_vars
  BY <1>2
<1>4. Spec => []IInv
  BY <1>1, OwnedAndClean, OneAtATimeStep, FaithfulStep, PreparedStep, PTL DEF Spec
<1> QED
  BY <1>3, <1>4, PTL DEF Spec, SuccessIsInstalled
=============================================================================
