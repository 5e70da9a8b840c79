----------------------------- MODULE Installer -----------------------------
(***************************************************************************)
(* `samdebug setup`: several setup processes, one after the other or at    *)
(* the same time (nothing locks the directory), over one user-local tree:  *)
(* the installed tool, the staging directories beside it, the cached       *)
(* archive, partial downloads and expanded tars.  A process may be         *)
(* interrupted, fail or be killed between any two steps.                   *)
(*                                                                         *)
(* One artifact of the manifest is modelled; the artifacts of a setup are  *)
(* installed one by one and share no path but the swept directories.       *)
(* Directories are named by the process that created them, so that one     *)
(* that is renamed into place while another process empties it stays the   *)
(* same directory.                                                         *)
(***************************************************************************)
CONSTANTS
  Setups,      \* the setup processes; each runs once
  Files,       \* the files of the bundle
  Required,    \* its executables and licenses, which are checked by name
  Old, NoTree,            \* the tree of an earlier setup; no tree
  NoMarker, OtherMarker   \* no install.json; one of another version or archive

ASSUME InstallerAssumption ==
  /\ Required \subseteq Files
  /\ Old \notin Setups /\ NoTree \notin Setups \cup {Old}
  /\ NoMarker # OtherMarker
  /\ {NoMarker, OtherMarker} \cap [Files -> {"absent", "good", "bad"}] = {}

VARIABLES
  dest,        \* the tree at tools/<name>/<version>
  staged,      \* the processes whose staging directory exists
  tree,        \* what each file of each tree holds
  marker,      \* the inventory in each tree's install.json
  archive,     \* the cached archive
  partial,     \* each process's partial download
  expanded,    \* each process's expanded tar
  pc,          \* where each process is
  offline,     \* whether it runs with --offline
  removing,    \* the tree it is emptying
  todo,        \* the files it has still to extract
  report,      \* what it ended with
  overlapped   \* history: two processes have run at the same time

treeVars == <<dest, staged, tree, marker>>
cacheVars == <<archive, partial, expanded>>
procVars == <<pc, offline, removing, todo, report, overlapped>>
vars == <<treeVars, cacheVars, procVars>>

Content == {"absent", "good", "bad"}  \* good: as in the verified archive
Trees == Setups \cup {Old}
Nothing == [f \in Files |-> "absent"]
Complete == [f \in Files |-> "good"]

Success == {"installed", "reused"}
Live(s) == pc[s] \notin {"idle", "ended", "crashed"}
IsEmpty(t) == tree[t] = Nothing /\ marker[t] = NoMarker
-----------------------------------------------------------------------------
\* An earlier setup left nothing, this version, or another one; its files may
\* have been modified since, and so may the cached archive.
Init ==
  /\ dest \in {Old, NoTree} /\ staged = {}
  /\ \E files \in [Files -> {"good", "bad"}], m \in {Complete, OtherMarker} :
       /\ tree = [t \in Trees |-> IF t = dest THEN files ELSE Nothing]
       /\ marker = [t \in Trees |-> IF t = dest THEN m ELSE NoMarker]
  /\ archive \in Content
  /\ partial = [s \in Setups |-> "absent"] /\ expanded = [s \in Setups |-> "absent"]
  /\ pc = [s \in Setups |-> "idle"] /\ offline \in [Setups -> BOOLEAN]
  /\ removing = [s \in Setups |-> NoTree] /\ todo = [s \in Setups |-> {}]
  /\ report = [s \in Setups |-> "none"] /\ overlapped = FALSE

At(s, place) == pc[s] = place
Goto(s, place) == pc' = [pc EXCEPT ![s] = place]
\* Faulty variant first: the error is dropped on the way.
EndsMute(s, code) == pc' = [pc EXCEPT ![s] = "ended"] /\ UNCHANGED report
Ends(s, code) ==
  pc' = [pc EXCEPT ![s] = "ended"] /\ report' = [report EXCEPT ![s] = code]

\* Faulty variant first: a download that failed leaves its partial file.
PartialKept(s) == partial
PartialRemoved(s) == [partial EXCEPT ![s] = "absent"]

\* The error path of download_verified, extract_tar_xz and install_one: what
\* the process has created is removed.
Fail(s, code) ==
  /\ Ends(s, code)
  /\ staged' = staged \ {s}
  /\ tree' = IF s \in staged THEN [tree EXCEPT ![s] = Nothing] ELSE tree
  /\ marker' = IF s \in staged THEN [marker EXCEPT ![s] = NoMarker] ELSE marker
  /\ partial' = PartialRemoved(s)
  /\ expanded' = [expanded EXCEPT ![s] = "absent"]
  /\ removing' = [removing EXCEPT ![s] = NoTree] /\ todo' = [todo EXCEPT ![s] = {}]
  /\ UNCHANGED <<dest, archive, offline, overlapped>>
-----------------------------------------------------------------------------
Start(s) ==
  /\ At(s, "idle")
  /\ Goto(s, "sweep")
  /\ overlapped' = (overlapped \/ \E q \in Setups : Live(q))
  /\ UNCHANGED <<treeVars, cacheVars, offline, removing, todo, report>>

\* remove_dir_all opens a directory, unlinks its entries one by one, then
\* removes it by its path.
Unlink(s) ==
  /\ pc[s] \in {"sweeping", "removing"}
  /\ LET t == removing[s] IN
       \/ /\ \E f \in Files : /\ tree[t][f] # "absent"
                              /\ tree' = [tree EXCEPT ![t][f] = "absent"]
          /\ UNCHANGED marker
       \/ /\ marker[t] # NoMarker /\ marker' = [marker EXCEPT ![t] = NoMarker]
          /\ UNCHANGED tree
  /\ UNCHANGED <<dest, staged, cacheVars, procVars>>

\* remove_stale_staging
Sweep(s, t) ==
  /\ At(s, "sweep") /\ t \in staged
  /\ removing' = [removing EXCEPT ![s] = t] /\ Goto(s, "sweeping")
  /\ UNCHANGED <<treeVars, cacheVars, offline, todo, report, overlapped>>

\* Faulty variant first: the emptied directory stays.
SweptNot(s) ==
  /\ At(s, "sweeping") /\ IsEmpty(removing[s])
  /\ Goto(s, "sweep") /\ removing' = [removing EXCEPT ![s] = NoTree]
  /\ UNCHANGED <<treeVars, cacheVars, offline, todo, report, overlapped>>
Swept(s) ==
  /\ At(s, "sweeping") /\ IsEmpty(removing[s])
  /\ staged' = staged \ {removing[s]}
  /\ Goto(s, "sweep") /\ removing' = [removing EXCEPT ![s] = NoTree]
  /\ UNCHANGED <<dest, tree, marker, cacheVars, offline, todo, report, overlapped>>

\* A staging directory made after the scan is not seen by it.
StagingSwept(s) ==
  /\ At(s, "sweep") /\ \A t \in staged : Live(t)
  /\ Goto(s, "downloads")
  /\ UNCHANGED <<treeVars, cacheVars, offline, removing, todo, report, overlapped>>

\* remove_stale_downloads.  An expanded tar lies beside the staging directory
\* and is a file: neither sweep looks at it.
RemovePartial(s, q) ==
  /\ At(s, "downloads") /\ partial[q] # "absent"
  /\ partial' = [partial EXCEPT ![q] = "absent"]
  /\ UNCHANGED <<treeVars, archive, expanded, procVars>>

DownloadsSwept(s) ==
  /\ At(s, "downloads") /\ \A q \in Setups : partial[q] # "absent" => Live(q)
  /\ Goto(s, "check")
  /\ UNCHANGED <<treeVars, cacheVars, offline, removing, todo, report, overlapped>>
-----------------------------------------------------------------------------
\* install_is_valid.  The tree is read in one step.
Marked == dest # NoTree /\ marker[dest] \notin {NoMarker, OtherMarker}
\* Faulty variant first: the marker is believed.
FilesBelieved == TRUE
FilesMatch == marker[dest] = tree[dest]

CheckInstall(s) ==
  /\ At(s, "check")
  /\ IF Marked /\ \E f \in Required : tree[dest][f] = "absent"
     THEN Fail(s, "EXECUTABLE_MISSING")
     ELSE /\ IF Marked /\ FilesMatch THEN Ends(s, "reused")
             ELSE Goto(s, "remove") /\ UNCHANGED report
          /\ UNCHANGED <<treeVars, cacheVars, offline, removing, todo, overlapped>>

Remove(s) ==
  /\ At(s, "remove")
  /\ removing' = [removing EXCEPT ![s] = dest]
  /\ Goto(s, IF dest = NoTree THEN "cache" ELSE "removing")
  /\ UNCHANGED <<treeVars, cacheVars, offline, todo, report, overlapped>>

Removed(s) ==
  /\ At(s, "removing") /\ IsEmpty(removing[s])
  /\ IF dest \in {removing[s], NoTree}
     THEN /\ dest' = NoTree
          /\ Goto(s, "cache") /\ removing' = [removing EXCEPT ![s] = NoTree]
          /\ UNCHANGED <<staged, tree, marker, cacheVars, offline, todo, report, overlapped>>
     ELSE Fail(s, "PARTIAL_INSTALL_CLEANUP_FAILED")

CacheValid == archive = "good"

CheckCache(s) ==
  /\ At(s, "cache")
  /\ Goto(s, IF CacheValid THEN "stage" ELSE "evict")
  /\ UNCHANGED <<treeVars, cacheVars, offline, removing, todo, report, overlapped>>

\* Whatever is at the path now is removed.
Evict(s) ==
  /\ At(s, "evict")
  /\ archive' = "absent"
  /\ IF offline[s] THEN Ends(s, "OFFLINE_CACHE_MISS") ELSE Goto(s, "fetch") /\ UNCHANGED report
  /\ UNCHANGED <<treeVars, partial, expanded, offline, removing, todo, overlapped>>

\* The downloader writes the partial file: what it should, something else, or
\* (until it returns) less than that.
Fetch(s) ==
  /\ At(s, "fetch")
  /\ \E c \in {"good", "bad"} : partial' = [partial EXCEPT ![s] = c]
  /\ Goto(s, "promote")
  /\ UNCHANGED <<treeVars, archive, expanded, offline, removing, todo, report, overlapped>>

\* Faulty variant first: the download is not compared with the manifest.
Arrived(content) == content # "absent"
Matches(content) == content = "good"

Promote(s) ==
  /\ At(s, "promote")
  /\ IF Matches(partial[s])
     THEN /\ archive' = partial[s] /\ partial' = [partial EXCEPT ![s] = "absent"]
          /\ Goto(s, "stage")
          /\ UNCHANGED <<treeVars, expanded, offline, removing, todo, report, overlapped>>
     ELSE Fail(s, IF partial[s] = "absent" THEN "HASH_OPEN_FAILED" ELSE "TOOL_CHECKSUM_MISMATCH")
-----------------------------------------------------------------------------
CreateStaging(s) ==
  /\ At(s, "stage")
  /\ staged' = staged \cup {s}
  /\ Goto(s, "unpack")
  /\ UNCHANGED <<dest, tree, marker, cacheVars, offline, removing, todo, report, overlapped>>

\* decompress_xz
Decompress(s) ==
  /\ At(s, "unpack")
  /\ IF archive = "absent"
     THEN Fail(s, "ARCHIVE_OPEN_FAILED")
     ELSE /\ expanded' = [expanded EXCEPT ![s] = archive]
          /\ todo' = [todo EXCEPT ![s] = Files] /\ Goto(s, "extract")
          /\ UNCHANGED <<treeVars, archive, partial, offline, removing, report, overlapped>>

\* Every file's parent is created, with the staging directory itself if it is
\* no longer there.
Extract(s) ==
  /\ At(s, "extract")
  /\ \E f \in todo[s] :
       /\ tree' = [tree EXCEPT ![s][f] = expanded[s]]
       /\ todo' = [todo EXCEPT ![s] = @ \ {f}]
  /\ staged' = staged \cup {s}
  /\ UNCHANGED <<dest, marker, cacheVars, pc, offline, removing, report, overlapped>>

\* Faulty variant first: the loop over the entries ends early.
ExtractedSome(s) == todo[s] # Files
ExtractedAll(s) == todo[s] = {}

Extracted(s) ==
  /\ At(s, "extract") /\ ExtractedAll(s)
  /\ expanded' = [expanded EXCEPT ![s] = "absent"]
  /\ todo' = [todo EXCEPT ![s] = {}]
  /\ Goto(s, "validate")
  /\ UNCHANGED <<treeVars, archive, partial, offline, removing, report, overlapped>>

\* validate_staged and validate_executable_versions; a file that is not the
\* archive's may still report the version asked for.
Validate(s) ==
  /\ At(s, "validate")
  /\ \/ /\ \A f \in Required : tree[s][f] # "absent"
        /\ Goto(s, "mark")
        /\ UNCHANGED <<treeVars, cacheVars, offline, removing, todo, report, overlapped>>
     \/ \E f \in Required : tree[s][f] = "absent" /\ Fail(s, "EXECUTABLE_MISSING")
     \/ \E f \in Required : tree[s][f] = "bad" /\ Fail(s, "EXECUTABLE_VERSION_MISMATCH")

\* inventory_tree and write_new: the marker lists what is there.
Mark(s) ==
  /\ At(s, "mark")
  /\ IF s \in staged
     THEN /\ marker' = [marker EXCEPT ![s] = tree[s]] /\ Goto(s, "rename")
          /\ UNCHANGED <<dest, staged, tree, cacheVars, offline, removing, todo, report, overlapped>>
     ELSE Fail(s, "INSTALL_INTEGRITY_SCAN_FAILED")

\* rename(2) replaces an empty directory and refuses any other.
RenameIntoPlace(s) ==
  /\ At(s, "rename")
  /\ IF s \in staged /\ (dest = NoTree \/ IsEmpty(dest))
     THEN /\ dest' = s /\ staged' = staged \ {s} /\ Ends(s, "installed")
          /\ UNCHANGED <<tree, marker, cacheVars, offline, removing, todo, overlapped>>
     ELSE Fail(s, "ATOMIC_INSTALL_FAILED")
-----------------------------------------------------------------------------
\* check_cancelled is asked in every loop but those of the sweeps and removals.
Interrupted(s) ==
  /\ pc[s] \in {"check", "cache", "fetch", "promote", "unpack", "extract", "validate", "mark"}
  /\ Fail(s, "INTERRUPTED")

\* A call to the file system or the downloader fails, also because another
\* process renamed or removed what it is about.
IoFails(s) ==
  /\ Live(s) /\ Fail(s, "IO_FAILED")

\* The process is killed, or the machine stops.
Crash(s) ==
  /\ Live(s) /\ Goto(s, "crashed")
  /\ removing' = [removing EXCEPT ![s] = NoTree] /\ todo' = [todo EXCEPT ![s] = {}]
  /\ UNCHANGED <<treeVars, cacheVars, offline, report, overlapped>>

Sweeping(s) ==
  \/ Unlink(s) \/ Swept(s) \/ StagingSwept(s) \/ DownloadsSwept(s)
  \/ \E q \in Setups : Sweep(s, q) \/ RemovePartial(s, q)
Installing(s) ==
  \/ CheckInstall(s) \/ Remove(s) \/ Removed(s)
  \/ CheckCache(s) \/ Evict(s) \/ Fetch(s) \/ Promote(s)
  \/ CreateStaging(s) \/ Decompress(s) \/ Extract(s) \/ Extracted(s)
  \/ Validate(s) \/ Mark(s) \/ RenameIntoPlace(s)
Run(s) == Sweeping(s) \/ Installing(s)
AllOver == (\A s \in Setups : pc[s] \in {"ended", "crashed"}) /\ UNCHANGED vars

Next ==
  \/ \E s \in Setups : Start(s) \/ Run(s) \/ Interrupted(s) \/ IoFails(s) \/ Crash(s)
  \/ AllOver

\* Each setup is a process: it goes on until it ends or is killed.
Spec == Init /\ [][Next]_vars
FairSpec == Spec /\ \A s \in Setups : WF_vars(Run(s))
-----------------------------------------------------------------------------
Codes == Success \cup {"none", "INTERRUPTED", "IO_FAILED", "EXECUTABLE_MISSING",
  "EXECUTABLE_VERSION_MISMATCH", "PARTIAL_INSTALL_CLEANUP_FAILED", "OFFLINE_CACHE_MISS",
  "HASH_OPEN_FAILED", "TOOL_CHECKSUM_MISMATCH", "ARCHIVE_OPEN_FAILED",
  "INSTALL_INTEGRITY_SCAN_FAILED", "ATOMIC_INSTALL_FAILED"}
Places == {"idle", "sweep", "sweeping", "downloads", "check", "remove", "removing", "cache",
  "evict", "fetch", "promote", "stage", "unpack", "extract", "validate", "mark", "rename",
  "ended", "crashed"}

TreesOK ==
  /\ dest \in Trees \cup {NoTree} /\ staged \subseteq Setups
  /\ tree \in [Trees -> [Files -> Content]]
  /\ marker \in [Trees -> [Files -> Content] \cup {NoMarker, OtherMarker}]
CacheOK ==
  /\ archive \in Content
  /\ partial \in [Setups -> Content] /\ expanded \in [Setups -> Content]
ProcessesOK ==
  /\ pc \in [Setups -> Places] /\ offline \in [Setups -> BOOLEAN]
  /\ removing \in [Setups -> Trees \cup {NoTree}]
  /\ todo \in [Setups -> SUBSET Files]
  /\ report \in [Setups -> Codes]
  /\ \A s \in Setups : pc[s] = "ended" => report[s] # "none"

\* Every path of the installer is in one of the states the code can leave it
\* in, and every setup ends with a report.
TypeOK == TreesOK /\ CacheOK /\ ProcessesOK /\ overlapped \in BOOLEAN

Accepted == Marked /\ marker[dest] = tree[dest]

\* What reuse and doctor accept (the files are those of the marker) is the
\* whole verified bundle, whatever was interrupted or killed on the way, as
\* long as no two setups ran at the same time.
AcceptedIsComplete == Accepted /\ ~overlapped => tree[dest] = Complete

\* Even then, no setup ever leaves in place a file that is not the verified
\* archive's.
NothingUnverified ==
  \A s \in Setups, f \in Files : dest = s => tree[s][f] # "bad"

\* setup.md: interrupted downloads, decompression, extraction, hashing,
\* validation and version checks remove partial state immediately; so does
\* every other way a setup can end, but being killed.
EndLeavesNothing ==
  \A s \in Setups : pc[s] = "ended" =>
    s \notin staged /\ partial[s] = "absent" /\ expanded[s] = "absent"

\* A setup that reports success has just seen the whole bundle in place, and
\* has removed what killed setups left behind, except their expanded tars.
SuccessIsInstalled ==
  [][\A s \in Setups :
       report[s] = "none" /\ report'[s] \in Success /\ ~overlapped =>
         /\ Accepted' /\ tree'[dest'] = Complete
         /\ staged' = {} /\ \A q \in Setups : partial'[q] = "absent"]_vars

\* Every setup that is not killed ends: no sweep or removal goes on for ever,
\* although another process may fill the directory.
EverySetupEnds == \A s \in Setups : Live(s) ~> ~Live(s)

\* installer.rs, partial_install_and_stale_staging_recover: a setup recovers
\* partial state.  What a killed setup leaves never makes a later one fail.
PartialStateRecovers ==
  \A s \in Setups : report[s] = "EXECUTABLE_MISSING" => overlapped
=============================================================================
