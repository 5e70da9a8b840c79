# SAMDebug verification

TLA+ models of SAMDebug, the compiler, flasher and debugger front end for SAM
microcontrollers in this repository: what its parts promise, checked by TLC on
small instances and, where it matters most, proved by TLAPS for every value of
the constants. All paths below are relative to `src/`.

    tlc -config SessionEngine.cfg MCSessionEngine      # one run
    tlapm SessionEngineProofs.tla                      # one proof module

`PROJECT.json` lists the runs, the lines each definition stands for, one mutant
of the code for each property, the hazards, the findings and the theorems.

## 1. Inventory

| part | code | state | operations | hard because |
|---|---|---|---|---|
| Session engine | `debug/src/session.rs` | lifecycle state, generation, probe, event queue | connect, continue, halt, wait, step, reset, query, load, poll, stop, fail, cancel | each operation is several commands; the core moves between them |
| GDB/MI transport | `debug/src/gdb_process.rs` | child, token counter, record channel, fatal error | command, wait_for_stop, poll, shutdown | records in any order, deadlines, cancellation, a channel that closes |
| Owned session | `debug/src/owned_session.rs` | engine, two children, supervisor thread, cancellation token and controller | launch, execute, take_events, stop, cancel, drop | five kinds of threads notice the same end |
| OpenOCD server | `debug/src/debug_server.rs` | child, log, readers, ports | launch, wait_ready, check_alive, stop | readiness races exit, log and token; ports are retried |
| MI parser | `debug/src/mi.rs`, the reader in `gdb_process.rs` | partial line, limits | push, finish, parse | byte streams cut anywhere; limits at every level; a recursive grammar |
| Programmer | `debug/src/programming.rs` | none of its own; the flash and the core of the target | flash, erase, reset, halt | a run may be given up, or tried again, while the target is written; OpenOCD's words decide what is reported |
| Agent protocol | `cli/src/agent.rs` | session slot, request ids, bounded line channel | one handler per request, start, stop, watcher | a reader thread, a watcher thread and the main loop |
| Tool installer | `tools/src/installer.rs` | installed trees, staging, cache, partial files | setup (online, offline), reuse | kills and second setups between any two file operations |
| Process runner | `tools/src/lib.rs` | child, its group, two readers | run with timeout and cancellation | exit, timeout and token race; a descendant may hold the pipes |
| Build pipeline | `project/src/pipeline.rs` | objects, dependencies, stamps, staging, artifacts | build (compile or reuse, link, promote), clean | nothing locks the directory; files are promoted one by one; sources change meanwhile |
| Importer | `project/src/importer.rs`, `model.rs` | `samdebug.toml`, `import-plan.json` | XML project to build plan, init | two files appear one after the other |
| Terminal UI | `tui/src/lib.rs`, `cli/src/main.rs` | panes, list of breakpoints, terminal modes, watcher thread | one action per key, event loop, setup and restore | what is drawn is a copy of a session that moves by itself; every way out must give the terminal back |
| Command line, doctor | `cli/src/main.rs`, `tools/src/doctor.rs` | none | arguments, read-only probes | |
| Core types | `core/src/*.rs` | cancellation token | typed errors, output envelope, traits | |
| Release scripts | `scripts/` | none | build and SBOM | |

How they interact. The agent and the UI each own one `OwnedDebugSession`. It
starts an `OpenOcdDebugServer` and a `GdbMiProcess`, hands the latter to a
`SessionEngine`, and starts a supervisor that polls both children and one
`CancellationToken`. Readers of the children's pipes, a
`DebugCancellationController` on any thread, and Ctrl-C cancel that same token.
GDB talks to OpenOCD, OpenOCD to the probe. Everything the owner does is a call
on its own thread; the others only kill children, close channels and set flags.
`samdebug setup` is a process of its own that installs the tools all of these
use; build and flash run finite commands through the process runner.

What makes each correct:

- *Session engine*: never says the core is halted when it runs; never waits for
  a stop that has gone by; events and state agree; each session ends once.
- *Owned session*: nothing leaks on any path; a death or a cancellation leads to
  both children being reaped without anybody's help; every call returns; the
  reported cause is the real one.
- *Installer*: what reuse and doctor accept is the verified bundle, after any
  kill; failures clean up; every setup ends.
- *Agent*: one response per request in order; a request sent again is not carried
  out again; each session's events once and to its end; end of input or Ctrl-C ends it.
- *Build pipeline*: an object is reused only if compiling again would make the same;
  a success publishes what a build from scratch would; nothing is published that
  was not inspected; staging goes with its build.
- *Programmer*: success is true of the target; an error that blames the request
  or the ports left the flash alone; no write is repeated by a retry; nothing touches
  the target once the call has returned.
- *Process runner*: a command ends with its deadline, and its group with it.
- *MI parser*: what the engine reads is what GDB wrote, however the bytes are
  cut and whatever follows, and an input beyond a limit is refused.
- *Terminal UI*: the state, panes and breakpoints drawn are those of the session;
  the terminal is given back on every way out; Ctrl-C ends it.

## 2. Plan

| order | module | state |
|---|---|---|
| 1 | `SessionEngine` with `DebugLifecycle`, the abstract lifecycle it implements | done, proved |
| 2 | `OwnedSession`: threads and children around an engine; `SessionContract`, what its owner relies on, and `OwnedCalls`, which shows that it keeps it | done, proved |
| 3 | `Installer`: setups over a file system | done, safety proved |
| 4 | `Agent`: line reader, bounded channel, main loop, session slot, watchers | done, safety proved |
| 5 | `BuildPipeline`: overlapping builds, clean and init over one directory, edits, kills | done, safety proved |
| 6 | `Programmer` over the process runner, OpenOCD and a target, and `ProgramContract`, the abstract operation it implements | done, proved |
| 7 | `MiStream`: framing and limits, over `MiParser`, the parser of a record; `MiGrammar`, what GDB writes | done, proved |
| 8 | `Tui`: loop, keys, panes, terminal guard and watcher | done, proved |
| 9 | proofs of `SuccessIsRebuild`, `ShowsTheSession`, `OneAnswerEach` and `SuccessIsInstalled` | done |
| 10 | `DebugServer`: port selection and bind retry before readiness | later |
| 11 | `Agent` and `Tui` over an instance of `SessionContract` in place of their own account of a session | later |

Compositions: `Programmer` contains the process runner and its environment;
`BuildPipeline` the processes that share a directory. `OwnedSession` assumes of
the engine what `SessionEngine` shows of it (a call ends, and how); `Agent` and
`Tui` assume of the session what `OwnedSession` shows: that a call into a session
whose token is cancelled returns (`EveryCallReturns`), and what it then returns and
that the end is published once (`SessionContract`). They state these assumptions
in their own actions; the last step of the plan would have them instantiate the
contract. `MiStream` is about
one read of the pipe at a time and is not composed with the record channel, which
`SessionEngine` reduces to whether a stop is unread.

## 3. The models

### SessionEngine (and DebugLifecycle)

`DebugLifecycle` is what the engine promises to a watcher of its `State` events:
which state may follow which, that a new session has a new generation, and that
every way out goes through `disconnecting` with the reason it was left for. Its
steps are the transitions `session.rs` publishes, and agree with the table in
`docs/architecture.md:46-66`. `SessionEngine!LifecycleSpec` instantiates it over
the engine's own `state`, `generation` and `ending`.

`SessionEngine` is `session.rs` over the command loop of `gdb_process.rs`,
driven as `OwnedDebugSession::execute` drives it.

| model | code |
|---|---|
| `state`, `generation`, `probe` | the fields of `SessionEngine` |
| `op`, `at` | the Rust call in progress and the MI command its next line issues |
| `reply` | the position in `GdbMiProcess::command`: before the write, waiting, result read |
| `pending` | an unread `*stopped` in the record channel |
| `target` | the core and GDB's view: running; stopped but not reported; halted |
| `link`, `open` | the channel's terminal error; `shutdown` was called |
| `owed` | `execute` has an error for which it must clean up before it returns |
| `shown`, `ends`, `ending` | what a reader of the event queue believes |
| `doubt` | history: a reset or an interrupt failed and no stop was announced since |

An operation is a sequence of commands (`First`, then `Goto`). `Send` is the
part of `command` up to the write, which drains the channel; `Answered`,
`ResultRead`, `StopRead`, `Refused`, `TimedOut`, `Interrupted` and `Broken` are
the ways the loop is left. Between any two of these the core may stop, GDB may
report it, the pipe may break and the token may be cancelled.

Abstractions: records other than `*stopped` are left out; token numbers are left
out (the reader drops other tokens); the results of queries are not represented;
errors that are handled alike share a name.

### OwnedSession

`owned_session.rs` with the readiness, diagnosis and stop of `debug_server.rs`.
`caller` is the owner thread's position, `call` the public call it is in;
`supervisor` that of the supervisor thread; `gdb` and `openocd` are the
children, where `exited` is a zombie nobody has waited for and `reaped` one
somebody has; `pipe` is the record channel as GDB's reader leaves it, `log`
whether OpenOCD's reader has stored a fatal line. The engine is represented by
its published state and the ways an operation can end: an operation is one
step, since `SessionEngine` has its steps.

Abstractions: a child's mutex is held for one step, so a kill (SIGTERM, one
second, SIGKILL, wait) is one step, and signals and waits do not fail: `stop` is
not seen to return an error of the operating system; validation of arguments and
files before the launch starts nothing and is left out; the server's ports are
left out.

`SessionContract` is the session as its owner sees it, call by call: `life`
(starting, live, over) and `reason` are what the events tell, `lost` whether it
can still go on, `call` and `answer` the call in progress and what the last one
returned, `owns` whether a child or a supervisor is left. `Lose` and `Release` may
happen between any two steps of the owner; the rest are the owner's calls. It
says that no operation succeeds on a session that was lost before the call
(`Operated`); that `take_events` never returns from such a session without its
end (`EventsTaken`); that the end is published once, inside a call and for a
reason that fits the call (`Publish`); and that no call returns from a session that
is over while something of it is left (`Return`).

`OwnedCalls` maps `OwnedSession` to it. Only `late`, whether the session was lost
before the call in progress, cannot be read off `OwnedSession`'s state: it is a
history variable, set where a call begins. `Lost` is a cancelled token, a broken
channel or a published end; a child that has died without anybody noticing has
not lost the session yet, and an operation may still succeed on it.

### Installer

`installer.rs`, `Installer::install` for one artifact, as processes that each
run once. `dest` names the tree at the destination, `staged` the staging
directories that exist, `tree` and `marker` what each directory holds, `archive`
the cache, `partial` and `expanded` the temporary files, `pc` the position of
each process, and `removing` the directory it empties. A directory carries the name of its
creator, so one that is renamed into place while another process empties
it is still the same directory, as it is on the disk. `remove_dir_all` is one
unlink per step. `Fail` is every error path, with the cleanup of
`download_verified`, `extract_tar_xz` and `install_one`; `IoFails` and
`Interrupted` enter it from wherever the code can; `Crash` enters nothing.

Abstractions: the artifacts of a manifest are installed one after another and share
no file; the manifest is valid and for this platform; a file is absent, the
archive's, or something else; reading a tree to compare it with a marker is one
step; an archive that has the right hash extracts to the right files. A marker
that does not parse is not represented: it is written in staging and synced before
the rename, so no step of a setup leaves one. The expanded tar of a killed setup is
never removed (`installer.rs:447` names it `.staging-….expanded-….tar`, a file,
and both sweeps skip it): `EndLeavesNothing` is about setups that ended, and
`SuccessIsInstalled` leaves expanded tars out.

### Agent

`agent.rs` from the reader thread to the lines it prints. `held` is the line the
reader has read and may not be able to send, `channel` the bounded channel,
`main` the position of the loop (`top`, `receive`, `handle`, then the operation:
`launching` and `operating` are calls into the session), `slot` whether
`session` is `Some`. The session appears by `engine`, by `queue`, the events that
`take_events` returns, and by `doomed`, that its token is cancelled or its channel closed.
`asked` and `answered` record the ids read and answered, `out` the lines printed.
`watch` is the one thread that forwards Ctrl-C: the startup's
`TokenForwarder`, then the watcher of the `ActiveSession`, and between the two none.

Abstractions: target operations are alike, and so are the refusals that do not
depend on the session (`REJECTED`); of a session's events three stand for the
rest: the first one, the suffix a launch leaves in the queue, and the end.
A client that writes without reading, and so blocks the loop in a
print, is left out.

### BuildPipeline

`pipeline.rs` (build, clean, `is_current`, promotion) and `initialize_project` of
`importer.rs`. A build is a process named by its pid, as its staging directory
is; `pc`, `unit` and `cmd` are its place, its index into the sources or
artifacts and the command it took from the project file and the compiler; `staged`
and `image` what its staging directory holds. `object`, `dep` and `stamp` are the three
files in `obj/` for each source, promoted in this order; `out` says which image each
published artifact was made of. `version`, `present`, `includes` and `command`
are the project, which the user edits at any time.

| action | code |
|---|---|
| `Start`, `Ended`, `Fail`, `Interrupted`, `Kill`, `Finish` | `build` and the guard of its staging directory; `Kill` is the one way out that leaves it |
| `Reuse`, `Compile`, `CompilerWrites` | `is_current`, then the compiler, which reads its inputs before it writes |
| `PromoteObject`, `PromoteDependency`, `WriteStamp` | `pipeline.rs:156-158` |
| `Link`, `PublishElf`, `PublishMap`, `Derive`, `PublishDerived` | link, inspection of size and target, and the artifacts made of the published ELF |
| `Clean`, `InitLinks…`, `InitFails`, `InitKilled` | `clean` and `initialize_project` |
| `CheckFails` | every check that ends a build |

Abstractions: a modification time is kept as what `is_current` asks of it, which
files are newer than an object (two times are never equal); a file's text is a
version number, a command with its compiler one value; the map stands for the size
report as well; the listing, which is written beside its place and renamed, is
taken as staged like the others. Checks of symbolic links and permissions are
left out.

### Programmer and ProgramContract

`ProgramContract` is what `docs/programming.md` promises of one operation: from
`pending` the firmware and the core change as the operation may change them, it
ends once, as *done* (then the target is as asked), *untouched* or *unknown*, and
then nothing moves.

`Programmer` is `OpenOcdProgrammer::execute` over `run_finite` of
`tools/src/lib.rs`. `granted` says which of the four checks pass; `pc` is the
position in `execute` and `run_finite` (`attempt`, `waiting`, `killing`, `joining`), `attempt` the
port retry; `server`, `step` and `busy` the OpenOCD process, its place in the
script of `build_args` and whether the flash is half-written; `exit` and `text`
its status and what its output mentions; `straggler` a process that holds
its pipes; `flash` and `core` the target; `elf` the artifact, which a build may
replace while it is written and before it is compared.

Abstractions: the output is the set of the tokens `classify_output` looks for
(their wording is external); port numbers, quoting and messages are left out. OpenOCD
and the target are external: a command does its work or fails, with one of the messages the
classification knows, or hangs; a work command may leave the flash a mixture
although it reports none.

### MiStream, MiParser and MiGrammar

`MiStream` is `MiStreamParser` of `mi.rs`, fed by `read_stdout` of
`gdb_process.rs`. `stream` is all that GDB will write and `pos` how much of it was
read, a chunk of any size at a time (`Read`); `pending` is the parser's buffer. While
`pushing`, `push` takes one line after the other off the buffer (`TakeLine`), and what it
finds is in `records`; when no line is left they are `sent` (`Send`), and an error
(`Fail`, `TooLarge`) drops them, as the return of `push` does. `EndOfStream` is
`finish`; `error` says how the thread ended. A record carries, as history, the place in
the stream where its line ends.

`MiParser` is `parse_record` with its recursive descent: `ValueAt`, `ResultAt`,
`ElementAt` and `SequenceAt` are the functions of `ValueParser` at a position of the line,
given what they return further on, and `Parse` is the function they call one another
through. `MiGrammar` says what GDB may write: texts with the trees they stand for, built
from the grammar's rules, by their length, and not from the parser. `Written` is a line
as it stands in the stream, without the one return that may precede its newline.

Abstractions: a token stands for its bytes: a name, a C string with its escapes,
a number that fits 64 bits or does not, bytes that are no UTF-8. A run of identifier bytes
is one token, `name` within a record, so that two of them never stand side by side; of the classes two
stand for the rest, one of them with GDB's download progress, which has no variable.

### Tui

`run`, `run_loop` and `App` of `tui/src/lib.rs`. `pc` is the place in the loop (`first…`
before it, `loop`, `input`, `call`, `keyRefresh`, `take`, `events`, `stopRefresh`, `check`, then
`stop`, `restore`, `join`); `raw`, `screen`, `mouse` and `guard` the terminal and
`TerminalCleanup`; `watcher`, `interrupted` and `controller` the thread that
passes Ctrl-C on, the process's token and the session's. A stop of the core is a
number, so that `stack`, `locals` and `tried` say of which stop the panes were
filled or asked for. The session appears by what its calls may do: `Becomes`
changes its state and queues the events `SessionEngine` publishes with that change.

Abstractions: drawing, pane focus, scrolling, logs and status texts are left
out; the source pane goes with `stack`, the registers with `locals`.

## 4. What the runs check

Passing runs (all actions and disjuncts fire):

- `session_engine` (`SessionEngine.cfg`), every fault at once.
  `HaltedTruth`: no operation inspects or writes a core the engine only believes
  halted, every error that could leave it running being fatal. `NoLostStop`: an
  engine that says running has not missed the stop. Both are claimed without
  `doubt`; the violation runs show why. `EventsTellState`, `EndsOnce`,
  `LifecycleSpec` (refinement), `EveryCallReturns`.
- `owned_session` (`OwnedSession.cfg`), every fault at once.
  `IdleOwnsNothing`: no path leaks a child or the supervisor. `KeepsSession`
  (refinement of `SessionContract`): what a call may return, one end, nothing left.
  `LossReaps`: after a cancellation or the death of a child both children are reaped
  although nobody calls again. `EveryCallReturns`: no cleanup waits for a thread that waits for it.
- `installer` (`Installer.cfg`): `AcceptedIsComplete` (without overlap),
  `NothingUnverified` (with overlap), `EndLeavesNothing`, `SuccessIsInstalled`,
  `EverySetupEnds`.
- `agent` (`Agent.cfg`). `OneAnswerEach`: the answers are those to the first
  requests, in order, and a clean end of the input finds all of them answered.
  `CarriedOutOnce`: a request sent again is not carried out again.
  `StoriesAreComplete`: the events of each session come once, in order, before
  those of the next, and to the end unless printing or a stop failed. `CtrlCEnds`,
  `EndOfInputEnds`: from wherever the loop is, the agent ends.

- `build` (`BuildPipeline.cfg`). `ReuseIsSound`: an object that is reused is the one a
  compilation would make, if its three files are of one undisturbed compilation.
  `SuccessIsRebuild`: a success over a whole cache, with nothing beside it,
  publishes in every artifact what a build from scratch would.
  `PublishedIsInspected`, `StagingIsOwned`, `InitIsAllOrNothing`.
- `programmer` (`Programmer.cfg`), every fault. `KeepsContract` (refinement of
  `ProgramContract`), `RetriesOnlyUntouched`: no attempt follows one that has
  touched the flash. `EveryOperationEnds`, but for a process that survives
  OpenOCD and keeps its pipes.
- `mi_stream` (`MiStream.cfg`). `SendsWholeLines`: whatever the cuts, what is sent is
  one record for each line that is not empty, in order, up to the first line that does not
  parse or is too long; of what was read none is missing, and nothing after the error is
  believed. `ReadsWhatGdbWrote`: each is the tree that GDB wrote, and a line stops
  the session only if GDB's grammar does not have it.
- `tui` (`Tui.cfg`). `ShowsTheSession`: when a key is read, the state drawn is the
  session's, the panes of a halted core have been asked for since its last stop
  and show no locals of an earlier one, and every listed breakpoint is set.
  `TerminalIsRestored`, `InterruptEnds`.

Every one of these runs also checks its module's `TypeOK` (`mi_stream` has no
state but the one its properties describe).

Runs that end in a violation, each a disagreement between code and document:

| run | what TLC shows | against |
|---|---|---|
| `stop_lost` | a refused interrupt or reset reads the `*stopped` record and drops it; the engine runs for ever over a halted core | `docs/architecture.md:56` |
| `start_refused` | a session that ended by itself stays in the slot; `session.start` is refused until a `session.stop` | `docs/architecture.md:74-76` |
| `setup_not_recovered` | a removal that stops half-way leaves a marker without its executable; every later setup refuses it with EXECUTABLE_MISSING and none removes it | the test at `installer.rs:1381` |
| `build_stale` | a build that ends between the promotion of the object and that of the stamp leaves a new object under the old command; with the old settings back, it is reused | `docs/build.md:40-42` |

Other disagreements met while modelling, which the passing properties allow for
and no run shows:

- a reset of a running core publishes halted before it asks for the frame and
  keeps it when the frame is refused (`session.rs:378`, `docs/debugging.md:56-57`);
- a stop read before a step's own result completes that step
  (`gdb_process.rs:243`, `docs/debugging.md:49-51`);
- a cancelled session ends as failed when the poll sees the killed GDB first
  (`owned_session.rs:408`), and a cancellation between the two launches publishes the
  end before OpenOCD is stopped (`owned_session.rs:140`; `docs/architecture.md:64-78`);
- of two overlapping setups the second sweeps the staging directory of the first, which
  may then install an incomplete tree whose marker agrees with it (`installer.rs:296`, `docs/setup.md:13-15`);
- the UI's command exits with 0 when its session failed or was interrupted from
  outside, if the loop's last check sees the end before the token
  (`tui/src/lib.rs:398`, `docs/contracts.md:34-36`);
- `d` takes a breakpoint off the UI's list although its removal is then refused,
  which is why `ShowsTheSession` says that listed breakpoints are set and not
  that set ones are listed.

### Bounds

- `SessionEngine`: `MaxGeneration = 2`, so that a session follows a session on
  the same engine object; nothing depends on a third. Two probes: the
  session's and another one that a load may wrongly be authorized for. The channel
  holds at most one stop, since a stop has to be read before the core can run
  again by an engine's command, and a second unread stop has no effect of its own.
- `OwnedSession`: one session of one owner, no numeric bound; the state space is
  finite. Each fault may occur once per child, and all of them in any order.
- `Installer`: two setups. The second one may follow the first one's kill or run
  beside it, and every hazard in the list is between a setup and one other. Two
  files: one that is checked by name and one only the inventory covers.
- `Agent`: three lines, enough for a start, an operation and a stop or a repeat; two ids,
  so that a line may repeat an earlier one or not; a channel for one line, which is full
  as soon as the loop is busy (the code's holds 64). Every fault, at most once each, the loss
  of a session once per session.
- `BuildPipeline`: two pids, so that builds overlap and one follows a killed one of
  its pid or of the other; three builds, one cancellation or kill and one edit; a source that
  may include a header, and two commands. With two edits TLC takes minutes: two edits and two builds, and two edits and
  three builds without kills, hold as well. `BuildPipelineReuse.cfg` has two edits and
  one pid, since a stale reuse takes new settings and the old ones again.
- `Programmer`: four attempts and three images; the code's number of attempts is
  the first, and a third image is one neither written nor compared with.
- `MiStream`: every record of up to 9 tokens, and those of 10 that have a token in front, with
  the limit at 9 (1 MiB in the code), so that lines fall on both sides of it; a list in a tuple and a tuple in a list
  fit; each record whole and with one token gone or replaced, followed by no line, a good
  one or a bad one, with either line ending or none.
- `Tui`: four stops and two breakpoints: the stop shown, one that a call makes, one that
  a poll finds before it and one that the events tell of.

### Fairness

- `SessionEngine`: weak fairness of the call in progress (its thread runs, and
  every wait in `gdb_process.rs` has a deadline), and of the cleanup that
  `execute` performs before it returns an error. Nothing obliges a caller to
  call, the core to stop or GDB to answer.
- `OwnedSession`: weak fairness of the call in progress, the supervisor's loop,
  the end-of-file of a reader, a reader's cancel and the second half of a
  controller's cancel: each is a running thread in a loop without a condition it could
  wait on for ever. No fairness of calls or faults.
- `Installer`: weak fairness of each setup's own steps: it is a process. This
  assumes that `curl` and the version commands end (`installer.rs:910-938` has
  no timeout, and reads their output after their exit); `Crash` and `Interrupted`
  are not fair.
- `Agent`: weak fairness of the loop, the reader's send and the forwarding thread;
  of a call into the session only that it returns once its token is cancelled or GDB
  is gone, which is `OwnedSession!EveryCallReturns`. No fairness of the
  client. `EndOfInputEnds` assumes in its own statement that calls return.
- `Programmer`: weak fairness of the runner, which polls every 10 ms, and of the
  passing of the deadline. None of OpenOCD, which may hang, nor of what holds its pipes.
- `Tui`: weak fairness of the loop (`event::poll` returns after 50 ms), of `run`,
  of the watcher's thread, and of a session call once its session is cancelled
  or has ended, which is again `OwnedSession!EveryCallReturns`; a call that GDB does not
  answer may take as long as it likes before.
- `BuildPipeline`, `MiStream`: none, their properties are safety. So is
  `KeepsSession`: `SessionContract` states no fairness.

## 5. What is proved

Each proof module extends its model and TLAPS. No theorem rests on
anything but the model's own `ASSUME`.

`SessionEngineProofs`, for every set of probes and faults and every `MaxGeneration`:
`TypeCorrect`, `HaltedIsTrue`, `StopIsKept`, `EventsAreTrue`, `SessionEndsOnce`
and `EngineImplementsLifecycle`. `HaltedTruth` says nothing while an operation
is in progress, so it is not inductive. The inductive invariant adds *place* (`PlaceOK`: the
state the engine is in, and the operations it can be in, at each command) and
*knowledge* (`KnowledgeOK`: what the engine may rely on in the middle of an
operation about the core and the unread stop, given `Still`, that it has not yet
touched the core or has seen it stop); for the events it adds `WatcherOK` (where a
watcher may lag behind).
The refinement follows from these: each action's change of `state` is one
disjunct of `DebugLifecycle!Next` or none. `EveryOperationIsBounded` is the half of
`EveryCallReturns` that is no matter of fairness: `Left` counts down from at most 26
with every step of the operation, nothing else changes it while an operation is in progress, and it is 0
when there is none. So an operation's way through its commands has no cycle.

`OwnedSessionProofs`, for every set of faults: `TypeCorrect`, `NothingLeaks`,
`SessionEndsOnce`, `SessionKept`. The strengthening of the first three is `LeftOver`: for
each place of the owner's thread, which children and which supervisor may still
exist, and how many ends have been published. `SessionEndsOnce` is proved only: in the run
`KeepsSession` stands for it. `SessionKept` proves `KeepsSession`, that every step is a step of
`SessionContract` or nothing an owner sees. It needs two invariants more:
`CallOK` (at each place of the owner, which call it can be in, and that the error and the
reason it is going to give fit that call) and `LossOK` (what `late` says is still true;
where `take_events` looks at the token, a session that was lost before has a cancelled
token or is idle, so that it cannot be missed; and the supervisor kills only what the
token says is lost). The step proof has one lemma for the calls, one for the
launch, one for the work of a call, and one for the threads and children, whose steps
an owner sees as `Lose`, `Release` or nothing.

`InstallerProofs`, for any number of setups, any bundle and any required part of
it: `TypeCorrect`, `PartialStateIsRemoved`, `NothingUnverifiedInstalled`,
`AcceptedTreesAreComplete`. `Owned` says in which
places a process can have a staging directory, a partial download or an expanded
tar, so that the places after them have none; `Clean` that nothing unverified is
on its way into a tree, from the archive that is about to be opened to the files
of each tree; `OneAtATime` that without overlap at most one process is live; and
`Faithful` that then the extracted files are the archive's, so that every
marker of this version is the inventory of the whole bundle. The last one needs
`OneAtATime`: without it an inventory could be taken of a tree another process empties.
`SuccessInstalls` (the action property `SuccessIsInstalled`) adds `Prepared`: past its
first sweep a setup that runs alone can only meet its own staging directory, past
its second only its own download, and what it renames is the whole bundle with
its inventory.

`AgentProofs`, for any ids, capacity, length of the input and faults:
`TypeCorrect`, `NothingTwice`, `AnswersInOrder` and `StoriesTold`. Of `NothingTwice` the strengthening is `SeenOK`: every id that was
carried out is in `seen`, and so is that of the operation in hand, which has not
been carried out yet; it holds since only `Accept` moves to an operation.
`AnswersInOrder` proves `OneAnswerEach`. Its strengthening is `InOrder`: there is a
numbering of the lines in flight (in hand, in the channel, held by the reader) by
their places in the order of the requests, so that the next answer is to the first
request without one; `LastLine` says that nothing follows the end of the input. As
a function that is said to exist, the numbering needs no recursion over the channel.
`StoriesTold` proves `StoriesAreComplete`. Its strengthening follows the last
session: `Past` (what is printed is told session by session, each in order, and of every
session before the last to its end, unless printing or a stop failed), `LaunchStory`
(a session being launched has told at most its beginning), `OwnedStory` (one in the
slot has told its beginning, and its end exactly when it has ended and nothing is
queued), `OverStory` (one that left the slot has told its end) and `ExitStory`. That a
launch's events are printed live and its suffix again from the queue is what makes
`OwnedStory` necessary: the queue may hold an end, and nothing else.

`BuildPipelineProofs`, for any number of pids, sources, headers, artifacts and
edits: `TypeCorrect`, `ObjectsStaySound`, `ReusesSoundly`, `PublishesInspected`,
`StagingOwned`, `InitWhole`, `SuccessRebuilds`. `ReuseIsSound` is about the moment of reuse; what
is inductive is `ObjectsAreSound`, of every object in `obj/` and in staging: the
files it was made of and that are not newer are as the compiler read them, unless
one was edited while the compiler ran. `SuccessRebuilds` (`SuccessIsRebuild`) adds
`Undisturbed`: a build that found a whole cache and beside which nothing happened
is alone, and for every place it can be in, all it has come to (objects, staged
objects, linked image, outputs) is what a build from scratch would have made.

`ProgrammerProofs`, for any number of attempts and images: `TypeCorrect`, `RetriesSafely`,
`ContractKept`. `RetriesSafely` rests on `FlashOK`: the flash is the old one before an attempt, in
`init`, and of an output that mentions a failed bind, since only `init` does.
The refinement rests on `RunsOK`, `DoneSoFar` and `ScriptDone` as well: what the target is at each step of
the script, so that a server that exits well and mentions nothing has done what
was asked; and nothing but a live server moves the target. `EveryOperationIsBounded`
is the same half of `EveryOperationEnds`: each attempt takes at most five steps of the runner,
and OpenOCD, the user and a build add none.

`TuiProofs`, for any number of stops and breakpoints: `TypeCorrect`,
`TerminalRestored`, `SessionIsShown`. `TerminalOK` says that what is switched on is
on account of a guard, but for raw mode in the step before the guard exists.
`SessionIsShown` (`ShowsTheSession`) is about the moment the loop waits for a key;
what is inductive is `ToldOK` (what is shown, and then the events in the queue, tell
the session's state), `AskedOK` (a stop that was not asked about is announced by an
event or by the call that is about to return), `ReadOK` (what was read of a stop is
not of a later one) and `PointsOK` (listed breakpoints are set).

`MiStreamProofs`, for any tokens, streams and record limit: `WholeLinesSent`
(`SendsWholeLines`). The inductive invariant `FrameInv` says that there is a place in the
stream, the end of a line or the beginning, up to which the lines are in `sent` and then
`records`, each once and in order, and from which on to `pos` is the buffer
(`Frame`); and after the end of the thread, why it ended (`Finished`, `Failed`). Nothing is
used of the parser: the theorem holds for whatever `ParseRecord` returns.

Of the parser, `ParsesTheGrammar` says that of all lines of tokens, whatever is on them, it
accepts the records of the grammar and no other, and returns the tree a record has there.
Both are recursive functions, so this is induction over data, and the library's rule for
it takes an operator that the provers cannot instantiate. The proofs use another: a set of naturals has a
least element (the library's theorem on well-founded relations, which takes a set), so
that a set that has 0 and, with n, n + 1 has all (`Upward`). By it `Grammar` and
`Parse` exist as their definitions say (`GrammarIs`, `ParserExists`), the parser from the end of
the line backwards; what it returns is nothing or a later position (`ParserReturns`); what
is in the grammar has its length and a first token that decides what it is
(`GrammarShaped`). `ParserReads` is completeness, by the length of the text that occurs
at a position: it needs what follows (`Ready`), since the parser goes on after an element
as long as there is a comma. `ParserFinds` is soundness, by the distance from the end of the
line. `GdbIsRead` (`ReadsWhatGdbWrote`) puts the two together: a line that
`push` cuts off is the line that was written, and what is longer than the limit
it has refused before. `GrammarAssumption` asks for no more than that the grammar's
bound is at least that limit, and that no token is named as the end of the text is.

Only model-checked: every liveness property. Leads-to under fairness is outside the prover's
reach; of two of them the variants above are proved, and what remains for TLC is that a step of
the operation is always possible and that fairness takes it.

## 6. Not modelled

The import of XML projects, argument vectors, command line, core types and doctor
compute data without a behaviour over time; drawing and release scripts are I/O.
Of the pipeline the checks of links and permissions, of OpenOCD's server the
selection of ports and the bind retry before readiness are not modelled. Hazards that no
property covers say why in `PROJECT.json`.
