# TLA+ verification of Mago

Mago is a PHP toolchain in Rust: parser, formatter, linter, static analyzer,
architecture guard. Most of it is sequential code over syntax trees. The parts
whose correctness depends on the order of events are the extension workers
(foreign processes driven over pipes by many threads), the file database with
its transactional changes and its watcher, and the orchestrator that runs the
analysis in parallel and incrementally. This project models those parts in
TLA+, checks them with TLC and proves the safety of the core with TLAPS. It covers
the extension workers and their pool, the database and its change log, the watch
loop, the incremental analysis with the reference graph it relies on, and the text
edits by which issues are fixed.

## Inventory

| part | state | operations | interacts with | hard behaviour | what makes it correct |
|---|---|---|---|---|---|
| extension worker, `crates/extension/src/worker.rs`, `protocol.rs` | state, request ids, pending map, writer, child, channels | request (with nested requests), route, fail, deadline, begin/finish shutdown | calls share it; a reader thread; the process | races of answer, failure, deadline and shutdown; a blocking write under a lock; a foreign peer | each call gets one outcome, its own; nobody waits for a dead worker; shutdown leaves nothing |
| worker pool, `pool.rs`, `reduction.rs` | slots, active count, growth lock, bootstraps, reservations, state | request, broadcast, restart, grow, prepare capacity, reduce, shutdown | analyzer and linter threads call it; it drives the workers | restart on stale evidence, growth during a broadcast, reservations against shutdown | slots filled before published, one process per slot, healthy workers stay, reduction is quiet and complete |
| extension payloads, `payload.rs`, `source.rs`, `command.rs` | none | encode, decode | worker, analyzer, linter | boundaries of lengths | decoding inverts encoding |
| database, `crates/database/src/lib.rs`, `change.rs`, `operation.rs` | files by name, id and path; change log | add, update, delete, commit, snapshot | orchestrator, formatter, fixers | memory applied before disk, parallel writes, shared log | the three indexes agree; a commit that succeeds is on disk |
| watcher, `watcher.rs` | channel of events, database | watch, wait, stop | the OS, the analyze command's watch loop | debouncing, files that vanish or change while read | the database converges to the disk |
| loader and membership, `loader.rs`, `matcher.rs`, `membership.rs`, `git.rs` | none | load, classify | database | precedence of overlapping paths | a file has the type of its most specific path |
| orchestrator, `crates/orchestrator` | code base, per-file fingerprints and issues | analyze, lint, format, incremental update | database, analyzer, linter, extensions | what a change invalidates | incremental and full analysis agree |
| collector, `crates/collector` | pragmas, issues | collect, suppress | linter, analyzer | which pragma an issue uses | a pragma is used or reported unused |
| text edits, `crates/text-edit` | accepted edits | apply, finish | fixers, formatter | overlap and insertion at one place | accepted edits do not overlap |
| baseline and reports, `src/baseline`, `crates/reporting` | entries | generate, compare | commands | counted entries | an issue is reported once too often or not at all only if it is new |
| interner, `crates/word` | sharded table | intern | everything | concurrent insertion | one word per byte string |
| logic, `crates/algebra` | none | saturate, negate | analyzer | - | equivalence is kept |
| analyzer, linter, codex, hir, names, semantics, syntax, phpdoc-syntax, twig-syntax, formatter, fingerprint, guard | per-file | sequential passes | orchestrator | size | out of reach of a model checker |
| command line, updater, composer, wasm, prelude and small utility crates | - | wiring, I/O, data types | - | - | - |

`PROJECT.json` lists every part with its status, and the hazards of the code at
their lines.

## Modules

| module | what it is |
|---|---|
| `ExtensionWorker` | one worker: calls, reader thread, stoppers, arbitrary child |
| `ExtensionWorkerProofs` | its theorems |
| `ExtensionPool` | the pool: requesters, broadcasters, capacity thread, closers, crashing workers |
| `ExtensionPoolLemmas` | the inductive invariant of the pool, and what a step can change |
| `ExtensionPoolProofs` | its steps and the pool's theorems |
| `ExtensionPoolReservations` | further theorems, by counting the threads that have reserved a worker |
| `FileStore` | abstract: a map from file names to contents, with immutable snapshots |
| `Database` | the file database, its change log and commit; implements `FileStore` |
| `DatabaseProofs` | its theorems, the refinement among them |
| `WatchMode` | the watch loop of `mago analyze`, the file watcher, the user; uses `FileStore` as its database |
| `WatchModeProofs` | its theorems |
| `SymbolGraph` | the reference graph, file differences and invalidation as pure operators |
| `IncrementalAnalysis` | the incremental analysis service on top of `SymbolGraph` |
| `IncrementalAnalysisProofs` | its theorems |
| `TextEditor` | the edits of one file: accepting them one by one and in batches, writing them |
| `TextEditorProofs` | its theorems, and lemmas on sequences, sorting and merging |
| `MC...` | model values, workspaces and symmetry for TLC |

The composition runs through `FileStore`: `Database` is shown to implement it, with
shared objects and updates in place, and `WatchMode` takes its steps as the
database's operations. `WatchMode` in turn takes the incremental analysis as what
`IncrementalAnalysis` shows it to be, an analysis of the files it is told of.

Definitions whose comment begins with "Mutant" are wrong on purpose. Each is a
plausible bug in the definition below it; nothing refers to them. Putting one in
the place of the original makes the property it is paired with fail, which
shows that the property can fail.

### ExtensionWorker

State and code correspond one to one: `state`, `nextId`, `pending`, `writer`
and `handle` are fields of `WorkerInner`; `joinable` is `Worker::reader_thread`;
`rid`, `out`, `chan` and `result` are the locals of `request_inner`; `dest` and
`frame` those of `route`. `pending` is a set of pairs <<id, call>> because the
map's values are the senders of the calls' channels. `lockedBy` is the writer
mutex, the only lock held across something that blocks. Each program counter
value is a point where another thread may run:

* a call goes `idle`, `register`, `send`, `lock`, `write`, `wait`, and to
  `unregister` or `done`; a nested reply, the rejection of a nested request and
  the cancel frame of a deadline go through `send` again (`out` says which);
* `fail` (`fail`, `close`, `kill`, `drain`) is run by calls and by the reader;
* the reader alternates `read` and `deliver`: the sender is looked up under the
  map's mutex and used after it is released;
* a stopper goes `idle`, `closing`, (`bye`,) `finish`, `poll`, `reap`, `mark`,
  `sweep`, `join`, `joining`, `done`.

The process is external. It reads or stops reading, writes any frame with any
id issued so far or with id 0, garbage or a shutdown frame, closes its pipes,
exits. A frame is its kind and the id by which it is routed. A truncated frame, a
wrong magic number or version and an oversized payload are all `Garbage`: they
end the reader in the same way.

Left out: the stderr thread (it only fills a diagnostic buffer), telemetry, the
Windows socket used as standard input, the wrap-around of the 64-bit id, the
start-up of the process and its error paths, a process that closes only one of
its pipes, and descendants that keep a pipe open after the process has died.

### ExtensionPool

A worker is what `ExtensionWorker` shows from outside: running, then failed or
stopped for good; a request on it returns; `load` is `in_flight`, `applied` is
the set of broadcasts it has processed. `slotLock` stands for the two mutexes of
a slot, which `restart` takes together. Threads keep their locals in `th`.
`bootstraps` is a set of broadcasts; one of `broadcast_sequence` (`Grouped`)
replaces its group. The order in which a requester scans the slots is left open
(it depends on a cursor or a hash), and so is whether `should_grow` is true,
which depends on measured times.

Shutting workers down, and collecting and reducing their state, are single
steps: nothing in the pool can come between that matters to the properties,
because the locks involved stay held. The coordinators of a broadcast reserve
their workers in one step; only the load that a concurrent requester compares
depends on it, and the growth lock keeps the reduction, which waits for
reservations, out of the way. A coordinator thread that panics is not modelled.

### FileStore and Database

The code keeps an `Arc<File>` under each name and an index from ids to names. A
cell of `heap` is a file object; the database's `files` and each reader's snapshot
hold cells, and a cell nobody holds is free again. `UpdateFile` has the two arms of
`Arc::get_mut`: in place if the database is the only holder, else a new object.
`Remember` is the reference counting; it is the only place where the heap changes.
The change log is one sequence (`log`) with the owner's handle and the clones of
other threads; `commit` needs the last handle (`CommitRefused` otherwise, which
consumes the owner's), applies the changes in order (`Apply`, one change a step)
and then executes the file operations in any order (`Execute`, `ExecuteFails`).
A failed write may leave a torn file; after a failure `commit` may return with the
rest undone. `TakeSnapshot` and the other operations take the database exclusively,
dropping a snapshot does not.

Left out: collisions of the 128-bit ids, read-only lookups, the order of a
snapshot's listing, directories that cannot be created (a failed write).

### WatchMode

`pc` says where the loop is; every place at which the user or the operating system
can come in between is a value of it: loading and watching (`run_watch_mode`),
updating the service, analysing, processing, applying and writing fixes
(`apply_fixes`), waiting, debouncing, handling one file, and the two reads of
`read_stable_contents`. `events` holds the files with a notification under way,
`hint` is `changed_ids`. `--fix` is chosen in `Init`. The configuration has a
version; a restart drops what the old watchers still had to say, loads the version
on disk if it is valid, and starts over. The analysis is a function of contents,
file by file: `analyzed` is the content each file's result is about, and only
files in the hint, new files and deleted ones are taken up.

`missed`, `unread` and `configMissed` are history variables. `missed` remembers the
files that change in the gap between loading and watching, `unread` those that exist
but could not be read when their change was handled (`HandleUnreadable`,
`ReadFails`): the code logs the error and drops the event. `configMissed` remembers a
change of the configuration in its gap, or while its directory is not watched at all
(`WatchConfig` may fail with a warning). What they exempt is listed under the
disagreements below.

Left out: a file whose existence cannot be told (`exists()` is taken to be right),
the filters of `handle_event`, the polling backend, lost notifications
(the overflow of the kernel's queue, directories without an extension), reports and
the baseline, a debounce that never ends while edits go on without pause (a user
edits a bounded number of times).

### SymbolGraph and IncrementalAnalysis

A file's content is what the scanner gets out of it: the declared identifiers with
signature, uses and parents, the references of bodies and of top-level code, and
what the scanner complains about. `cache` is the service's state: the code base
(entries with their owners, file signatures, populated inheritance, patches), the
references, a `FileState` for each file, the issues that belong to no tracked file
(`orphans`), the contributed external references and the files with editor data. The
base code base, from which every full analysis starts and which no scan can remove,
consists of the files of type `Builtin`, which are always there and never change.
`FullAnalysis` is `run_full_analysis` and the reference; the actions
`AnalyzeIncremental...` are the ways through `analyze_incremental_inner` and
`try_analyze_incremental` in the order of the code: rebuild, refuse, nothing changed,
give up (`MustRebuild`), body only, signatures.

What the analyzer reports for a file is represented by what its analysis can read, in
two parts. `issues` is what it reads along the dependencies (`FileIssues`): the file,
and the declarations it reaches through signatures and inheritance, with their
patches. `heirs` is what it reads against them (`FileHeirs`): the classes below a
class, which decide whether the class must be final. Two analyses that read the same
report the same, so `MatchesFull`, which compares both parts and the scanner's issues,
fails as soon as a file is kept although something it read has changed. It holds of
the first part only (`ReadingsMatchFull`); the disagreements below are about the
others. The references the analyzer records are smaller than what it reads, as in the
code (`Recorded`, `AnalysisReferences`), which is what makes the invalidation hard:
they have no edge from a class to its heirs. `SymbolGraph!Cascade` is the fixed point
that `get_invalid_symbols` computes with a work list.

`ApplyPatches` is one `apply_patches_pass`: members that an earlier pass brought in are
reset, patches are folded into the vendored or built-in declarations they name, members
that a class only inherits become its own, patches of nothing are reported. Results
that depend on the order of the calls are those of `Conflict`: two files, built-in ones
included, declare one symbol; two patches refine one; a patch may come to declare a
member itself, because its class does not declare it as vendored or built-in code and
some class does (`Materializes`); the hierarchy is circular. `conflicted` is set as long as an analysis
since the last full one has met such a state, and `CodebaseMatchesFull`,
`ReferencesAreComplete` and `ReadingsMatchFull` speak of the others. `MatchesFull` exempts
nothing.

Left out: late references, hooks after a file, pragmas, snapshots for plugins and
lifecycle issues; class aliases (the code gives up); the in-place resolution of
type names; property reads and writes; names shared by a class and a function; the
order of members in a difference. Of the rank of declarations, polyfills and those of
extensions; of patches, the implicit constructor of a class marked as consistent, the
flags that a member takes from the method it overrides, trait aliases, and the
complaints about a patch of another kind or with another hierarchy than its target; of
the base code base, the heirs that a built-in class has when a file of the user shadows
it. A plugin's failure is a choice at every analysis.

### TextEditor

`edits` is the editor's vector, `output` what `finish` returned; the other variables
are history: the last call with its edits and its result, the edits in the order they
were accepted, the text the last check approved. The actions are `apply`,
`apply_batch`, `apply_unique_batch` and `finish`. The caller's check is external: it
accepts, refuses, or is not there. A sort is the arrangement in which an edit's place
is the number of edits up to it (`InOrder`). The loops that go through two sorted lists
side by side, the comparison with the accepted edits (`Conflict`) and the writing of
simulated text (`Merged`), are sequences of turns (`Turns`); the binary search of
`apply` may end at any place whose neighbours allow it (`Places`). The text is a
sequence of bytes, so that what is written can be compared with what the edits mean
byte by byte. `FinalLen` is the length of the buffer the code asks for: where its
unsigned sum would go below zero the program ends (`Aborted`).

Left out: the constructors of ranges and edits, whose results are inputs.

## Runs

| run | instance | shows |
|---|---|---|
| `worker_shutdown_race` | 2 calls (1 handler), 1 stopper, pipe of 1, 1 frame | `NoOrphanedCall`, `AnswersOwnRequest`, `ErrorsRetireWorker`, `NoStaleEntry`, `OneOutcome`, `NothingLeftRunning` |
| `worker_progress` | 1 call (a handler), 2 stoppers, pipe of 4, 1 frame, fair | `TypeOK`, `CallsReturn`, `ShutdownReturns` |
| `worker_deadline` | 1 call, 1 stopper, pipe of 1, fair | `CallsReturn` fails when the Cancel frame meets a full pipe |
| `pool_growth_reduction` | 2 requests, capacity thread, 2 reducing closers, 3 slots, 1 crash | `TypeOK`, `ActiveSlotsFilled`, `OneProcessPerSlot`, `ReductionIsQuiet`, `ReductionIsComplete`, `ReservationsReturn`, `OnlyReplacementsOutlive`, `HealthyWorkersStay` |
| `pool_progress` | a request, a broadcast, the capacity thread, a reducing closer, 3 slots, 1 crash, fair | `GrowthIsConsistent`, `EveryoneReturns` |
| `pool_identical_state` | a restart during a broadcast | `IdenticalState` fails |
| `database` | 2 names (1 on disk), 2 contents, 4 objects, 1 snapshot, 1 other thread, 2 changes a log | `TypeOK`, `IndexesAgree`, `LastChangeWins`, `DiskFollowsDatabase`, `IsFileStore` |
| `watch_mode` | 2 files (1 that may be unreadable), 2 contents, up to 3 edits and 2 configurations (1 invalid), 4 together, with and without fixes, fair | `TypeOK`, `NothingForgotten`, `AnalysisIsCurrent`, `Converges` |
| `incremental_analysis` | 8 files (1 built-in), up to 2 change between analyses | `TypeOK`, `ReadingsMatchFull`, `CodebaseMatchesFull`, `ReferencesAreComplete`, `EditorDataIsComplete` |
| `incremental_scan_issues` | the same files, one with an issue found while scanning | `MatchesFull` fails |
| `text_editor` | 3 bytes, 8 edits of every kind, up to 3 accepted, batches of up to 2, with checks | `TypeOK`, `SinglyNonOverlapping`, `WritesWhatIsMeant`, `CheckedIsWritten`, `OverlapsAreReal`, `AllOrNothing`, `SharedOnce` |
| `text_editor_overlap` | the same | `NonOverlapping` fails |

Bounds. `ChildFrames` bounds what the child writes: one frame is enough for every
kind of answer to race every host step. A pipe of capacity 1 blocks the second
write; one of 4 has room for all a call and a shutdown write. Two calls are needed to cross answers and to
have one call fail the worker under the other; two stoppers for the second that
finds the child and the join handle taken. `MaxCrashes` bounds spontaneous
deaths: one worker that dies can be found dead by every thread of the instance. Three
slots give the capacity thread, whose target is half the slots, a slot to fill after
the first, with room left for a request to grow. Two changes in a log are enough for one to
follow another on the same file or id, or for a deletion to meet an update; four
objects are two files, a snapshot that shows others, and one to spare. Three edits
let a file change before, while and after it is read (or fails to be read), or a second
file change in the same batch; two versions of the configuration let an invalid one be followed by
a valid one, and four changes in all (`MaxChanges`) leave two edits around both. One of the two
files may be unreadable for a while, the other never is. The eight files hold a hierarchy below a built-in
class, a function that returns a class, top-level code, a vendored class and two patches; two files at a time are what it
takes to move a declaration. An `ExpenseLimit` of 6 separates changes the code
follows from those it gives up on. The edits of a text of three bytes are
insertions at one place and at another, deletions and replacements that touch, nest
and overlap, one that is less safe and one that is out of bounds; three of them are
what it takes to hide one edit behind another at the same offset. The theorems do not
depend on the bounds.

Deadlock is checked in every run except `watch_mode`, where the program may end or
wait for a user who has stopped, and those of `TextEditor`, where nothing is left to
do after `finish`. In the worker's and the pool's runs the only state
in which nothing happens is the one where every thread has returned and the process
is gone, and it stutters (`Finished`). Symmetry is used for stoppers, requesters,
file objects and contents in runs that check no liveness.

Fairness. The operating system schedules every host thread that can run, a
deadline passes and a grace period ends (`HostFairness`); locks are held for
finite steps. Nothing is assumed of the child, and nobody has to start a call, a
shutdown or a growth. `FairSpec` of the pool assumes besides that a request on a
worker returns, which is what `worker_progress` shows for a pipe with room.
Weak fairness of a thread that waits for a mutex is sound in these runs because
each instance has finitely many operations, so no lock is taken over and over. In
watch mode the loop's thread runs (`LoopStep`: nothing in it waits for anybody but
the watcher), a notification arrives some time, and a reason to restart is seen by
`wait`, which polls for it. Nothing is assumed of the user.

### Disagreements between the documentation and the code

1. `worker_deadline`. When the deadline of a request has expired, `timeout` writes a
   Cancel frame before it fails the worker. If the worker has stopped reading and the
   pipe is full, as it is of the request in the run, the write blocks with the writer
   mutex held, and nobody kills the process: `fail` and `begin_shutdown` need that
   mutex too. The shutdown frame blocks in the same way (`ShutdownReturns` fails).
   Neither the documented deadline nor the documented grace period is kept.
2. `pool_identical_state`. `restart` does not take the growth lock. A
   replacement that copied the bootstraps before a concurrent broadcast recorded
   its own is installed without it.
3. `incremental_scan_issues`. An unchanged file that is analysed again loses the
   issues found while it was scanned: they were drained from the code base once,
   are cleared with the old result, and come back only with the next full analysis.
   (In the run the base class is deleted; its child is analysed again, not scanned.)
4. `text_editor_overlap`. `apply_batch` goes on to the next new edit when an accepted
   one starts at the same offset and does not overlap it. If that is an insertion, the
   accepted edits behind it are not compared with the new one: after an insertion and a
   replacement at one offset, a batch that replaces the same bytes is accepted, and
   finish writes both. `WritesWhatIsMeant` speaks of edits that do not
   overlap, and `SinglyNonOverlapping` of those that come one by one.

Five more are about the incremental analysis, too: TLC finds `MatchesFull` violated by
`MCIncrementalAnalysis` with each of these configurations, which are not among the runs.

* `IncrementalNewChild.cfg`. The analysis of a class looks at its children
  (`child_class_likes`, analyzer `class_like/mod.rs:413-417`), and nothing in the graph
  leads from a new child to the file of its parent: that file is skipped and keeps its
  warning that the class should be final.
* `IncrementalNewFile.cfg`. An incremental analysis hands out the issues of the scanner
  (`distribute_codebase_issues`, 1264) before it tracks a new file, so they are kept with
  the issues of no file (356-363), and the next call drops them.
* `IncrementalShadow.cfg`. A file of the user declares a symbol of the base code base and
  takes its place. When it drops the declaration, `remove_entries_by_keys` leaves
  neither, and only a full analysis starts from the base code base again (494, 510).
* `IncrementalInertPatch.cfg`. A patch file may name a class of the user; "User-defined
  targets win; the patch entry is inert" (`metadata/mod.rs:1468`). But every patch is
  scanned again when a vendored file changes, and if no signature differs, the members
  its signature names join `changed_symbols` (`incremental_analysis.rs:914`), whose body
  references are dropped. The file of the user's class is skipped, so nobody records
  them again: when the signature of what its method calls changes later, the file keeps
  its old issues (an analysis, a vendored body, an analysis, a signature, an analysis).
* `IncrementalInheritedPatch.cfg`. A member that a patch brings into a class
  (`metadata/mod.rs:1510-1537`) is an entry of no file's keys. When the vendored class
  declares it itself later, the rank of patches keeps the patch in its place (1838-1843)
  when the scans are merged; `reset_patch_methods` then takes it out and the pass brings
  it in again. A full analysis has the declaration of the class there, refined.

And four are smaller. A restart that is under way when shutdown reads
the slot's predecessor puts a running worker into the slot after shutdown, where it
lives until the pool is dropped, although shutdown "gracefully stops every worker"
(`pool.rs:553`); `OnlyReplacementsOutlive` says that this is all that can be left. The
watch loop loads the files before it watches
them, and the configuration before it watches that: a change in the gap is not
noticed, although the command reference says that `--watch` re-runs "whenever a PHP
file in the workspace is created, modified, or deleted". A file that cannot be read when its change is handled
stays as it was in the database until it changes again, and a configuration whose
directory cannot be watched is not watched. When two files declare a
symbol and the one that owns it drops it, the other is not scanned again, of two
patches of one symbol one is kept, and classes that are ancestors of each other are
populated in an order that depends on which classes are populated
(`populator/sorter.rs`). `missed`, `unread`, `configMissed` and `conflicted` mark these
cases in the models. When the target of a patch is deleted, the patch is not reported as an
orphan until a full analysis (a case of `MatchesFull`).

Number 2 and the restart during shutdown concern the public interface of the crate,
whose methods take `&self` and may run concurrently. The command-line program broadcasts, and
shuts pools down, while no request is under way.

## Proofs

`ExtensionWorkerProofs` proves for every set of calls and stoppers, every pipe
capacity and every number of frames:

* `TypeCorrect`, `Inductive`: `TypeOK` and `IndInv` always hold;
* `CallsAreNotOrphaned`: `NoOrphanedCall`;
* `PendingDoesNotLeak`: `NoStaleEntry`;
* `AnswersAreNotCrossed`: `AnswersOwnRequest`;
* `TransportErrorsRetire`: `ErrorsRetireWorker`;
* `StateIsMonotone`: `StateMovesForward`.

The assumptions are `ThreadAssumption` (calls, stoppers, the reader and
`Nobody` are distinct) and `BoundAssumption` (the bounds are numbers); TLC
evaluates both on every worker run.

`NoOrphanedCall` is not inductive: that an entry of the map is the waiting
call's depends on ids being fresh, that a failed worker has a drain to come
depends on where its threads are. `IndInv` adds, in this order,

1. `Phases`: what the threads' positions say of the worker's state (needs only
   the types);
2. `Identity`: issued ids are distinct and smaller than `nextId`, and an entry
   carries the id of its call;
3. `Mailboxes`: what is in a call's channel or in the reader's hands belongs to
   that call's request, and a failure in a channel means the worker has left the
   running state (uses 1, 2);
4. `Outcomes`: a result in hand is justified (uses 1 to 3);
5. `Reachable`: a call that waits or will wait has its outcome on the way or its
   entry in the map, and not both (uses 2, 3);
6. `Drainable`: after the running state, an entry its call will not remove has a
   drain to come (uses 1, 2, 5).

Each has a lemma `...Step` with one step per action. `TypeOK` is proved in four
parts in the same way. The theorems on the properties follow without further
reasoning over steps.

Two theorems at the end of the module rest on `Inductive` and strengthenings of their own:

* `OneOutcomePerCall`: `OneOutcome`. The entry of the pending map is what entitles
  a thread to end a call. While it is there nothing that ends the call is on its way
  (`Reachable`) or has been returned (`Untaken`), so a route or a drain, which takes
  the entry with it, sends the first such event and the last. `Settled` says that
  every other return leaves an error of `request_inner`'s own. `ChannelCases` and
  `TakenStep` reduce the actions to the five things a step can do to a channel.
* `ShutdownIsComplete`: `NothingLeftRunning`. Handle, reader thread and writer are
  each gone or in the hands of a stopper with one step to take (`Retired`), a stopper
  joins only in the final state (`AtStop`), and the map follows from `Drainable`.

`DatabaseProofs` proves for every set of names, ids, contents, file objects,
readers and recorders, and logs of any length:

* `Typing`: `TypeOK`; a lemma for each of `AddFile`, `UpdateFile`, `DeleteFile`
  says that it keeps the types of the memory, whatever calls it;
* `Indexes`: `IndexesAgree`, which is inductive with the types;
* `Refinement`: `IsFileStore`. A step of the memory maps to `Write`, `Remove` or a
  stutter of `FileStore`. The point of the proof is that `Remember` keeps the
  contents of every object that is still held, so that a snapshot shows what it
  showed; an update in place is covered by `Sole`.

It assumes `FileIdAssumption` (ids identify names) and `NullAssumption`.

On these rest two theorems about a commit:

* `LastWins`: `LastChangeWins`, by the inductive `AppliedHold`, which says the same of
  the changes applied so far; `ShowsAfter` takes from the refinement that a change
  shows in its own file and no other;
* `DiskFollows`: `DiskFollowsDatabase`. While the loop runs, an operation alone on its
  path asks for what the database shows (`OpsMatch`), because the operations of two
  changes differ in their position; once executed without a failure it is on disk
  (`Written`).

`WatchModeProofs` proves for every set of files and contents and any number of edits
and configurations, from `BoundAssumption`, `NoneAssumption` and `FixAssumption`:

* `Typing`: `TypeOK`;
* `Remembered`: `NothingForgotten`, by the inductive `ChangesArePending`: wherever
  the loop is, a file on which disk and database differ is announced, missed, could
  not be read when it was handled, or is among the files the loop still has in hand (`Pending`: those to load, to handle,
  to read again or to write);
* `AnalysisFollows`: `AnalysisIsCurrent`, by the inductive `AnalysisIsPending`,
  which says the same of database and analysis; it rests on the first, because
  the loop's own fixes are announced by the watcher.

`ExtensionPoolProofs` proves for any requesters, broadcasters, growers and closers,
any capacity and any number of deaths, from `PoolAssumption` (the kinds of threads
are disjoint, the initial size is within the capacity):

* `PoolInvariant`: the inductive `Inv`;
* `FilledSlots`: `ActiveSlotsFilled`;
* `OneProcess`: `OneProcessPerSlot`;
* `HealthyStay`: `HealthyWorkersStay`;
* `ConsistentGrowth`: `GrowthIsConsistent`;
* `CompleteReduction`: `ReductionIsComplete`.

None of the five is inductive. That a slot has one process depends on a running
worker being in its slot or in the hands of the one thread that may put it there
(`Live`, `InHand`, `GrowthInHand`); that a healthy worker stays depends on the
evidence of a restart being true until it acts (`Evidence`); both depend on who
holds the growth lock (`GrowthHeld`) and a slot's locks (`SlotHeld`), and on the
slots above `active_workers` being empty (`Unpublished`). `Inv` has 23 such parts.
With some fifty actions, a proof by cases for each part would be mostly about
actions that do not touch it. `ExtensionPoolLemmas` therefore first proves what a
step can change at all: which actions add or stop workers (`WorkersStep`), change
slots, locks, `active_workers` or bootstraps (`ChangedStep`), bring a thread into a
critical part (`EnteredStep`) or out of it (`DepartedStep`). The lemma `...Step` of a
part then has a step for each action these leave.

`ExtensionPoolReservations` rests on `PoolInvariant` and proves, for the same constants,
with `Threads` finite (a process has finitely many threads):

* `PoolTyped`: `TypeOK`, with its bounds on `in_flight`;
* `NoRequestMeetsTheReduction`: `ReductionIsQuiet`;
* `EveryReservationReturns`: `ReservationsReturn`;
* `ShutdownLeavesOnlyReplacements`: `OnlyReplacementsOutlive`.

All follow from `ReservationsAreCounted`. Its core is `LoadsCounted`: the load of a
worker is the number of threads that have it reserved (`Holders`), where what a thread
has reserved is read off its position (`Reserved`). A step changes the loads
(`LoadsMove`) by what its thread takes and gives back (`ReservedMove`), which the lemmas
`...Turn` show one kind of thread at a time. A reduction waits for a load of zero while
no request can reserve any more, so it is alone with the workers it has collected. For
the last theorem `First` singles out the worker a slot had first: spawning in a slot
that had one never makes a first worker (`Replacements`), and a closer has the running
first workers of the slots its sweep has passed in hand (`Swept`).

`IncrementalAnalysisProofs` proves for every workspace, every content of its files and
every sequence of changes, announcements, calls and failures, from
`FileTypeAssumption`, `VersionAssumption`, `BuiltinAssumption` (a built-in file is always
there and never changes), `FiniteAssumption` and `ScopeAssumption`:

* `MemoryIsOfWhatWasSeen`: the inductive `IInv`;
* `AnalysisTyped`: `TypeOK`;
* `EditorDataKept`: `EditorDataIsComplete`;
* `CodebaseIsThatOfAFullAnalysis`: `CodebaseMatchesFull`;
* `ResultsAreOfWhatWasSeen`: `IInv` with `Answered`, inductive together;
* `ReferencesAreRecorded`: `ReferencesAreComplete`;
* `ReadingsAreThoseOfAFullAnalysis`: `ReadingsMatchFull`.

The last four speak of states in which no analysis since the last full one has met a
`Conflict`; the configurations `IncrementalShadow.cfg`, `IncrementalInertPatch.cfg` and
`IncrementalInheritedPatch.cfg` show that shadowed built-ins and patches of such members
have to be exempt. The heirs of a class and the issues of the scanner are not among what
is proved: there the code differs from a full analysis with no conflict at all
(`IncrementalNewChild.cfg`, `IncrementalNewFile.cfg`, `incremental_scan_issues`).

No property is inductive, since the files change between the calls. `IInv` speaks of the
contents that the last analysis saw (`Seen`, from the recorded hashes): what was not
announced is as it was seen (`Watched`), the code base and the recorded keys are those
of the contents seen (`Known`), every class inherits what it should and the graph names
its parents (`Inherited`), all host files seen have their editor data (`EditorKept`).

That an incremental analysis keeps `Known` is the first half. `Describes` says what a
code base must hold for given contents. Removing what the deleted and rescanned files
owned leaves exactly the declarations of the other files (`KeptEntries`, where the
recorded keys matter); merging the new scans adds theirs (`ExtendEntries`); and the
patches come out right in either of two ways (`MergedDescribes`): no patch is scanned
again, then no vendored file with a patch is, or all of them are and are applied again
(`PatchesStand` uses what makes the code give up). Where no patch materializes, applying
them changes refinements only (`ApplyPatchesParts`). That a built-in file is never
scanned again comes from `Watched` (`BuiltinsStay`).

That it keeps `Inherited` is the second. Inheritance is stated as an equation: what a
class inherits is what its parents hand on. Where the hierarchy has no circle, the
equation has one solution (`InheritedOnce`), and each pass of the population makes one
more class right, so as many passes as there are classes find it (`PassIsRight`,
`PopulateInherits`); a full analysis therefore computes it (`FullInherits`). An
incremental one populates only some classes. The cascade over the reference graph is
closed (`CascadeCloses`, which ends because everything is finite), and the graph names
the parents of every class, so a class outside it has no ancestor that is new, gone or
different (`Stable`, `KeptInheritance`) and what it inherited stands
(`InheritanceStays`, `IncrementalInherits`). `conflicted` excludes what has no one
right result.

`Answered` says that the result in memory is that of an analysis of the contents seen
(`Answers`): the graph has what every declaration names and what the analysis of every
host file records, and each file has what its analysis reads along the dependencies. The argument
that a file may be skipped has three parts.

* Two code bases `Agree` outside a set `s` if they have the same items and inheritance
  there and nothing outside `s` names or inherits anything in it. The complement of a
  set closed in the graph is such a place (`ClosedAgree`), so a reader who starts
  outside the cascade never comes into it (`ReachWithin`, from `ReachIsLeast`: the
  reading ends, with the smallest closed set), and an analysis that starts there finds
  and records the same in both (`SameIssues`, `SameAnalysis`).
* A file that is skipped starts outside the cascade (`Spares`): what its bodies and its
  top-level code use was recorded, by `Answered` itself, and a recorded use of an item
  in the cascade makes the user invalid (`SignaturesAnswer`). If no signature changed
  the cascade is empty.
* The references of a file that is skipped are not dropped. What it declares has not
  changed and is not dirty, since no other file declares it or has declared it
  (`KeptItem`); the keys of the affected files are not among the safe ones. In an
  analysis of bodies only, a patch must not drop the references of a method that a file
  of the user declares, which `Materializes` excludes (`BodiesAnswer`).

`FullAnswers` and `FullRecords` compare this with a full analysis, whose code base is
the one in memory.

`TextEditorProofs` proves for every text, every set of edits, batches of any length and
any sequence of calls, from `EditAssumption`:

* `EditsAreInOrder`: `TypeOK`, with the order of the accepted edits;
* `SingleEditsNeverOverlap`: `SinglyNonOverlapping`;
* `TheCheckedTextIsWritten`: `CheckedIsWritten`;
* `NoFixIsRefusedForNothing`: `OverlapsAreReal`;
* `BatchesAreAllOrNothing`: `AllOrNothing`;
* `SharedEditsAreWrittenOnce`: `SharedOnce`;
* `WhatIsMeantIsWritten`: `WritesWhatIsMeant`.

`EditorInv` is inductive; each call is first brought to one form (`ApplyOutcome`,
`BatchOutcome`, `NextOutcome`): an answer that leaves everything as it was, or the
edits taken. Two facts carry the rest. A sort has one result (`InOrderUnique`: the
places determine it), and going through the accepted and the new edits side by side
is the stable sort of the two lists put together (`MergedIsInOrder`), so the text that
the check is shown is the one that is written. Edits taken one by one lie in a row
(`InARow`), which makes the place of the binary search unique and its one comparison
enough. The lemmas `LeastNatural` and `Induction` serve the functions defined by
recursion on a number of turns.

What is meant by the accepted edits (`Intended`) is put together offset by offset from
the edits in the order of their acceptance, and does not know how they are kept or
written. The invariant `InAcceptedOrder` says that the list kept is the stable sort of
the accepted edits, however they came in (`SortedInParts`). Writing is then shown to
give the same text by induction over the offsets: what has been written before an edit
is what is meant of the offsets before it (`WriteOffset`), where an offset has its
insertions, then at most one replacement (`KeptIsAhead` places them in the list), then
the bytes up to the next edit (`StitchIsIntended`). The buffer with its running
position is first put into closed form (`WriteFills`, `StitchPages`).

Model-checked only: liveness (`CallsReturn`, `ShutdownReturns`, `EveryoneReturns`,
`Converges`), which is out of the prover's reach.

## Not modelled

Worker start-up and its error paths, the stderr thread, and the relaxed ordering of
`in_flight` (a memory model below interleaving). Loading and path membership,
pragmas, the baseline, frame headers and clause saturation are sequential
functions without state between calls, which unit tests reach well. Parser,
formatter, lint rules, type inference and the content of symbol tables are
sequential and as large as their inputs; network and terminal I/O and generated data
have no behaviour of their own to check.

What would come next: an abstract worker that `ExtensionWorker` implements and
`ExtensionPool` uses; late references and pragmas in the incremental analysis.
