# Verification of nvim-key-insights

nvim-key-insights is a Neovim plugin that records typed keys as JSONL events and
a Rust command line, `key-insights`, that turns session logs into a summary and
a report. This directory holds TLA+ models of the parts of it where order,
failure and concurrency matter, TLC configurations that check them on small
instances, and proofs for TLAPS.

Paths below are relative to `src/`; `lua/` abbreviates `lua/key-insights/` and
`cli/` abbreviates `crates/key-insights-cli/src/`.

## The system

### Recording (Lua, inside Neovim)

| Component | State | Operations | Interacts with |
| --- | --- | --- | --- |
| Collector, `lua/collector.lua` | lifecycle state, last error, open sequence, text run and control-key counts, bounded queue of encoded events, epoch of deferred writes | `start`, `pause`, `stop`, `flush`, the `on_key` callback, the deferred write | calls the session writer and the mapping resolver; Neovim calls it back |
| Session storage, `lua/storage.lua` | per session: lock file, partial file, published log; offset and batch of an unfinished write; how far `finish` is | `open_session`, `write`, `flush`, `finish`, `abort`, the retention pass | shares the session directory with other Neovims, purge and the analyzer |
| Purge, `lua/purge.lua` | the preview the user confirms | preview, confirm, apply | deletes in the same directory |
| Secure file system, `lua/filesystem.lua` | none | identity-checked unlink through a quarantine name | used by retention and purge |
| Artifact names, `lua/artifacts.lua` | none | naming and parsing of logs, locks, quarantines | used by storage and purge |
| Mapping resolver and attribution, `lua/mapping_resolver.lua`, `lua/mapping_attribution.lua` | baseline of the buffer's mappings, dirty flag | `prime`, `resolve`, `reset` | asked by the collector for every key |
| Key tokens, snapshots, schema, configuration | none | parsing and validation | used by all |

### Reporting (Lua drives, Rust works)

| Component | State | Operations | Interacts with |
| --- | --- | --- | --- |
| Report lifecycle, `lua/report.lua` | job, phase, generation, pending confirmation | `start`, `preview`, `analyze`, confirm, exit callbacks, `shutdown` | runs the CLI and Codex through the process runner |
| Process runner, `lua/process.lua` | one child process, its deadline and monitor | `run`, `kill`, completion | Neovim's event loop |
| Plugin entry, `lua/init.lua`, `lua/commands.lua` | the instances of the above | `setup`, the commands, `VimLeavePre` | guards: no purge while a report runs, no `setup` during a session |
| Paired publication and recovery, `cli/publication.rs`, `cli/recovery.rs`, `cli/main.rs` | two output files, their backups, recovery indexes and transaction markers; the run's locks | lock, recover, stage, capture, replace, commit or roll back | runs of other analyzers that share an output; editors |
| Output locks, `cli/publication.rs` | one lock file per output | acquire both, verify, release | as above |
| Session discovery, `cli/discovery.rs` | none | list, open and verify published logs | reads the directory storage writes |
| Event validation, `cli/validator.rs`, `cli/event.rs` | the open session, the IDs seen | consume a log | accepts what the collector writes |
| Aggregation, `cli/analyzer.rs`, `cli/ergonomics.rs` | bounded counters | observe an event, finish | fed by the validator |
| Codex payload, suggestions, execution, `cli/codex_*.rs` | none; one child process | validate, render, run | reads the summary |
| Descriptor-anchored files, `cli/secure_fs.rs` | none | `openat`, `renameat`, identity checks | used by publication and discovery |

### What is hard

* **Interleaving.** Neovims share a session directory; analyzers share outputs.
  No global lock covers either: sessions have one lock file each, analyzers
  lock only the two outputs of their pair. Inside one Neovim only callbacks,
  commands and deferred functions interleave, each as a whole.
* **Crashes.** Publication of two files is a sequence of links and renames, so a
  crash leaves a journal that a later run, maybe of another pair, must
  recover. A deletion renames a file to a quarantine name first, so a crash
  leaves a hidden file.
* **Failures and retries.** `stop` is a long sequence of calls; after a failure
  the user runs it again and it goes on from where it was. A write may be
  partly done.
* **Staleness.** Decisions (a preview the user looks at, an inventory, a captured
  output, a deferred write of an ended session) are used later than they are made.
* **Limits.** A pass has a deletion budget and a scan limit; the queue has a
  maximal length and drops what does not fit.

### What makes each part correct

* Publication: a reader of both files sees the pair of one run or of another,
  never a mixture; recovery can always roll back what it decides to roll back,
  and different recoverers decide the same; nobody's edit is overwritten by a
  run that gives up; when a run ends, its journal is gone.
* Collector: a published log is one the validator accepts; every accepted key
  gets to the file once and in order, or the collector reports an error; a
  waiting batch gets written.
* Session directory: a live session keeps its files; only files that are what
  they were when their deletion was decided are destroyed; nothing stays hidden;
  a pass that reports success leaves the directory within the policy.
* Output locks: two runs with an output in common are never inside together,
  whatever their paths are spelled like, and no run waits for ever.
* Report lifecycle: no process group outlives its job, no callback of an old
  generation acts, Codex gets the payload of the preview the user saw and
  confirmed, suggestions are shown for that payload only, and every job ends.
* Discovery: what is analyzed is the whole listing, or the run fails.
* Aggregation: the counters equal their definition over the events, and each ranked
  list is cut where its order says, or the analysis fails and blames the right log,
  in whatever order things came.
* Codex contract: the preview gives away exactly what was published, and an
  accepted suggestion agrees with the logs and names every mapping it collides
  with.
* Resolver: a recorded use is of the mapping in effect, unambiguous among those
  that were listed, and a stale baseline gets refreshed.

## Modules

| Module | Models | Lines |
| --- | --- | --- |
| `AtomicPairs` | the promise: both files of a pair change in one step | abstract |
| `PairPublication` | publication and recovery, every file operation a step | `cli/publication.rs`, `cli/recovery.rs`, `cli/main.rs` |
| `MCPairPublication`, `MCPairShared`, `MCPairOverlap` | one pair; two pairs with a common summary; three pairs of which two hold disjoint locks | |
| `PairInvariants` | the inductive invariants of `PairPublication`, for its proofs | |
| `ExclusiveOutputs` | the promise: a run inside has its outputs to itself | abstract |
| `OutputLocks` | how a run gets its lock files | `cli/publication.rs`, `cli/secure_fs.rs` |
| `SessionInputs` | which logs a run reads, every system call a step | `cli/discovery.rs`, `cli/main.rs`, `cli/secure_fs.rs` |
| `EventLog` | the validator's state machine, as an operator on logs | `cli/validator.rs` |
| `Aggregation` | from events to a summary; extends `EventLog` | `cli/analyzer.rs`, `cli/ergonomics.rs`, `cli/validator.rs` |
| `CodexContract` | snapshots, payloads and suggestions; extends `Aggregation` | `cli/keymap_snapshot.rs`, `cli/codex_payload.rs`, `cli/codex_suggestions.rs` |
| `AnalyzeCommand` | the command that composes the three: extends `SessionInputs` and `CodexContract` | `cli/main.rs`, `cli/analyzer.rs` |
| `ReportLifecycle` | the jobs of the report and the runner of their processes | `lua/report.lua`, `lua/process.lua` |
| `Collector` | the collector and the writer of its session; extends `EventLog` | `lua/collector.lua`, `lua/storage.lua` |
| `MappingResolver` | the resolver's baseline and when the collector refreshes it | `lua/mapping_resolver.lua`, `lua/collector.lua` |
| `SessionDirectory` | sessions, retention and purge over a shared directory | `lua/storage.lua`, `lua/purge.lua`, `lua/filesystem.lua` |
| `*_proofs` | theorems about the module of that name; `AnalyzeCommand_proofs` has those of `SessionInputs` and `CodexContract` too | |
| `MC*` | its instance for TLC: definitions of constants, symmetry | |

`PROJECT.json` maps every definition to the lines it stands for. Operators called
mutants in their comment are defined beside the definition they vary; no
specification uses them.

### PairPublication

`dest[o]` is the version (an inode) an output names; `backup`, `index` and
`marker` are the sidecar files of recovery; `proc[w].pc` names the next file
operation of analyzer `w`. Two runs interleave between any two operations, except
that a run holds the locks of both of its outputs: `Enter` takes them together,
every return releases them. A crash (`Crash`) may come anywhere and frees the
locks; an edit (`Edit`) replaces or deletes an output at any time; a failing call of
`begin` or of a rename takes the code's error path.

What is abstracted: a failing call inside recovery, commit or rollback makes the
run return with its locks released, which leaves the files as a crash does. Of
two failures in a row only those around the active marker are modelled. A failing
restore of the summary ends the model's rollback, whereas the code still tries
the report. The random names of staged files and their scavenging
are left out, as is the check that directories were not moved. An edit is a
rename over, or an unlink of, an output. A run's recovery leaves no sidecar of
its pair (`RunEndsClean`), so `capture` never finds a name taken.

### OutputLocks

`entry[e]` is the inode of the lock file at a directory entry. A run opens the
lock files of its outputs in the order of their paths (`Open`), looks each name up
again (`Match`), locks them in the order of their inodes, one inode once (`Lock`),
and looks the name up again (`Verify`). `Stop` is any error or a crash; closing a
file releases its lock. `Remove` is somebody deleting a lock file nobody has
locked, so the next run creates another. Two paths may lead to one entry, and two
outputs have one lock path when their names agree on 96 bytes. `PairPublication`
takes both locks in one step; `OutputsAreExclusive` is what it relies on.

What is abstracted: an entry never shares its inode with another (a lock file
with two links is refused), and a run that was started publishes in the end.

### SessionInputs, Aggregation, CodexContract, AnalyzeCommand

A scenario is a directory, the logs in it, a command line, a snapshot and the
suggestions Codex may return. `SessionInputs` has the order of system calls: open
the directory, list it, check it is still at its path, inspect each name, open
it, compare; resolve named inputs; check the outputs; then open each input again
while the analysis advances. Between any two of them `Others` publishes, renames,
deletes, changes a mode or replaces the directory. `AnalyzeCommand` attaches what
the analysis makes of each log it opens, which error is reported, and what
`preview` and `suggestions` answer afterwards.

`Aggregation` folds `ReadEvent` and `Observe` over events: one validator and one
accumulator over all logs. The budget of distinct items and bytes is shared by
all counters, and the first failure is remembered while reading goes on, since a
malformed log found later is the error that is reported. Rankings are sets of
entries. `CodexContract` has one operator per condition of the payload and
suggestion validators, and the snapshot that a summary carries is taken out again
(`Reconstruct`) before anything leaves.

What is abstracted: inode numbers are not used again and logs are not rewritten
in place during a run; a listing is one step. Byte sizes of payloads are counted
in entries; counters of events do not overflow (sums of durations do). JSON,
duplicate keys, versions, option syntax, standard input, the texts of suggestions
and the permissions of snapshot and summary files are left out. Which tokens may
leave, and which strings are mapping IDs, are sets; the hash of a mapping is a
function, of which the proofs assume that it does not collide.

### ReportLifecycle

`rep` has the fields of the Report object; a process has a leader and maybe one
more member of its group that holds the pipes open; `asks` are the callbacks
handed to `vim.ui.select`. A payload or a set of suggestions is the number of the
summary it is about, so that using one for another shows. `Start`, `Analyze`,
`Shutdown` and `Quit` are commands; `Work`, `OtherStep`, `LeaderExits` what processes
do; `Deadline`, `Monitor` and the four `Complete...` actions what the runner does, in any
order, also long after a shutdown; `Answer` a prompt answered late, perhaps when
another job runs.

What is abstracted: validating a document, resolving a path, writing and spawning
succeed or fail. A `vim.ui.select` that raises after it answered yes is left out
(it would leave the job behind, and the report would stay busy). When Neovim is
killed instead of quitting, nobody enforces the deadline any more.

### Collector

Lua runs one callback, command or deferred function at a time, so each is one
step, and the interesting part is what order they come in and which call inside
fails. Operations are sets of outcomes (the collector afterwards, and whether
the operation returned, returned false or raised), composed with `Then` where
the code checks the result and `Anyway` where it ignores it; assignments before
an error stay, as in Lua. `OnKey` is the callback with `_in_callback` set,
`RunDeferred` a function given to `vim.schedule`, tagged with its epoch; `Start`,
`Resume`, `Pause`, `Stop` and `Flush` are the commands. `Write` is
`SessionStorage:write` with its partial writes. Keys are numbered in the order
typed, so that events are sets of keys and loss, repetition and order can be seen.

What is abstracted: event sizes (the queue's limit is its number of events, and
a sequence is one event), times (`sequence_timeout_ms` elapses or not), several
keys in one callback, the readiness of the mapping resolver (it answers or not;
see `MappingResolver`).
The steps inside `finish` are in `SessionDirectory`; here it fails before or after
publishing. `vim.schedule` never runs a function inside a callback and never
fails, so SCHEDULER_CONTRACT_ERROR does not occur. The failure of `open_session`
leaves the collector as it was and is no step.

### MappingResolver

`live` is what is mapped, globally or in a buffer, and changes at any time (`Remap`),
as does the current buffer; `baseline`, `owner` and `dirty` are the resolver's fields,
`ready`, `needed` and `scheduled` the collector's. `PrimeResolver` lists a buffer,
`TypedKey` resolves a key against the listing and what `maparg` says now, and
`FoundStale` asks for a refresh, which `RunDeferred` performs unless its session is
over. The commands are those of `Collector`, reduced to what they do here.

What is abstracted: left-hand sides are canonical, different keys are different
mappings, one mode's mappings do not change while a key callback runs.

### SessionDirectory

`dir` maps names to files; a file is its whole identity (session, size,
modification time, owner). `proc[w]` is a Neovim with its process ID and the
stage of its session; `job[w]` is the retention pass or purge it is in, with the
inventory and what it decided. Steps are single calls: reserve, claim, create,
write, publish, prune, unlock, sync; scan, judge, move, verify, unlink, restore. A
process does one thing at a time, processes interleave anywhere, `Crash` kills
one and its process ID may be used again, `Edit` changes a published log, and
`Tick` advances the clock.

What is abstracted: a directory listing with the inspection of each entry is one
step, and so is reading all locks; a preview and the user's answer are one step
with the judgement, and "cancel" also stands for an empty or oversized list. Nonces
are fresh, session IDs are never used again, directories are not replaced; legacy
names, ownership and mode checks and the counts of messages are left out. A
call of `finish` that fails without a trace is a stutter. Skipped and failed
targets have the same effect.

## Runs

| Run | What it shows |
| --- | --- |
| `pair_shared` | one process uses in turn two pairs with a common summary, two crashes, one failing call of begin, replace, commit, rollback or recovery: the code implements `AtomicPairs` (`PairIsAtomic`, with `LogicalValue` as refinement mapping), the backup a rollback needs exists, no artifact disappears, recovery never finds contradictory sidecars, a run that ends leaves no journal |
| `pair_overlap` | two processes with disjoint locks recover the two halves of one interrupted run: they reach one decision and the result is atomic |
| `pair_edits` | two processes, one pair, an edit at any point, two failing calls: a run that gives up keeps the edit |
| `pair_blocked` | violated: after a crash no later run may get past what it left (an index with two links; a backup nothing names) |
| `locks` | two runs and four outputs: the code implements `ExclusiveOutputs`, a waiting run holds only smaller inodes, every started run ends |
| `report` | reports and analyses with shutdowns, quits, hanging, failing and forking processes and late answers: consent, generations and process groups as above, and every job ends |
| `analyze` | all key sequences of up to four keys, pairs of telling logs, snapshots, command lines and suggestions, and a directory that changes: the whole listing is counted exactly, every total, histogram and ranked list; failures blame the right log, payloads and suggestions agree with the logs |
| `collector` | key callbacks, commands and deferred writes in any order over up to two sessions, one failing call: what is published is valid, keys are written once, in order and never lost silently, a waiting batch is written |
| `collector_retry` | violated: after a failed write the retried batch is not the same (a key joins it under `flush()`; control-key counts are emitted again) |
| `mapping` | keys, commands, remapping and buffer changes, one failing call: a recorded use is of the mapping in effect, a refresh asked for is tried |
| `retention` | two processes, three sessions, a crash, a failing call, budget of one deletion: live sessions keep their files, a successful pass has converged |
| `purge` | two purges against sessions and retention passes, a crash, reused process IDs, an edit, a write: live sessions keep their files, nothing stays hidden, nothing is destroyed but what was seen |

### Bounds, and why they are enough

Every counter is bounded by a constant named in the configuration.

* *Pairs.* Sharing an output is what makes recovery hard: one run recovers
  another pair's transaction. Two pairs with a common file, and three of which
  one overlaps both others, are the two ways that happens. Two crashes let
  recovery be interrupted and recovered; three versions are an old pair and two
  runs on top of it. Two faults in one step break `PairIsAtomic`,
  `RollbackIsPossible` and `OutputStaysPublic`: if both syncing the active marker
  and removing it fail, a stale marker stays. Those three are therefore checked
  with at most one fault; the proofs show that any number of faults in different
  steps does no harm. A last look at an output that fails (`FailVerify`) is to the code
  the same as an output that changed, so it is counted as an edit: it happens in
  `pair_edits`, not in `pair_shared`, which has no edits.
* *Collector.* A queue of three and three buckets of which two fit reach all
  four cases of a batch: it fits, it fits in part, only the reserved place is
  left, it exceeds the limit. Two sessions are what a deferred write can outlive;
  four commands allow start, pause, resume, stop and start, stop, start, stop,
  and one failure with its retry. Both errors of aggregation and every retry point
  of `stop` are reached. With two failures the same properties hold (some 400,000
  states); the configuration has one to keep the run short.
* *Session directory.* Three sessions with `max_sessions` one make a pass run out
  of its budget with logs left; two processes are enough for every race between
  two deleters or between a deleter and an owner; one process ID fewer than
  processes over time makes it be used again. Two sessions are enough for a purge
  because targets are dealt with one by one.

* *Locks.* Two runs are enough for a circle of waits; four outputs over three paths
  and two entries give a pair opened in opposite orders, one path for two
  outputs, and two paths for one file. Two deletions let a run lock a file whose
  name is gone while another creates it anew; four inodes are never the limit.
  The theorems hold for any number of each.
* *Report.* Three generations are two jobs with a shutdown in between, or three
  jobs; a late callback can meet any job after its own. Three publications change
  the summary between preview, confirmation and rendering.
* *Analyze.* Four keys reach every case of a run of keys and a count prefix
  (`0` alone or after a digit, a digit after `0`, another key in between). Pairs of logs
  make one validator and one budget of four items and thirteen bytes serve both;
  one item and one byte more or less occur. The lists are cut at two: logs with three or more
  keys, mappings, control keys, repeated keys and motions, with ties between them, make
  each list leave something out by each part of its order. Three directory entries, two inputs
  and two changes put each limit and each race between listing and opening in
  reach.
* *Mapping.* A mapping, a longer one and one that cannot be canonical, two
  buffers and an excluded one; one change and one failure are what a baseline
  meets; two sessions are what a deferred refresh can outlive.

Deadlock is not checked: all systems stop when their bounds are used up.

### Fairness

* `Collector` and `MappingResolver` are weakly fair in running deferred functions:
  Neovim's event loop runs everything given to `vim.schedule`. Nothing is assumed
  of the user, of keys or of other calls.
* `ReportLifecycle` is weakly fair in the deadline timer, the monitor timer and
  exit callbacks: the event loop runs them. Nothing is assumed of the processes,
  which may hang, nor of the user, who may never answer; `EveryJobEnds` therefore
  speaks of jobs, not of prompts.
* `OutputLocks` is weakly fair in the steps of each run: a started process goes
  on, a publication ends, and `flock` gives a lock that stays free to the one
  who waits for it.

The other specifications state no fairness: a crashed analyzer or Neovim may never
come back, and everything promised is then promised of the next step anybody takes.

## Proofs

The theorems hold for every value of the constants that satisfies the assumptions
of the module: any number of processes, outputs, runs, names, mappings, crashes,
failures and changes. The assumptions only say what the constants are.

| Module | Theorem | States | Assumes |
| --- | --- | --- | --- |
| `PairPublication_proofs` | `InductiveInvariant` | `Spec => []IInv` | `PairsAssumption`: a pair has two different outputs; `BoundsAssumption`; `NoneAssumption` |
| | `TypeCorrect` | `Spec => []TypeOK` | |
| | `OneDecisionHolds` | `Spec => []OneDecision`: no transaction is both committed and rolled back | |
| | `LocksExclude` | `Spec => []Exclusive`: processes past their locks share no output | |
| | `JournalInvariant` | `SingleFaults => []JInv`, where `SingleFaults` is `Spec` without steps in which two calls fail | the same |
| | `RollbackStaysPossible` | `SingleFaults => []RollbackIsPossible` | |
| | `VersionsInvariant` | `SingleFaults => []VInv` | the same, and `MaxEdits = 0` |
| | `PairsAreAtomic` | `SingleFaults => PairIsAtomic`: `PairPublication` implements `AtomicPairs` | |
| | `OutputsStayPublic`, `JournalStaysCoherent` | `SingleFaults => []OutputStaysPublic`, `SingleFaults => []JournalIsCoherent` | |
| | `RunsEndClean` | `SingleFaults => RunEndsClean`, of steps | |
| | `AbortsKeepEdit` | `SingleFaults => []AbortKeepsEdit` | `MaxEdits <= 1` instead |
| `OutputLocks_proofs` | `TypeCorrect` | `Spec => []TypeOK` | `LockAssumption`: each output has a lock path, each path an entry |
| | `NoCircularWait` | `Spec => []WaitsIncrease` | |
| | `LocksExclude` | `Spec => OutputsAreExclusive`: `OutputLocks` implements `ExclusiveOutputs` | |
| `AnalyzeCommand_proofs` | `TypeCorrect` | `InputSpec => []TypeOK` | `InputConstants`: names are numbers, in the order of their bytes |
| | `SuccessReadsTheListing` | `InputSpec => []WholeListing` | |
| | `CommandKeepsInputs` | `Spec => InputSpec`: whatever the logs say, the command handles its inputs as `SessionInputs` does | `ScenarioTypes`: a scenario is well typed |
| | `CommandTypeCorrect`, `PublishedReadsTheListing` | `Spec => []TypeOK`, `Spec => []WholeListing`, through the refinement | |
| | `CommandInvariant` | `Spec => []CInv`: what is known of the logs read so far | the same, and `AggregationConstants`: each token has a size and one place in the order, limits are numbers; `HashAssumption`: mapping IDs are well formed and do not collide |
| | `BlameIsExact` | `Spec => []FirstBadInput` | |
| | `PublishedSummaryIsExact` | `Spec => []SummaryIsExact` | |
| | `ObservedComesFirst` | `Spec => []ObservedFirst` | |
| | `AcceptedConflictsAreKnown` | `Spec => []ConflictsAreKnown` | |
| | `PreviewAcceptsPublished` | `Spec => []PreviewAcceptsAnalysis` | `ContractConstants`: the limits of the payload are numbers |
| `Aggregation_proofs` | `ObserveExact` | an accumulator that is exact for some events is exact after one more | `AggregationConstants`, `ScenarioTypes` |
| | `BudgetExact` | the budget is exceeded exactly when the stock of a log does not fit | |
| `MappingResolver_proofs` | `TypeCorrect` | `Spec => []TypeOK`, of which "attribution is on only with a fresh baseline" is a part | `ResolverAssumption` |
| | `UsesAreLive` | `Spec => []AttributionIsLive` | |
| `ReportLifecycle_proofs` | `Consistent`, `TypeCorrect` | `Spec => []IInv`, `Spec => []TypeOK` | `ReportAssumption`: there is a first summary; `None` is nothing else |
| | `LiveGroupsAreShown` | `Spec => []LiveGroupIsTheJob` | |
| | `CodexIsConfirmed` | `Spec => []CodexSendsTheShownPreview` | |
| | `SuggestionsAreConfirmed` | `Spec => SuggestionsFitConsent`, of steps | |
| `SessionDirectory_proofs` | `Consistent`, `FilesAreAccounted` | `Spec => []IInv`, `Spec => []HInv` | `RetentionAssumption`: finitely many processes, session IDs are numbers; `NoneAssumption` |
| | `TypeCorrect` | `Spec => []TypeOK` | |
| | `LiveFilesStay` | `Spec => []LiveSessionKeepsFiles` | |
| | `DeletionsWereSeen` | `Spec => DeletesOnlyWhatItSaw`, of steps | |
| | `HiddenAreOwned` | `Spec => []NothingStaysHidden` | |
| | `PassesConverge` | `Spec => RetentionConverges`, of steps | |
| `Collector_proofs` | `Consistent`, `TypeCorrect` | `Spec => []IInv`, `Spec => []TypeOK` | `CollectorAssumption`: an empty queue has room for all control-key buckets (both limits are 1024) |
| | `KeysWrittenInOrder` | `Spec => []WrittenOnceInOrder` | |
| | `LossIsReported` | `Spec => NothingLostSilently`, of steps | |
| | `LogsAreAccepted` | `Spec => []PublishedIsValid` | |

### PairPublication

`OneDecision` is not inductive: whether a process may link a decision depends on
what it read earlier. `IInv` adds what the code relies on. `Exclusive`:
processes in recovery or publication have disjoint outputs. `OwnMarks`: at each
control point, which markers of its own pair are absent; nobody else writes them
because that takes one of its locks. `IndexRead`: a process that follows an
index holds the lock of the output the index lies beside, and the index is of a
pair that uses this output (`IndexOwned`). `ReadMarks`: a marker read as absent
through that index is still absent, because whoever could commit that pair needs
the same lock. `Unsealed`: a sidecar linked and not yet sealed is still there.

Each action has a lemma for the part of the state it can disturb; `Touches` says
once what one step of a process leaves alone, and the other processes' part of
the invariant follows from it. `InitSafe` and `NextSafe` combine them.

### PairPublication: the journal

`RollbackIsPossible` needs to know what the sidecar files say of each other. `JInv`
adds to `IInv`, for each pair, that its markers are links to one file (`OneInode`),
that its indexes and markers are of one transaction (`Agree`), that an index which
recovery would roll back by has its backup (`Backed`), that nothing is kept of an
output that did not exist (`Unbacked`), and that an active marker alone stands for
both indexes (`ActiveNamed`). A process relies on files it wrote or read some steps
ago, so `JInv` also says for each program counter what is true of them now: of the
markers (`Choice`), indexes (`OwnIndexes`) and backups (`OwnBackups`) of its own pair,
and of the index it follows and the markers it read through it (`IndexKnown`,
`ReadMatch`). That recovery never meets a contradiction between two of them, a missing
backup, or a backup where none should be, is a part of it (`Fine`).

Which sidecars a step changes is said once: only those of one pair and only beside
outputs whose locks the process holds (`Only`), or gently, so that nothing another
process knows is lost (`Gentle`). Each action has a lemma that follows its own
process from one program counter to the next.

`OneFaultAtATime` is needed: if a beginning transaction fails to sync its active
marker and, in the same step, to remove it, the marker stays without backups (see
Bounds). Otherwise any number of calls may fail, one after the other, while runs begin and
replace; crashes and edits are not bounded either.

The second part is about versions, until somebody edits an output behind the locks:
an edit changes what a reader sees, and no publication protocol can undo it. `VInv`
holds until then; its theorems assume `MaxEdits = 0`. It adds to `JInv`:

* of an output and the index beside it: a transaction without any marker has not
  replaced the output, so a backup it made is that output (`Whole`); a transaction
  that will be rolled back never takes away an output it found (`Shown`);
* of a process: the versions it captured or put are still the ones in place
  (`Holds`), because whoever could change them needs one of its locks;
* of a staged version: no output, no backup and no other process has it before it
  is put (`Fresh`), so that the commit changes both outputs to something new;
* no run aborts and no recovery stops at a half-done transaction (`Quiet`), which is
  what `JournalIsCoherent` adds to `Fine`.

`PairIsAtomic` is then a step simulation. A step of a process can change what a
reader relies on only at the outputs it holds the locks of (`Focus`, `Within`), and
it puts only versions there are (`Copying`, `Proceeds`, `Passes`). For an output in focus there
are few kinds of change, each with a lemma that what a reader may rely on stays:
there is no index beside it (`Bare`); its index goes while it is what the index asks
for (`Forgotten`); nothing it depends on changes but a marker that says again what
was decided (`Unmoved`); a backup goes that nobody is to restore (`Released`); the
output itself changes while its backup is what counts (`Replaced`); backup and
output are one version, whatever the sidecars say (`InPreparation`). Each action but
one is one of these for both outputs (`...Unnoticed`). The one is the link of the
committed marker (`CommitNoticed`): before it a reader relies on the backups, after
it on the outputs, and that is `AtomicPairs!Publish` of the pair.

The third part is about the one edit of `AbortKeepsEdit` (with two, the second may undo
the first). The edit ends `VInv`: what the edited output holds is no longer what any
process captured or put. `Late` keeps what does not depend on that: staged versions are
fresh; a report that is not replaced yet is not what its run staged; and a run that
gave up is on the path that takes only sidecars away, and some output of its pair is
neither its own version nor the one it captured (`Gave`). `VInv` holds until the edit
and `Late` from then on (`AInv`): `EditLate` and `UnreadLate` are the step from one to
the other, `LateNext` is every later step.

### OutputLocks

That two runs inside share no output does not follow from what locks are held: a
run could hold the inode of a deleted lock file. `IInv` says what rules that out.
`Names`: an open inode has one possible entry. `HeldApart`: an inode has one
holder. For each run, `Covered`: each output's path is still to do or open;
`Phases`: what is held at each control point; `Ascending`: what is not yet locked is
greater than what is; `Verified`: a locked inode still has a name, except the last one
before its second look. Nobody removes a locked file's name, so `Verified` stays.
`NoCircularWait` is `Ascending`; `LocksExclude` shows that each step of the lock
protocol enters, leaves or stutters in `ExclusiveOutputs`.

### SessionInputs and AnalyzeCommand

`WholeListing` speaks of the end; `IInv` of every step: each listed name is an input,
still to do, or has been seen to stand for a file that is not private (`Scanned`);
inputs are distinct files (`Distinct`), what is read is what was resolved (`Reread`),
and no input is an output once they were checked (`Phases`). Names are
numbers, so a least one still to do exists (`LeastIn`). `AnalyzeCommand`
adds variables and conditions to the steps of `SessionInputs`: each of its actions
implies one of theirs, and the theorems carry over.

### Aggregation

The code folds: maps of counters with one shared budget, and runs and count prefixes
found by one pass over each sequence of keys. The properties count: how many positions of
the logs have this key, how many maximal intervals repeat it, how many digits precede
an operation. `Exact` says that an accumulator and a log agree, on the counters (`Accounted`)
and on the histograms (`Charted`, by `HistogramGrows` and `ObserveCharts`), and
`ObserveExact` that one event more keeps it so, for each kind of event.

No induction theorem of the library can be used, so induction is over the subsets of
an interval (`RangeInduction`): what holds at 0 and is passed on along 0..N has no least
exception. `FoldValue` gives a fold a table of its intermediate values, and each fold of the
model gets a lemma about that table: for counters (`CountFold`), for runs (`RunFold`, then
`RunIsMaximal` and `MaximalIsRun`: the runs found are the maximal intervals), for count
prefixes (`CountingStep`, `PrefixesCounted`). Sums over sets are taken apart one element
at a time (`WeightAdd`, `SizeSum`); a log that grows by an event adds to each set of
positions exactly those of the event (`OfAppend`, `RunsAppend`, `DigitsAppend`).

The budget is the hard part, for once an item was refused the counters no longer
agree with the log. `Stocked` relates an accumulator to the *stock* of a log, the four sets of
distinct items: without an error they are the keys of its maps and fit; with one,
they do not fit or something in the log is bad. Stocks only grow, so this is kept by items
that come later, and in whatever order they came the error is there exactly when the whole
stock does not fit (`BudgetExact`).

### What the analysis publishes

`CInv` adds to the inputs' invariant what is known of the logs read so far (`Judged`): all
but the last are correct, the validator and the accumulator are exact for all their
events, and the first log that went over the budget is remembered. Correctness of a log
is about its events one by one (`Regular`, `Good`); `ReadEventsEnd` shows that the
validator, a fold, accepts exactly those. `FirstBadInput` follows.

The other properties are of what is made of an exact accumulator. The orders the code
sorts by are strict and total (`LessOrder`, `MappingTransitive`, `CandidateOrdered`), so a
sorted sequence is unique (`SortedUnique`) and a cut at a limit is the set of those with
a rank below it (`RankedIs`, by an injection of ranks into 1..n). Then:

* `SummaryIsExact` has two parts. `TalliesAreExact`: each total, histogram and tally is a
  count of positions of the log, by `Exact` and, for the mappings, by what
  `build_mapping_attribution` makes of the counters. `RankedListsAreExact`: each of the
  five lists sorts by a strict total order of its own and holds those with a rank below
  its limit, so all that belongs before something shown is shown, and nothing is left
  out while there is room (`TopLeads`). The cut of the candidates is `ObservedFirst`, the
  rest of the attribution `PreviewAcceptsAnalysis`.
* `ObservedFirst`: repeated motions rank before the other kinds, so a mapping that was
  only not seen is a candidate only after all of them (`MotionsFirst`, `MotionCut`).
* `ConflictsAreKnown` and `PreviewAcceptsAnalysis` need that a snapshot is rebuilt from the
  attribution of the summary as it was (`ReconstructIs`): entries are in another order and
  merged with those not in the snapshot, and the snapshot is the one valid sequence
  of the same mappings.
* `PreviewAcceptsAnalysis` also needs that a published summary is within every limit of the
  payload (`RankedShort`, `EntriesCounted`, `ShadowingShort`) and that each reason for a
  refusal besides the size is a token or an ID that must not leave (`AttributionLeaves`,
  `ListsLeave`).

### MappingResolver

`BaselineIsTaken`: the baseline is the listing of its owner at the time it was taken.
An entry that is not ambiguous then collides with nothing that was visible then
(`UnambiguousThen`); with the check of the owner and `maparg` this gives
`AttributionIsLive`.

### ReportLifecycle

What happens in the report depends on callbacks that come late, so `IInv` is about
generations. A process or a prompt left over has an older generation than the
report; a live process of the current generation is the job; what a prompt is
about is still what the preview shows (`Asked`), and what a process of the current
generation was started with was shown and confirmed (`Sent`). The code compares
generations before it does anything, so leftovers change nothing.

### SessionDirectory

`LiveSessionKeepsFiles` must hold against passes and purges that act on
inventories of any age. A session is *held* while its reservation must be
respected; `IInv` says that it keeps its lock, with the ID of a living process or
still empty and with no other file written, that every inventory listing a file
of a held session lists its lock too (a session can only become held under an ID
no inventory knows), and that nobody is about to rename such a file. Quarantine
names are fresh, which gives `DeletesOnlyWhatItSaw`: what is unlinked is the file
that was moved there.

`NothingStaysHidden` and `RetentionConverges` need to know where files are, a second
invariant `HInv`: one file of each session and kind, in place or hidden (`Unique`);
none of a held session hidden (`Aloof`); each hidden one owned by a job that is in
the middle of it, unless a crash, a failure or an edit came between (`Hiding`); what a
job has dropped from its inventory is gone, as a log in place comes from its one
session before that log is listed, or from its quarantine name (`Tidy`, `Calm`,
`Moved`).

### Collector

Each operation is a set of outcomes, so each has a contract that its composition
keeps: `Preserves` (the session stays in order, nothing it keeps is lost unless it
reports the limit), and the weaker `Heard` and `Hears` for parts of the callback,
`Closes` for parts of `stop`; the lemmas `...InTurn` compose them as `Then` and
`Anyway` do. The invariant is about `Trail`, the file followed by what is unwritten of
the queue: it is the log of one session so far (`OneSession`), in order, before the
keys in memory (`InOrder`). A write that fails half-way moves events from the queue
to the file and leaves `Trail` as it was, which is why a retry neither repeats nor
skips. At most one of the sequence and the text run is open, in the mode of the
last key (`OneOpen`, `ModeLink`): without it the two could be queued in the wrong
order.

`PublishedIsValid` is about what the validator, a recursive function over the
logs, makes of them. `AcceptsComplete` proves for sequences of any length that
complete logs of different sessions are accepted; the induction is an argument by
the least position at which the validator could differ (`LeastOf`, from the
well-foundedness of the naturals), for the library's induction theorems cannot be
used. The queued control-key counts are a sorted sequence, whose existence is
shown in the same way (`AscendingExists`).

### Only model-checked

Liveness under fairness: `EveryRunEnds`, `EveryJobEnds`, `PendingIsWritten`,
`RefreshIsTried`. TLAPS has no rules for `ENABLED`, on which fairness rests. Every
invariant and every property of steps of the passing runs is proved, and so are the
three refinements, under the assumptions of the table.

## Disagreements between code and documentation

The two violated runs are listed with their lines under `findings` in
`PROJECT.json`. Each stands for two behaviours; TLC prints the shorter one:

* `pair_blocked`: a crash leaves an index with two links, which no run accepts; or
  a crash leaves a backup nothing names, which blocks every run once another pair
  replaced the shared output.
* `collector_retry`: under `flush()` a key joins the batch being retried; or the
  control-key counts are emitted again because they are cleared only after a
  write that failed.

Others met while reading or modelling, without a run of their own:

* A run that finds the report changed after it replaced the summary fails and
  leaves the new summary (`cli/publication.rs:857`); `docs/analyzer.md` says that "if
  either publication fails, the CLI rolls back both destinations".
* `docs/analyzer.md` says the two locks are taken "in stable path order"; the code
  sorts them by file identity (`prepare_anchored_locks`), which is what makes the
  order the same for paths that name one file in two ways.
* Two retention passes that overlap may leave fewer than `max_sessions` logs: A
  lists logs 1 (its own), 2 and 3 and deletes 2; B listed all three as well, finds
  the reservation of 1 released and deletes 1. `docs/storage-retention.md` says a
  pass removes entries "until at most `max_sessions` remain", which holds for each
  pass (`RetentionConverges`) and gives no lower bound for two.
* `docs/input-aggregation.md` says that at the queue's limit the batch and "any
  unpublished aggregate tail are dropped together"; `_queue_many` drops the
  sequence and the text run but keeps the control-key counts.
* When pruning and then the directory sync of a `finish` fail, the repeated
  `finish` prunes again though its reservation is released by then: meanwhile its
  own log is protected from its own pass only, no longer from other processes.
* `docs/mapping-attribution.md` says that start, resume and an explicit flush
  establish a fresh baseline. In an excluded buffer (a terminal, a dashboard), or
  when listing fails, they do not, and do not ask for a refresh either
  (`_mapping_reprime_needed` stays false, `lua/collector.lua:549-570`): nothing is
  attributed until the next flush or resume. A public flush that raises leaves
  attribution off in the same way.
* It also says that a mapping added after the last baseline "may miss its first
  observation". It misses all of them until something else makes the baseline
  stale: keys that spell no listed mapping do not mark it
  (`lua/mapping_resolver.lua:257-260`). A longer mapping added later does not make a
  listed one ambiguous; `AttributionIsLive` says so by speaking of `taken`.
* A key or mapping with a backslash gets into a summary that `preview` refuses,
  as do mapping IDs that are not well formed; `PreviewAcceptsAnalysis` names the
  tokens and IDs as the only reasons besides size.

## Not modelled

* Spelling: key tokens and canonical forms, JSON, Markdown, option syntax, the
  names of sessions, the hash of mapping IDs. Where a property depends on one, a
  constant says which values are good.
* Configuration, schema checks and the wiring in `lua/init.lua` and `lua/commands.lua`:
  no state of their own; the guards between report, purge and session are in the
  modules they guard.
* `run_codex_exec` (`cli/codex_exec.rs`), a library function with two reader threads, a
  writer thread and a deadline that neither the command line nor the plugin calls:
  the plugin starts Codex itself (`ReportLifecycle`).
* Output capture of the process runner, and Windows.
* Random names of staged files and their scavenging; directories that are moved
  while a pair is published; legacy artifact names.
* Mappings that change mappings before the key callback reports the key, and two
  left-hand sides with one canonical form.
* The maintainers' scripts.

`PROJECT.json` gives the reason for each component.

## Plan

Done: paired publication, its locks, the inputs and the analysis, the report's
jobs, the collector, the mapping resolver, the session directory; proofs of all their
safety properties.

Left: `SessionInputs` composed with `SessionDirectory` instead of its own model of
what others do to the directory.
