# kbsync in TLA+

kbsync copies tables from one KingbaseES database to another, completely
(`full`) or from a checkpoint (`incremental`). This directory holds TLA+ models
of its core logic, the TLC configurations that check them on small instances,
and TLAPS proofs of the main safety properties for all instances. Paths below
are relative to `src/`; `syncer.go` and its neighbours are in
`internal/syncer/`.

- [The system](#the-system)
- [Modules](#modules)
- [Runs](#runs)
- [Fairness](#fairness)
- [Proofs](#proofs)
- [Findings](#findings)
- [Assumptions and what is left out](#assumptions-and-what-is-left-out)
- [Plan](#plan)

## The system

One process runs one command and ends. Its parts meet in a few places only: the
source database (which keeps changing), the target database, the state file, and
the context that cancels everything.

| Part | State | Operations | Talks to |
|---|---|---|---|
| Commands `full`, `incremental`, `schema` (`syncer.go:84-281`, `cli/root.go:73-153`) | the stage they are at, the levels, the result | open the databases; plan, prepare, clean, copy, foreign keys, indexes; or plan, prepare, foreign keys, page loops; or prepare only; write the metrics, close | the worker pool, once per level and stage |
| Worker pool `runMappings` (`syncer.go:321-366`) | the job channel, `table_parallelism` goroutines, first error, derived context | take a table, act, record the first error, cancel, wait | the action of the stage; the command's context |
| Database handles (`database/sql`, `max_open_conns`) | connections in use, of the source and of the target | give, wait, give back | every action |
| Dependency planner (`dependencies.go:21-98`) | foreign keys read, tables remaining, levels | read the foreign keys of each table, make the levels, report a cycle | source catalog; its levels drive the pool |
| Page loop with a key (`syncer.go:368-455`) | page, batch number, checkpoint | read a page, stage it and upsert it in one target transaction, advance the checkpoint, flush | source snapshots, target transactions, checkpoint store |
| Page loop without a key (`syncer.go:457-669`) | cursor values, batch number, checkpoint | read cursor values, read their rows, delete and copy the groups in one target transaction, advance, flush | the same |
| Checkpoint store (`syncer.go:283-319`) | map of checkpoints, dirty flag, mutex | update, flush | shared by the page loops of all tables of a level |
| State file (`state.go`) | the file, a temporary file | load; create, chmod, write, fsync, close, rename | other invocations, the file system |
| Full copy (`syncer.go:142-229`, `dependencies.go:101-138`, `foreign_keys.go:63-106`) | target tables, transactions, the target's foreign keys | empty all targets; copy each in a transaction; add the foreign keys | pool, source snapshots, target |
| Structure (`metadata.go`) | target catalog; what was read of both catalogs | create schema, sequence and table; alter columns; compare keys; create indexes | source and target catalogs, several workers at once |
| Progress, metrics | bars, tables with errors, counts | begin, finish, fail; record, write the file | pool, actions, the end of the command |
| Configuration and options | none after the start | parse, validate | |
| Driver `third_party/kingbase.com/gokb` | connections, COPY state, cancel requests | | every database call |

What makes it hard, and what is right when it works:

- *Page loop and store.* A crash, a kill or an error falls between the commit
  in the target, the update of the store and the save of the file. Tables share
  the store, so the flush of one table saves the checkpoint of another in the
  middle of its loop. The source changes between the read of a page and its
  commit. Rows with equal cursor values are cut by page boundaries. Right means:
  a checkpoint never claims a row that is not in the target, replay never undoes
  anything, the file never goes back, the target catches up.
- *Loop without a key.* The values and the rows are read by two queries, and
  nothing in the target rejects a duplicate. Right means: no row behind the
  checkpoint is missing and none is there twice.
- *State file.* Saving takes six steps, any of which may fail or be the last one
  before the power goes. Cron may start an invocation while another runs; each
  loads once and saves all it has. Right means: the file can always be read, it
  claims only what is in the target, overlapping invocations cost no more than
  repeated work.
- *Pool and commands.* Cancellation by an error and by a signal, `select`
  between two ready cases, errors of siblings that are only echoes, workers that
  hold a connection while they wait for another, a reporter that waits for every
  bar at the end. Right means: levels and stages stay in order, nothing runs
  after the return, the cause is what is reported, success means that everything
  was done, nobody waits for ever.
- *Structure.* A run may stop between any two statements and the next one finds
  what it left; several tables of one schema are prepared at once; results may be
  cut short. Right means: success is alignment, nothing aligned is taken back, the
  target is never asked for something that needs what is not there yet.
- *Full copy.* Each table is read in a snapshot of its own; the targets are
  emptied long before they are filled; foreign keys come after the data, but stay
  for the next run. Right means: success leaves what was read and no dangling
  reference, a table is copied in whole or not at all, a run repairs what a failed
  one left, foreign keys never refuse the order of the statements.
- *Planner.* Any graph of foreign keys, results cut short, mappings that share a
  source table. Right means: parents come earlier, each mapping once, as few
  levels as possible, reported cycles are real.

`PROJECT.json` lists the hazards with their lines, and for each the properties
that would notice it, or why there is none.

## Modules

| Module | What it is |
|---|---|
| `Replica` | abstract: a copy that only goes forward, a claim that covers it |
| `IncrementalSync` | the keyed page loops, store, file and invocations; implements `Replica` |
| `NoKeyIncremental` | the loop without a key |
| `CheckpointFile` | abstract: a file that is replaced as a whole, and how it is used |
| `StateFile` | `loadState` and `saveState` step by step; implements `CheckpointFile`, which both loops use |
| `SyncStages`, `SyncCommand` | the commands, the pool of workers, the connections, the end of the process |
| `StructureSync` | `prepareStructure` and the indexes, statement by statement |
| `FullSync` | what `Full` does to the data |
| `DependencyPlan` | the levels |
| `MC*` | constants for TLC |
| `*Proofs` | the proofs; those of the two loops and of `StateFile` have the refinements |

**IncrementalSync** is the keyed incremental synchronisation as a whole: the
source's write transactions (external), the page loops of any number of tables,
the shared store, the file, the target, and successive invocations that return,
fail, are interrupted or are killed. The code and the model correspond as
follows.

| Code | Model |
|---|---|
| `buildIncrementalQuery`, `readBatch` | `RowsAfter`, `IsPage`, `ReadPage`: rows after the tuple (cursor, key), in order, at most `BatchSize`, in one snapshot |
| `BeginTx`, `stagingUpsert`, `Commit` | `CommitPage` (the server has committed, the process has not yet heard), `WriteFails` (an error; after an error of `Commit` the page may be there or not) |
| `store.update` | `UpdateStore`, which also counts the batch and chooses where the loop goes |
| `store.flush` under its mutex | `Flush`: if dirty, the whole map to the file at once |
| the flush every `checkpoint_every_batches` | `FlushBatches`, `FlushBatchesFails` |
| the deferred flush and the return to `runMappings` | `Return`, `ReturnFlushFails`; an error cancels the other tables |
| signal context in `main.go` | `Interrupt` |
| `loadState` at the start of `Incremental` | `Invoke` |
| the end of the process | `EndRun`, `Kill`: everything in memory is lost |

`pc[t]` is the place in the loop of table `t`. `unsaved` is a history variable,
for `BoundedReplay`: a committed batch counts until a flush writes a store that
has it. A task may start at any time while the process runs; `SyncCommand` has
the workers. What holds here therefore holds for every `table_parallelism`.

**Replica** is what its users may rely on, without pages, batches, invocations,
workers and failures: the source changes beyond the claim (`Change`), rows are
copied but never over newer ones (`Apply`), the claim moves over rows that are
copied (`Claim`). In `IncrementalSync`, `now` is the source, `copy` the target and
`claim` the file.

**NoKeyIncremental** is the loop for one table without a key, in the same
style. Here the rows have identities that the program cannot see, and the target
is a bag of row versions (`tgt[r][c]` copies). `ChooseValues` and `SelectRows`
are the two queries, `ReplaceGroups` the DELETE and the COPY.

**StateFile** has a process per invocation. `SaveSteps` are the steps of
`saveState`, done one at a time with the mutex held (`at[p]`), so that
`Update` waits; a `SaveFails` at any step removes the temporary file and leaves
the store dirty. `path` is the file under its name, `disk` the one that is there
after a power failure, until the file system writes the rename back
(`WriteBack`): `saveState` does not sync the directory. What is not synced
may come back torn (`LeftOf`). `committed`, `reached` and `floor` are what the
properties need to know of the target and of the past. 
**CheckpointFile** is the abstraction: `file` is the content under the name, and
saving is one step. It also says how the file may be used: loaded once by an
invocation, whose checkpoints then only move on (`Moves`) and are saved all
together. What a checkpoint says is a constant (`Claims`): pages in `StateFile`,
tuples in `IncrementalSync`, cursor values in `NoKeyIncremental`.

**SyncStages** gives the list of stages of each command, from `Full`,
`Incremental` and `Validate`; **SyncCommand** executes the list of the command
that was given: `Open`, then calls, and pools whose workers take tables from the
channel (`TakeJob`), leave by `ctx.Done()` or by the closed channel (`LeavePool`;
with both ready either is chosen), act, and record errors, then `WriteMetrics`
and `Close`. `Connections` lists what connections the action of a stage holds
one after the other; `Connect` waits for them under the limit and under a context
that is not cancelled. `EndBody` gives them back, with the result and the bar of
the table; `ActionFails` also has the deferred flush, which fails after the bar
has been finished. `Interrupt` is the signal.

**StructureSync** takes each table through `Steps`, with a worker of its own. A
worker acts on what it read (`read`, `seen`) and the target answers from what is
there: `Undefined` for a default whose sequence is missing, an error for what
exists already or is defined otherwise, or that the rows do not satisfy
(`misfits`: NULLs, equal keys, values that do not convert). The last refusal is
the same in every run until someone corrects the rows (`CorrectRows`, external).
Results of catalog queries may be cut short, and any statement may be the last
of its run (`Fault`).

**FullSync** is what `Full` does to the data, over any number of invocations:
`Clean` and `DeleteTable` are `cleanFullTargets` (one statement for `truncate`,
one per table for `delete`, from the last level to the first), `StartCopy` is the
query of a table with its snapshot, `CommitCopy` the transaction with the COPY,
`CopyFails` every way it ends otherwise, `AddKey` the part of
`reconcileForeignKeys` that is one table's, `Finish` the indexes. Structure is
taken as prepared. A row stands for its contents and refers to at most one other
row; the target is a bag of rows (`tgt[r]` copies), with the foreign keys `keys`
and primary keys on the tables `Keyed`; `Held`, `Accepted` and `Dangling` say
which statements these keys refuse. `disturbed` is a history variable: the source
changed or a call failed in this run.

**DependencyPlan** is `dependencyLevels` and `topologicalLevels`, over every
graph of foreign keys: `ReadForeignKeys` in any order (Go map order), a result
cut short (`ReadCutShort`), a query that fails, then one `NextLevel` per round of
the sort. Levels are sets of positions in the configuration; `MappingAt` is what
the code's map keyed by source table yields for a position.

How they fit together: `SyncCommand` says when an action runs, and the other
modules what it does. `DependencyPlan` makes the levels that `SyncStages` and
`FullSync` take as given: its theorems `Serves` and `Work` are what these assume of
them. `StructureSync` makes the structure that `FullSync` takes as prepared.
The file of the two page loops is replaced in one step and that of `StateFile` in
six; `CheckpointFile` is between them. That the loops use the file as it allows is
proved (`FileUse`, twice), and so is that `StateFile` keeps what it promises
(`Implementation`).

Each module has, before some definitions, faulty variants of them. They are used
only by the mutants of `PROJECT.json`: with one in place of the definition, TLC
must find the named property violated, which shows that the property depends on
the code doing what it does.

## Runs

| Run | Instance | Shows |
|---|---|---|
| `IncrementalSync_one` | 1 table, 3 keys, 3 transactions, pages of 2, flush every 2 batches, 1 fault; about 311 000 states | `FileCovered`, `StoreCovered`, `BoundedReplay`, `EventuallyCaughtUp`, and `ImplementsReplica` |
| `IncrementalSync_two` | 2 tables of 1 key, 2 transactions each, pages of 1, flush every 2 batches, 1 fault; about 110 000 states | `SuccessSaved`, `FileForward`, `RunEnds` where two loops share store and file and rows arrive while they run |
| `IncrementalSync_writers` | 1 table, 2 keys, 2 transactions, `SerialWriters = FALSE` | violates `EventuallyCaughtUp` (finding 2) |
| `NoKeyIncremental_all` | 3 rows, 3 transactions, 2 cursor values at a time, flush every 2 batches, 1 fault; about 569 000 states | `NoDuplicates`, `FileCovered`, `DoneBehindFile`, `EventuallyCaughtUp`, `RunEnds` |
| `StateFile_all` | 2 processes, 2 tables of 1 page, 1 failed step, 2 kills or power failures; about 54 000 states | `NeverTorn`, `FileBehindTarget`, `OverlapBounded`, `EventuallySaved`, and that the steps implement an atomic file (`Atomic`) |
| `SyncCommand_all` | the three commands, 4 tables in levels of 3 and 1, one of them without a key, 2 workers, no limit or 1 connection per database, `truncate`, progress on, 2 faults, a signal at any time; about 155 000 states | `ConnectsInOrder`, `NoActionAfterReturn`, `RootCause`, `SuccessIsComplete`, `ErrorsAreCounted`, `FullCopiedData`, `CommandReturns` |
| `SyncCommand_interrupt` | `incremental` with a signal | violates `SuccessCopiedData` (finding 1) |
| `StructureSync_all` | 2 tables of 2 columns and 1 index in one schema, one missing, the other missing or different in columns, key or index, with rows that NOT NULL and the unique index refuse until they are corrected, 1 fault; about 560 000 states | `SuccessIsStructured`, `RefusalIsExplained`, `SequencesCaughtUp`, `StaysStructured`, `EventuallyStructured` |
| `FullSync_all` | 3 tables in levels of 2 and 1, 5 rows, each strategy, 2 runs, 2 changes of the source, 1 fault; about 153 000 states | `SuccessIsSnapshot`, `SuccessIsIntact`, `CopyIsWhole`, `FailureHasReason`, `RunReturns` |
| `DependencyPlan_all` | every graph over 3 configured tables and 1 that is not, 1 lost or failed result | `ReadParentsEarlier`, `EveryMappingOnce`, `LevelsTight`, `CycleIsReal`, `PlanningEnds` |
| `DependencyPlan_lost` | 2 tables, 1 lost result | violates `ParentsEarlier` (finding 3) |
| `DependencyPlan_twice` | one source table mapped twice | violates `EveryMappingOnce` (finding 4) |

The type invariants are proved (`Typing` below), for all instances, and no run
spends its time on them. Other properties are proved and in no run because one of
these contains them, as `ImplementsReplica` does `TargetForward`, or because the
proof says all that a run could.

Why these bounds are enough for what they look at:

- Three keys and pages of two give full pages, a short last page, an exact last
  page (so that an empty page follows) and ties cut by a page boundary.
- Three transactions give an insert, an update of a row while its page is in
  hand, and one more behind a restart. `MaxCursor` bounds the transactions and
  is the only bound on the source. Two transactions for each of two tables: the
  second may commit after the loop has read the first, and so give the loop
  another page. With pages of one no page is short, so that only an empty one
  ends the loop.
- `Every = 2` has both flushes that are due and flushes that are not; the
  deferred flush comes after an odd number of batches and after an even one.
- A fault is an error of any call, an error of `Commit` that took effect, a
  failed flush, a signal or a kill; `MaxFaults` bounds them together. One fault
  falls between any two steps. The invocations after it are unbounded.
- Two invocations over one file are the fewest that overlap; two tables give
  checkpoints that differ in who is ahead; the second crash falls in the recovery
  from the first.
- Two full copies: the second meets the rows that the first left, complete, in
  part or doubled under `append`, and its foreign keys. Tables with and without a
  primary key, a reference within a table and one across levels. The five rows
  form every intact source. Two changes are what a dangling reference needs: a
  parent and then its child, both after the parents were read and before the
  children are.
- One connection per database is the tightest limit: with two workers, one holds
  the connection the other waits for. Two levels with more tables than workers in
  the first: a worker takes a second table, and a level starts after another.
- Two structure workers in one schema meet in every order; the first column is an
  identity or draws from a sequence, the second is plain; one fault stops a run
  between any two statements, and the runs after it are unbounded. Rows refuse a
  new column without default, SET NOT NULL and a unique index, and are corrected
  one kind at a time, at any moment. One value is drawn from the source's
  sequences, at any moment.
- Three tables have every shape of graph the sort distinguishes: independent,
  chain, tree, join, cycle, cycle with a tail, self-reference; the fourth makes
  references that are to be ignored.

`CHECK_DEADLOCK FALSE` appears in the runs of `SyncCommand`, `FullSync` and
`DependencyPlan`: a command that has returned, the last of `MaxRuns` full copies
and a plan that is complete have no next step. `CommandReturns`, `RunReturns` and
`PlanningEnds` say that they stop nowhere else. The other
runs check for deadlock.

`BoundedReplay` says *at most* `checkpoint_every_batches` batches may be
replayed. `PERFORMANCE.md:111` speaks of fewer than 10 for the default of 10;
the tenth batch is committed before the flush that saves it, and that flush may
fail.

## Fairness

`FairSpec` of `IncrementalSync` and `NoKeyIncremental` assumes weak fairness of

- the steps of each task: goroutines are scheduled and database calls return,
  with a result or an error;
- `Invoke`: the command is run again and again, as README.md:8 expects of cron;
- `SourceCommit`: write transactions of the source do not stay open for ever.

Nothing is assumed of faults: `MaxFaults` makes them finite, so that in the end
there are none, and the same holds for writes. `RunEnds` is checked for a source
with finitely many writes. For the keyed loop a source that never stops is no
more of a problem as long as it is slower than the loop (a short page ends it);
the loop without a key has no such exit and runs until an iteration finds
nothing new.

`SyncCommand` assumes weak fairness of the main goroutine and of each worker, of
the steps that leave `faults` alone: a failure is never owed, so that two workers
that wait for each other's connection are found to wait for ever, although
either might fail. A call that has its connection returns.

`StateFile` assumes that an invocation loads, commits, updates, saves and ends,
and that the command is run again; nothing is assumed of `WriteBack`, `Stop`,
`SaveFails` and `PowerLoss`. `StructureSync` assumes that statements return and
that the command is given again, not that anyone corrects rows: that is a premise
of `EventuallyStructured`. `FullSync` and `DependencyPlan` assume weak
fairness of their own steps. `Interrupt`, `Kill`, `Fault` and the invocations of
`FullSync` are never forced.

## Proofs

TLAPS checks these theorems for every value of the constants that the `ASSUME`s
of the modules allow. The inductive invariants of `IncrementalSync` and
`DependencyPlan` are at the end of the component's module, the others at the
beginning of its proofs or before the theorem that needs them.

| Theorem (`IncrementalSyncProofs`) | Says | From |
|---|---|---|
| `Typing` | `Spec => []TypeOK` | one step per action |
| `Replay` | `[]BoundedReplay` | `ReplayInv`: what can be unsaved at each point of the loop; while the store is not dirty, at most the batch that is just committed |
| `NoTargetRollback` | `TargetForward` | `ForwardInv`: a version in target or page is not newer than the source row, and every open or later write of the row is newer; row locks of the source are what makes this inductive |
| `NoFileRollback` | `FileForward` | `OrderInv`: file at or before store, store before every row of the page in hand; `IdleInv`: no task without a process |
| `OnlyLateCommits` | `NoLateCommits` implies `[]` of `FileCovered` and `StoreCovered`, for any writers | `CoverInv`, below |
| `Coverage`, `StoreCoverage` | `SerialWriters` implies `[]FileCovered` and `[]StoreCovered` | `OnlyLateCommits`; `SettledInv`: there are no late commits |
| `LateCommitsLose` | `LateCommitLoses`: a row that becomes visible at or before a checkpoint is one the target does not have | `ForwardInv` |
| `LostRows` | `LostForGood`: what the file claims and the target has not stays so until the source writes or deletes the row | `OrderInv` |
| `Saved` | `[]SuccessSaved` | `SavedInv`: if the store differs from the file some task has yet to return or has failed |
| `Implementation` | `SerialWriters` implies `ImplementsReplica` | all of these: every step is a `Change`, an `Apply`, a `Claim` or changes nothing that `Replica` sees |
| `FileUse` | `UsesCheckpointFile`, for any writers | `OrderInv`: an update moves a checkpoint on; `IdleInv` |

`FileCovered` alone is not inductive: whether a commit keeps it depends on the
page. `CoverInv` therefore says where each source row is while a page is in
hand: in the page in the same version, at or before the checkpoint, or after the
whole page (`PageComplete`); and after the commit, in the target or after the
whole page (`PageCommitted`). A row that changes while the page is in hand has
to land after it, and after every checkpoint.

A write that does not is a *late commit*: it becomes visible at or before a page
in hand, the store or the file. The theorems say what late commits are to this
program. Nothing else loses a row, whatever fails, interleaves or is killed
(`OnlyLateCommits`); where the writers of a table commit in cursor order there are
none (`SettledInv`: whatever is still to become visible has a cursor value beyond
all that have been seen); each one behind a checkpoint does lose a row
(`LateCommitsLose`); and no later run brings it back (`LostRows`). This is finding 2
for every instance; `IncrementalSync_writers` shows that it happens.
`BoundedReplay`, `SuccessSaved`, `TargetForward`, `FileForward` and the use of the
file do not depend on the writers.

`ReplicaProofs` proves `ClaimHolds`, that behind the claim nothing is missing or
old, of `Replica` alone.

| Theorem (`NoKeyIncrementalProofs`) | Says | From |
|---|---|---|
| `Typing` | `Spec => []TypeOK` | |
| `Unique` | `[]NoDuplicates` | `GroupInv`: the rows in hand are within the values in hand; the DELETE of all of them makes a second copy impossible |
| `Coverage` | `[]FileCovered` | `ValuesInv`: a row after the checkpoint has one of the values in hand or comes after all of them; `SettledInv` as above |
| `NoFileRollback` | `FileForward` | `SettledInv`: the values in hand are after the checkpoint |
| `Done` | `DoneBehindFile`: behind the file no version is taken away or added | the same |
| `Kept` | `CurrentKept`: a row that is in the target as in the source is there after every step | `GroupInv` |
| `FileUse` | `UsesCheckpointFile` | `AliveInv`: there is a task exactly while there is a process |

`NoDuplicates` depends on what rows are in hand and `FileCovered` on what values
are, because the two are read by different queries; the one cannot be proved
without the invariant of the other. `Kept` is about the moment between the DELETE
and the COPY of one transaction: the target is emptied of a group and filled with
what the second query found. Old versions of a row that was updated go the same
way if their group comes again, and by `Done` stay for ever if the file has
passed it.

| Theorem (`StateFileProofs`) | Says | From |
|---|---|---|
| `Typing` | `Spec => []TypeOK` | |
| `Whole` | `[]NeverTorn` | `SaveInv`: what the temporary file is after each step, complete and synced before the rename; `WholeInv`: so is what is under the name, with and without power |
| `Behind` | `[]FileBehindTarget` | `ReachedInv`: stores and files, temporary ones too, are behind the target |
| `Bounded` | `[]OverlapBounded` | `FloorInv`: no running invocation's store, nor its temporary file, is behind what the first of them loaded |
| `Implementation` | `Spec => Atomic` | `SaveInv`: the mutex keeps the store as it was encoded until the rename |

| Theorem (`SyncCommandProofs`) | Says | From |
|---|---|---|
| `Typing` | `Spec => []TypeOK` | |
| `Quiet` | `[]NoActionAfterReturn` | `PoolInv`: workers are in a pool only, and a command that has its result has none |
| `Cause` | `[]RootCause` | `CauseInv`: an error of the context is the first one only after the interrupt |
| `Ordered` | `[]ConnectsInOrder` | `WorkInv`, `DoneInv`, below |
| `Complete` | `[]SuccessIsComplete` | the same and `BarInv` |
| `Counted` | `[]ErrorsAreCounted` | `CountInv` |
| `Copied` | `[]FullCopiedData` | `DoneInv`: when a call has been passed, all stages before it are complete |
| `Unstuck` | `[]NeverStuck`: until the process has exited, the main goroutine or a worker may go on without a failure | `WaitInv`: a worker asks for no more connections than its action takes, and a bar runs only while an action does |
| `Progresses` | `GetsOn`: every step, failures and the signal too, decreases `<<CallsLeft, WorkLeft>>` | `TypeOK`; the steps left to finitely many workers |
| `Alone` | `NoRepeats` implies `[]OneWorkerPerTable` | `AloneInv`: a table is in the channel or with one worker |

The argument for the order: while a pool is open and nothing has cancelled it,
each of its tables is queued, in work, or finished (`WorkInv`), so that when all
workers have left, all tables are finished. An interrupted pool may be left with
tables that nobody took. Then the stages after it find a cancelled context, get
no connection, and their calls fail (`DoneInv`). A stage that is a pool of workers
that never connect is what lets `incremental` report success (finding 1); `full`
has a call after its data.

`Unstuck` and `Progresses` are the proof of `CommandReturns` up to its last step:
somebody may always go on, and nobody can go on for ever. That fairness then
brings the command to its end is what TLC checks. `MainMayGo` and `WorkerMayGo`
are written out because the prover has no `ENABLED`; TLC finds them equal to it
in every state of `SyncCommand_all`.

| Theorem (`FullSyncProofs`) | Says | From |
|---|---|---|
| `Typing` | `Spec => []TypeOK` | |
| `Exact` | `[]SuccessIsSnapshot` | `CopyInv`: what the target holds of a table that is queued, being copied, copied or failed, from the clean-up on; `PhaseInv` |
| `InWhole` | `[]CopyIsWhole` | `CopyInv` |
| `References` | `[]SuccessIsIntact` | `KeyInv`: a foreign key that is there holds, and which there are |
| `OrderAccepted` | `[]FailureHasReason` | `QuietInv`: in a run that nothing disturbs, the tables of earlier levels are copied as they are in the source, so a row's reference is there before it |

| Theorem (`StructureSyncProofs`) | Says | From |
|---|---|---|
| `Typing` | `Spec => []TypeOK` | |
| `Aligned` | `[]SuccessIsStructured` | `ReadInv`, `SeenInv`, `DoneInv`, below |
| `CaughtUp` | `[]SequencesCaughtUp` | `ReadInv`: what was read of the sequence is not behind the run's start; `DoneInv` |
| `Explained` | `[]RefusalIsExplained` | `SeenInv`: the target answers as the worker expects; `DoneInv`: the sequence is there before the table; `SchemaInv`: a schema that appeared comes from another table's worker |
| `Kept` | `StaysStructured` | `SeenInv`: a table that is as in the source is seen so, and nothing is done to it |

A worker decides by what it read, earlier, and the target answers by what is
there. `SeenInv` relates the two: from the inspection of the target to the end of
the columns `seen` is what the target has, because no other worker touches the
table and each statement is entered in both, and from then on this holds of the
indexes still. `DoneInv` says for each step what the steps before it have brought
about. A result that was cut short (`cut`) takes most of it away: `seen` may have
fewer columns, and then neither success nor the answer of the target says much.
The key and the indexes are read by queries that are asked for errors, so what is
known of them stays. The proofs assume of the targets that there are to begin with
(`TargetAssumption`) that a table that is there has a column; one without a key
counts as one with another key, since both are refused alike.

| Theorem (`DependencyPlanProofs`) | Says | From |
|---|---|---|
| `Typing` | `Spec => []TypeOK` | |
| `ReadOrder` | `[]ReadParentsEarlier`, for any graph and any lost results | `PlanInv`: each mapping whose table has left `remaining` is in exactly one level |
| `SourceOrder` | `[](lost = 0 => ParentsEarlier)`: a lost result is the only cause of finding 3 | `DepsRead` in `PlanInv`: what was read is all there is |
| `RealCycle` | `[]CycleIsReal` | `AtEnd`, `DepsRead` |
| `Tight` | `[]LevelsTight` | `Waiting`: a table that remains waits for one that remains or is in the last level |
| `EachOnce` | if no source table is configured twice, `[]EveryMappingOnce` | `Placed`, `AtEnd` |
| `Serves` | `[]PlanServes`: a plan gives each configured table one level, behind those of the tables it refers to if nothing was lost; `FullSync` assumes this of its levels | `Placed`, `DepsRead` |
| `Work` | `[]LevelsWork`: no level is empty, nor is a plan for some tables; `SyncStages` assumes this | `PlanInv`, and itself |
| `Progress` | `GetsOn`: every step decreases `LeftToDo`, for any graph | `TypeOK`; there are finitely many tables |

Only model-checked: liveness (`EventuallyCaughtUp`, `RunEnds`, `EventuallySaved`,
`CommandReturns`, `EventuallyStructured`, `RunReturns`, `PlanningEnds`). It rests on
fairness and so on `ENABLED`, which the prover does not do. Of `CommandReturns` and
`PlanningEnds` the rest is proved: the measures of `Progresses` and `Progress`, and
`Unstuck`. Every safety property that a run checks is proved, except those that
are violated.

## Findings

1. *An interrupted incremental command may report success*
   (`SyncCommand_interrupt`, `syncer.go:345`). When the signal arrives while no
   action is in a database call, every worker may take the `ctx.Done()` case.
   No error is recorded, `runMappings` returns nil and the command ends as if
   all tables had been synchronised. `Full` does not, because it makes database
   calls after the data.
2. *Rows that become visible behind the checkpoint are lost*
   (`IncrementalSync_writers`, `syncer.go:760`). README.md:39 asks for cursor
   values that grow with each write. Concurrent transactions do that and may
   still commit in another order.
3. *A lost connection is taken for the end of the foreign keys*
   (`DependencyPlan_lost`, `dependencies.go:41`). `rows.Err()` is not asked, so a
   child may be planned with its parent, against README.md:66.
4. *Two mappings of one source table* (`DependencyPlan_twice`,
   `dependencies.go:30`). The first is never carried out and the second twice,
   in one level.

Behaviour that the models show and no document contradicts:

- `inspectTable` and `inspectSequences` read as in finding 3 (`cut` in
  `StructureSync`). With columns of the source cut off, a run succeeds and they
  are missing in the target; with sequences cut off, an identity column may lose
  its default. A later run repairs both.
- Rows of the target may refuse what the source has: NOT NULL without a default
  for a new column (`metadata.go:303`), SET NOT NULL over NULLs (`:328`), another
  type (`:311`), a unique index over equal keys (`:381`). The run fails there, with
  the columns before it altered, and so does every later one until the rows are
  corrected by hand; then the next run finishes the table.
- Two workers that create one schema at once may fail the run (`"race"`);
  the next run goes on.
- Invocations that overlap may put back each other's checkpoints (`OverlapBounded`
  says how far), so that pages are synchronised again.
- Bars: a table's bar is done before its deferred flush, which may fail
  (`syncer.go:386`). An interrupted command that reports success has bars that
  never began.
- Without a key, an update leaves the old version in the target under its old
  cursor value, and for good once the file has passed it (`Done`); README.md:44
  recommends a key for that reason.

## Assumptions and what is left out

Assumed in the models:

- The cursor value and the key of a row determine its columns: each transaction
  gives the rows it writes a cursor value of its own. Rows with a NULL cursor are
  not there (README.md:43 excludes them).
- A checkpoint read back from the file selects the same rows as the one that was
  saved, that is, the text form of its columns reads back as the same value.
- Tables have the key that is used (a unique key in the target, as README.md:40
  asks), and the configuration does not change between invocations.
- The invocations of `IncrementalSync` and `NoKeyIncremental` do not overlap and
  their file is replaced at once; `StateFile` has both, over pages without content.
  `FileUse` proves that each invocation by itself uses the file as `StateFile`
  supports it.
- A rename is atomic towards other processes; a synced file survives.
- A database call whose context is cancelled fails, and one that waits for a
  connection stops waiting.
- In `FullSync` the target starts empty, belongs to kbsync alone, and nothing
  outside the configured tables refers to it. Foreign keys have no ON DELETE
  action; each table has at most one. The levels are those of an undisturbed
  plan (finding 3 shows what else may happen).
- In `StructureSync` each table has a sequence of its own in the target schema, no
  two tables of one target schema have an index of one name, the source's structure
  stands still, and nobody else alters the target's structure. Rows that a
  synchronisation brings fit the source's structure; those that were there before
  may not.

Not modelled:

- The vendored driver: COPY, cancellation, wire format, types, TLS, SCRAM. It is
  third-party code and is taken through the interface of `database/sql`.
- Option and configuration parsing, SQL text and identifiers: there is no
  state to explore, and what the SQL means is in the models.
  `effectiveBatchSize` in `validation.go` is called by tests only.
- The counts of rows, batches and seconds in the metrics, and the queue and
  overall bars: sums over what is modelled. A table that fails after committed
  batches is counted with no rows (`syncer.go:273`).
- A change of the configuration between invocations: `syncer.go:377` compares a
  checkpoint with it by length only.
- A full copy and an incremental run of the same tables one after the other. The
  full copy neither reads nor writes the state file, so one that empties the
  targets and fails leaves a checkpoint that claims the rows.

## Plan

Done, in the order of importance to the data: the page loops, the commands and
the pool, the full copy, the planner; then the state file, the structure, the
connections and the end of the process; the abstract specifications `Replica` and
`CheckpointFile`; proofs about all of them.

What would add most from here:

1. Measures for the other components, as `Progresses` has one: a run of `FullSync`,
   and a run of `StructureSync` between two faults. That a run over a structure
   that is aligned issues no statement, as a theorem.
2. `FullThenIncremental`: full copies and incremental runs of the same tables in
   any order over one checkpoint file, and a configuration that changes in
   between.
3. The driver's COPY: the response goroutine and the error it leaves.

`NoKeyIncremental` does not implement `Replica`: to replace a group takes the old
version of an updated row away before the page with its new version is copied, so
the copy of a row may go back to nothing. `CurrentKept` is what is true instead.
