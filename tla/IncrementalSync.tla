-------------------------- MODULE IncrementalSync --------------------------
(***************************************************************************)
(* Incremental synchronisation of tables that have a key: the page loop    *)
(* Syncer.incrementalPreparedTable, the shared checkpointStore and the     *)
(* checkpoint file, over a source database that keeps changing and a       *)
(* target database whose calls may fail.                                   *)
(*                                                                         *)
(* One invocation of `kbsync incremental` is one process.  Its tables are  *)
(* run by concurrent workers; here a table may start at any time and any   *)
(* tables may overlap (module SyncCommand models the workers themselves), so *)
(* what holds here holds for every table_parallelism and every order.      *)
(* Invocations follow each other, as cron would run them; each may end by  *)
(* returning, by failing, by Ctrl+C or by a kill.                          *)
(*                                                                         *)
(* Data.  A row of a table is a key and a cursor value, and the cursor     *)
(* value stands for the whole row: every transaction that writes a row     *)
(* gives it a cursor value of its own, so key and cursor fix the columns.  *)
(* A position is the pair <<cursor, key>> of the sort columns (cursor,     *)
(* key_columns...); a checkpoint is a position.                            *)
(***************************************************************************)
EXTENDS Integers, FiniteSets

CONSTANTS
    Tables,         \* the configured table mappings, each with a key
    Keys,           \* the key values a row can have, in their sort order
    MaxCursor,      \* bound: number of write transactions per source table
    BatchSize,      \* batch_size: the LIMIT of a page
    Every,          \* checkpoint_every_batches
    MaxFaults,      \* bound: failures, interrupts and kills in a behaviour
    SerialWriters   \* TRUE: the writers of a table commit in cursor order

ASSUME TablesAssumption == Tables # {} /\ IsFiniteSet(Tables)
ASSUME KeysAssumption == Keys \subseteq Nat /\ IsFiniteSet(Keys)
ASSUME BoundsAssumption ==
    /\ MaxCursor \in Nat
    /\ BatchSize \in Nat \ {0}
    /\ Every \in Nat \ {0}
    /\ MaxFaults \in Nat
    /\ SerialWriters \in BOOLEAN

VARIABLES
    src,        \* src[t][k]: cursor of the committed source row k, 0 if absent
    pending,    \* pending[t]: the open write transactions of source table t
    clock,      \* clock[t]: the last cursor value handed out in table t
    tgt,        \* tgt[t][k]: cursor of the committed target row k, 0 if absent
    file,       \* the state file: a position per table
    up,         \* an invocation is running
    cancelled,  \* its context has been cancelled
    store,      \* checkpointStore.state, in memory
    dirty,      \* checkpointStore.dirty
    pc,         \* pc[t]: where the task of table t is
    batch,      \* batch[t]: the page in hand, cursor by key
    batchNo,    \* batchNo[t]: batchNumber, modulo Every (its only use)
    unsaved,    \* history: batches whose commit was seen in this run and
                \* that are not in the file
    faults      \* faults so far

source == <<src, pending, clock>>
disk == <<tgt, file>>
volatile == <<up, cancelled, store, dirty, pc, batch, batchNo, unsaved>>
vars == <<src, pending, clock, tgt, file, up, cancelled, store, dirty, pc,
          batch, batchNo, unsaved, faults>>

-----------------------------------------------------------------------------
(* Positions and pages. *)

Cursors == 1 .. MaxCursor
Versions == 0 .. MaxCursor

\* The position that precedes every row: a table without a checkpoint.
Origin == <<0, 0>>

\* The row comparison (cursor, key) > (cursor, key) of the page query.
Before(p, q) == p[1] < q[1] \/ (p[1] = q[1] /\ p[2] < q[2])

\* Faulty variants of the definition that follows, for the mutants of
\* PROJECT.json: rows compared by cursor alone, and with >= for >.
RowsAfterCursor(rows, p) == {k \in Keys : rows[k] > p[1]}
RowsFrom(rows, p) == {k \in Keys : rows[k] > 0 /\ ~Before(<<rows[k], k>>, p)}

\* The rows a query sees after position p in table contents rows.
RowsAfter(rows, p) == {k \in Keys : rows[k] > 0 /\ Before(p, <<rows[k], k>>)}

\* Faulty variant: LIMIT without ORDER BY.
IsAnyPage(K, rows, p) ==
    /\ K \subseteq RowsAfter(rows, p)
    /\ Cardinality(K) <= BatchSize
    /\ Cardinality(K) < BatchSize => K = RowsAfter(rows, p)

\* K is what ORDER BY ... LIMIT BatchSize returns of the rows after p.
IsPage(K, rows, p) ==
    LET rest == RowsAfter(rows, p) IN
    /\ K \subseteq rest
    /\ Cardinality(K) <= BatchSize
    /\ Cardinality(K) < BatchSize => K = rest
    /\ \A k \in K, j \in rest \ K : Before(<<rows[k], k>>, <<rows[j], j>>)

\* k is the key of the last row of page b.
IsLast(k, b) == \A j \in DOMAIN b : j = k \/ Before(<<b[j], j>>, <<b[k], k>>)

NoRows == [k \in {} |-> 0]

\* Faulty variant: ON CONFLICT DO NOTHING.
InsertOnly(rows, b) ==
    [k \in Keys |-> IF k \in DOMAIN b /\ rows[k] = 0 THEN b[k] ELSE rows[k]]

\* INSERT ... ON CONFLICT (key) DO UPDATE of a page into table contents rows.
Upsert(rows, b) == [k \in Keys |-> IF k \in DOMAIN b THEN b[k] ELSE rows[k]]

-----------------------------------------------------------------------------
(* The source database: concurrent write transactions. A transaction takes *)
(* its cursor value when it writes and shows its rows when it commits.     *)

Locked(t) == UNION {w.rows : w \in pending[t]}

SourceWrite(t) ==
    /\ clock[t] < MaxCursor
    /\ SerialWriters => pending[t] = {}
    /\ \E R \in SUBSET (Keys \ Locked(t)) :
          /\ R # {}
          /\ pending' = [pending EXCEPT ![t] =
                            @ \union {[rows |-> R, cursor |-> clock[t] + 1]}]
    /\ clock' = [clock EXCEPT ![t] = @ + 1]
    /\ UNCHANGED <<src, disk, volatile, faults>>

SourceCommit(t) ==
    /\ \E w \in pending[t] :
          /\ src' = [src EXCEPT ![t] =
                        [k \in Keys |-> IF k \in w.rows THEN w.cursor ELSE @[k]]]
          /\ pending' = [pending EXCEPT ![t] = @ \ {w}]
    /\ UNCHANGED <<clock, disk, volatile, faults>>

SourceDelete(t) ==
    /\ \E k \in Keys \ Locked(t) :
          /\ src[t][k] > 0
          /\ src' = [src EXCEPT ![t][k] = 0]
    /\ UNCHANGED <<pending, clock, disk, volatile, faults>>

-----------------------------------------------------------------------------
(* The invocation. *)

\* A call fails: by a fault of its own, or because its context is cancelled.
CallFails ==
    IF cancelled THEN UNCHANGED faults
                 ELSE faults < MaxFaults /\ faults' = faults + 1

DiskFails == faults < MaxFaults /\ faults' = faults + 1

\* What a process that has ended leaves: nothing but the two databases and
\* the file. Dead variables are put back to their first values.
ProcessGone ==
    /\ up' = FALSE
    /\ cancelled' = FALSE
    /\ store' = file
    /\ dirty' = FALSE
    /\ pc' = [t \in Tables |-> "queued"]
    /\ batch' = [t \in Tables |-> NoRows]
    /\ batchNo' = [t \in Tables |-> 0]
    /\ unsaved' = [t \in Tables |-> 0]

\* Faulty variant: the file is not read.
EmptyState == [t \in Tables |-> Origin]

\* loadState: the checkpoints a new process starts from.
LoadedState == file

\* Incremental loads the state file into a new store.
Invoke ==
    /\ ~up
    /\ up' = TRUE
    /\ store' = LoadedState
    /\ UNCHANGED <<source, disk, cancelled, dirty, pc, batch, batchNo,
                   unsaved, faults>>

\* A worker takes the table; checkpointValue is the store's entry, which only
\* this task writes, so the two are one variable here.
StartTable(t) ==
    /\ up
    /\ pc[t] = "queued"
    /\ pc' = [pc EXCEPT ![t] = "reading"]
    /\ batchNo' = [batchNo EXCEPT ![t] = 0]
    /\ UNCHANGED <<source, disk, up, cancelled, store, dirty, batch, unsaved,
                   faults>>

\* The page query and readBatch: one statement, one snapshot of the source.
ReadPage(t) ==
    /\ pc[t] = "reading"
    /\ \E K \in SUBSET Keys :
          /\ IsPage(K, src[t], store[t])
          /\ batch' = [batch EXCEPT ![t] = [k \in K |-> src[t][k]]]
          /\ pc' = [pc EXCEPT ![t] = IF K = {} THEN "leaving" ELSE "writing"]
    /\ UNCHANGED <<source, disk, up, cancelled, store, dirty, batchNo,
                   unsaved, faults>>

ReadFails(t) ==
    /\ pc[t] = "reading"
    /\ CallFails
    /\ pc' = [pc EXCEPT ![t] = "aborting"]
    /\ UNCHANGED <<source, disk, up, cancelled, store, dirty, batch, batchNo,
                   unsaved>>

\* BeginTx, stagingUpsert and a COMMIT that the server has carried out. The
\* process has yet to hear of it.
CommitPage(t) ==
    /\ pc[t] = "writing"
    /\ tgt' = [tgt EXCEPT ![t] = Upsert(@, batch[t])]
    /\ unsaved' = [unsaved EXCEPT ![t] = @ + 1]
    /\ pc' = [pc EXCEPT ![t] = "committed"]
    /\ UNCHANGED <<source, file, up, cancelled, store, dirty, batch, batchNo,
                   faults>>

\* BeginTx, stagingUpsert or Commit returns an error; after an error of Commit
\* the transaction may have taken effect all the same.
WriteFails(t) ==
    /\ pc[t] = "writing"
    /\ CallFails
    /\ \/ UNCHANGED tgt
       \/ tgt' = [tgt EXCEPT ![t] = Upsert(@, batch[t])]
    /\ pc' = [pc EXCEPT ![t] = "aborting"]
    /\ UNCHANGED <<source, file, up, cancelled, store, dirty, batch, batchNo,
                   unsaved>>

\* The end of the loop body: a short page ends the table.
AfterPage(t) ==
    IF Cardinality(DOMAIN batch[t]) < BatchSize THEN "leaving" ELSE "reading"

\* Faulty variant: a batch too late.
LateBatchNo(n) == IF n = Every THEN 0 ELSE n + 1

\* batchNumber++, modulo Every.
NextBatchNo(n) == IF n + 1 = Every THEN 0 ELSE n + 1

\* store.update with the last row of the page.
UpdateStore(t) ==
    /\ pc[t] = "committed"
    /\ \E k \in DOMAIN batch[t] :
          /\ IsLast(k, batch[t])
          /\ store' = [store EXCEPT ![t] = <<batch[t][k], k>>]
    /\ dirty' = TRUE
    /\ batchNo' = [batchNo EXCEPT ![t] = NextBatchNo(@)]
    /\ pc' = [pc EXCEPT ![t] =
                  IF NextBatchNo(batchNo[t]) = 0 THEN "flushing" ELSE AfterPage(t)]
    /\ UNCHANGED <<source, disk, up, cancelled, batch, unsaved, faults>>

\* Faulty variant: dirty is cleared although nothing was written.
FlushNothing == dirty' = FALSE /\ UNCHANGED <<file, unsaved>>

\* store.flush: under the store's mutex the whole map goes to the file, all at
\* once by rename. A batch committed but not yet in the store stays unsaved.
Flush ==
    IF dirty
    THEN /\ file' = store
         /\ dirty' = FALSE
         /\ unsaved' = [t \in Tables |-> IF pc[t] = "committed" THEN 1 ELSE 0]
    ELSE UNCHANGED <<file, dirty, unsaved>>

\* The flush every Every batches.
FlushBatches(t) ==
    /\ pc[t] = "flushing"
    /\ Flush
    /\ pc' = [pc EXCEPT ![t] = AfterPage(t)]
    /\ UNCHANGED <<source, tgt, up, cancelled, store, batch, batchNo, faults>>

FlushBatchesFails(t) ==
    /\ pc[t] = "flushing"
    /\ dirty
    /\ DiskFails
    /\ pc' = [pc EXCEPT ![t] = "aborting"]
    /\ UNCHANGED <<source, disk, up, cancelled, store, dirty, batch, batchNo,
                   unsaved>>

\* The deferred flush as the task returns. A task that returns an error makes
\* runMappings cancel the context of the others.
Return(t) ==
    /\ pc[t] \in {"leaving", "aborting"}
    /\ Flush
    /\ pc' = [pc EXCEPT ![t] = IF @ = "leaving" THEN "done" ELSE "failed"]
    /\ cancelled' = (cancelled \/ pc[t] = "aborting")
    /\ batch' = [batch EXCEPT ![t] = NoRows]
    /\ UNCHANGED <<source, tgt, up, store, batchNo, faults>>

ReturnFlushFails(t) ==
    /\ pc[t] \in {"leaving", "aborting"}
    /\ dirty
    /\ DiskFails
    /\ pc' = [pc EXCEPT ![t] = "failed"]
    /\ cancelled' = TRUE
    /\ batch' = [batch EXCEPT ![t] = NoRows]
    /\ UNCHANGED <<source, disk, up, store, dirty, batchNo, unsaved>>

\* Ctrl+C or SIGTERM cancels the command's context.
Interrupt ==
    /\ up /\ ~cancelled
    /\ faults < MaxFaults
    /\ faults' = faults + 1
    /\ cancelled' = TRUE
    /\ UNCHANGED <<source, disk, up, store, dirty, pc, batch, batchNo, unsaved>>

\* The command returns once no task runs; tables are left in the queue only
\* when the context was cancelled.
EndRun ==
    /\ up
    /\ \A t \in Tables : \/ pc[t] \in {"done", "failed"}
                         \/ pc[t] = "queued" /\ cancelled
    /\ ProcessGone
    /\ UNCHANGED <<source, disk, faults>>

\* The process is killed.
Kill ==
    /\ up
    /\ faults < MaxFaults
    /\ faults' = faults + 1
    /\ ProcessGone
    /\ UNCHANGED <<source, disk>>

-----------------------------------------------------------------------------
Init ==
    /\ src = [t \in Tables |-> [k \in Keys |-> 0]]
    /\ pending = [t \in Tables |-> {}]
    /\ clock = [t \in Tables |-> 0]
    /\ tgt = [t \in Tables |-> [k \in Keys |-> 0]]
    /\ file = [t \in Tables |-> Origin]
    /\ up = FALSE
    /\ cancelled = FALSE
    /\ store = [t \in Tables |-> Origin]
    /\ dirty = FALSE
    /\ pc = [t \in Tables |-> "queued"]
    /\ batch = [t \in Tables |-> NoRows]
    /\ batchNo = [t \in Tables |-> 0]
    /\ unsaved = [t \in Tables |-> 0]
    /\ faults = 0

SourceStep(t) == SourceWrite(t) \/ SourceCommit(t) \/ SourceDelete(t)

TaskStep(t) ==
    \/ StartTable(t)
    \/ ReadPage(t) \/ ReadFails(t)
    \/ CommitPage(t) \/ WriteFails(t)
    \/ UpdateStore(t)
    \/ FlushBatches(t) \/ FlushBatchesFails(t)
    \/ Return(t) \/ ReturnFlushFails(t)

Next ==
    \/ \E t \in Tables : SourceStep(t) \/ TaskStep(t)
    \/ Invoke \/ Interrupt \/ EndRun \/ Kill

Spec == Init /\ [][Next]_vars

\* The process takes its steps, none of which is owed a failure; the command is
\* invoked again and again, and open source transactions commit.
Fairness ==
    /\ \A t \in Tables :
          WF_vars(TaskStep(t) /\ UNCHANGED faults) /\ WF_vars(SourceCommit(t))
    /\ WF_vars(EndRun)
    /\ WF_vars(Invoke)

FairSpec == Spec /\ Fairness

-----------------------------------------------------------------------------
(* Properties. *)

PCs == {"queued", "reading", "writing", "committed", "flushing", "leaving",
        "aborting", "done", "failed"}

Positions == Versions \X (Keys \union {0})

PendingWrites == [rows : SUBSET Keys, cursor : Cursors]

\* A page: some keys, each with a cursor.
IsRows(b) == DOMAIN b \subseteq Keys /\ \A k \in DOMAIN b : b[k] \in Cursors

\* Type invariant.
TypeOK ==
    /\ src \in [Tables -> [Keys -> Versions]]
    /\ pending \in [Tables -> SUBSET PendingWrites]
    /\ clock \in [Tables -> Versions]
    /\ tgt \in [Tables -> [Keys -> Versions]]
    /\ file \in [Tables -> Positions]
    /\ up \in BOOLEAN
    /\ cancelled \in BOOLEAN
    /\ store \in [Tables -> Positions]
    /\ dirty \in BOOLEAN
    /\ pc \in [Tables -> PCs]
    /\ DOMAIN batch = Tables /\ \A t \in Tables : IsRows(batch[t])
    /\ batchNo \in [Tables -> 0 .. Every - 1]
    /\ unsaved \in [Tables -> Nat]
    /\ faults \in 0 .. MaxFaults

\* Position p covers table t: every source row at or before p is in the
\* target in that very version, so a query for rows after p misses nothing.
Covered(t, p) ==
    \A k \in Keys : src[t][k] > 0 /\ ~Before(p, <<src[t][k], k>>)
                        => tgt[t][k] = src[t][k]

\* The state file never claims a row that is not in the target, whatever
\* failed, was killed or was written meanwhile: skipping the rows at or before
\* the checkpoint (buildIncrementalQuery) loses nothing.
FileCovered == \A t \in Tables : Covered(t, file[t])

\* The same of the checkpoints in memory, which any table's flush may save at
\* any moment, between any two steps of another table's loop.
StoreCovered == \A t \in Tables : Covered(t, store[t])

\* The file never moves back, over any number of invocations: a flush by one
\* table never writes an older checkpoint of another.
FileForward ==
    [][\A t \in Tables : ~Before(file'[t], file[t])]_vars

\* Replay is harmless: after a kill or an error the batches that were committed
\* but not saved are read again, and no target row ever goes back to an older
\* version than the one it has.
TargetForward ==
    [][\A t \in Tables, k \in Keys : tgt'[t][k] >= tgt[t][k]]_vars

\* A kill loses the checkpoints of at most Every batches of a table, although
\* flushes fail, and although other tables flush at other moments.
BoundedReplay == \A t \in Tables : unsaved[t] <= Every

\* When the command reports success no checkpoint is left only in memory.
SuccessSaved ==
    up /\ (\A t \in Tables : pc[t] = "done") => file = store

\* Once the source is quiet and the faults are over, the target holds every
\* source row in its current version, for good.
CaughtUp ==
    \A t \in Tables, k \in Keys : src[t][k] > 0 => tgt[t][k] = src[t][k]

EventuallyCaughtUp == <>[]CaughtUp

\* Every invocation ends: a task leaves its loop although new rows arrive, and
\* the command waits for no task that does not return.
RunEnds == up ~> ~up

\* All of this as one promise: whoever sees only the source, the target and the
\* state file sees a Replica, of which no claim was ever wrong.
Promise == INSTANCE Replica WITH now <- src, copy <- tgt, claim <- file
ImplementsReplica == Promise!Spec

\* The file is used as StateFile implements it: loaded once by an invocation and
\* replaced by the whole store, whose checkpoints only move on. The power does not
\* fail here, so what the file would fall back to is of no account.
NoCheckpoints == [t \in Tables |-> Origin]
Running == IF up THEN {"invocation"} ELSE {}
Held == [p \in {"invocation"} |-> IF up THEN store ELSE NoCheckpoints]
PositionsMoved == {m \in Positions \X Positions : Before(m[1], m[2])}
Checkpoints == INSTANCE CheckpointFile WITH
    Processes <- {"invocation"}, Claims <- Positions, First <- Origin,
    Moves <- PositionsMoved,
    running <- Running, store <- Held, disk <- NoCheckpoints
UsesCheckpointFile == Checkpoints!Spec

-----------------------------------------------------------------------------
(* Writers that do not commit in cursor order: how a checkpoint comes to   *)
(* stand for a row that was never read. IncrementalSyncProofs shows that   *)
(* late commits are the only way, and that what they lose stays lost.      *)

\* The step shows a version of row k of table t at or before position p.
ShownBehind(t, k, p) ==
    /\ src'[t][k] \notin {0, src[t][k]}
    /\ ~Before(p, <<src'[t][k], k>>)

\* A transaction of table t becomes visible with a row behind the checkpoint
\* in memory, or behind a row of the page in hand.
LateCommit(t) ==
    \E k \in Keys :
        \/ ShownBehind(t, k, store[t])
        \/ /\ pc[t] \in {"writing", "committed"}
           /\ \E j \in DOMAIN batch[t] : ShownBehind(t, k, <<batch[t][j], j>>)

\* No transaction becomes visible late.
NoLateCommits == [][\A t \in Tables : ~LateCommit(t)]_vars

\* A row that becomes visible behind a checkpoint is one it claims wrongly.
LateCommitLoses ==
    [][\A t \in Tables, k \in Keys :
          /\ ShownBehind(t, k, file[t]) => ~FileCovered'
          /\ ShownBehind(t, k, store[t]) => ~StoreCovered']_vars

\* Row k of table t is behind the state file and not in the target as it is.
Lost(t, k) ==
    /\ src[t][k] > 0
    /\ ~Before(file[t], <<src[t][k], k>>)
    /\ tgt[t][k] # src[t][k]

\* A lost row is lost until the source writes it again: no later page, run,
\* retry or flush copies it or takes the claim back.
LostForGood ==
    [][\A t \in Tables, k \in Keys :
          Lost(t, k) /\ src'[t][k] = src[t][k] => Lost(t, k)']_vars

-----------------------------------------------------------------------------
(* The inductive invariants from which IncrementalSyncProofs proves the    *)
(* safety properties above.                                                *)

\* Every write of table t still to become visible gets a cursor beyond c.
Settled(t, c) ==
    /\ c <= clock[t]
    /\ \A w \in pending[t] : c < w.cursor

\* With serial writers, a source row is visible only when all before it are.
SourceSettled(t) ==
    /\ \A v, w \in pending[t] : v = w
    /\ \A w \in pending[t] : w.cursor <= clock[t]
    /\ \A k \in Keys : Settled(t, src[t][k])

\* The positions in the store, the file and the page are of such rows.
PositionsSettled(t) ==
    /\ Settled(t, store[t][1])
    /\ Settled(t, file[t][1])
    /\ \A k \in DOMAIN batch[t] : Settled(t, batch[t][k])

\* The page in hand is not empty and lies after the checkpoint.
PageAhead(t) ==
    pc[t] \in {"writing", "committed"} =>
        /\ DOMAIN batch[t] # {}
        /\ \A k \in DOMAIN batch[t] : Before(store[t], <<batch[t][k], k>>)

SettledInv == \A t \in Tables : SourceSettled(t) /\ PositionsSettled(t)

\* No task is under way between two invocations.
IdleInv == up \/ \A t \in Tables : pc[t] = "queued"

\* The file is behind the store, and the store behind the page.
OrderInv == \A t \in Tables : ~Before(store[t], file[t]) /\ PageAhead(t)

\* Row k of table t, as the source has it now, comes after the page in hand.
AfterBatch(t, k) ==
    \A j \in DOMAIN batch[t] : Before(<<batch[t][j], j>>, <<src[t][k], k>>)

\* A source row is in the page to be written, at or before the checkpoint, or
\* after the page.
PageComplete(t) ==
    pc[t] = "writing" =>
        \A k \in Keys : src[t][k] > 0 =>
            \/ k \in DOMAIN batch[t] /\ src[t][k] = batch[t][k]
            \/ k \notin DOMAIN batch[t] /\ ~Before(store[t], <<src[t][k], k>>)
            \/ AfterBatch(t, k)

\* Once the page is committed the rows up to its end are in the target.
PageCommitted(t) ==
    pc[t] = "committed" =>
        \A k \in Keys : src[t][k] > 0 =>
            tgt[t][k] = src[t][k] \/ AfterBatch(t, k)

TableCovered(t) ==
    /\ PageComplete(t)
    /\ PageCommitted(t)
    /\ Covered(t, store[t])
    /\ Covered(t, file[t])

CoverInv == \A t \in Tables : TableCovered(t)

\* Version c of row k of table t is not newer than the source row, and every
\* write of the row that is open or still to come is newer than c.
RowSettled(t, k, c) ==
    /\ c <= clock[t]
    /\ src[t][k] > 0 => c <= src[t][k]
    /\ \A w \in pending[t] : k \in w.rows => c < w.cursor

TableForward(t) ==
    /\ \A w \in pending[t] : w.cursor <= clock[t]
    /\ \A v, w \in pending[t] : v = w \/ v.rows \cap w.rows = {}
    /\ \A k \in Keys : /\ RowSettled(t, k, src[t][k])
                       /\ RowSettled(t, k, tgt[t][k])
    /\ \A k \in DOMAIN batch[t] :
           /\ RowSettled(t, k, batch[t][k])
           /\ pc[t] = "writing" => tgt[t][k] <= batch[t][k]

ForwardInv == \A t \in Tables : TableForward(t)

\* What may be unsaved at each point of the loop.
TableReplay(t) ==
    /\ unsaved[t] <= Every
    /\ pc[t] = "queued" => unsaved[t] = 0
    /\ pc[t] \in {"reading", "writing"} => unsaved[t] <= batchNo[t]
    /\ pc[t] = "committed" => unsaved[t] <= batchNo[t] + 1
    /\ ~dirty => unsaved[t] <= IF pc[t] = "committed" THEN 1 ELSE 0

ReplayInv == \A t \in Tables : TableReplay(t)

\* A store that differs from the file has a task that has yet to return or
\* has failed.
SavedInv ==
    /\ ~dirty => file = store
    /\ dirty => \E t \in Tables : pc[t] \notin {"queued", "done"}
=============================================================================
