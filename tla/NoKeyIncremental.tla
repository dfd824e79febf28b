-------------------------- MODULE NoKeyIncremental --------------------------
(***************************************************************************)
(* Incremental synchronisation of a table that has neither a primary key   *)
(* nor key_columns: Syncer.incrementalTableWithoutKey.  The next cursor    *)
(* values are read, then all source rows with these values, and one target *)
(* transaction deletes the target rows with these values and copies the    *)
(* source rows in (replaceCursorGroups).                                   *)
(*                                                                         *)
(* Module IncrementalSync shows the checkpoint store shared by many        *)
(* tables; here there is one table, and any call may fail, which covers a  *)
(* context cancelled by another table.                                     *)
(*                                                                         *)
(* Data.  The rows of the source have an identity that the program cannot  *)
(* see; a row and its cursor value fix its columns.  Without a key the     *)
(* target is a bag of row versions.                                        *)
(***************************************************************************)
EXTENDS Integers, FiniteSets

CONSTANTS
    Rows,           \* the identities of source rows
    MaxCursor,      \* bound: number of write transactions
    GroupLimit,     \* no_key_cursor_batch: cursor values taken at a time
    Every,          \* checkpoint_every_batches
    MaxFaults,      \* bound: failures and kills in a behaviour
    Deletes         \* TRUE: source rows may be deleted

ASSUME RowsAssumption == IsFiniteSet(Rows)
ASSUME BoundsAssumption ==
    /\ MaxCursor \in Nat
    /\ GroupLimit \in Nat \ {0}
    /\ Every \in Nat \ {0}
    /\ MaxFaults \in Nat
    /\ Deletes \in BOOLEAN

VARIABLES
    src,        \* src[r]: the cursor of the committed source row r, 0 if absent
    pending,    \* the rows of the open source transaction
    clock,      \* the last cursor value handed out
    tgt,        \* tgt[r][c]: copies of version c of row r in the target
    file,       \* the table's checkpoint in the state file
    up,         \* an invocation is running
    store,      \* the checkpoint in memory
    dirty,      \* checkpointStore.dirty
    pc,         \* where the task is
    values,     \* cursorValues: the cursor values in hand
    group,      \* the rows the second query returned, cursor by row
    batchNo,    \* batchNumber, modulo Every
    faults      \* faults so far

source == <<src, pending, clock>>
vars == <<src, pending, clock, tgt, file, up, store, dirty, pc, values, group,
          batchNo, faults>>

-----------------------------------------------------------------------------
Cursors == 1 .. MaxCursor
Versions == 0 .. MaxCursor
NoRows == [r \in {} |-> 0]

\* Faulty variant: the cursor compared with >= for >.
ValuesFrom(c) == {src[r] : r \in Rows} \ ({0} \union (0 .. c - 1))

\* The distinct cursor values after checkpoint c.
ValuesAfter(c) == {src[r] : r \in Rows} \ (0 .. c)

\* Faulty variant: LIMIT without ORDER BY.
AreAnyValues(V, c) ==
    /\ V \subseteq ValuesAfter(c)
    /\ Cardinality(V) <= GroupLimit
    /\ Cardinality(V) < GroupLimit => V = ValuesAfter(c)

\* V is what DISTINCT ... ORDER BY ... LIMIT GroupLimit returns of them.
IsNextValues(V, c) ==
    LET rest == ValuesAfter(c) IN
    /\ V \subseteq rest
    /\ Cardinality(V) <= GroupLimit
    /\ Cardinality(V) < GroupLimit => V = rest
    /\ \A v \in V, w \in rest \ V : v < w

\* The rows with a cursor value in V.
RowsOf(V) == {r \in Rows : src[r] \in V}

\* Faulty variants: COPY without DELETE, and DELETE without the bound of the
\* cursor values.
CopyGroups(copies, V, g) ==
    [r \in Rows |-> [c \in Cursors |->
        copies[r][c] + (IF r \in DOMAIN g /\ g[r] = c THEN 1 ELSE 0)]]
ReplaceTable(copies, V, g) ==
    [r \in Rows |-> [c \in Cursors |->
        IF r \in DOMAIN g /\ g[r] = c THEN 1 ELSE 0]]

\* DELETE of the groups V and COPY of the rows g, in one transaction.
ReplaceGroups(copies, V, g) ==
    [r \in Rows |-> [c \in Cursors |->
        (IF c \in V THEN 0 ELSE copies[r][c])
            + (IF r \in DOMAIN g /\ g[r] = c THEN 1 ELSE 0)]]

-----------------------------------------------------------------------------
(* The source: one write transaction at a time, a cursor value each. *)

SourceWrite ==
    /\ pending = {}
    /\ clock < MaxCursor
    /\ clock' = clock + 1
    /\ \E R \in SUBSET Rows : R # {} /\ pending' = R
    /\ UNCHANGED <<src, tgt, file, up, store, dirty, pc, values, group,
                   batchNo, faults>>

SourceCommit ==
    /\ pending # {}
    /\ src' = [r \in Rows |-> IF r \in pending THEN clock ELSE src[r]]
    /\ pending' = {}
    /\ UNCHANGED <<clock, tgt, file, up, store, dirty, pc, values, group,
                   batchNo, faults>>

SourceDelete ==
    /\ Deletes
    /\ \E r \in Rows \ pending : src[r] > 0 /\ src' = [src EXCEPT ![r] = 0]
    /\ UNCHANGED <<pending, clock, tgt, file, up, store, dirty, pc, values,
                   group, batchNo, faults>>

-----------------------------------------------------------------------------
(* The invocation. *)

Fault == faults < MaxFaults /\ faults' = faults + 1

ProcessGone ==
    /\ up' = FALSE
    /\ store' = file
    /\ dirty' = FALSE
    /\ pc' = "off"
    /\ values' = {}
    /\ group' = NoRows
    /\ batchNo' = 0

\* The state file is loaded and the task starts.
Invoke ==
    /\ ~up
    /\ up' = TRUE
    /\ store' = file
    /\ pc' = "choosing"
    /\ UNCHANGED <<source, tgt, file, dirty, values, group, batchNo, faults>>

\* nextCursorValues, the first query.
ChooseValues ==
    /\ pc = "choosing"
    /\ \E V \in SUBSET Cursors :
          /\ IsNextValues(V, store)
          /\ values' = V
          /\ pc' = IF V = {} THEN "leaving" ELSE "selecting"
    /\ UNCHANGED <<source, tgt, file, up, store, dirty, group, batchNo, faults>>

\* The second query, which sees the source as it is by then.
SelectRows ==
    /\ pc = "selecting"
    /\ group' = [r \in RowsOf(values) |-> src[r]]
    /\ pc' = "writing"
    /\ UNCHANGED <<source, tgt, file, up, store, dirty, values, batchNo, faults>>

\* replaceCursorGroups up to a COMMIT that the server has carried out.
CommitGroups ==
    /\ pc = "writing"
    /\ tgt' = ReplaceGroups(tgt, values, group)
    /\ pc' = "committed"
    /\ UNCHANGED <<source, file, up, store, dirty, values, group, batchNo, faults>>

\* A query or the target transaction fails; after an error of Commit the
\* transaction may have taken effect all the same.
CallFails ==
    /\ pc \in {"choosing", "selecting", "writing"}
    /\ Fault
    /\ \/ UNCHANGED tgt
       \/ pc = "writing" /\ tgt' = ReplaceGroups(tgt, values, group)
    /\ pc' = "aborting"
    /\ UNCHANGED <<source, file, up, store, dirty, values, group, batchNo>>

\* batchNumber++, modulo Every.
NextBatchNo(n) == IF n + 1 = Every THEN 0 ELSE n + 1

\* store.update with the last of the cursor values.
UpdateStore ==
    /\ pc = "committed"
    /\ \E v \in values : (\A w \in values : w <= v) /\ store' = v
    /\ dirty' = TRUE
    /\ batchNo' = NextBatchNo(batchNo)
    /\ pc' = IF NextBatchNo(batchNo) = 0 THEN "flushing" ELSE "choosing"
    /\ values' = {}
    /\ group' = NoRows
    /\ UNCHANGED <<source, tgt, file, up, faults>>

Flush == IF dirty THEN file' = store /\ dirty' = FALSE
                  ELSE UNCHANGED <<file, dirty>>

FlushBatches ==
    /\ pc = "flushing"
    /\ Flush
    /\ pc' = "choosing"
    /\ UNCHANGED <<source, tgt, up, store, values, group, batchNo, faults>>

FlushBatchesFails ==
    /\ pc = "flushing"
    /\ dirty
    /\ Fault
    /\ pc' = "aborting"
    /\ UNCHANGED <<source, tgt, file, up, store, dirty, values, group, batchNo>>

\* The deferred flush of incrementalPreparedTable, which may fail, and the end
\* of the command.
Return ==
    /\ pc \in {"leaving", "aborting"}
    /\ \/ Flush /\ UNCHANGED faults
       \/ dirty /\ Fault /\ UNCHANGED <<file, dirty>>
    /\ pc' = "returned"
    /\ UNCHANGED <<source, tgt, up, store, values, group, batchNo>>

EndRun ==
    /\ pc = "returned"
    /\ ProcessGone
    /\ UNCHANGED <<source, tgt, file, faults>>

Kill ==
    /\ up
    /\ Fault
    /\ ProcessGone
    /\ UNCHANGED <<source, tgt, file>>

-----------------------------------------------------------------------------
Init ==
    /\ src = [r \in Rows |-> 0]
    /\ pending = {}
    /\ clock = 0
    /\ tgt = [r \in Rows |-> [c \in Cursors |-> 0]]
    /\ file = 0
    /\ up = FALSE
    /\ store = 0
    /\ dirty = FALSE
    /\ pc = "off"
    /\ values = {}
    /\ group = NoRows
    /\ batchNo = 0
    /\ faults = 0

TaskStep ==
    \/ ChooseValues \/ SelectRows \/ CommitGroups \/ CallFails
    \/ UpdateStore \/ FlushBatches \/ FlushBatchesFails \/ Return \/ EndRun

Next ==
    \/ SourceWrite \/ SourceCommit \/ SourceDelete
    \/ Invoke \/ TaskStep \/ Kill

Spec == Init /\ [][Next]_vars

\* As in IncrementalSync: the process runs, the command is invoked again and
\* again, and open source transactions commit.
FairSpec ==
    Spec /\ WF_vars(TaskStep /\ UNCHANGED faults) /\ WF_vars(Invoke) /\ WF_vars(SourceCommit)

-----------------------------------------------------------------------------
(* Properties. *)

\* Type invariant.
TypeOK ==
    /\ src \in [Rows -> Versions]
    /\ pending \subseteq Rows
    /\ clock \in Versions
    /\ tgt \in [Rows -> [Cursors -> Nat]]
    /\ file \in Versions
    /\ up \in BOOLEAN
    /\ store \in Versions
    /\ dirty \in BOOLEAN
    /\ pc \in {"off", "choosing", "selecting", "writing", "committed",
               "flushing", "leaving", "aborting", "returned"}
    /\ values \subseteq Cursors
    /\ DOMAIN group \subseteq Rows
    /\ \A r \in DOMAIN group : group[r] \in Cursors
    /\ batchNo \in 0 .. Every - 1
    /\ faults \in 0 .. MaxFaults

\* Replaying groups after a kill or an error never duplicates a row: without a
\* key nothing in the target would reject the second copy.
NoDuplicates == \A r \in Rows, c \in Cursors : tgt[r][c] <= 1

\* The state file never passes over a row: every source row with a cursor value
\* up to the checkpoint is in the target, in that version, although the values
\* and the rows are read by two queries with writes between them.
FileCovered == \A r \in Rows : src[r] \in 1 .. file => tgt[r][src[r]] = 1

\* What the checkpoint has passed is done with: no replay, retry or later run
\* takes a version of a row away there or puts one in. So a version that the
\* source has replaced by a later one stays in the target for good.
DoneBehindFile ==
    [][\A r \in Rows, c \in 1 .. file : tgt'[r][c] = tgt[r][c]]_vars

\* Groups are deleted to be copied again, and a step never leaves the target
\* without a row that it had as the source has it, beyond the checkpoint too.
CurrentKept ==
    [][\A r \in Rows :
          src[r] > 0 /\ src'[r] = src[r] /\ tgt[r][src[r]] = 1
              => tgt'[r][src[r]] = 1]_vars

\* The checkpoint in the file never moves back.
FileForward == [][file' >= file]_vars

\* The file is used as StateFile implements it: loaded once by an invocation and
\* replaced by its store, whose checkpoint only moves on. The power does not fail
\* here, so what the file would fall back to is of no account.
Running == IF up THEN {"invocation"} ELSE {}
Content(c) == [t \in {"table"} |-> c]
Held == [p \in {"invocation"} |-> IF up THEN Content(store) ELSE Content(0)]
ValuesMoved == {m \in Versions \X Versions : m[1] < m[2]}
Checkpoints == INSTANCE CheckpointFile WITH
    Processes <- {"invocation"}, Tables <- {"table"},
    Claims <- Versions, First <- 0, Moves <- ValuesMoved,
    running <- Running, store <- Held,
    file <- Content(file), disk <- Content(0)
UsesCheckpointFile == Checkpoints!Spec

\* Once the source is quiet and the faults are over, the target holds the
\* current version of every source row exactly once, for good.
CaughtUp == \A r \in Rows : src[r] > 0 => tgt[r][src[r]] = 1
EventuallyCaughtUp == <>[]CaughtUp

\* Every invocation ends.
RunEnds == up ~> ~up
=============================================================================
