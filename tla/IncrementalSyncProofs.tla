----------------------- MODULE IncrementalSyncProofs -----------------------
(***************************************************************************)
(* Proofs about IncrementalSync, for any tables, keys, page size, flush    *)
(* interval and number of faults.                                          *)
(***************************************************************************)
EXTENDS IncrementalSync, TLAPS

\* A page without rows is a page.
LEMMA NoRowsIsPage == IsRows(NoRows)
  BY DEF IsRows, NoRows

\* The batch counter stays below Every.
LEMMA BatchNoRange ==
  ASSUME NEW n \in 0 .. Every - 1
  PROVE  NextBatchNo(n) \in 0 .. Every - 1
  BY BoundsAssumption DEF NextBatchNo

\* A page of the rows after a position holds keys with cursors.
LEMMA PageIsRows ==
  ASSUME NEW rows \in [Keys -> Versions], NEW p, NEW K, IsPage(K, rows, p)
  PROVE  /\ K \subseteq Keys
         /\ IsRows([k \in K |-> rows[k]])
<1>1. K \subseteq RowsAfter(rows, p)
  BY DEF IsPage
<1>2. ASSUME NEW k \in K PROVE k \in Keys /\ rows[k] \in Cursors
  <2>1. k \in Keys /\ rows[k] > 0
    BY <1>1, Zenon DEF RowsAfter
  <2>. QED
    BY <2>1, BoundsAssumption DEF Versions, Cursors
<1>3. DOMAIN [k \in K |-> rows[k]] = K
  OBVIOUS
<1>. QED
  BY <1>2, <1>3 DEF IsRows

\* An upsert of a page keeps the types of a table.
LEMMA UpsertType ==
  ASSUME NEW rows \in [Keys -> Versions], NEW b, IsRows(b)
  PROVE  Upsert(rows, b) \in [Keys -> Versions]
  BY BoundsAssumption DEF Upsert, IsRows, Versions, Cursors

\* What a flush leaves has the types of what it found.
LEMMA FlushType ==
  ASSUME TypeOK, Flush
  PROVE  /\ file' \in [Tables -> Positions]
         /\ dirty' \in BOOLEAN
         /\ unsaved' \in [Tables -> Nat]
<1>1. CASE dirty
  <2>1. /\ file' = store
        /\ dirty' = FALSE
        /\ unsaved' = [t \in Tables |-> IF pc[t] = "committed" THEN 1 ELSE 0]
    BY <1>1, Zenon DEF Flush
  <2>. QED
    BY <2>1 DEF TypeOK
<1>2. CASE ~dirty
  <2>1. UNCHANGED <<file, dirty, unsaved>>
    BY <1>2, Zenon DEF Flush
  <2>. QED
    BY <2>1 DEF TypeOK
<1>. QED
  BY <1>1, <1>2

\* What a process leaves when it ends is well typed.
LEMMA ProcessGoneType ==
  ASSUME TypeOK, ProcessGone
  PROVE  /\ up' \in BOOLEAN /\ cancelled' \in BOOLEAN /\ dirty' \in BOOLEAN
         /\ store' \in [Tables -> Positions]
         /\ pc' \in [Tables -> PCs]
         /\ DOMAIN batch' = Tables /\ \A t \in Tables : IsRows(batch'[t])
         /\ batchNo' \in [Tables -> 0 .. Every - 1]
         /\ unsaved' \in [Tables -> Nat]
<1>1. 0 \in 0 .. Every - 1
  BY BoundsAssumption
<1>. QED
  BY <1>1, NoRowsIsPage DEF ProcessGone, TypeOK, PCs

\* Every step keeps the types: the positions in file and store are positions
\* of rows, a page holds keys with cursors, and so on.
THEOREM Typing == Spec => []TypeOK
<1>. USE BoundsAssumption, KeysAssumption
<1>1. Init => TypeOK
  <2> SUFFICES ASSUME Init PROVE TypeOK
    OBVIOUS
  <2>1. 0 \in Versions /\ 0 \in 0 .. Every - 1 /\ 0 \in 0 .. MaxFaults
    BY DEF Versions
  <2>2. Origin \in Positions
    BY <2>1 DEF Origin, Positions
  <2>3. "queued" \in PCs
    BY DEF PCs
  <2>. QED
    BY <2>1, <2>2, <2>3, NoRowsIsPage DEF Init, TypeOK
<1>2. TypeOK /\ [Next]_vars => TypeOK'
  <2> SUFFICES ASSUME TypeOK, [Next]_vars PROVE TypeOK'
    OBVIOUS
  <2>. USE DEF TypeOK
  <2>1. ASSUME NEW t \in Tables, SourceWrite(t) PROVE TypeOK'
    <3>1. PICK R \in SUBSET (Keys \ Locked(t)) :
            pending' = [pending EXCEPT ![t] =
                           @ \union {[rows |-> R, cursor |-> clock[t] + 1]}]
      BY <2>1 DEF SourceWrite
    <3>2. [rows |-> R, cursor |-> clock[t] + 1] \in PendingWrites
      BY <2>1, <3>1 DEF SourceWrite, PendingWrites, Cursors, Versions
    <3>3. pending' \in [Tables -> SUBSET PendingWrites]
      BY <3>1, <3>2
    <3>4. clock' \in [Tables -> Versions]
      BY <2>1 DEF SourceWrite, Versions
    <3>. QED
      BY <2>1, <3>3, <3>4 DEF SourceWrite, disk, volatile
  <2>2. ASSUME NEW t \in Tables, SourceCommit(t) PROVE TypeOK'
    <3>1. PICK w \in pending[t] :
            /\ src' = [src EXCEPT ![t] =
                  [k \in Keys |-> IF k \in w.rows THEN w.cursor ELSE @[k]]]
            /\ pending' = [pending EXCEPT ![t] = @ \ {w}]
      BY <2>2 DEF SourceCommit
    <3>2. w.cursor \in Versions
      BY <3>1 DEF PendingWrites, Cursors, Versions
    <3>. QED
      BY <2>2, <3>1, <3>2 DEF SourceCommit, disk, volatile
  <2>3. ASSUME NEW t \in Tables, SourceDelete(t) PROVE TypeOK'
    BY <2>3 DEF SourceDelete, disk, volatile, Versions
  <2>4. ASSUME NEW t \in Tables, StartTable(t) PROVE TypeOK'
    BY <2>4 DEF StartTable, source, disk, PCs
  <2>5. ASSUME NEW t \in Tables, ReadPage(t) PROVE TypeOK'
    <3>1. PICK K \in SUBSET Keys :
            /\ IsPage(K, src[t], store[t])
            /\ batch' = [batch EXCEPT ![t] = [k \in K |-> src[t][k]]]
            /\ pc' = [pc EXCEPT ![t] = IF K = {} THEN "leaving" ELSE "writing"]
      BY <2>5 DEF ReadPage
    <3>2. IsRows([k \in K |-> src[t][k]])
      BY <3>1, PageIsRows
    <3>3. DOMAIN batch' = Tables /\ \A u \in Tables : IsRows(batch'[u])
      BY <3>1, <3>2
    <3>. QED
      BY <2>5, <3>1, <3>3 DEF ReadPage, source, disk, PCs
  <2>6. ASSUME NEW t \in Tables, ReadFails(t) PROVE TypeOK'
    BY <2>6 DEF ReadFails, CallFails, source, disk, PCs
  <2>7. ASSUME NEW t \in Tables, CommitPage(t) PROVE TypeOK'
    <3>1. Upsert(tgt[t], batch[t]) \in [Keys -> Versions]
      BY UpsertType
    <3>. QED
      BY <2>7, <3>1 DEF CommitPage, source, PCs
  <2>8. ASSUME NEW t \in Tables, WriteFails(t) PROVE TypeOK'
    <3>1. Upsert(tgt[t], batch[t]) \in [Keys -> Versions]
      BY UpsertType
    <3>. QED
      BY <2>8, <3>1 DEF WriteFails, CallFails, source, PCs
  <2>9. ASSUME NEW t \in Tables, UpdateStore(t) PROVE TypeOK'
    <3>1. PICK k \in DOMAIN batch[t] :
            store' = [store EXCEPT ![t] = <<batch[t][k], k>>]
      BY <2>9 DEF UpdateStore
    <3>2. <<batch[t][k], k>> \in Positions
      BY <3>1 DEF IsRows, Positions, Versions, Cursors
    <3>3. NextBatchNo(batchNo[t]) \in 0 .. Every - 1
      BY BatchNoRange
    <3>4. AfterPage(t) \in PCs
      BY DEF AfterPage, PCs
    <3>. QED
      BY <2>9, <3>1, <3>2, <3>3, <3>4 DEF UpdateStore, source, disk, PCs
  <2>10. ASSUME NEW t \in Tables, FlushBatches(t) PROVE TypeOK'
    <3>1. AfterPage(t) \in PCs
      BY DEF AfterPage, PCs
    <3>2. Flush
      BY <2>10 DEF FlushBatches
    <3>. QED
      BY <2>10, <3>1, <3>2, FlushType DEF FlushBatches, source
  <2>11. ASSUME NEW t \in Tables, FlushBatchesFails(t) PROVE TypeOK'
    BY <2>11 DEF FlushBatchesFails, DiskFails, source, disk, PCs
  <2>12. ASSUME NEW t \in Tables, Return(t) PROVE TypeOK'
    <3>1. Flush
      BY <2>12 DEF Return
    <3>2. DOMAIN batch' = Tables /\ \A u \in Tables : IsRows(batch'[u])
      BY <2>12, NoRowsIsPage DEF Return
    <3>3. cancelled' \in BOOLEAN
      BY <2>12 DEF Return
    <3>4. pc' \in [Tables -> PCs]
      BY <2>12 DEF Return, PCs
    <3>. QED
      BY <2>12, <3>1, <3>2, <3>3, <3>4, FlushType DEF Return, source
  <2>13. ASSUME NEW t \in Tables, ReturnFlushFails(t) PROVE TypeOK'
    BY <2>13, NoRowsIsPage DEF ReturnFlushFails, DiskFails, source, disk, PCs
  <2>14. CASE Invoke
    BY <2>14 DEF Invoke, LoadedState, source, disk
  <2>15. CASE Interrupt
    BY <2>15 DEF Interrupt, source, disk
  <2>16. CASE EndRun
    BY <2>16, ProcessGoneType DEF EndRun, source, disk
  <2>17. CASE Kill
    BY <2>17, ProcessGoneType DEF Kill, source, disk
  <2>18. CASE UNCHANGED vars
    BY <2>18 DEF vars
  <2>. QED
    BY <2>1, <2>2, <2>3, <2>4, <2>5, <2>6, <2>7, <2>8, <2>9, <2>10, <2>11,
       <2>12, <2>13, <2>14, <2>15, <2>16, <2>17, <2>18
       DEF Next, SourceStep, TaskStep
<1>. QED
  BY <1>1, <1>2, PTL DEF Spec

-----------------------------------------------------------------------------
(* The batches that a kill can make the next run read again.               *)

\* A flush leaves at most the batch that is committed and not yet in the store.
LEMMA FlushReplay ==
  ASSUME TypeOK, ReplayInv, Flush, NEW u \in Tables
  PROVE  /\ unsaved'[u] <= IF pc[u] = "committed" THEN 1 ELSE 0
         /\ pc[u] # "committed" => unsaved'[u] = 0
<1>1. CASE dirty
  <2>1. unsaved' = [t \in Tables |-> IF pc[t] = "committed" THEN 1 ELSE 0]
    BY <1>1, Zenon DEF Flush
  <2>. QED
    BY <2>1, <1>1
<1>2. CASE ~dirty
  <2>1. unsaved' = unsaved
    BY <1>2, Zenon DEF Flush
  <2>2. unsaved[u] <= IF pc[u] = "committed" THEN 1 ELSE 0
    BY <1>2, Zenon DEF ReplayInv, TableReplay
  <2>3. unsaved[u] \in Nat
    BY DEF TypeOK
  <2>. QED
    BY <2>1, <2>2, <2>3
<1>. QED
  BY <1>1, <1>2

\* Every step keeps what may be unsaved at each point of the loop.
LEMMA ReplayStep ==
  ASSUME TypeOK, ReplayInv, [Next]_vars
  PROVE  ReplayInv'
<1> SUFFICES ASSUME NEW u \in Tables PROVE TableReplay(u)'
  BY DEF ReplayInv
<1>. USE BoundsAssumption
<1>0. /\ unsaved[u] \in Nat
      /\ batchNo[u] \in 0 .. Every - 1
      /\ Every \in Nat \ {0}
  BY DEF TypeOK
<1>a. TableReplay(u)
  BY DEF ReplayInv
<1>b. ASSUME UNCHANGED <<dirty, pc, batchNo, unsaved>> PROVE TableReplay(u)'
  BY <1>a, <1>b DEF TableReplay
<1>1. ASSUME NEW t \in Tables, SourceStep(t) PROVE TableReplay(u)'
  BY <1>1, <1>b DEF SourceStep, SourceWrite, SourceCommit, SourceDelete, volatile
<1>2. ASSUME NEW t \in Tables, StartTable(t) PROVE TableReplay(u)'
  BY <1>2, <1>a, <1>0 DEF StartTable, TableReplay, TypeOK
<1>3. ASSUME NEW t \in Tables, ReadPage(t) PROVE TableReplay(u)'
  <2>1. pc' \in {[pc EXCEPT ![t] = "leaving"], [pc EXCEPT ![t] = "writing"]}
    BY <1>3, Zenon DEF ReadPage
  <2>. QED
    BY <1>3, <2>1, <1>a, <1>0 DEF ReadPage, TableReplay, TypeOK
<1>4. ASSUME NEW t \in Tables, ReadFails(t) PROVE TableReplay(u)'
  BY <1>4, <1>a, <1>0 DEF ReadFails, TableReplay, TypeOK
<1>5. ASSUME NEW t \in Tables, CommitPage(t) PROVE TableReplay(u)'
  BY <1>5, <1>a, <1>0 DEF CommitPage, TableReplay, TypeOK
<1>6. ASSUME NEW t \in Tables, WriteFails(t) PROVE TableReplay(u)'
  BY <1>6, <1>a, <1>0 DEF WriteFails, TableReplay, TypeOK
<1>7. ASSUME NEW t \in Tables, UpdateStore(t) PROVE TableReplay(u)'
  BY <1>7, <1>a, <1>0 DEF UpdateStore, NextBatchNo, AfterPage, TableReplay, TypeOK
<1>8. ASSUME NEW t \in Tables, FlushBatches(t) PROVE TableReplay(u)'
  <2>1. Flush /\ pc[t] = "flushing" /\ batchNo' = batchNo
    BY <1>8 DEF FlushBatches
  <2>2. pc' \in {[pc EXCEPT ![t] = "leaving"], [pc EXCEPT ![t] = "reading"]}
    BY <1>8, Zenon DEF FlushBatches, AfterPage
  <2>3. /\ unsaved'[u] <= IF pc[u] = "committed" THEN 1 ELSE 0
        /\ pc[u] # "committed" => unsaved'[u] = 0
        /\ unsaved'[u] \in Nat
    BY <2>1, FlushReplay, FlushType
  <2>. QED
    BY <2>1, <2>2, <2>3, <1>0 DEF TableReplay, TypeOK
<1>9. ASSUME NEW t \in Tables, FlushBatchesFails(t) PROVE TableReplay(u)'
  BY <1>9, <1>a, <1>0 DEF FlushBatchesFails, disk, TableReplay, TypeOK
<1>10. ASSUME NEW t \in Tables, Return(t) PROVE TableReplay(u)'
  <2>1. Flush /\ pc[t] \in {"leaving", "aborting"} /\ batchNo' = batchNo
    BY <1>10 DEF Return
  <2>2. pc' \in {[pc EXCEPT ![t] = "done"], [pc EXCEPT ![t] = "failed"]}
    BY <1>10 DEF Return
  <2>3. /\ unsaved'[u] <= IF pc[u] = "committed" THEN 1 ELSE 0
        /\ pc[u] # "committed" => unsaved'[u] = 0
        /\ unsaved'[u] \in Nat
    BY <2>1, FlushReplay, FlushType
  <2>. QED
    BY <2>1, <2>2, <2>3, <1>0 DEF TableReplay, TypeOK
<1>11. ASSUME NEW t \in Tables, ReturnFlushFails(t) PROVE TableReplay(u)'
  BY <1>11, <1>a, <1>0 DEF ReturnFlushFails, TableReplay, TypeOK
<1>12. CASE Invoke \/ Interrupt \/ UNCHANGED vars
  BY <1>12, <1>b DEF Invoke, Interrupt, vars
<1>13. CASE EndRun \/ Kill
  BY <1>13 DEF EndRun, Kill, ProcessGone, TableReplay
<1>. QED
  BY <1>1, <1>2, <1>3, <1>4, <1>5, <1>6, <1>7, <1>8, <1>9, <1>10, <1>11, <1>12,
     <1>13 DEF Next, TaskStep

\* A kill loses the checkpoints of at most Every batches of a table, whatever
\* the other tables flush and whatever flush fails.
THEOREM Replay == Spec => []BoundedReplay
<1>1. Init => ReplayInv
  BY BoundsAssumption DEF Init, ReplayInv, TableReplay
<1>2. ReplayInv => BoundedReplay
  BY DEF ReplayInv, TableReplay, BoundedReplay
<1>3. TypeOK /\ ReplayInv /\ [Next]_vars => ReplayInv'
  BY ReplayStep
<1>. QED
  BY <1>1, <1>2, <1>3, Typing, PTL DEF Spec

-----------------------------------------------------------------------------
(* The target never goes back.                                             *)

\* What the steps below need of the types of one table.
LEMMA TableTypes ==
  ASSUME TypeOK, NEW t \in Tables
  PROVE  /\ src[t] \in [Keys -> Versions]
         /\ tgt[t] \in [Keys -> Versions]
         /\ \A k \in Keys : src[t][k] \in Int /\ tgt[t][k] \in Int
         /\ clock[t] \in Int
         /\ pending[t] \subseteq PendingWrites
         /\ \A w \in pending[t] : w.cursor \in Int /\ w.rows \subseteq Keys
         /\ \A k \in DOMAIN batch[t] : k \in Keys /\ batch[t][k] \in Int
  BY DEF TypeOK, Versions, PendingWrites, Cursors, IsRows

\* A step that changes neither database keeps the invariant, if the page is
\* kept or dropped and no task gets to writing.
LEMMA ForwardRest ==
  ASSUME NEW u \in Tables, TableForward(u),
         UNCHANGED <<src, pending, clock, tgt>>,
         batch'[u] = batch[u] \/ batch'[u] = NoRows,
         pc'[u] = "writing" => pc[u] = "writing"
  PROVE  TableForward(u)'
<1>1. CASE batch'[u] = batch[u]
  BY <1>1 DEF TableForward, RowSettled
<1>2. CASE batch'[u] = NoRows
  <2>1. DOMAIN batch'[u] = {}
    BY <1>2 DEF NoRows
  <2>. QED
    BY <2>1 DEF TableForward, RowSettled
<1>. QED
  BY <1>1, <1>2

\* Every step keeps the order of the versions of a row.
LEMMA ForwardStep ==
  ASSUME TypeOK, ForwardInv, [Next]_vars
  PROVE  ForwardInv'
<1> SUFFICES ASSUME NEW u \in Tables PROVE TableForward(u)'
  BY DEF ForwardInv
<1>a. TableForward(u)
  BY DEF ForwardInv
<1>b. /\ DOMAIN src = Tables /\ DOMAIN pending = Tables /\ DOMAIN clock = Tables
      /\ DOMAIN tgt = Tables /\ DOMAIN pc = Tables /\ DOMAIN batch = Tables
  BY DEF TypeOK
<1>1. ASSUME NEW t \in Tables, SourceWrite(t) PROVE TableForward(u)'
  <2>1. PICK R \in SUBSET (Keys \ Locked(t)) :
          pending' = [pending EXCEPT ![t] =
                         @ \union {[rows |-> R, cursor |-> clock[t] + 1]}]
    BY <1>1 DEF SourceWrite
  <2>2. /\ clock' = [clock EXCEPT ![t] = @ + 1]
        /\ UNCHANGED <<src, tgt, batch, pc>>
    BY <1>1 DEF SourceWrite, disk, volatile
  <2>3. CASE u # t
    BY <2>1, <2>2, <2>3, <1>a, <1>b DEF TableForward, RowSettled
  <2>4. CASE u = t
    <3>. DEFINE new == [rows |-> R, cursor |-> clock[u] + 1]
    <3>1. /\ pending'[u] = pending[u] \union {new}
          /\ clock'[u] = clock[u] + 1
          /\ new.rows = R /\ new.cursor = clock[u] + 1
      BY <2>1, <2>2, <2>4, <1>b
    <3>2. \A w \in pending[u] : w.rows \cap R = {}
      BY <2>4 DEF Locked
    <3>. HIDE DEF new
    <3>3. ASSUME NEW k, NEW c \in Int, RowSettled(u, k, c)
          PROVE  RowSettled(u, k, c)'
      BY <3>1, <3>3, <2>2, TableTypes DEF RowSettled
    <3>4. \A w \in pending'[u] : w.cursor <= clock'[u]
      BY <3>1, <1>a, TableTypes DEF TableForward
    <3>5. \A v, w \in pending'[u] : v = w \/ v.rows \cap w.rows = {}
      BY <3>1, <3>2, <1>a DEF TableForward
    <3>6. \A k \in Keys : RowSettled(u, k, src[u][k])' /\ RowSettled(u, k, tgt[u][k])'
      BY <3>3, <2>2, <1>a, TableTypes DEF TableForward
    <3>7. \A k \in DOMAIN batch[u] : RowSettled(u, k, batch[u][k])'
      BY <3>3, <2>2, <1>a, TableTypes DEF TableForward
    <3>. QED
      BY <3>4, <3>5, <3>6, <3>7, <2>2, <1>a DEF TableForward
  <2>. QED
    BY <2>3, <2>4
<1>2. ASSUME NEW t \in Tables, SourceCommit(t) PROVE TableForward(u)'
  <2>1. PICK w \in pending[t] :
          /\ src' = [src EXCEPT ![t] =
                [k \in Keys |-> IF k \in w.rows THEN w.cursor ELSE @[k]]]
          /\ pending' = [pending EXCEPT ![t] = @ \ {w}]
    BY <1>2 DEF SourceCommit
  <2>2. UNCHANGED <<clock, tgt, batch, pc>>
    BY <1>2 DEF SourceCommit, disk, volatile
  <2>3. CASE u # t
    BY <2>1, <2>2, <2>3, <1>a, <1>b DEF TableForward, RowSettled
  <2>4. CASE u = t
    <3>1. /\ \A k \in Keys : src'[u][k] = IF k \in w.rows THEN w.cursor ELSE src[u][k]
          /\ pending'[u] = pending[u] \ {w}
      BY <2>1, <2>4, <1>b
    <3>2. ASSUME NEW k \in Keys, NEW c \in Int, RowSettled(u, k, c)
          PROVE  RowSettled(u, k, c)'
      BY <3>1, <3>2, <2>2, <2>4, TableTypes DEF RowSettled
    <3>3. ASSUME NEW k \in Keys PROVE RowSettled(u, k, src[u][k])'
      <4>1. CASE k \in w.rows
        BY <4>1, <3>1, <2>2, <2>4, <1>a, TableTypes DEF TableForward, RowSettled
      <4>2. CASE k \notin w.rows
        BY <4>2, <3>1, <3>2, <1>a, TableTypes DEF TableForward
      <4>. QED
        BY <4>1, <4>2
    <3>4. \A k \in Keys : RowSettled(u, k, tgt[u][k])'
      BY <3>2, <2>2, <1>a, TableTypes DEF TableForward
    <3>5. \A k \in DOMAIN batch[u] : RowSettled(u, k, batch[u][k])'
      BY <3>2, <2>2, <1>a, TableTypes DEF TableForward
    <3>. QED
      BY <3>1, <3>3, <3>4, <3>5, <2>2, <1>a DEF TableForward
  <2>. QED
    BY <2>3, <2>4
<1>3. ASSUME NEW t \in Tables, SourceDelete(t) PROVE TableForward(u)'
  <2>1. PICK d \in Keys \ Locked(t) : src' = [src EXCEPT ![t][d] = 0]
    BY <1>3 DEF SourceDelete
  <2>2. UNCHANGED <<pending, clock, tgt, batch, pc>>
    BY <1>3 DEF SourceDelete, disk, volatile
  <2>3. \A k \in Keys : src'[u][k] = src[u][k] \/ src'[u][k] = 0
    BY <2>1, <1>b, TableTypes
  <2>4. ASSUME NEW k \in Keys, NEW c \in Int, RowSettled(u, k, c)
        PROVE  RowSettled(u, k, c)'
    BY <2>2, <2>3, <2>4 DEF RowSettled
  <2>5. ASSUME NEW k \in Keys PROVE RowSettled(u, k, src[u][k])'
    <3>1. CASE src'[u][k] = src[u][k]
      BY <3>1, <2>4, <1>a, TableTypes DEF TableForward
    <3>2. CASE src'[u][k] = 0
      <4>1. /\ clock[u] >= 0
            /\ \A w \in pending[u] : 0 < w.cursor
        BY DEF TypeOK, Versions, PendingWrites, Cursors
      <4>. QED
        BY <3>2, <4>1, <2>2 DEF RowSettled
    <3>. QED
      BY <3>1, <3>2, <2>3
  <2>6. \A k \in Keys : RowSettled(u, k, tgt[u][k])'
    BY <2>2, <2>4, <1>a, TableTypes DEF TableForward
  <2>7. \A k \in DOMAIN batch[u] : RowSettled(u, k, batch[u][k])'
    BY <2>2, <2>4, <1>a, TableTypes DEF TableForward
  <2>. QED
    BY <2>2, <2>5, <2>6, <2>7, <1>a DEF TableForward
<1>4. ASSUME NEW t \in Tables, ReadPage(t) PROVE TableForward(u)'
  <2>1. PICK K \in SUBSET Keys :
          /\ IsPage(K, src[t], store[t])
          /\ batch' = [batch EXCEPT ![t] = [k \in K |-> src[t][k]]]
    BY <1>4 DEF ReadPage
  <2>2. UNCHANGED <<src, pending, clock, tgt>>
    BY <1>4 DEF ReadPage, source, disk
  <2>3. CASE u # t
    <3>1. batch'[u] = batch[u] /\ pc'[u] = pc[u]
      BY <2>1, <2>3, <1>4, <1>b DEF ReadPage
    <3>. QED
      BY <3>1, <2>2, <1>a, ForwardRest
  <2>4. CASE u = t
    <3>1. \A k \in DOMAIN batch'[u] :
             /\ k \in Keys
             /\ batch'[u][k] = src[u][k]
             /\ src[u][k] > 0
      <4>1. K \subseteq RowsAfter(src[t], store[t])
        BY <2>1 DEF IsPage
      <4>2. \A k \in K : k \in Keys /\ src[t][k] > 0
        BY <4>1, Zenon DEF RowsAfter
      <4>. QED
        BY <4>2, <2>1, <2>4, <1>b
    <3>. QED
      BY <3>1, <2>2, <1>a, TableTypes DEF TableForward, RowSettled
  <2>. QED
    BY <2>3, <2>4
<1>5. ASSUME NEW t \in Tables,
             tgt' = [tgt EXCEPT ![t] = Upsert(@, batch[t])],
             pc[t] = "writing", pc'[t] # "writing",
             \A v \in Tables : v # t => pc'[v] = pc[v],
             UNCHANGED <<src, pending, clock, batch>>
      PROVE  TableForward(u)'
  <2>1. CASE u # t
    BY <2>1, <1>5, <1>a, <1>b DEF TableForward, RowSettled
  <2>2. CASE u = t
    <3>1. \A k \in Keys :
            tgt'[u][k] = IF k \in DOMAIN batch[u] THEN batch[u][k] ELSE tgt[u][k]
      BY <2>2, <1>5, <1>b DEF Upsert
    <3>2. \A k \in Keys : RowSettled(u, k, tgt'[u][k])
      BY <3>1, <1>a DEF TableForward
    <3>. QED
      BY <3>2, <2>2, <1>5, <1>a DEF TableForward, RowSettled
  <2>. QED
    BY <2>1, <2>2
<1>6. ASSUME NEW t \in Tables, CommitPage(t) PROVE TableForward(u)'
  BY <1>5, <1>6, <1>b DEF CommitPage, source
<1>7. ASSUME NEW t \in Tables, WriteFails(t) PROVE TableForward(u)'
  <2>1. /\ pc[t] = "writing" /\ pc' = [pc EXCEPT ![t] = "aborting"]
        /\ UNCHANGED <<src, pending, clock, batch>>
    BY <1>7 DEF WriteFails, source
  <2>2. CASE UNCHANGED tgt
    BY <2>1, <2>2, <1>a, <1>b, ForwardRest
  <2>3. CASE tgt' = [tgt EXCEPT ![t] = Upsert(@, batch[t])]
    BY <2>1, <2>3, <1>5, <1>b
  <2>. QED
    BY <2>2, <2>3, <1>7 DEF WriteFails
<1>8. ASSUME NEW t \in Tables,
             \/ StartTable(t) \/ ReadFails(t) \/ UpdateStore(t) \/ FlushBatches(t)
             \/ FlushBatchesFails(t) \/ Return(t) \/ ReturnFlushFails(t)
      PROVE  TableForward(u)'
  <2>1. UNCHANGED <<src, pending, clock, tgt>>
    BY <1>8 DEF StartTable, ReadFails, UpdateStore, FlushBatches,
       FlushBatchesFails, Return, ReturnFlushFails, source, disk
  <2>2. batch'[u] = batch[u] \/ batch'[u] = NoRows
    BY <1>8, <1>b DEF StartTable, ReadFails, UpdateStore, FlushBatches,
       FlushBatchesFails, Return, ReturnFlushFails
  <2>3. pc'[u] = "writing" => pc[u] = "writing"
    BY <1>8, <1>b DEF StartTable, ReadFails, UpdateStore, FlushBatches,
       FlushBatchesFails, Return, ReturnFlushFails, AfterPage
  <2>. QED
    BY <2>1, <2>2, <2>3, <1>a, ForwardRest
<1>9. CASE Invoke \/ Interrupt \/ UNCHANGED vars
  BY <1>9, <1>a, ForwardRest DEF Invoke, Interrupt, source, disk, vars
<1>10. CASE EndRun \/ Kill
  BY <1>10, <1>a, ForwardRest DEF EndRun, Kill, ProcessGone, source, disk
<1>. QED
  BY <1>1, <1>2, <1>3, <1>4, <1>6, <1>7, <1>8, <1>9, <1>10
     DEF Next, SourceStep, TaskStep

LEMMA ForwardInvariant == Spec => []ForwardInv
<1>1. Init => ForwardInv
  <2> SUFFICES ASSUME Init, NEW t \in Tables PROVE TableForward(t)
    BY DEF ForwardInv
  <2>1. DOMAIN batch[t] = {} /\ pending[t] = {} /\ clock[t] = 0
    BY DEF Init, NoRows
  <2>2. \A k \in Keys : src[t][k] = 0 /\ tgt[t][k] = 0
    BY DEF Init
  <2>. QED
    BY <2>1, <2>2 DEF TableForward, RowSettled
<1>2. TypeOK /\ ForwardInv /\ [Next]_vars => ForwardInv'
  BY ForwardStep
<1>. QED
  BY <1>1, <1>2, Typing, PTL DEF Spec

\* Replay after a kill or an error, and pages that fail halfway, never take a
\* target row back to an older version, however the source writers interleave.
THEOREM NoTargetRollback == Spec => TargetForward
<1>1. TypeOK /\ ForwardInv /\ [Next]_vars
        => [\A t \in Tables, k \in Keys : tgt'[t][k] >= tgt[t][k]]_vars
  <2> SUFFICES ASSUME TypeOK, ForwardInv, [Next]_vars,
                      NEW u \in Tables, NEW k \in Keys
               PROVE  tgt'[u][k] >= tgt[u][k]
    OBVIOUS
  <2>0. tgt[u][k] \in Int
    BY TableTypes
  <2>1. ASSUME NEW t \in Tables, pc[t] = "writing",
               tgt' = [tgt EXCEPT ![t] = Upsert(@, batch[t])]
        PROVE  tgt'[u][k] >= tgt[u][k]
    <3>1. CASE u = t /\ k \in DOMAIN batch[t]
      <4>1. tgt'[u][k] = batch[u][k]
        BY <2>1, <3>1 DEF Upsert, TypeOK
      <4>. QED
        BY <4>1, <2>1, <3>1, TableTypes DEF ForwardInv, TableForward
    <3>2. CASE ~(u = t /\ k \in DOMAIN batch[t])
      <4>1. tgt'[u][k] = tgt[u][k]
        BY <2>1, <3>2 DEF Upsert, TypeOK
      <4>. QED
        BY <4>1, <2>0
    <3>. QED
      BY <3>1, <3>2
  <2>2. tgt' = tgt \/ \E t \in Tables : CommitPage(t) \/ WriteFails(t)
    BY DEF Next, SourceStep, TaskStep, SourceWrite, SourceCommit, SourceDelete,
       StartTable, ReadPage, ReadFails, UpdateStore, FlushBatches,
       FlushBatchesFails, Return, ReturnFlushFails, Invoke, Interrupt, EndRun,
       Kill, disk, vars
  <2>3. CASE tgt' = tgt
    BY <2>3, <2>0
  <2>4. ASSUME NEW t \in Tables, CommitPage(t) \/ WriteFails(t)
        PROVE  tgt' = tgt \/ tgt'[u][k] >= tgt[u][k]
    BY <2>4, <2>1 DEF CommitPage, WriteFails
  <2>. QED
    BY <2>0, <2>2, <2>3, <2>4
<1>. QED
  BY <1>1, ForwardInvariant, Typing, PTL DEF Spec, TargetForward

-----------------------------------------------------------------------------
(* Positions, and the checkpoints that never go back.                      *)

\* The order of positions.
LEMMA BeforeTransitive ==
  ASSUME NEW p \in Int \X Int, NEW q \in Int \X Int, NEW r \in Int \X Int,
         Before(p, q), Before(q, r)
  PROVE  Before(p, r)
  BY DEF Before

LEMMA NotBeforeTransitive ==
  ASSUME NEW p \in Int \X Int, NEW q \in Int \X Int, NEW r \in Int \X Int,
         ~Before(q, p), Before(q, r)
  PROVE  Before(p, r)
  BY DEF Before

LEMMA BeforeIrreflexive ==
  ASSUME NEW p \in Int \X Int
  PROVE  ~Before(p, p)
  BY DEF Before

LEMMA BeforeAsymmetric ==
  ASSUME NEW p \in Int \X Int, NEW q \in Int \X Int, Before(p, q)
  PROVE  ~Before(q, p)
  BY DEF Before

\* Checkpoints and rows have positions in that order.
LEMMA PositionTypes ==
  ASSUME TypeOK, NEW t \in Tables
  PROVE  /\ store[t] \in Int \X Int
         /\ file[t] \in Int \X Int
         /\ \A k \in Keys : <<src[t][k], k>> \in Int \X Int
         /\ \A k \in DOMAIN batch[t] : <<batch[t][k], k>> \in Int \X Int
<1>1. Versions \subseteq Int /\ Keys \subseteq Int /\ 0 \in Int
  BY KeysAssumption DEF Versions
<1>2. store[t] \in Positions /\ file[t] \in Positions
  BY DEF TypeOK
<1>. QED
  BY <1>1, <1>2, TableTypes DEF Positions

\* What a flush does to the file.
LEMMA FlushFile ==
  ASSUME Flush
  PROVE  file' = store \/ file' = file
<1>1. CASE dirty
  BY <1>1, Zenon DEF Flush
<1>2. CASE ~dirty
  BY <1>2, Zenon DEF Flush
<1>. QED
  BY <1>1, <1>2

\* A step that neither reads a page nor stores its end keeps the order.
LEMMA OrderRest ==
  ASSUME TypeOK, OrderInv, NEW u \in Tables,
         \/ store'[u] = store[u] /\ file'[u] \in {file[u], store[u]}
         \/ store'[u] = file[u] /\ file'[u] = file[u],
         pc'[u] \in {"writing", "committed"} =>
             /\ pc[u] \in {"writing", "committed"}
             /\ store'[u] = store[u]
             /\ batch'[u] = batch[u]
  PROVE  ~Before(store'[u], file'[u]) /\ PageAhead(u)'
<1>1. ~Before(store'[u], file'[u])
  BY BeforeIrreflexive, PositionTypes DEF OrderInv
<1>2. PageAhead(u)'
  BY DEF OrderInv, PageAhead
<1>. QED
  BY <1>1, <1>2

\* Tasks run only while an invocation does.
LEMMA IdleStep ==
  ASSUME TypeOK, IdleInv, [Next]_vars
  PROVE  IdleInv'
<1>1. CASE up' = TRUE
  BY <1>1 DEF IdleInv
<1>2. CASE up' = up /\ pc' = pc
  BY <1>2 DEF IdleInv
<1>3. ASSUME NEW t \in Tables, TaskStep(t) PROVE up' = TRUE
  <2>1. up /\ up' = up
    BY <1>3 DEF TaskStep, StartTable, ReadPage, ReadFails, CommitPage,
       WriteFails, UpdateStore, FlushBatches, FlushBatchesFails, Return,
       ReturnFlushFails, IdleInv
  <2>. QED
    BY <2>1 DEF TypeOK
<1>4. CASE EndRun \/ Kill
  BY <1>4 DEF EndRun, Kill, ProcessGone, IdleInv
<1>. QED
  BY <1>1, <1>2, <1>3, <1>4 DEF Next, SourceStep, SourceWrite, SourceCommit,
     SourceDelete, Invoke, Interrupt, volatile, vars

\* Every step keeps file, store and page in order.
LEMMA OrderStep ==
  ASSUME TypeOK, IdleInv, OrderInv, [Next]_vars
  PROVE  OrderInv'
<1> SUFFICES ASSUME NEW u \in Tables
             PROVE  ~Before(store'[u], file'[u]) /\ PageAhead(u)'
  BY DEF OrderInv
<1>a. ~Before(store[u], file[u]) /\ PageAhead(u)
  BY DEF OrderInv
<1>b. /\ DOMAIN store = Tables /\ DOMAIN file = Tables
      /\ DOMAIN pc = Tables /\ DOMAIN batch = Tables
  BY DEF TypeOK
<1>1. ASSUME NEW t \in Tables, SourceStep(t)
      PROVE  ~Before(store'[u], file'[u]) /\ PageAhead(u)'
  <2>1. UNCHANGED <<store, file, pc, batch>>
    BY <1>1 DEF SourceStep, SourceWrite, SourceCommit, SourceDelete, disk, volatile
  <2>. QED
    BY <2>1, OrderRest
<1>2. ASSUME NEW t \in Tables, ReadPage(t)
      PROVE  ~Before(store'[u], file'[u]) /\ PageAhead(u)'
  <2>1. PICK K \in SUBSET Keys :
          /\ IsPage(K, src[t], store[t])
          /\ batch' = [batch EXCEPT ![t] = [k \in K |-> src[t][k]]]
          /\ pc' = [pc EXCEPT ![t] = IF K = {} THEN "leaving" ELSE "writing"]
    BY <1>2 DEF ReadPage
  <2>2. UNCHANGED <<store, file>>
    BY <1>2 DEF ReadPage, disk
  <2>3. CASE u # t
    BY <2>1, <2>2, <2>3, <1>b, OrderRest
  <2>4. CASE u = t
    <3>1. \A k \in K : Before(store[u], <<src[u][k], k>>)
      <4>1. K \subseteq RowsAfter(src[t], store[t])
        BY <2>1 DEF IsPage
      <4>. QED
        BY <4>1, <2>4, Zenon DEF RowsAfter
    <3>2. batch'[u] = [k \in K |-> src[u][k]]
      BY <2>1, <2>4, <1>b
    <3>3. DOMAIN batch'[u] = K /\ \A k \in K : batch'[u][k] = src[u][k]
      BY <3>2
    <3>4. pc'[u] \in {"writing", "committed"} => K # {}
      BY <2>1, <2>4, <1>b
    <3>. QED
      BY <3>1, <3>3, <3>4, <2>2, <1>a DEF PageAhead
  <2>. QED
    BY <2>3, <2>4
<1>3. ASSUME NEW t \in Tables, UpdateStore(t)
      PROVE  ~Before(store'[u], file'[u]) /\ PageAhead(u)'
  <2>1. PICK k \in DOMAIN batch[t] :
          store' = [store EXCEPT ![t] = <<batch[t][k], k>>]
    BY <1>3 DEF UpdateStore
  <2>2. /\ pc[t] = "committed"
        /\ pc' \in {[pc EXCEPT ![t] = x] : x \in {"flushing", "leaving", "reading"}}
        /\ UNCHANGED <<file, batch>>
    BY <1>3 DEF UpdateStore, AfterPage, disk
  <2>3. CASE u # t
    BY <2>1, <2>2, <2>3, <1>b, OrderRest
  <2>4. CASE u = t
    <3>1. Before(store[u], <<batch[u][k], k>>)
      BY <2>1, <2>2, <2>4, <1>a DEF PageAhead
    <3>2. Before(file[u], store'[u]) \/ file[u] = store'[u]
      BY <3>1, <2>1, <2>4, <1>a, <1>b, NotBeforeTransitive, PositionTypes
    <3>3. store'[u] \in Int \X Int
      BY <2>1, <2>4, <1>b, PositionTypes
    <3>4. ~Before(store'[u], file[u])
      BY <3>2, <3>3, BeforeAsymmetric, BeforeIrreflexive, PositionTypes
    <3>5. pc'[u] \notin {"writing", "committed"}
      BY <2>2, <2>4, <1>b
    <3>. QED
      BY <3>4, <3>5, <2>2 DEF PageAhead
  <2>. QED
    BY <2>3, <2>4
<1>4. ASSUME NEW t \in Tables, FlushBatches(t) \/ Return(t)
      PROVE  ~Before(store'[u], file'[u]) /\ PageAhead(u)'
  <2>1. file' = store \/ file' = file
    BY <1>4, FlushFile DEF FlushBatches, Return
  <2>2. store' = store
    BY <1>4 DEF FlushBatches, Return
  <2>3. pc'[u] \in {"writing", "committed"} =>
            pc[u] \in {"writing", "committed"} /\ batch'[u] = batch[u]
    BY <1>4, <1>b DEF FlushBatches, Return, AfterPage
  <2>. QED
    BY <2>1, <2>2, <2>3, OrderRest
<1>5. ASSUME NEW t \in Tables,
             \/ StartTable(t) \/ ReadFails(t) \/ CommitPage(t) \/ WriteFails(t)
             \/ FlushBatchesFails(t) \/ ReturnFlushFails(t)
      PROVE  ~Before(store'[u], file'[u]) /\ PageAhead(u)'
  <2>1. UNCHANGED <<store, file>>
    BY <1>5 DEF StartTable, ReadFails, CommitPage, WriteFails,
       FlushBatchesFails, ReturnFlushFails, disk
  <2>2. pc'[u] \in {"writing", "committed"} =>
            pc[u] \in {"writing", "committed"} /\ batch'[u] = batch[u]
    BY <1>5, <1>b DEF StartTable, ReadFails, CommitPage, WriteFails,
       FlushBatchesFails, ReturnFlushFails
  <2>. QED
    BY <2>1, <2>2, OrderRest
<1>6. CASE Invoke
  <2>1. /\ file' = file /\ store' = file
        /\ pc' = pc /\ batch' = batch
    BY <1>6 DEF Invoke, LoadedState, disk
  <2>2. ~Before(store'[u], file'[u])
    BY <2>1, BeforeIrreflexive, PositionTypes
  <2>3. PageAhead(u)'
    BY <1>6, <2>1 DEF Invoke, IdleInv, PageAhead
  <2>. QED
    BY <2>2, <2>3
<1>7. CASE Interrupt \/ UNCHANGED vars
  BY <1>7, OrderRest DEF Interrupt, disk, vars
<1>8. CASE EndRun \/ Kill
  BY <1>8, OrderRest DEF EndRun, Kill, ProcessGone, disk
<1>. QED
  BY <1>1, <1>2, <1>3, <1>4, <1>5, <1>6, <1>7, <1>8 DEF Next, TaskStep

\* What each step may do to the state file.
LEMMA FileStep ==
  ASSUME [Next]_vars
  PROVE  file' = file \/ file' = store
  BY FlushFile
     DEF Next, SourceStep, TaskStep, SourceWrite, SourceCommit, SourceDelete,
         StartTable, ReadPage, ReadFails, CommitPage, WriteFails, UpdateStore,
         FlushBatches, FlushBatchesFails, Return, ReturnFlushFails, Invoke,
         Interrupt, EndRun, Kill, disk, vars

\* The state file never moves back, whichever task writes it and whatever
\* fails, over any number of invocations.
THEOREM NoFileRollback == Spec => FileForward
<1>1. Init => OrderInv
  BY DEF Init, OrderInv, PageAhead, Origin, Before
<1>2. TypeOK /\ IdleInv /\ OrderInv /\ [Next]_vars => OrderInv'
  BY OrderStep
<1>3. TypeOK /\ OrderInv /\ [Next]_vars
        => [\A t \in Tables : ~Before(file'[t], file[t])]_vars
  BY FileStep, BeforeIrreflexive, PositionTypes DEF OrderInv
<1>4. Init => IdleInv
  BY DEF Init, IdleInv
<1>5. TypeOK /\ IdleInv /\ [Next]_vars => IdleInv'
  BY IdleStep
<1>. QED
  BY <1>1, <1>2, <1>3, <1>4, <1>5, Typing, PTL DEF Spec, FileForward

-----------------------------------------------------------------------------
(* The checkpoints cover what is behind them, unless a transaction becomes *)
(* visible late; when the writers of a table commit in cursor order none   *)
(* does.                                                                   *)

\* A step that leaves the source alone keeps the positions settled.
LEMMA SettledRest ==
  ASSUME NEW u \in Tables, SourceSettled(u), PositionsSettled(u),
         src'[u] = src[u], pending'[u] = pending[u], clock'[u] = clock[u],
         store'[u] \in {store[u], file[u]},
         file'[u] \in {store[u], file[u]},
         batch'[u] = batch[u] \/ batch'[u] = NoRows
  PROVE  SourceSettled(u)' /\ PositionsSettled(u)'
<1>1. DOMAIN NoRows = {}
  BY DEF NoRows
<1>. QED
  BY <1>1 DEF SourceSettled, PositionsSettled, Settled

\* With serial writers every step keeps the cursor values that are visible
\* below those still to come.
LEMMA SettledStep ==
  ASSUME SerialWriters, TypeOK, SettledInv, [Next]_vars
  PROVE  SettledInv'
<1> SUFFICES ASSUME NEW u \in Tables
             PROVE  SourceSettled(u)' /\ PositionsSettled(u)'
  BY DEF SettledInv
<1>a. SourceSettled(u) /\ PositionsSettled(u)
  BY DEF SettledInv
<1>b. /\ DOMAIN src = Tables /\ DOMAIN pending = Tables /\ DOMAIN clock = Tables
      /\ DOMAIN store = Tables /\ DOMAIN file = Tables /\ DOMAIN batch = Tables
  BY DEF TypeOK
<1>c. store[u][1] \in Int /\ file[u][1] \in Int
  BY PositionTypes
<1>1. ASSUME NEW t \in Tables, SourceWrite(t)
      PROVE  SourceSettled(u)' /\ PositionsSettled(u)'
  <2>1. PICK R \in SUBSET (Keys \ Locked(t)) :
          pending' = [pending EXCEPT ![t] =
                         @ \union {[rows |-> R, cursor |-> clock[t] + 1]}]
    BY <1>1 DEF SourceWrite
  <2>2. /\ clock' = [clock EXCEPT ![t] = @ + 1]
        /\ pending[t] = {}
        /\ UNCHANGED <<src, store, file, batch>>
    BY <1>1 DEF SourceWrite, disk, volatile
  <2>3. CASE u # t
    BY <2>1, <2>2, <2>3, <1>a, <1>b, SettledRest
  <2>4. CASE u = t
    <3>1. /\ \A w \in pending'[u] : w = [rows |-> R, cursor |-> clock[u] + 1]
          /\ \A w \in pending'[u] : w.cursor = clock[u] + 1
          /\ clock'[u] = clock[u] + 1
      BY <2>1, <2>2, <2>4, <1>b
    <3>2. ASSUME NEW c \in Int, Settled(u, c) PROVE Settled(u, c)'
      BY <3>1, <3>2, TableTypes DEF Settled
    <3>3. SourceSettled(u)'
      BY <3>1, <3>2, <2>2, <1>a, TableTypes DEF SourceSettled
    <3>4. PositionsSettled(u)'
      BY <3>2, <2>2, <1>a, <1>c, TableTypes DEF PositionsSettled
    <3>. QED
      BY <3>3, <3>4
  <2>. QED
    BY <2>3, <2>4
<1>2. ASSUME NEW t \in Tables, SourceCommit(t)
      PROVE  SourceSettled(u)' /\ PositionsSettled(u)'
  <2>1. PICK w \in pending[t] :
          /\ src' = [src EXCEPT ![t] =
                [k \in Keys |-> IF k \in w.rows THEN w.cursor ELSE @[k]]]
          /\ pending' = [pending EXCEPT ![t] = @ \ {w}]
    BY <1>2 DEF SourceCommit
  <2>2. UNCHANGED <<clock, store, file, batch>>
    BY <1>2 DEF SourceCommit, disk, volatile
  <2>3. CASE u # t
    BY <2>1, <2>2, <2>3, <1>a, <1>b, SettledRest
  <2>4. CASE u = t
    <3>1. /\ pending'[u] = {}
          /\ \A k \in Keys : src'[u][k] \in {w.cursor, src[u][k]}
      BY <2>1, <2>4, <1>a, <1>b DEF SourceSettled
    <3>2. w.cursor <= clock'[u]
      BY <2>1, <2>2, <2>4, <1>a DEF SourceSettled
    <3>3. SourceSettled(u)'
      BY <3>1, <3>2, <2>2, <1>a DEF SourceSettled, Settled
    <3>4. PositionsSettled(u)'
      BY <3>1, <2>2, <1>a DEF PositionsSettled, Settled
    <3>. QED
      BY <3>3, <3>4
  <2>. QED
    BY <2>3, <2>4
<1>3. ASSUME NEW t \in Tables, SourceDelete(t)
      PROVE  SourceSettled(u)' /\ PositionsSettled(u)'
  <2>1. PICK d \in Keys \ Locked(t) : src' = [src EXCEPT ![t][d] = 0]
    BY <1>3 DEF SourceDelete
  <2>2. UNCHANGED <<pending, clock, store, file, batch>>
    BY <1>3 DEF SourceDelete, disk, volatile
  <2>3. \A k \in Keys : src'[u][k] = src[u][k] \/ src'[u][k] = 0
    BY <2>1, <1>b, TableTypes
  <2>4. Settled(u, 0)
    BY DEF Settled, TypeOK, Versions, PendingWrites, Cursors
  <2>5. SourceSettled(u)'
    BY <2>2, <2>3, <2>4, <1>a DEF SourceSettled, Settled
  <2>6. PositionsSettled(u)'
    BY <2>2, <1>a DEF PositionsSettled, Settled
  <2>. QED
    BY <2>5, <2>6
<1>4. ASSUME NEW t \in Tables, ReadPage(t)
      PROVE  SourceSettled(u)' /\ PositionsSettled(u)'
  <2>1. PICK K \in SUBSET Keys :
          batch' = [batch EXCEPT ![t] = [k \in K |-> src[t][k]]]
    BY <1>4 DEF ReadPage
  <2>2. UNCHANGED <<src, pending, clock, store, file>>
    BY <1>4 DEF ReadPage, source, disk
  <2>3. CASE u # t
    BY <2>1, <2>2, <2>3, <1>a, <1>b, SettledRest
  <2>4. CASE u = t
    <3>1. \A k \in DOMAIN batch'[u] : k \in Keys /\ batch'[u][k] = src[u][k]
      BY <2>1, <2>4, <1>b
    <3>. QED
      BY <3>1, <2>2, <1>a DEF SourceSettled, PositionsSettled, Settled
  <2>. QED
    BY <2>3, <2>4
<1>5. ASSUME NEW t \in Tables, UpdateStore(t)
      PROVE  SourceSettled(u)' /\ PositionsSettled(u)'
  <2>1. PICK k \in DOMAIN batch[t] :
          store' = [store EXCEPT ![t] = <<batch[t][k], k>>]
    BY <1>5 DEF UpdateStore
  <2>2. UNCHANGED <<src, pending, clock, file, batch>>
    BY <1>5 DEF UpdateStore, source, disk
  <2>3. CASE u # t
    BY <2>1, <2>2, <2>3, <1>a, <1>b, SettledRest
  <2>4. CASE u = t
    <3>1. store'[u][1] = batch[u][k]
      BY <2>1, <2>4, <1>b
    <3>. QED
      BY <3>1, <2>1, <2>2, <2>4, <1>a DEF SourceSettled, PositionsSettled, Settled
  <2>. QED
    BY <2>3, <2>4
<1>6. ASSUME NEW t \in Tables,
             \/ StartTable(t) \/ ReadFails(t) \/ CommitPage(t) \/ WriteFails(t)
             \/ FlushBatches(t) \/ FlushBatchesFails(t) \/ Return(t)
             \/ ReturnFlushFails(t)
      PROVE  SourceSettled(u)' /\ PositionsSettled(u)'
  <2>1. UNCHANGED <<src, pending, clock, store>>
    BY <1>6 DEF StartTable, ReadFails, CommitPage, WriteFails, FlushBatches,
       FlushBatchesFails, Return, ReturnFlushFails, source, disk
  <2>2. file' = file \/ file' = store
    BY FileStep
  <2>3. batch'[u] = batch[u] \/ batch'[u] = NoRows
    BY <1>6, <1>b DEF StartTable, ReadFails, CommitPage, WriteFails,
       FlushBatches, FlushBatchesFails, Return, ReturnFlushFails
  <2>. QED
    BY <2>1, <2>2, <2>3, <1>a, SettledRest
<1>7. CASE Invoke \/ Interrupt \/ UNCHANGED vars
  BY <1>7, <1>a, SettledRest DEF Invoke, LoadedState, Interrupt, source, disk, vars
<1>8. CASE EndRun \/ Kill
  BY <1>8, <1>a, SettledRest DEF EndRun, Kill, ProcessGone, source, disk
<1>. QED
  BY <1>1, <1>2, <1>3, <1>4, <1>5, <1>6, <1>7, <1>8 DEF Next, SourceStep, TaskStep

\* A step that leaves both databases alone, keeps a page in hand with its
\* checkpoint, and saves or forgets checkpoints, keeps them covered.
LEMMA CoverRest ==
  ASSUME NEW u \in Tables, TableCovered(u),
         src'[u] = src[u], tgt'[u] = tgt[u],
         store'[u] \in {store[u], file[u]},
         file'[u] \in {store[u], file[u]},
         pc'[u] \in {"writing", "committed"} =>
             pc'[u] = pc[u] /\ store'[u] = store[u] /\ batch'[u] = batch[u]
  PROVE  TableCovered(u)'
<1>1. PageComplete(u)' /\ PageCommitted(u)'
  BY DEF TableCovered, PageComplete, PageCommitted, AfterBatch
<1>2. Covered(u, store[u])' /\ Covered(u, file[u])'
  BY DEF TableCovered, Covered
<1>. QED
  BY <1>1, <1>2 DEF TableCovered

\* A change of the source that deletes rows, or shows rows after the checkpoints
\* and the page in hand, leaves the checkpoints covered.
LEMMA CoverSource ==
  ASSUME TypeOK, NEW u \in Tables, TableCovered(u),
         UNCHANGED <<tgt, store, file, pc, batch>>,
         \A k \in Keys :
            \/ src'[u][k] = src[u][k]
            \/ src'[u][k] = 0
            \/ /\ Before(store[u], <<src'[u][k], k>>)
               /\ Before(file[u], <<src'[u][k], k>>)
               /\ pc[u] \in {"writing", "committed"} => AfterBatch(u, k)'
  PROVE  TableCovered(u)'
<1>1. ASSUME NEW k \in Keys, src'[u][k] > 0
      PROVE  \/ src'[u][k] = src[u][k]
             \/ /\ Before(store[u], <<src'[u][k], k>>)
                /\ Before(file[u], <<src'[u][k], k>>)
                /\ pc[u] \in {"writing", "committed"} => AfterBatch(u, k)'
  <2>1. ~(0 > 0)
    OBVIOUS
  <2>. QED
    BY <1>1, <2>1
<1>2. ASSUME NEW k \in Keys, src'[u][k] = src[u][k]
      PROVE  AfterBatch(u, k)' <=> AfterBatch(u, k)
  BY <1>2 DEF AfterBatch
<1>3. PageComplete(u)'
  BY <1>1, <1>2 DEF TableCovered, PageComplete
<1>4. PageCommitted(u)'
  BY <1>1, <1>2 DEF TableCovered, PageCommitted
<1>5. Covered(u, store[u])' /\ Covered(u, file[u])'
  BY <1>1 DEF TableCovered, Covered
<1>. QED
  BY <1>3, <1>4, <1>5 DEF TableCovered

\* After the upsert of a page every source row up to the page's end is in the
\* target, and no row behind a checkpoint has been overwritten.
LEMMA CoverUpsert ==
  ASSUME TypeOK, OrderInv, NEW u \in Tables, TableCovered(u),
         pc[u] = "writing",
         \A k \in Keys :
            tgt'[u][k] = IF k \in DOMAIN batch[u] THEN batch[u][k] ELSE tgt[u][k],
         UNCHANGED <<src, store, file, batch>>,
         pc'[u] # "writing"
  PROVE  TableCovered(u)'
<1>1. ASSUME NEW k \in Keys, src[u][k] > 0
      PROVE  tgt'[u][k] = src[u][k] \/ AfterBatch(u, k)
  <2>1. CASE k \in DOMAIN batch[u] /\ src[u][k] = batch[u][k]
    BY <2>1
  <2>2. CASE k \notin DOMAIN batch[u] /\ ~Before(store[u], <<src[u][k], k>>)
    <3>1. tgt[u][k] = src[u][k]
      BY <1>1, <2>2 DEF TableCovered, Covered
    <3>. QED
      BY <3>1, <2>2
  <2>3. CASE AfterBatch(u, k)
    BY <2>3
  <2>. QED
    BY <1>1, <2>1, <2>2, <2>3 DEF TableCovered, PageComplete
<1>2. ASSUME NEW k \in Keys, AfterBatch(u, k)
      PROVE  Before(store[u], <<src[u][k], k>>) /\ Before(file[u], <<src[u][k], k>>)
  <2>1. PICK j \in DOMAIN batch[u] : Before(store[u], <<batch[u][j], j>>)
    BY DEF OrderInv, PageAhead
  <2>2. Before(<<batch[u][j], j>>, <<src[u][k], k>>)
    BY <1>2 DEF AfterBatch
  <2>3. Before(store[u], <<src[u][k], k>>)
    BY <2>1, <2>2, BeforeTransitive, PositionTypes
  <2>4. Before(file[u], <<src[u][k], k>>)
    BY <2>3, NotBeforeTransitive, PositionTypes DEF OrderInv
  <2>. QED
    BY <2>3, <2>4
<1>3. Covered(u, store[u])' /\ Covered(u, file[u])'
  BY <1>1, <1>2 DEF Covered
<1>4. PageCommitted(u)'
  BY <1>1 DEF PageCommitted, AfterBatch
<1>. QED
  BY <1>3, <1>4 DEF TableCovered, PageComplete

\* Every step that shows no transaction late keeps the checkpoints covered.
LEMMA CoverStep ==
  ASSUME TypeOK, IdleInv, OrderInv, CoverInv,
         [Next]_vars, \A t \in Tables : ~LateCommit(t)
  PROVE  CoverInv'
<1> SUFFICES ASSUME NEW u \in Tables PROVE TableCovered(u)'
  BY DEF CoverInv
<1>a. TableCovered(u)
  BY DEF CoverInv
<1>b. /\ DOMAIN src = Tables /\ DOMAIN tgt = Tables /\ DOMAIN store = Tables
      /\ DOMAIN file = Tables /\ DOMAIN pc = Tables /\ DOMAIN batch = Tables
  BY DEF TypeOK
<1>1. ASSUME NEW t \in Tables, SourceWrite(t) PROVE TableCovered(u)'
  <2>1. UNCHANGED <<src, tgt, store, file, pc, batch>>
    BY <1>1 DEF SourceWrite, disk, volatile
  <2>. QED
    BY <2>1, <1>a, CoverRest
<1>2. ASSUME NEW t \in Tables, SourceCommit(t) PROVE TableCovered(u)'
  <2>1. PICK w \in pending[t] :
          src' = [src EXCEPT ![t] =
                [k \in Keys |-> IF k \in w.rows THEN w.cursor ELSE @[k]]]
    BY <1>2 DEF SourceCommit
  <2>2. UNCHANGED <<tgt, store, file, pc, batch>>
    BY <1>2 DEF SourceCommit, disk, volatile
  <2>3. CASE u # t
    BY <2>1, <2>2, <2>3, <1>a, <1>b, CoverRest
  <2>4. CASE u = t
    <3>1. ASSUME NEW k \in Keys, src'[u][k] \notin {0, src[u][k]}
          PROVE  /\ Before(store[u], <<src'[u][k], k>>)
                 /\ Before(file[u], <<src'[u][k], k>>)
                 /\ pc[u] \in {"writing", "committed"} => AfterBatch(u, k)'
      <4>1. Before(store[u], <<src'[u][k], k>>)
        BY <3>1 DEF LateCommit, ShownBehind
      <4>2. <<src'[u][k], k>> \in Int \X Int
        <5>1. src'[u][k] = w.cursor
          BY <2>1, <2>4, <3>1, <1>b
        <5>2. w.cursor \in Int /\ k \in Int
          BY <2>1, KeysAssumption DEF TypeOK, PendingWrites, Cursors
        <5>. QED
          BY <5>1, <5>2
      <4>3. Before(file[u], <<src'[u][k], k>>)
        BY <4>1, <4>2, NotBeforeTransitive, PositionTypes DEF OrderInv
      <4>4. ASSUME pc[u] \in {"writing", "committed"} PROVE AfterBatch(u, k)'
        <5>1. \A j \in DOMAIN batch[u] :
                 Before(<<batch[u][j], j>>, <<src'[u][k], k>>)
          BY <3>1, <4>4 DEF LateCommit, ShownBehind
        <5>. QED
          BY <5>1, <2>2 DEF AfterBatch
      <4>. QED
        BY <4>1, <4>3, <4>4
    <3>. QED
      BY <3>1, <2>2, <1>a, CoverSource
  <2>. QED
    BY <2>3, <2>4
<1>3. ASSUME NEW t \in Tables, SourceDelete(t) PROVE TableCovered(u)'
  <2>1. PICK d \in Keys \ Locked(t) : src' = [src EXCEPT ![t][d] = 0]
    BY <1>3 DEF SourceDelete
  <2>2. UNCHANGED <<tgt, store, file, pc, batch>>
    BY <1>3 DEF SourceDelete, disk, volatile
  <2>3. \A k \in Keys : src'[u][k] = src[u][k] \/ src'[u][k] = 0
    BY <2>1, <1>b, TableTypes
  <2>. QED
    BY <2>2, <2>3, <1>a, CoverSource
<1>4. ASSUME NEW t \in Tables, ReadPage(t) PROVE TableCovered(u)'
  <2>1. PICK K \in SUBSET Keys :
          /\ IsPage(K, src[t], store[t])
          /\ batch' = [batch EXCEPT ![t] = [k \in K |-> src[t][k]]]
          /\ pc' = [pc EXCEPT ![t] = IF K = {} THEN "leaving" ELSE "writing"]
    BY <1>4 DEF ReadPage
  <2>2. UNCHANGED <<src, tgt, store, file>>
    BY <1>4 DEF ReadPage, source, disk
  <2>3. CASE u # t
    BY <2>1, <2>2, <2>3, <1>a, <1>b, CoverRest
  <2>4. CASE u = t
    <3>1. /\ DOMAIN batch'[u] = K
          /\ \A k \in K : batch'[u][k] = src[u][k]
      BY <2>1, <2>4, <1>b
    <3>2. \A k \in K, j \in RowsAfter(src[u], store[u]) \ K :
             Before(<<src[u][k], k>>, <<src[u][j], j>>)
      BY <2>1, <2>4 DEF IsPage
    <3>3. ASSUME NEW k \in Keys, src[u][k] > 0
          PROVE  \/ k \in K
                 \/ k \notin K /\ ~Before(store[u], <<src[u][k], k>>)
                 \/ AfterBatch(u, k)'
      <4>1. CASE k \in K
        BY <4>1
      <4>2. CASE k \notin K /\ k \in RowsAfter(src[u], store[u])
        BY <4>2, <3>1, <3>2, <2>2 DEF AfterBatch
      <4>3. CASE k \notin K /\ k \notin RowsAfter(src[u], store[u])
        BY <4>3, <3>3, Zenon DEF RowsAfter
      <4>. QED
        BY <4>1, <4>2, <4>3
    <3>4. PageComplete(u)'
      BY <3>1, <3>3, <2>2 DEF PageComplete
    <3>5. pc'[u] # "committed"
      BY <2>1, <2>4, <1>b
    <3>6. Covered(u, store[u])' /\ Covered(u, file[u])'
      BY <2>2, <1>a DEF TableCovered, Covered
    <3>. QED
      BY <3>4, <3>5, <3>6 DEF TableCovered, PageCommitted
  <2>. QED
    BY <2>3, <2>4
<1>5. ASSUME NEW t \in Tables,
             tgt' = [tgt EXCEPT ![t] = Upsert(@, batch[t])],
             pc[t] = "writing", pc'[t] # "writing",
             \A v \in Tables : v # t => pc'[v] = pc[v],
             UNCHANGED <<src, store, file, batch>>
      PROVE  TableCovered(u)'
  <2>1. CASE u # t
    BY <2>1, <1>5, <1>a, <1>b, CoverRest
  <2>2. CASE u = t
    <3>1. \A k \in Keys :
            tgt'[u][k] = IF k \in DOMAIN batch[u] THEN batch[u][k] ELSE tgt[u][k]
      BY <2>2, <1>5, <1>b DEF Upsert
    <3>. QED
      BY <3>1, <2>2, <1>5, <1>a, CoverUpsert
  <2>. QED
    BY <2>1, <2>2
<1>6. ASSUME NEW t \in Tables, CommitPage(t) PROVE TableCovered(u)'
  BY <1>5, <1>6, <1>b DEF CommitPage, source
<1>7. ASSUME NEW t \in Tables, WriteFails(t) PROVE TableCovered(u)'
  <2>1. /\ pc[t] = "writing" /\ pc' = [pc EXCEPT ![t] = "aborting"]
        /\ UNCHANGED <<src, store, file, batch>>
    BY <1>7 DEF WriteFails, source
  <2>2. CASE UNCHANGED tgt
    BY <2>1, <2>2, <1>a, <1>b, CoverRest
  <2>3. CASE tgt' = [tgt EXCEPT ![t] = Upsert(@, batch[t])]
    BY <2>1, <2>3, <1>5, <1>b
  <2>. QED
    BY <2>2, <2>3, <1>7 DEF WriteFails
<1>8. ASSUME NEW t \in Tables, UpdateStore(t) PROVE TableCovered(u)'
  <2>1. PICK k \in DOMAIN batch[t] :
          store' = [store EXCEPT ![t] = <<batch[t][k], k>>]
    BY <1>8 DEF UpdateStore
  <2>2. /\ pc[t] = "committed"
        /\ pc' \in {[pc EXCEPT ![t] = x] : x \in {"flushing", "leaving", "reading"}}
        /\ UNCHANGED <<src, tgt, file, batch>>
    BY <1>8 DEF UpdateStore, AfterPage, source, disk
  <2>3. CASE u # t
    BY <2>1, <2>2, <2>3, <1>a, <1>b, CoverRest
  <2>4. CASE u = t
    <3>1. \A j \in Keys : src[u][j] > 0 =>
             tgt[u][j] = src[u][j] \/ Before(<<batch[u][k], k>>, <<src[u][j], j>>)
      BY <2>1, <2>2, <2>4, <1>a DEF TableCovered, PageCommitted, AfterBatch
    <3>2. store'[u] = <<batch[u][k], k>>
      BY <2>1, <2>4, <1>b
    <3>3. Covered(u, store[u])'
      BY <3>1, <3>2, <2>2 DEF Covered
    <3>4. Covered(u, file[u])'
      BY <2>2, <1>a DEF TableCovered, Covered
    <3>5. pc'[u] \notin {"writing", "committed"}
      BY <2>2, <2>4, <1>b
    <3>. QED
      BY <3>3, <3>4, <3>5 DEF TableCovered, PageComplete, PageCommitted
  <2>. QED
    BY <2>3, <2>4
<1>9. ASSUME NEW t \in Tables,
             \/ StartTable(t) \/ ReadFails(t) \/ FlushBatches(t)
             \/ FlushBatchesFails(t) \/ Return(t) \/ ReturnFlushFails(t)
      PROVE  TableCovered(u)'
  <2>1. UNCHANGED <<src, tgt, store>>
    BY <1>9 DEF StartTable, ReadFails, FlushBatches, FlushBatchesFails,
       Return, ReturnFlushFails, source, disk
  <2>2. file' = file \/ file' = store
    BY FileStep
  <2>3. pc'[u] \in {"writing", "committed"} =>
            pc'[u] = pc[u] /\ batch'[u] = batch[u]
    BY <1>9, <1>b DEF StartTable, ReadFails, FlushBatches, FlushBatchesFails,
       Return, ReturnFlushFails, AfterPage
  <2>. QED
    BY <2>1, <2>2, <2>3, <1>a, CoverRest
<1>10. CASE Invoke
  <2>1. UNCHANGED <<src, tgt, file, pc, batch>> /\ store' = file
    BY <1>10 DEF Invoke, LoadedState, source, disk
  <2>2. pc'[u] = "queued"
    BY <1>10, <2>1 DEF Invoke, IdleInv
  <2>. QED
    BY <2>1, <2>2, <1>a, CoverRest
<1>11. CASE Interrupt \/ UNCHANGED vars
  BY <1>11, <1>a, CoverRest DEF Interrupt, source, disk, vars
<1>12. CASE EndRun \/ Kill
  BY <1>12, <1>a, CoverRest DEF EndRun, Kill, ProcessGone, source, disk
<1>. QED
  BY <1>1, <1>2, <1>3, <1>4, <1>6, <1>7, <1>8, <1>9, <1>10, <1>11, <1>12
     DEF Next, SourceStep, TaskStep

\* What is true of the first state, whatever the writers are.
LEMMA CoverInit ==
  ASSUME Init
  PROVE  IdleInv /\ OrderInv /\ CoverInv
<1>1. IdleInv /\ OrderInv
  BY DEF Init, IdleInv, OrderInv, PageAhead, Origin, Before
<1>2. ASSUME NEW t \in Tables PROVE TableCovered(t)
  <2>1. pc[t] = "queued" /\ \A k \in Keys : src[t][k] = 0
    BY DEF Init
  <2>. QED
    BY <2>1 DEF TableCovered, PageComplete, PageCommitted, Covered
<1>. QED
  BY <1>1, <1>2 DEF CoverInv

\* File, store and page are in order, whatever the writers do.
LEMMA OrderInvariant == Spec => [](IdleInv /\ OrderInv)
<1>1. TypeOK /\ IdleInv /\ OrderInv /\ [Next]_vars => IdleInv' /\ OrderInv'
  BY IdleStep, OrderStep
<1>. QED
  BY <1>1, CoverInit, Typing, PTL DEF Spec

\* The strengthened invariant, in a behaviour without late commits.
LEMMA CoverageInv == Spec /\ NoLateCommits => []CoverInv
<1>1. TypeOK /\ IdleInv /\ OrderInv /\ CoverInv /\ [Next]_vars
        /\ [\A t \in Tables : ~LateCommit(t)]_vars => CoverInv'
  <2>1. CASE \A t \in Tables : ~LateCommit(t)
    BY <2>1, CoverStep
  <2>2. CASE UNCHANGED vars
    <3>1. ASSUME NEW t \in Tables PROVE ~LateCommit(t)
      BY <2>2 DEF vars, LateCommit, ShownBehind
    <3>. QED
      BY <3>1, CoverStep
  <2>. QED
    BY <2>1, <2>2
<1>. QED
  BY <1>1, CoverInit, OrderInvariant, Typing, PTL DEF Spec, NoLateCommits

\* Late commits are all that can go wrong: as long as no transaction becomes
\* visible behind a checkpoint in memory or a row of the page in hand, neither
\* the state file nor the checkpoints in memory claim a row that is not in the
\* target in its present version, for any interleaving, fault, interrupt and
\* kill, and whatever else the writers do.
THEOREM OnlyLateCommits ==
  Spec /\ NoLateCommits => [](FileCovered /\ StoreCovered)
<1>1. CoverInv => FileCovered /\ StoreCovered
  BY DEF CoverInv, TableCovered, FileCovered, StoreCovered
<1>. QED
  BY <1>1, CoverageInv, PTL

\* With serial writers the positions in use are of settled rows.
LEMMA SettledInvariant ==
  ASSUME SerialWriters
  PROVE  Spec => []SettledInv
<1>1. Init => SettledInv
  <2> SUFFICES ASSUME Init, NEW t \in Tables
               PROVE  SourceSettled(t) /\ PositionsSettled(t)
    BY DEF SettledInv
  <2>1. /\ pending[t] = {} /\ clock[t] = 0 /\ DOMAIN batch[t] = {}
        /\ store[t][1] = 0 /\ file[t][1] = 0
        /\ \A k \in Keys : src[t][k] = 0
    BY DEF Init, NoRows, Origin
  <2>. QED
    BY <2>1 DEF SourceSettled, PositionsSettled, Settled
<1>2. TypeOK /\ SettledInv /\ [Next]_vars => SettledInv'
  BY SettledStep
<1>. QED
  BY <1>1, <1>2, Typing, PTL DEF Spec

\* A step that is not the commit of a transaction shows no new version.
LEMMA NothingShown ==
  ASSUME TypeOK, [Next]_vars, \A t \in Tables : ~SourceCommit(t),
         NEW u \in Tables, NEW k \in Keys
  PROVE  src'[u][k] \in {0, src[u][k]}
<1>1. ASSUME NEW t \in Tables, SourceDelete(t)
      PROVE  src'[u][k] \in {0, src[u][k]}
  BY <1>1 DEF SourceDelete, TypeOK
<1>. QED
  BY <1>1 DEF Next, SourceStep, TaskStep, SourceWrite, StartTable, ReadPage,
     ReadFails, CommitPage, WriteFails, UpdateStore, FlushBatches,
     FlushBatchesFails, Return, ReturnFlushFails, Invoke, Interrupt, EndRun,
     Kill, source, vars

\* What a commit shows is a version of one of the open transactions.
LEMMA ShownByCommit ==
  ASSUME TypeOK, [Next]_vars, NEW u \in Tables, NEW k \in Keys,
         src'[u][k] \notin {0, src[u][k]}
  PROVE  /\ \E w \in pending[u] : k \in w.rows /\ src'[u][k] = w.cursor
         /\ UNCHANGED <<tgt, store, file, pc, batch>>
<1>1. PICK t \in Tables : SourceCommit(t)
  BY NothingShown
<1>2. PICK w \in pending[t] :
        src' = [src EXCEPT ![t] =
                  [j \in Keys |-> IF j \in w.rows THEN w.cursor ELSE @[j]]]
  BY <1>1 DEF SourceCommit
<1>3. u = t /\ k \in w.rows /\ src'[u][k] = w.cursor
  BY <1>2 DEF TypeOK
<1>4. UNCHANGED <<tgt, store, file, pc, batch>>
  BY <1>1 DEF SourceCommit, disk, volatile
<1>. QED
  BY <1>3, <1>4

\* With serial writers no transaction becomes visible late.
LEMMA SerialIsNotLate ==
  ASSUME TypeOK, SettledInv, [Next]_vars, NEW u \in Tables
  PROVE  ~LateCommit(u)
<1>1. SUFFICES ASSUME NEW k \in Keys, src'[u][k] \notin {0, src[u][k]}
      PROVE  /\ Before(store[u], <<src'[u][k], k>>)
             /\ \A j \in DOMAIN batch[u] :
                   Before(<<batch[u][j], j>>, <<src'[u][k], k>>)
  BY DEF LateCommit, ShownBehind
<1>2. PICK w \in pending[u] : src'[u][k] = w.cursor
  BY <1>1, ShownByCommit
<1>3. /\ store[u][1] < w.cursor
      /\ \A j \in DOMAIN batch[u] : batch[u][j] < w.cursor
  BY <1>2 DEF SettledInv, PositionsSettled, Settled
<1>. QED
  BY <1>2, <1>3 DEF Before

LEMMA SerialWritersAreInTime ==
  ASSUME SerialWriters
  PROVE  Spec => NoLateCommits
<1>1. TypeOK /\ SettledInv /\ [Next]_vars
        => [\A t \in Tables : ~LateCommit(t)]_vars
  BY SerialIsNotLate
<1>. QED
  BY <1>1, SettledInvariant, Typing, PTL DEF Spec, NoLateCommits

\* When the writers of a table commit in cursor order, the state file never
\* claims a source row that is not in the target in its present version: the
\* page query that skips the rows behind a checkpoint loses nothing, for any
\* interleaving, fault and kill.
THEOREM Coverage ==
  ASSUME SerialWriters
  PROVE  Spec => []FileCovered
  BY OnlyLateCommits, SerialWritersAreInTime, PTL

\* Nor do the checkpoints in memory, which any table's flush may save between
\* any two steps of another table's loop.
THEOREM StoreCoverage ==
  ASSUME SerialWriters
  PROVE  Spec => []StoreCovered
  BY OnlyLateCommits, SerialWritersAreInTime, PTL

\* A version that becomes visible is newer than the target row, so behind a
\* checkpoint it is a row that the checkpoint claims wrongly.
THEOREM LateCommitsLose == Spec => LateCommitLoses
<1>1. ASSUME TypeOK, ForwardInv, [Next]_vars, NEW t \in Tables, NEW k \in Keys,
             NEW p, ShownBehind(t, k, p)
      PROVE  /\ src'[t][k] > 0 /\ ~Before(p, <<src'[t][k], k>>)
             /\ tgt'[t][k] # src'[t][k]
             /\ UNCHANGED <<file, store>>
  <2>1. PICK w \in pending[t] : k \in w.rows /\ src'[t][k] = w.cursor
    BY <1>1, ShownByCommit DEF ShownBehind
  <2>2. UNCHANGED <<tgt, store, file>>
    BY <1>1, ShownByCommit DEF ShownBehind
  <2>3. tgt[t][k] < w.cursor
    BY <1>1, <2>1 DEF ForwardInv, TableForward, RowSettled
  <2>4. w.cursor \in Int /\ w.cursor > 0 /\ tgt[t][k] \in Int
    BY <1>1, <2>1, TableTypes DEF TypeOK, PendingWrites, Cursors
  <2>. QED
    BY <1>1, <2>1, <2>2, <2>3, <2>4 DEF ShownBehind
<1>2. TypeOK /\ ForwardInv /\ [Next]_vars =>
        [\A t \in Tables, k \in Keys :
            /\ ShownBehind(t, k, file[t]) => ~FileCovered'
            /\ ShownBehind(t, k, store[t]) => ~StoreCovered']_vars
  BY <1>1 DEF FileCovered, StoreCovered, Covered
<1>. QED
  BY <1>2, ForwardInvariant, Typing, PTL DEF Spec, LateCommitLoses

\* What a step may do to a row of the target.
LEMMA TargetStep ==
  ASSUME TypeOK, [Next]_vars, NEW u \in Tables, NEW k \in Keys,
         tgt'[u][k] # tgt[u][k]
  PROVE  /\ pc[u] = "writing" /\ k \in DOMAIN batch[u]
         /\ tgt'[u][k] = batch[u][k]
<1>1. PICK t \in Tables : /\ pc[t] = "writing"
                         /\ tgt' = [tgt EXCEPT ![t] = Upsert(@, batch[t])]
  <2>1. \E t \in Tables : CommitPage(t) \/ WriteFails(t)
    BY DEF Next, SourceStep, TaskStep, SourceWrite, SourceCommit, SourceDelete,
       StartTable, ReadPage, ReadFails, UpdateStore, FlushBatches,
       FlushBatchesFails, Return, ReturnFlushFails, Invoke, Interrupt, EndRun,
       Kill, disk, vars
  <2>. QED
    BY <2>1 DEF CommitPage, WriteFails
<1>. QED
  BY <1>1 DEF TypeOK, Upsert

\* A row behind the state file that is not in the target is never read again:
\* only another write of it in the source brings it to the target. Nothing is
\* assumed of the writers; this is what a late commit costs.
THEOREM LostRows == Spec => LostForGood
<1>1. ASSUME TypeOK, OrderInv, OrderInv', [Next]_vars, NEW t \in Tables,
             NEW k \in Keys, Lost(t, k), src'[t][k] = src[t][k]
      PROVE  Lost(t, k)'
  <2>1. ~Before(file'[t], <<src[t][k], k>>)
    <3>1. CASE file'[t] = file[t]
      BY <1>1, <3>1 DEF Lost
    <3>2. CASE file'[t] = store[t]
      <4>1. ~Before(store[t], file[t]) /\ ~Before(file[t], <<src[t][k], k>>)
        BY <1>1 DEF OrderInv, Lost
      <4>. QED
        BY <1>1, <3>2, <4>1, NotBeforeTransitive, PositionTypes
    <3>. QED
      BY <1>1, <3>1, <3>2, FileStep
  <2>2. tgt'[t][k] # src[t][k]
    <3>1. SUFFICES ASSUME tgt'[t][k] # tgt[t][k] PROVE tgt'[t][k] # src[t][k]
      BY <1>1 DEF Lost
    <3>2. /\ pc[t] = "writing" /\ k \in DOMAIN batch[t]
          /\ tgt'[t][k] = batch[t][k]
      BY <1>1, <3>1, TargetStep
    <3>3. Before(store[t], <<batch[t][k], k>>)
      BY <1>1, <3>2 DEF OrderInv, PageAhead
    <3>4. Before(file[t], <<batch[t][k], k>>)
      BY <1>1, <3>2, <3>3, NotBeforeTransitive, PositionTypes DEF OrderInv
    <3>. QED
      BY <1>1, <3>2, <3>4 DEF Lost
  <2>. QED
    BY <1>1, <2>1, <2>2 DEF Lost
<1>2. TypeOK /\ OrderInv /\ OrderInv' /\ [Next]_vars =>
        [\A t \in Tables, k \in Keys :
            Lost(t, k) /\ src'[t][k] = src[t][k] => Lost(t, k)']_vars
  BY <1>1
<1>. QED
  BY <1>2, OrderInvariant, Typing, PTL DEF Spec, LostForGood

-----------------------------------------------------------------------------
(* A successful run has saved its checkpoints.                             *)

\* Every step keeps a task that answers for the unsaved store.
LEMMA SavedStep ==
  ASSUME TypeOK, SavedInv, [Next]_vars
  PROVE  SavedInv'
<1>a. DOMAIN pc = Tables
  BY DEF TypeOK
<1>1. CASE UNCHANGED <<file, store, dirty, pc>>
  BY <1>1 DEF SavedInv
<1>2. ASSUME NEW t \in Tables, UpdateStore(t) PROVE SavedInv'
  <2>1. dirty' /\ pc'[t] \notin {"queued", "done"}
    BY <1>2, <1>a DEF UpdateStore, AfterPage
  <2>. QED
    BY <2>1 DEF SavedInv
<1>3. ASSUME NEW t \in Tables, FlushBatches(t) \/ Return(t) PROVE SavedInv'
  <2>1. Flush /\ store' = store
    BY <1>3 DEF FlushBatches, Return
  <2>2. ~dirty' /\ file' = store
    <3>1. CASE dirty
      BY <2>1, <3>1, Zenon DEF Flush
    <3>2. CASE ~dirty
      <4>1. file' = file /\ dirty' = dirty
        BY <2>1, <3>2, Zenon DEF Flush
      <4>2. file = store
        BY <3>2, Zenon DEF SavedInv
      <4>. QED
        BY <4>1, <4>2, <3>2, Zenon
    <3>. QED
      BY <3>1, <3>2
  <2>. QED
    BY <2>1, <2>2, Zenon DEF SavedInv
<1>4. ASSUME NEW t \in Tables, UNCHANGED <<file, store, dirty>>,
             NEW x \in PCs \ {"queued", "done"}, pc' = [pc EXCEPT ![t] = x]
      PROVE  SavedInv'
  <2>1. \A v \in Tables : pc[v] \notin {"queued", "done"} =>
            pc'[v] \notin {"queued", "done"}
    BY <1>4, <1>a
  <2>. QED
    BY <2>1, <1>4 DEF SavedInv
<1>5. ASSUME NEW t \in Tables,
             \/ StartTable(t) \/ ReadPage(t) \/ ReadFails(t) \/ CommitPage(t)
             \/ WriteFails(t) \/ FlushBatchesFails(t) \/ ReturnFlushFails(t)
      PROVE  SavedInv'
  <2>1. UNCHANGED <<file, store, dirty>>
    BY <1>5 DEF StartTable, ReadPage, ReadFails, CommitPage, WriteFails,
       FlushBatchesFails, ReturnFlushFails, disk
  <2>2. \E x \in PCs \ {"queued", "done"} : pc' = [pc EXCEPT ![t] = x]
    BY <1>5 DEF StartTable, ReadPage, ReadFails, CommitPage, WriteFails,
       FlushBatchesFails, ReturnFlushFails, PCs
  <2>. QED
    BY <2>1, <2>2, <1>4
<1>6. CASE Invoke
  BY <1>6 DEF Invoke, LoadedState, disk, SavedInv
<1>7. CASE EndRun \/ Kill
  BY <1>7 DEF EndRun, Kill, ProcessGone, disk, SavedInv
<1>. QED
  BY <1>1, <1>2, <1>3, <1>5, <1>6, <1>7
     DEF Next, SourceStep, TaskStep, SourceWrite, SourceCommit, SourceDelete,
         Interrupt, disk, volatile, vars

\* When the command reports success, no checkpoint is left only in memory.
THEOREM Saved == Spec => []SuccessSaved
<1>1. Init => SavedInv
  BY DEF Init, SavedInv
<1>2. TypeOK /\ SavedInv /\ [Next]_vars => SavedInv'
  BY SavedStep
<1>3. TypeOK /\ SavedInv => SuccessSaved
  BY DEF SavedInv, SuccessSaved, TypeOK
<1>. QED
  BY <1>1, <1>2, <1>3, Typing, PTL DEF Spec

-----------------------------------------------------------------------------
(* The source, the target and the state file are a Replica.                *)

\* The positions of Replica are more.
LEMMA PositionsAreWider == Positions \subseteq Nat \X Nat
<1>1. Versions \subseteq Nat /\ Keys \union {0} \subseteq Nat
  BY BoundsAssumption, KeysAssumption DEF Versions
<1> QED
  BY <1>1 DEF Positions

\* A transaction that becomes visible writes beyond the file and the target.
LEMMA CommitIsChange ==
  ASSUME TypeOK, TypeOK', SettledInv, ForwardInv,
         NEW t \in Tables, SourceCommit(t)
  PROVE  Promise!Change
<1>1. PICK w \in pending[t] :
        src' = [src EXCEPT ![t] =
                  [k \in Keys |-> IF k \in w.rows THEN w.cursor ELSE @[k]]]
  BY DEF SourceCommit
<1>2. ASSUME NEW u \in Tables, NEW k \in Keys, src'[u][k] # src[u][k]
      PROVE  Promise!Before(file[u], <<src'[u][k], k>>) /\ tgt[u][k] <= src'[u][k]
  <2>1. u = t /\ k \in w.rows /\ src'[u][k] = w.cursor
    BY <1>1, <1>2 DEF TypeOK
  <2>2. file[u][1] < w.cursor
    BY <2>1 DEF SettledInv, PositionsSettled, Settled
  <2>3. tgt[u][k] < w.cursor
    BY <2>1 DEF ForwardInv, TableForward, RowSettled
  <2>4. w.cursor \in Int /\ tgt[u][k] \in Int
    BY <2>1, TableTypes DEF PendingWrites, Cursors
  <2> QED
    BY <2>1, <2>2, <2>3, <2>4 DEF Promise!Before
<1>3. src' \in Promise!Contents
  BY BoundsAssumption DEF TypeOK, Promise!Contents, Versions
<1>4. UNCHANGED <<tgt, file>>
  BY DEF SourceCommit, disk
<1> QED
  BY <1>2, <1>3, <1>4 DEF Promise!Change

LEMMA DeleteIsChange ==
  ASSUME TypeOK, TypeOK', NEW t \in Tables, SourceDelete(t)
  PROVE  Promise!Change
<1>1. PICK d \in Keys : src' = [src EXCEPT ![t][d] = 0]
  BY DEF SourceDelete
<1>2. \A u \in Tables, k \in Keys : src'[u][k] \in {src[u][k], 0}
  BY <1>1 DEF TypeOK
<1>3. src' \in Promise!Contents
  BY BoundsAssumption DEF TypeOK, Promise!Contents, Versions
<1>4. UNCHANGED <<tgt, file>>
  BY DEF SourceDelete, disk
<1> QED
  BY <1>2, <1>3, <1>4 DEF Promise!Change

\* A page that is committed was read from the source, and is not older than
\* what it is written over.
LEMMA UpsertIsApply ==
  ASSUME TypeOK, TypeOK', ForwardInv, NEW t \in Tables, pc[t] = "writing",
         tgt' = [tgt EXCEPT ![t] = Upsert(@, batch[t])],
         UNCHANGED <<src, file>>
  PROVE  Promise!Apply
<1>1. ASSUME NEW u \in Tables, NEW k \in Keys
      PROVE  /\ tgt[u][k] <= tgt'[u][k]
             /\ tgt'[u][k] # tgt[u][k] /\ src[u][k] > 0
                  => tgt'[u][k] <= src[u][k]
  <2>1. CASE u = t /\ k \in DOMAIN batch[t]
    <3>1. tgt'[u][k] = batch[t][k]
      BY <2>1 DEF Upsert, TypeOK
    <3>2. RowSettled(t, k, batch[t][k]) /\ tgt[t][k] <= batch[t][k]
      BY <2>1 DEF ForwardInv, TableForward
    <3> QED
      BY <2>1, <3>1, <3>2 DEF RowSettled
  <2>2. CASE ~(u = t /\ k \in DOMAIN batch[t])
    <3>1. tgt'[u][k] = tgt[u][k]
      BY <2>2 DEF Upsert, TypeOK
    <3> QED
      BY <3>1, TableTypes
  <2> QED
    BY <2>1, <2>2
<1>2. tgt' \in Promise!Contents
  BY BoundsAssumption DEF TypeOK, Promise!Contents, Versions
<1> QED
  BY <1>1, <1>2 DEF Promise!Apply

\* The checkpoints that are saved are those of the store, which cover.
LEMMA FlushIsClaim ==
  ASSUME TypeOK, OrderInv, CoverInv, file' = store, UNCHANGED <<src, tgt>>
  PROVE  Promise!Claim
<1>1. store \in [Tables -> Nat \X Nat]
  BY PositionsAreWider DEF TypeOK
<1>2. ASSUME NEW t \in Tables PROVE ~Promise!Before(store[t], file[t])
  BY DEF OrderInv, Before, Promise!Before
<1>3. ASSUME NEW t \in Tables, NEW k \in Keys
      PROVE  Promise!RowCovered(t, k, store[t])
  <2>1. Covered(t, store[t])
    BY DEF CoverInv, TableCovered
  <2> QED
    BY <2>1 DEF Covered, Before, Promise!RowCovered, Promise!Before
<1> QED
  BY <1>1, <1>2, <1>3 DEF Promise!Claim

LEMMA PromiseStep ==
  ASSUME TypeOK, TypeOK', OrderInv, SettledInv, CoverInv, ForwardInv,
         [Next]_vars
  PROVE  [Promise!Next]_(Promise!vars)
<1>1. ASSUME NEW t \in Tables, SourceStep(t) PROVE [Promise!Next]_(Promise!vars)
  <2>1. CASE SourceWrite(t)
    BY <2>1 DEF SourceWrite, disk, Promise!vars
  <2>2. CASE SourceCommit(t)
    BY <2>2, CommitIsChange DEF Promise!Next
  <2>3. CASE SourceDelete(t)
    BY <2>3, DeleteIsChange DEF Promise!Next
  <2> QED
    BY <1>1, <2>1, <2>2, <2>3 DEF SourceStep
<1>2. ASSUME NEW t \in Tables, CommitPage(t) \/ WriteFails(t)
      PROVE  [Promise!Next]_(Promise!vars)
  <2>1. /\ pc[t] = "writing" /\ UNCHANGED <<src, file>>
        /\ tgt' = tgt \/ tgt' = [tgt EXCEPT ![t] = Upsert(@, batch[t])]
    BY <1>2 DEF CommitPage, WriteFails, source
  <2> QED
    BY <2>1, UpsertIsApply DEF Promise!Next, Promise!vars
<1>3. CASE UNCHANGED <<src, tgt>>
  <2>1. file' = file \/ file' = store
    BY FileStep
  <2> QED
    BY <1>3, <2>1, FlushIsClaim DEF Promise!Next, Promise!vars
<1>4. \/ UNCHANGED <<src, tgt>>
      \/ \E t \in Tables : SourceStep(t) \/ CommitPage(t) \/ WriteFails(t)
  BY DEF Next, TaskStep, StartTable, ReadPage, ReadFails, UpdateStore,
     FlushBatches, FlushBatchesFails, Return, ReturnFlushFails, Invoke,
     Interrupt, EndRun, Kill, source, disk, vars
<1> QED
  BY <1>1, <1>2, <1>3, <1>4

\* The page loop, its invocations, faults and kills, over writers that commit in
\* cursor order, implement Replica: what ReplicaProofs says of a claim holds of
\* the state file.
THEOREM Implementation ==
  ASSUME SerialWriters
  PROVE  Spec => ImplementsReplica
<1>1. Init => Promise!Init
  BY DEF Init, Promise!Init, Origin
<1>2. Spec => [](OrderInv /\ SettledInv /\ CoverInv)
  BY OrderInvariant, SettledInvariant, SerialWritersAreInTime, CoverageInv, PTL
<1>3. Spec => []ForwardInv
  BY ForwardInvariant
<1>4. TypeOK /\ TypeOK' /\ OrderInv /\ SettledInv /\ CoverInv /\ ForwardInv
        /\ [Next]_vars => [Promise!Next]_(Promise!vars)
  BY PromiseStep
<1> QED
  BY <1>1, <1>2, <1>3, <1>4, Typing, PTL DEF Spec, ImplementsReplica, Promise!Spec

-----------------------------------------------------------------------------
(* The invocations use the state file as CheckpointFile allows.            *)

\* Invoke loads the file into the store of the invocation.
LEMMA InvokeIsLoad ==
  ASSUME Invoke
  PROVE  Checkpoints!Load("invocation")
<1>1. ~up /\ up' = TRUE /\ store' = file /\ file' = file
  BY DEF Invoke, LoadedState, disk
<1>2. Running = {} /\ Running' = {"invocation"}
  BY <1>1, Zenon DEF Running
<1>3. Held' = [Held EXCEPT !["invocation"] = file]
  BY <1>1 DEF Held
<1>. QED
  BY <1>1, <1>2, <1>3 DEF Checkpoints!Load, NoCheckpoints

\* The end of a page lies after the checkpoint it replaces.
LEMMA UpdateMovesOn ==
  ASSUME TypeOK, TypeOK', IdleInv, OrderInv, NEW t \in Tables, UpdateStore(t)
  PROVE  Checkpoints!Update("invocation", t)
<1>1. PICK k \in DOMAIN batch[t] : store' = [store EXCEPT ![t] = <<batch[t][k], k>>]
  BY DEF UpdateStore
<1>. DEFINE end == <<batch[t][k], k>>
<1>2. pc[t] = "committed" /\ UNCHANGED <<file, up>>
  BY DEF UpdateStore, disk
<1>3. up
  BY <1>2 DEF IdleInv
<1>4. store[t] \in Positions /\ end \in Positions
  <2>1. store \in [Tables -> Positions] /\ store' \in [Tables -> Positions]
    BY Zenon DEF TypeOK
  <2>2. store[t] \in Positions /\ store'[t] \in Positions
    BY <2>1
  <2>3. store'[t] = end
    BY <1>1, <2>1
  <2>. QED
    BY <2>2, <2>3, Zenon
<1>5. Before(store[t], end)
  BY <1>2 DEF OrderInv, PageAhead
<1>6. <<store[t], end>> \in PositionsMoved
  BY <1>4, <1>5 DEF PositionsMoved
<1>. HIDE DEF end
<1>7. /\ Running = {"invocation"} /\ UNCHANGED Running
      /\ Held["invocation"] = store
      /\ Held' = [Held EXCEPT !["invocation"][t] = end]
  BY <1>1, <1>2, <1>3 DEF Running, Held, end
<1>. QED
  BY <1>2, <1>4, <1>6, <1>7 DEF Checkpoints!Update

\* A process that is no more has no store.
LEMMA GoneIsEnd ==
  ASSUME TypeOK, EndRun \/ Kill
  PROVE  Checkpoints!End("invocation")
<1>1. up /\ up' = FALSE /\ file' = file
  BY DEF EndRun, Kill, ProcessGone, disk
<1>2. Running = {"invocation"} /\ Running' = {}
  BY <1>1, Zenon DEF Running
<1>3. Held' = [Held EXCEPT !["invocation"] = NoCheckpoints]
  BY <1>1 DEF Held
<1>. QED
  BY <1>1, <1>2, <1>3 DEF Checkpoints!End, Checkpoints!Nothing, NoCheckpoints

\* Only a task that runs writes the file.
LEMMA FileByTask ==
  ASSUME TypeOK, IdleInv, [Next]_vars
  PROVE  file' = file \/ (file' = store /\ up)
<1>1. ASSUME NEW t \in Tables, FlushBatches(t) \/ Return(t)
      PROVE  file' = file \/ (file' = store /\ up)
  BY <1>1, FlushFile DEF FlushBatches, Return, IdleInv
<1>. QED
  BY <1>1
     DEF Next, SourceStep, TaskStep, SourceWrite, SourceCommit, SourceDelete,
         StartTable, ReadPage, ReadFails, CommitPage, WriteFails, UpdateStore,
         FlushBatchesFails, ReturnFlushFails, Invoke, Interrupt, EndRun, Kill,
         disk, vars

\* Every step is a step of CheckpointFile or leaves its variables as they are.
LEMMA FileUseStep ==
  ASSUME TypeOK, TypeOK', IdleInv, OrderInv, [Next]_vars
  PROVE  [Checkpoints!Next]_(Checkpoints!vars)
<1>1. CASE Invoke
  BY <1>1, InvokeIsLoad DEF Checkpoints!Next
<1>2. ASSUME NEW t \in Tables, UpdateStore(t) PROVE Checkpoints!Next
  BY <1>2, UpdateMovesOn DEF Checkpoints!Next
<1>3. CASE EndRun \/ Kill
  BY <1>3, GoneIsEnd DEF Checkpoints!Next
<1>4. CASE UNCHANGED <<up, store>>
  <2>1. UNCHANGED <<Running, Held>>
    BY <1>4 DEF Running, Held
  <2>2. CASE file' = file
    BY <2>1, <2>2 DEF Checkpoints!vars
  <2>3. CASE file' = store /\ up
    <3>1. Running = {"invocation"} /\ Held["invocation"] = store
      BY <2>3 DEF Running, Held
    <3>2. Checkpoints!Save("invocation")
      BY <2>1, <2>3, <3>1 DEF Checkpoints!Save, NoCheckpoints
    <3>. QED
      BY <3>2 DEF Checkpoints!Next
  <2>. QED
    BY <2>2, <2>3, FileByTask
<1>5. \/ Invoke \/ EndRun \/ Kill \/ UNCHANGED <<up, store>>
      \/ \E t \in Tables : UpdateStore(t)
  BY DEF Next, SourceStep, TaskStep, SourceWrite, SourceCommit, SourceDelete,
     StartTable, ReadPage, ReadFails, CommitPage, WriteFails, FlushBatches,
     FlushBatchesFails, Return, ReturnFlushFails, Interrupt, volatile, vars
<1>. QED
  BY <1>1, <1>2, <1>3, <1>4, <1>5

\* Incremental loads the file once and replaces it by its whole store, whose
\* checkpoints only move on: the use for which StateFile shows that saveState,
\* in all its steps, does what Flush does here in one.
THEOREM FileUse == Spec => UsesCheckpointFile
<1>1. Init => Checkpoints!Init
  BY DEF Init, Checkpoints!Init, Checkpoints!Nothing, Running, Held, NoCheckpoints
<1>2. TypeOK /\ TypeOK' /\ IdleInv /\ OrderInv /\ [Next]_vars
        => [Checkpoints!Next]_(Checkpoints!vars)
  BY FileUseStep
<1>. QED
  BY <1>1, <1>2, Typing, OrderInvariant, PTL
     DEF Spec, UsesCheckpointFile, Checkpoints!Spec
=============================================================================
