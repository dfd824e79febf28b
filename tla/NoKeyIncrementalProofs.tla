----------------------- MODULE NoKeyIncrementalProofs -----------------------
(***************************************************************************)
(* Proofs about NoKeyIncremental, for any rows, group limit, flush         *)
(* interval and number of faults.                                          *)
(*                                                                         *)
(* FileCovered alone is not inductive: whether a commit keeps it depends   *)
(* on the cursor values and the rows in hand, which were read by two       *)
(* queries.  The invariant says where every source row is while they are   *)
(* in hand.                                                                *)
(***************************************************************************)
EXTENDS NoKeyIncremental, TLAPS

\* The last cursor value that is, or was, visible at most.
Seen == IF pending = {} THEN clock ELSE clock - 1

\* Whatever is still to become visible comes after all that was read or claimed.
SettledInv ==
    /\ file <= store /\ store <= Seen
    /\ \A v \in values : v <= Seen
    /\ \A r \in Rows : src[r] <= Seen

\* Nothing before position p is missing.
Covered(p) == \A r \in Rows : src[r] \in 1 .. p => tgt[r][src[r]] = 1

InHand == pc \in {"selecting", "writing", "committed"}

\* The cursor values in hand are the next ones after the checkpoint: a row
\* after it has one of them or comes after all of them.
ValuesInv ==
    InHand =>
        /\ \A v \in values : v > store
        /\ \A r \in Rows : src[r] > store =>
              src[r] \in values \/ \A v \in values : v < src[r]

\* The rows in hand are within the values, and the source rows with these values
\* are in hand and, after the commit, in the target.
GroupInv ==
    /\ pc = "writing" =>
          /\ \A r \in DOMAIN group : group[r] \in values
          /\ \A r \in Rows : src[r] \in values =>
                r \in DOMAIN group /\ group[r] = src[r]
    /\ pc = "committed" =>
          \A r \in Rows : src[r] \in values => tgt[r][src[r]] = 1

CoverInv == Covered(file) /\ Covered(store)

Inv == SettledInv /\ ValuesInv /\ GroupInv /\ CoverInv /\ NoDuplicates

-----------------------------------------------------------------------------
(* Lemmas about the definitions. *)

\* The batch counter stays below Every.
LEMMA BatchNoRange ==
    ASSUME NEW n \in 0 .. Every - 1
    PROVE  NextBatchNo(n) \in 0 .. Every - 1
BY BoundsAssumption DEF NextBatchNo

\* What nextCursorValues returns lies after the checkpoint, and nothing between
\* is left out.
LEMMA NextValues ==
    ASSUME TypeOK, NEW V, IsNextValues(V, store)
    PROVE  /\ V \subseteq Cursors
           /\ \A v \in V : v > store /\ \E r \in Rows : v = src[r]
           /\ \A r \in Rows : src[r] > store =>
                 src[r] \in V \/ \A v \in V : v < src[r]
<1>1. \A v \in V : v \in ValuesAfter(store)
  BY DEF IsNextValues
<1>2. ASSUME NEW v \in ValuesAfter(store)
      PROVE  v \in Cursors /\ v > store /\ \E r \in Rows : v = src[r]
  BY <1>2, BoundsAssumption DEF ValuesAfter, TypeOK, Versions, Cursors
<1>3. ASSUME NEW r \in Rows, src[r] > store PROVE src[r] \in ValuesAfter(store)
  BY <1>3, BoundsAssumption DEF ValuesAfter, TypeOK, Versions
<1>4. \A v \in V, w \in ValuesAfter(store) \ V : v < w
  BY DEF IsNextValues
<1> QED
  BY <1>1, <1>2, <1>3, <1>4

\* DELETE and COPY: how many copies of a version there are afterwards.
LEMMA Replaced ==
    ASSUME NEW copies, NEW V, NEW g, NEW r \in Rows, NEW c \in Cursors
    PROVE  ReplaceGroups(copies, V, g)[r][c] =
             (IF c \in V THEN 0 ELSE copies[r][c])
                + (IF r \in DOMAIN g /\ g[r] = c THEN 1 ELSE 0)
BY DEF ReplaceGroups

\* The target after DELETE and COPY is a bag of row versions.
LEMMA ReplacedType ==
    ASSUME NEW copies \in [Rows -> [Cursors -> Nat]], NEW V, NEW g
    PROVE  ReplaceGroups(copies, V, g) \in [Rows -> [Cursors -> Nat]]
BY DEF ReplaceGroups

\* What a flush leaves: the file as it was, or the store.
LEMMA Flushed ==
    ASSUME TypeOK, Flush
    PROVE  dirty' \in BOOLEAN /\ file' \in {file, store}
<1>1. CASE dirty
  <2>1. file' = store /\ dirty' = FALSE
    BY <1>1, Zenon DEF Flush
  <2> QED
    BY <2>1
<1>2. CASE ~dirty
  <2>1. file' = file /\ dirty' = dirty
    BY <1>2, Zenon DEF Flush
  <2> QED
    BY <2>1 DEF TypeOK
<1> QED
  BY <1>1, <1>2

-----------------------------------------------------------------------------
(* Types. *)

LEMMA NoRowsInHand == DOMAIN NoRows = {}
BY DEF NoRows

LEMMA TypeInit == Init => TypeOK
<1> SUFFICES ASSUME Init PROVE TypeOK
  OBVIOUS
<1>1. /\ src \in [Rows -> Versions]
      /\ tgt \in [Rows -> [Cursors -> Nat]]
  BY BoundsAssumption DEF Init, Versions
<1>2. DOMAIN group = {}
  BY NoRowsInHand DEF Init
<1>3. /\ clock \in Versions /\ file \in Versions /\ store \in Versions
      /\ batchNo \in 0 .. Every - 1 /\ faults \in 0 .. MaxFaults
  BY BoundsAssumption DEF Init, Versions
<1> QED
  BY <1>1, <1>2, <1>3 DEF Init, TypeOK

LEMMA TypeStep == TypeOK /\ [Next]_vars => TypeOK'
<1> SUFFICES ASSUME TypeOK, [Next]_vars PROVE TypeOK'
  OBVIOUS
<1> USE BoundsAssumption
<1>1. CASE SourceWrite
  BY <1>1 DEF TypeOK, SourceWrite, Versions, Cursors
<1>2. CASE SourceCommit
  BY <1>2 DEF TypeOK, SourceCommit, Versions, Cursors
<1>3. CASE SourceDelete
  BY <1>3 DEF TypeOK, SourceDelete, Versions, Cursors
<1>4. CASE Invoke
  BY <1>4 DEF TypeOK, Invoke, source
<1>5. CASE ChooseValues
  BY <1>5 DEF TypeOK, ChooseValues, source
<1>6. CASE SelectRows
  <2>1. DOMAIN group' = RowsOf(values)
    BY <1>6 DEF SelectRows
  <2>2. \A r \in RowsOf(values) : r \in Rows /\ group'[r] \in Cursors
    BY <1>6 DEF TypeOK, SelectRows, RowsOf
  <2> QED
    BY <1>6, <2>1, <2>2 DEF TypeOK, SelectRows, source
<1>7. CASE CommitGroups
  BY <1>7, ReplacedType DEF TypeOK, CommitGroups, source
<1>8. CASE CallFails
  <2>1. tgt' \in [Rows -> [Cursors -> Nat]]
    BY <1>8, ReplacedType DEF TypeOK, CallFails
  <2> QED
    BY <1>8, <2>1 DEF TypeOK, CallFails, Fault, source
<1>9. CASE UpdateStore
  <2>1. store' \in Versions
    BY <1>9 DEF TypeOK, UpdateStore, Versions, Cursors
  <2>2. batchNo' \in 0 .. Every - 1
    BY <1>9, BatchNoRange DEF TypeOK, UpdateStore
  <2> QED
    BY <1>9, <2>1, <2>2, NoRowsInHand DEF TypeOK, UpdateStore, source
<1>10. CASE FlushBatches
  BY <1>10, Flushed DEF TypeOK, FlushBatches, source
<1>11. CASE FlushBatchesFails
  BY <1>11 DEF TypeOK, FlushBatchesFails, Fault, source
<1>12. CASE Return
  <2>1. file' \in Versions /\ dirty' \in BOOLEAN /\ faults' \in 0 .. MaxFaults
    <3>1. CASE Flush /\ UNCHANGED faults
      BY <3>1, Flushed DEF TypeOK
    <3>2. CASE dirty /\ Fault /\ UNCHANGED <<file, dirty>>
      BY <3>2 DEF TypeOK, Fault
    <3> QED
      BY <1>12, <3>1, <3>2, Zenon DEF Return
  <2>2. pc' = "returned"
        /\ UNCHANGED <<source, tgt, up, store, values, group, batchNo>>
    BY <1>12, Zenon DEF Return
  <2> QED
    BY <2>1, <2>2 DEF TypeOK, source
<1>13. ASSUME ProcessGone, UNCHANGED <<source, tgt, file>>, faults' \in 0 .. MaxFaults
       PROVE  TypeOK'
  <2>1. DOMAIN group' = {}
    BY <1>13, NoRowsInHand DEF ProcessGone
  <2>2. 0 \in 0 .. Every - 1
    OBVIOUS
  <2> QED
    BY <1>13, <2>1, <2>2 DEF TypeOK, ProcessGone, source
<1>14. CASE EndRun \/ Kill
  BY <1>13, <1>14 DEF TypeOK, EndRun, Kill, Fault
<1>15. CASE UNCHANGED vars
  BY <1>15 DEF TypeOK, vars
<1> QED
  BY <1>1, <1>2, <1>3, <1>4, <1>5, <1>6, <1>7, <1>8, <1>9, <1>10, <1>11,
     <1>12, <1>13, <1>14, <1>15 DEF Next, TaskStep

\* Every reachable state is well typed (incrementalTableWithoutKey).
THEOREM Typing == Spec => []TypeOK
BY TypeInit, TypeStep, PTL DEF Spec

-----------------------------------------------------------------------------
(* The invariant. *)

LEMMA InvInit == Init => Inv
BY BoundsAssumption
   DEF Init, Inv, SettledInv, ValuesInv, GroupInv, CoverInv, Covered, Seen,
       InHand, NoDuplicates

\* What becomes visible comes after all that was read or claimed.
LEMMA SourceInv ==
    ASSUME TypeOK, Inv, SourceWrite \/ SourceCommit \/ SourceDelete
    PROVE  Inv'
<1> USE BoundsAssumption
<1>a. /\ UNCHANGED <<tgt, file, store, pc, values, group>>
      /\ file \in Nat /\ store \in Nat /\ clock \in Nat /\ src \in [Rows -> Nat]
      /\ values \subseteq Nat
  BY DEF SourceWrite, SourceCommit, SourceDelete, TypeOK, Versions, Cursors
<1>b. Seen \in Int
  BY <1>a DEF Seen
<1>1. SettledInv'
  <2>1. CASE SourceWrite
    BY <2>1, <1>a DEF SourceWrite, Inv, SettledInv, Seen, TypeOK
  <2>2. CASE SourceCommit
    BY <2>2, <1>a DEF SourceCommit, Inv, SettledInv, Seen, TypeOK
  <2>3. CASE SourceDelete
    BY <2>3, <1>a DEF SourceDelete, Inv, SettledInv, Seen, TypeOK
  <2> QED
    BY <2>1, <2>2, <2>3
<1>2. src' \in [Rows -> Nat]
  BY <1>a DEF SourceWrite, SourceCommit, SourceDelete
<1>3. \A r \in Rows : src'[r] = src[r] \/ src'[r] = 0 \/ src'[r] > Seen
  BY <1>a DEF SourceWrite, SourceCommit, SourceDelete, Seen, TypeOK
<1>4. ValuesInv'
  BY <1>a, <1>b, <1>2, <1>3 DEF Inv, SettledInv, ValuesInv, InHand
<1>5. GroupInv'
  <2>1. \A r \in Rows : src'[r] \in values => src'[r] = src[r] \/ src'[r] = 0
    BY <1>a, <1>b, <1>2, <1>3 DEF Inv, SettledInv
  <2>2. 0 \notin values
    BY DEF TypeOK, Cursors
  <2> QED
    BY <2>1, <2>2, <1>a DEF Inv, GroupInv
<1>6. CoverInv' /\ NoDuplicates'
  <2>1. \A r \in Rows : src'[r] \in 1 .. store => src'[r] = src[r]
    BY <1>a, <1>b, <1>2, <1>3 DEF Inv, SettledInv
  <2>2. \A r \in Rows : src'[r] \in 1 .. file => src'[r] = src[r]
    BY <1>a, <1>b, <1>2, <1>3 DEF Inv, SettledInv
  <2> QED
    BY <2>1, <2>2, <1>a DEF Inv, CoverInv, Covered, NoDuplicates
<1> QED
  BY <1>1, <1>4, <1>5, <1>6 DEF Inv

\* DELETE and COPY bring in the rows in hand, once each, and leave the rows before
\* the checkpoints alone.
LEMMA ReplaceInv ==
    ASSUME TypeOK, Inv, pc = "writing", tgt' = ReplaceGroups(tgt, values, group),
           UNCHANGED <<source, file, store, values, group>>
    PROVE  /\ CoverInv' /\ NoDuplicates'
           /\ \A r \in Rows : src[r] \in values => tgt'[r][src[r]] = 1
<1> USE BoundsAssumption
<1>a. /\ \A v \in values : v \in Cursors /\ v > store
      /\ \A r \in DOMAIN group : group[r] \in values
      /\ \A r \in Rows : src[r] \in values => r \in DOMAIN group /\ group[r] = src[r]
  BY DEF Inv, ValuesInv, InHand, GroupInv, TypeOK
<1>b. /\ file \in Nat /\ store \in Nat /\ file <= store
      /\ \A r \in Rows : src[r] \in Versions
      /\ \A r \in Rows, c \in Cursors : tgt[r][c] \in Nat
  BY DEF TypeOK, Versions, Inv, SettledInv
<1>1. ASSUME NEW r \in Rows, src[r] \in values PROVE tgt'[r][src[r]] = 1
  BY <1>1, <1>a, Replaced
<1>2. ASSUME NEW r \in Rows, NEW c \in Cursors PROVE tgt'[r][c] <= 1
  <2>1. CASE c \in values
    BY <2>1, Replaced
  <2>2. CASE c \notin values
    BY <2>2, <1>a, <1>b, Replaced DEF Inv, NoDuplicates
  <2> QED
    BY <2>1, <2>2
<1>3. ASSUME NEW p \in {file, store}, Covered(p), NEW r \in Rows, src[r] \in 1 .. p
      PROVE  tgt'[r][src[r]] = 1
  <2>1. src[r] \in Cursors /\ src[r] \notin values
    BY <1>3, <1>a, <1>b DEF Versions, Cursors
  <2>2. tgt'[r][src[r]] = tgt[r][src[r]]
    BY <2>1, <1>a, <1>b, Replaced
  <2> QED
    BY <2>2, <1>3 DEF Covered
<1> QED
  BY <1>1, <1>2, <1>3 DEF Inv, CoverInv, Covered, NoDuplicates, source

\* A flush leaves a file that is covered if the store is.
LEMMA FlushInv ==
    ASSUME TypeOK, Inv, file' \in {file, store}, ~InHand',
           UNCHANGED <<source, tgt, store>>, values' = values
    PROVE  Inv'
<1>1. SettledInv'
  BY DEF Inv, SettledInv, Seen, source, TypeOK, Versions
<1>2. ValuesInv' /\ GroupInv'
  BY DEF ValuesInv, GroupInv, InHand
<1>3. CoverInv' /\ NoDuplicates'
  BY DEF Inv, CoverInv, Covered, NoDuplicates, source
<1> QED
  BY <1>1, <1>2, <1>3 DEF Inv

\* The end of a process: the next one starts from the file.
LEMMA GoneInv ==
    ASSUME TypeOK, Inv, ProcessGone, UNCHANGED <<source, tgt, file>>
    PROVE  Inv'
<1>1. SettledInv'
  BY BoundsAssumption DEF ProcessGone, Inv, SettledInv, Seen, source, TypeOK, Versions
<1>2. ValuesInv' /\ GroupInv'
  BY DEF ProcessGone, ValuesInv, GroupInv, InHand
<1>3. CoverInv' /\ NoDuplicates'
  BY DEF ProcessGone, Inv, CoverInv, Covered, NoDuplicates, source
<1> QED
  BY <1>1, <1>2, <1>3 DEF Inv

LEMMA InvStep == TypeOK /\ Inv /\ [Next]_vars => Inv'
<1> SUFFICES ASSUME TypeOK, Inv, [Next]_vars PROVE Inv'
  OBVIOUS
<1> USE BoundsAssumption
<1>1. CASE SourceWrite \/ SourceCommit \/ SourceDelete
  BY <1>1, SourceInv
<1>2. CASE Invoke
  <2>1. UNCHANGED <<source, tgt, file, values, group>> /\ store' = file /\ ~InHand'
    BY <1>2 DEF Invoke, InHand
  <2>2. SettledInv'
    BY <2>1 DEF Inv, SettledInv, Seen, source, TypeOK, Versions
  <2>3. ValuesInv' /\ GroupInv'
    BY <2>1 DEF ValuesInv, GroupInv, InHand
  <2>4. CoverInv' /\ NoDuplicates'
    BY <2>1 DEF Inv, CoverInv, Covered, NoDuplicates, source
  <2> QED
    BY <2>2, <2>3, <2>4 DEF Inv
<1>3. CASE ChooseValues
  <2>1. UNCHANGED <<source, tgt, file, store, group>> /\ IsNextValues(values', store)
        /\ pc' \in {"leaving", "selecting"}
    BY <1>3 DEF ChooseValues
  <2>2. /\ \A v \in values' : v > store /\ \E r \in Rows : v = src[r]
        /\ \A r \in Rows : src[r] > store =>
              src[r] \in values' \/ \A v \in values' : v < src[r]
    BY <2>1, NextValues
  <2>3. SettledInv'
    BY <2>1, <2>2 DEF Inv, SettledInv, Seen, source
  <2>4. ValuesInv' /\ GroupInv'
    BY <2>1, <2>2 DEF ValuesInv, GroupInv, InHand, source
  <2>5. CoverInv' /\ NoDuplicates'
    BY <2>1 DEF Inv, CoverInv, Covered, NoDuplicates, source
  <2> QED
    BY <2>3, <2>4, <2>5 DEF Inv
<1>4. CASE SelectRows
  <2>1. UNCHANGED <<source, tgt, file, store, values>> /\ pc' = "writing"
        /\ pc = "selecting" /\ group' = [r \in RowsOf(values) |-> src[r]]
    BY <1>4 DEF SelectRows
  <2>2. GroupInv'
    BY <2>1 DEF GroupInv, RowsOf, source
  <2>3. SettledInv' /\ ValuesInv' /\ CoverInv' /\ NoDuplicates'
    BY <2>1 DEF Inv, SettledInv, Seen, ValuesInv, InHand, CoverInv, Covered,
                NoDuplicates, source
  <2> QED
    BY <2>2, <2>3 DEF Inv
<1>5. CASE CommitGroups
  <2>1. UNCHANGED <<source, file, store, values, group>> /\ pc' = "committed"
        /\ pc = "writing" /\ tgt' = ReplaceGroups(tgt, values, group)
    BY <1>5 DEF CommitGroups
  <2>2. /\ CoverInv' /\ NoDuplicates'
        /\ \A r \in Rows : src[r] \in values => tgt'[r][src[r]] = 1
    BY <2>1, ReplaceInv
  <2>3. SettledInv' /\ ValuesInv'
    BY <2>1 DEF Inv, SettledInv, Seen, ValuesInv, InHand, source
  <2>4. GroupInv'
    BY <2>1, <2>2 DEF GroupInv, source
  <2> QED
    BY <2>2, <2>3, <2>4 DEF Inv
<1>6. CASE CallFails
  <2>1. UNCHANGED <<source, file, store, values, group>> /\ ~InHand'
        /\ (UNCHANGED tgt \/ (pc = "writing" /\ tgt' = ReplaceGroups(tgt, values, group)))
    BY <1>6 DEF CallFails, InHand
  <2>2. CoverInv' /\ NoDuplicates'
    <3>1. CASE UNCHANGED tgt
      BY <2>1, <3>1 DEF Inv, CoverInv, Covered, NoDuplicates, source
    <3> QED
      BY <2>1, <3>1, ReplaceInv
  <2>3. SettledInv' /\ ValuesInv' /\ GroupInv'
    BY <2>1 DEF Inv, SettledInv, Seen, ValuesInv, GroupInv, InHand, source
  <2> QED
    BY <2>2, <2>3 DEF Inv
<1>7. CASE UpdateStore
  <2>1. PICK v \in values : (\A w \in values : w <= v) /\ store' = v
    BY <1>7 DEF UpdateStore
  <2>2. UNCHANGED <<source, tgt, file>> /\ values' = {} /\ ~InHand' /\ pc = "committed"
    BY <1>7 DEF UpdateStore, InHand
  <2>3. v \in Nat /\ v > store /\ store \in Nat /\ file \in Nat /\ Seen \in Int
    BY <2>2 DEF Inv, ValuesInv, InHand, TypeOK, Cursors, Versions, Seen
  <2>4. SettledInv'
    BY <2>1, <2>2, <2>3 DEF Inv, SettledInv, Seen, source
  <2>5. ValuesInv' /\ GroupInv'
    BY <2>2 DEF ValuesInv, GroupInv, InHand
  <2>6. ASSUME NEW r \in Rows, src[r] \in 1 .. v PROVE tgt[r][src[r]] = 1
    <3>1. CASE src[r] <= store
      BY <3>1, <2>6, <2>3 DEF Inv, CoverInv, Covered
    <3>2. CASE src[r] > store
      <4>1. src[r] \in values
        BY <3>2, <2>1, <2>2, <2>3, <2>6 DEF Inv, ValuesInv, InHand
      <4> QED
        BY <4>1, <2>2 DEF Inv, GroupInv
    <3> QED
      BY <3>1, <3>2, <2>3, <2>6
  <2>7. CoverInv' /\ NoDuplicates'
    BY <2>1, <2>2, <2>6 DEF Inv, CoverInv, Covered, NoDuplicates, source
  <2> QED
    BY <2>4, <2>5, <2>7 DEF Inv
<1>8. CASE FlushBatches
  <2>1. file' \in {file, store}
    BY <1>8, Flushed DEF FlushBatches
  <2> QED
    BY <1>8, <2>1, FlushInv DEF FlushBatches, InHand
<1>9. CASE FlushBatchesFails
  BY <1>9, FlushInv DEF FlushBatchesFails, InHand
<1>10. CASE Return
  <2>1. file' \in {file, store}
    <3>1. CASE Flush
      BY <3>1, Flushed
    <3>2. CASE file' = file
      BY <3>2
    <3> QED
      BY <1>10, <3>1, <3>2, Zenon DEF Return
  <2>2. pc' = "returned" /\ UNCHANGED <<source, tgt, store, values>>
    BY <1>10, Zenon DEF Return
  <2> QED
    BY <2>1, <2>2, FlushInv DEF InHand
<1>11. CASE EndRun \/ Kill
  BY <1>11, GoneInv DEF EndRun, Kill
<1>12. CASE UNCHANGED vars
  BY <1>12 DEF vars, Inv, SettledInv, Seen, ValuesInv, GroupInv, InHand, CoverInv,
               Covered, NoDuplicates
<1> QED
  BY <1>1, <1>2, <1>3, <1>4, <1>5, <1>6, <1>7, <1>8, <1>9, <1>10, <1>11, <1>12
     DEF Next, TaskStep

LEMMA Invariant == Spec => []Inv
<1>1. TypeOK /\ Inv /\ [Next]_vars => TypeOK' /\ Inv'
  BY TypeStep, InvStep
<1> QED
  BY TypeInit, InvInit, <1>1, PTL DEF Spec

\* No replay of groups leaves a second copy of a row (replaceCursorGroups).
THEOREM Unique == Spec => []NoDuplicates
<1>1. Inv => NoDuplicates
  BY DEF Inv
<1> QED
  BY Invariant, <1>1, PTL

\* The file never passes over a row, although the values and the rows are read by
\* two queries (nextCursorValues, incrementalTableWithoutKey).
THEOREM Coverage == Spec => []FileCovered
<1>1. Inv => FileCovered
  BY DEF Inv, CoverInv, Covered, FileCovered
<1> QED
  BY Invariant, <1>1, PTL
-----------------------------------------------------------------------------
(* What a step may do to the file and to the target.                       *)

LEMMA FileStep ==
    ASSUME TypeOK, [Next]_vars
    PROVE  file' \in {file, store}
<1>1. CASE FlushBatches
  BY <1>1, Flushed DEF FlushBatches
<1>2. CASE Return
  <2>1. Flush \/ file' = file
    BY <1>2, Zenon DEF Return
  <2> QED
    BY <2>1, Flushed
<1> QED
  BY <1>1, <1>2 DEF Next, TaskStep, SourceWrite, SourceCommit, SourceDelete, Invoke,
     ChooseValues, SelectRows, CommitGroups, CallFails, UpdateStore, FlushBatchesFails,
     EndRun, Kill, vars

LEMMA TargetStep ==
    ASSUME [Next]_vars
    PROVE  \/ UNCHANGED tgt
           \/ /\ pc = "writing" /\ tgt' = ReplaceGroups(tgt, values, group)
              /\ UNCHANGED source
BY DEF Next, TaskStep, SourceWrite, SourceCommit, SourceDelete, Invoke, ChooseValues,
   SelectRows, CommitGroups, CallFails, UpdateStore, FlushBatches, FlushBatchesFails,
   Return, EndRun, Kill, vars

\* DELETE and COPY change nothing but the groups in hand.
LEMMA OtherGroups ==
    ASSUME TypeOK, Inv, pc = "writing", tgt' = ReplaceGroups(tgt, values, group),
           NEW r \in Rows, NEW c \in Cursors \ values
    PROVE  tgt'[r][c] = tgt[r][c]
<1>1. ~(r \in DOMAIN group /\ group[r] = c)
  BY DEF Inv, GroupInv
<1>2. tgt[r][c] \in Nat
  BY DEF TypeOK
<1> QED
  BY <1>1, <1>2, Replaced

\* The checkpoint never moves back (checkpointStore.update and flush).
THEOREM NoFileRollback == Spec => FileForward
<1>1. TypeOK /\ Inv /\ [Next]_vars => [file' >= file]_vars
  BY FileStep, BoundsAssumption DEF Inv, SettledInv, TypeOK, Versions
<1> QED
  BY <1>1, Invariant, Typing, PTL DEF Spec, FileForward

\* What the checkpoint has passed is done with: rows there are neither deleted nor
\* copied again, and old versions there are never cleared away.
THEOREM Done == Spec => DoneBehindFile
<1>1. ASSUME TypeOK, Inv, [Next]_vars, NEW r \in Rows, NEW c \in 1 .. file
      PROVE  tgt'[r][c] = tgt[r][c]
  <2>1. CASE UNCHANGED tgt
    BY <2>1
  <2>2. CASE pc = "writing" /\ tgt' = ReplaceGroups(tgt, values, group)
    <3>1. c \in Cursors
      BY <1>1, BoundsAssumption DEF TypeOK, Versions, Cursors
    <3>2. c <= store
      BY <1>1, BoundsAssumption DEF Inv, SettledInv, TypeOK, Versions
    <3>3. c \notin values
      BY <1>1, <2>2, <3>2, BoundsAssumption
         DEF Inv, ValuesInv, InHand, TypeOK, Versions
    <3> QED
      BY <1>1, <2>2, <3>1, <3>3, OtherGroups
  <2> QED
    BY <1>1, <2>1, <2>2, TargetStep
<1>2. TypeOK /\ Inv /\ [Next]_vars
        => [\A r \in Rows, c \in 1 .. file : tgt'[r][c] = tgt[r][c]]_vars
  BY <1>1
<1> QED
  BY <1>2, Invariant, Typing, PTL DEF Spec, DoneBehindFile

\* Replaying a group never leaves out a row that the target had in its present
\* version: the second query has found it again before the DELETE.
THEOREM Kept == Spec => CurrentKept
<1>1. ASSUME TypeOK, Inv, [Next]_vars, NEW r \in Rows,
             src[r] > 0, src'[r] = src[r], tgt[r][src[r]] = 1
      PROVE  tgt'[r][src[r]] = 1
  <2>1. CASE UNCHANGED tgt
    BY <1>1, <2>1
  <2>2. CASE pc = "writing" /\ tgt' = ReplaceGroups(tgt, values, group)
    <3>1. src[r] \in Cursors
      BY <1>1, BoundsAssumption DEF TypeOK, Versions, Cursors
    <3>2. CASE src[r] \in values
      <4>1. r \in DOMAIN group /\ group[r] = src[r]
        BY <1>1, <2>2, <3>2 DEF Inv, GroupInv
      <4> QED
        BY <2>2, <3>1, <3>2, <4>1, Replaced
    <3>3. CASE src[r] \notin values
      BY <1>1, <2>2, <3>1, <3>3, OtherGroups
    <3> QED
      BY <3>2, <3>3
  <2> QED
    BY <1>1, <2>1, <2>2, TargetStep
<1>2. TypeOK /\ Inv /\ [Next]_vars
        => [\A r \in Rows : src[r] > 0 /\ src'[r] = src[r] /\ tgt[r][src[r]] = 1
                => tgt'[r][src[r]] = 1]_vars
  BY <1>1
<1> QED
  BY <1>2, Invariant, Typing, PTL DEF Spec, CurrentKept

-----------------------------------------------------------------------------
(* The invocations use the state file as CheckpointFile allows.            *)

\* The task is under way while an invocation is.
AliveInv == up <=> pc # "off"

LEMMA Alive == Spec => []AliveInv
<1>1. Init => AliveInv
  BY DEF Init, AliveInv
<1>2. AliveInv /\ [Next]_vars => AliveInv'
  BY DEF AliveInv, Next, TaskStep, SourceWrite, SourceCommit, SourceDelete, Invoke,
     ChooseValues, SelectRows, CommitGroups, CallFails, UpdateStore, FlushBatches,
     FlushBatchesFails, Return, EndRun, Kill, ProcessGone, vars
<1> QED
  BY <1>1, <1>2, PTL DEF Spec

\* The last of the cursor values lies after the checkpoint it replaces.
LEMMA UpdateMovesOn ==
    ASSUME TypeOK, TypeOK', Inv, AliveInv, UpdateStore
    PROVE  Checkpoints!Update("invocation", "table")
<1>1. PICK v \in values : store' = v
  BY DEF UpdateStore
<1>2. up /\ UNCHANGED <<up, file>>
  BY DEF UpdateStore, AliveInv
<1>3. v > store
  BY DEF UpdateStore, Inv, ValuesInv, InHand
<1>4. store \in Versions /\ v \in Versions
  BY <1>1 DEF TypeOK
<1>5. <<store, v>> \in ValuesMoved
  BY <1>3, <1>4, BoundsAssumption DEF ValuesMoved, Versions
<1>6. /\ Running = {"invocation"} /\ UNCHANGED Running
      /\ Held["invocation"]["table"] = store
      /\ Held' = [Held EXCEPT !["invocation"]["table"] = v]
  BY <1>1, <1>2 DEF Running, Held, Content
<1> QED
  BY <1>2, <1>4, <1>5, <1>6 DEF Checkpoints!Update, Content

LEMMA FileUseStep ==
    ASSUME TypeOK, TypeOK', Inv, AliveInv, [Next]_vars
    PROVE  [Checkpoints!Next]_(Checkpoints!vars)
<1>1. CASE Invoke
  <2>1. ~up /\ up' = TRUE /\ store' = file /\ file' = file
    BY <1>1 DEF Invoke
  <2>2. Running = {} /\ Running' = {"invocation"}
    BY <2>1, Zenon DEF Running
  <2>3. Held' = [Held EXCEPT !["invocation"] = Content(file)]
    BY <2>1 DEF Held
  <2>4. Checkpoints!Load("invocation")
    BY <2>1, <2>2, <2>3 DEF Checkpoints!Load, Content
  <2> QED
    BY <2>4 DEF Checkpoints!Next
<1>2. CASE UpdateStore
  BY <1>2, UpdateMovesOn DEF Checkpoints!Next
<1>3. CASE EndRun \/ Kill
  <2>1. up /\ up' = FALSE /\ file' = file
    BY <1>3 DEF EndRun, Kill, ProcessGone, AliveInv
  <2>2. Running = {"invocation"} /\ Running' = {}
    BY <2>1, Zenon DEF Running
  <2>3. Held' = [Held EXCEPT !["invocation"] = Content(0)]
    BY <2>1 DEF Held
  <2>4. Checkpoints!End("invocation")
    BY <2>1, <2>2, <2>3 DEF Checkpoints!End, Checkpoints!Nothing, Content
  <2> QED
    BY <2>4 DEF Checkpoints!Next
<1>4. CASE UNCHANGED <<up, store>>
  <2>1. UNCHANGED <<Running, Held>>
    BY <1>4 DEF Running, Held
  <2>2. CASE file' = file
    BY <2>1, <2>2 DEF Checkpoints!vars
  <2>3. CASE file' # file
    <3>1. file' = store
      BY <2>3, FileStep
    <3>2. up
      BY <2>3, Flushed DEF AliveInv, Next, TaskStep, SourceWrite, SourceCommit,
         SourceDelete, Invoke, ChooseValues, SelectRows, CommitGroups, CallFails,
         UpdateStore, FlushBatches, FlushBatchesFails, Return, EndRun, Kill, vars
    <3>3. Running = {"invocation"} /\ Held["invocation"] = Content(store)
      BY <3>2 DEF Running, Held
    <3>4. Checkpoints!Save("invocation")
      BY <2>1, <3>1, <3>3 DEF Checkpoints!Save, Content
    <3> QED
      BY <3>4 DEF Checkpoints!Next
  <2> QED
    BY <2>2, <2>3
<1>5. Invoke \/ UpdateStore \/ EndRun \/ Kill \/ UNCHANGED <<up, store>>
  BY DEF Next, TaskStep, SourceWrite, SourceCommit, SourceDelete, ChooseValues,
     SelectRows, CommitGroups, CallFails, FlushBatches, FlushBatchesFails, Return, vars
<1> QED
  BY <1>1, <1>2, <1>3, <1>4, <1>5

\* The loop without a key, too, loads the file once and saves a checkpoint that only
\* moves on: the use for which StateFile shows that saveState is one step.
THEOREM FileUse == Spec => UsesCheckpointFile
<1>1. Init => Checkpoints!Init
  BY DEF Init, Checkpoints!Init, Checkpoints!Nothing, Running, Held, Content
<1>2. TypeOK /\ TypeOK' /\ Inv /\ AliveInv /\ [Next]_vars
        => [Checkpoints!Next]_(Checkpoints!vars)
  BY FileUseStep
<1> QED
  BY <1>1, <1>2, Typing, Invariant, Alive, PTL
     DEF Spec, UsesCheckpointFile, Checkpoints!Spec
=============================================================================
