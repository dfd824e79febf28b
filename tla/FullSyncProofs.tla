--------------------------- MODULE FullSyncProofs ---------------------------
(***************************************************************************)
(* Proofs about FullSync, for any tables, rows, references that the levels *)
(* allow, strategies and bounds.                                           *)
(***************************************************************************)
EXTENDS FullSync, TLAPS

-----------------------------------------------------------------------------
(* The invariant. *)

Empty(t) == \A r \in RowsOf(t) : tgt[r] = 0
Whole(t) == \A r \in RowsOf(t) : tgt[r] = IF r \in snap[t] THEN 1 ELSE 0

\* Where the command is decides what its variables are.
PhaseInv ==
    /\ result # "none" => phase = "off"
    /\ phase \in {"off", "cleaning"} => pc = [t \in Tables |-> "queued"]
    /\ phase = "cleaning" =>
          snap = [t \in Tables |-> {}] /\ (strategy = "truncate" => toDelete = {})
    /\ phase = "copying" => \A t \in Tables : pc[t] = "queued" => snap[t] = {}
    /\ phase \in {"keys", "indexes"} => \A t \in Tables : pc[t] = "copied"

\* What the target holds of each table.
CopyInv ==
    Replaces =>
        /\ phase = "cleaning" /\ strategy = "delete" =>
              \A t \in Tables \ toDelete : Empty(t)
        /\ phase \in {"copying", "keys", "indexes"} =>
              \A t \in Tables :
                 /\ pc[t] \in {"queued", "copying"} => Empty(t)
                 /\ pc[t] = "copied" => Whole(t)
                 /\ pc[t] = "failed" => Empty(t) \/ Whole(t)
        /\ result = "ok" => \A t \in Tables : Whole(t)

\* The foreign keys of the target hold, and which there are.
KeyInv ==
    /\ \A r \in Present : TableOf[r] \in keys => RefersTo[r] \in Present \union {NoRow}
    /\ phase = "keys" => Tables \ toKey \subseteq keys
    /\ phase = "indexes" \/ result = "ok" => keys = Tables

\* In a run that nothing has disturbed the tables copied so far are as in the source,
\* and no call has failed.
QuietInv ==
    Replaces /\ ~disturbed =>
        /\ result # "failed"
        /\ \A t \in Tables :
              /\ pc[t] # "failed"
              /\ pc[t] # "queued" => snap[t] = Snapshot(t)
              /\ pc[t] # "queued" => \A u \in Tables : LevelOf[u] < LevelOf[t] => pc[u] = "copied"

Inv == PhaseInv /\ CopyInv /\ KeyInv /\ QuietInv

-----------------------------------------------------------------------------
(* Types. *)

LEMMA TypeInit == Init => TypeOK
<1> SUFFICES ASSUME Init PROVE TypeOK
  OBVIOUS
<1>1. src \subseteq Rows /\ Intact(src)
  BY DEF Init, Intact
<1>2. runs \in 0 .. MaxRuns /\ writes \in 0 .. MaxWrites /\ faults \in 0 .. MaxFaults
  <2>1. MaxRuns \in Nat /\ MaxWrites \in Nat /\ MaxFaults \in Nat
    BY LimitsAssumption
  <2> QED
    BY <2>1 DEF Init
<1>3. snap \in [Tables -> SUBSET Rows] /\ \A t \in Tables : snap[t] \subseteq RowsOf(t)
  BY DEF Init
<1>4. tgt \in [Rows -> Nat] /\ pc \in [Tables -> {"queued", "copying", "copied", "failed"}]
  BY DEF Init
<1>5. /\ strategy \in Strategies /\ keys = {} /\ phase = "off" /\ toDelete = {}
      /\ toKey = {} /\ result = "none" /\ disturbed = FALSE
  BY DEF Init
<1> QED
  BY <1>1, <1>2, <1>3, <1>4, <1>5 DEF TypeOK

\* The target after a statement is a bag of rows.
LEMMA BagType ==
    ASSUME TypeOK, NEW t \in Tables
    PROVE  /\ Emptied(Tables) \in [Rows -> Nat] /\ Emptied({t}) \in [Rows -> Nat]
           /\ Copied(t) \in [Rows -> Nat]
           /\ \A bag \in LeftByError(t) : bag \in [Rows -> Nat]
BY DEF TypeOK, Emptied, Copied, LeftByError

LEMMA TypeStep == TypeOK /\ [Next]_vars => TypeOK'
<1> SUFFICES ASSUME TypeOK, [Next]_vars PROVE TypeOK'
  OBVIOUS
<1>a. ASSUME Fault PROVE faults' \in 0 .. MaxFaults /\ disturbed' = TRUE
  BY <1>a, LimitsAssumption DEF Fault, TypeOK
<1>b. ASSUME NoFault PROVE faults' \in 0 .. MaxFaults /\ disturbed' \in BOOLEAN
  BY <1>b DEF NoFault, TypeOK
<1>c. ASSUME NEW how \in {"ok", "failed"}, Ends(how)
      PROVE  /\ phase' = "off" /\ toDelete' \subseteq Tables /\ toKey' \subseteq Tables
             /\ pc' \in [Tables -> {"queued", "copying", "copied", "failed"}]
             /\ result' \in {"none", "ok", "failed"}
  BY <1>c DEF Ends
<1>1. CASE SourceChange
  <2>1. src' \subseteq Rows /\ Intact(src) /\ Intact(src')
    BY <1>1 DEF SourceChange, TypeOK
  <2>2. writes' \in 0 .. MaxWrites
    BY <1>1, LimitsAssumption DEF SourceChange, TypeOK
  <2> QED
    BY <1>1, <2>1, <2>2 DEF SourceChange, run, TypeOK, Intact, RowsOf
<1>2. CASE Invoke
  <2>1. runs' \in 0 .. MaxRuns
    BY <1>2, LimitsAssumption DEF Invoke, TypeOK
  <2> QED
    BY <1>2, <2>1 DEF Invoke, TypeOK, Intact, RowsOf
<1>3. CASE Clean
  <2>1. tgt' \in [Rows -> Nat]
    BY <1>3 DEF Clean, TypeOK, Emptied
  <2> QED
    BY <1>3, <1>b, <2>1 DEF Clean, TypeOK, Intact, RowsOf
<1>4. CASE CleanFails
  <2>1. Ends("failed") /\ faults' \in 0 .. MaxFaults /\ disturbed' \in BOOLEAN
    BY <1>4, <1>a, <1>b DEF CleanFails
  <2> QED
    BY <1>4, <1>c, <2>1 DEF CleanFails, TypeOK, Intact, RowsOf
<1>5. CASE EndCopying
  <2>1. CASE Cancelled
    BY <1>5, <1>c, <2>1 DEF EndCopying, TypeOK, Intact, RowsOf
  <2>2. CASE ~Cancelled
    BY <1>5, <2>2 DEF EndCopying, TypeOK, Intact, RowsOf
  <2> QED
    BY <2>1, <2>2
<1>6. CASE KeysFail
  <2>1. Ends("failed") /\ faults' \in 0 .. MaxFaults /\ disturbed' \in BOOLEAN
    BY <1>6, <1>a, <1>b DEF KeysFail
  <2> QED
    BY <1>6, <1>c, <2>1 DEF KeysFail, TypeOK, Intact, RowsOf
<1>7. CASE Finish
  <2>1. \E how \in {"ok", "failed"} :
           Ends(how) /\ faults' \in 0 .. MaxFaults /\ disturbed' \in BOOLEAN
    BY <1>7, <1>a, <1>b DEF Finish
  <2> QED
    BY <1>7, <1>c, <2>1 DEF Finish, TypeOK, Intact, RowsOf
<1>8. CASE Kill
  BY <1>8, <1>a, <1>c DEF Kill, TypeOK, Intact, RowsOf
<1>9. ASSUME NEW t \in Tables, DeleteTable(t) PROVE TypeOK'
  BY <1>9, <1>b, BagType DEF DeleteTable, TypeOK, Intact, RowsOf
<1>10. ASSUME NEW t \in Tables, StartCopy(t) PROVE TypeOK'
  <2>1. Snapshot(t) \in SUBSET Rows /\ Snapshot(t) \subseteq RowsOf(t)
    BY DEF Snapshot, RowsOf
  <2>2. snap' = [snap EXCEPT ![t] = Snapshot(t)]
    BY <1>10 DEF StartCopy
  <2>3. /\ snap' \in [Tables -> SUBSET Rows]
        /\ \A u \in Tables : snap'[u] \subseteq RowsOf(u)
    BY <2>1, <2>2 DEF TypeOK
  <2> QED
    BY <1>10, <2>3 DEF StartCopy, TypeOK, Intact, RowsOf
<1>11. ASSUME NEW t \in Tables, CommitCopy(t) PROVE TypeOK'
  BY <1>11, BagType DEF CommitCopy, TypeOK, Intact, RowsOf
<1>12. ASSUME NEW t \in Tables, CopyFails(t) PROVE TypeOK'
  <2>1. tgt' \in [Rows -> Nat]
    BY <1>12, BagType DEF CopyFails, TypeOK
  <2>2. faults' \in 0 .. MaxFaults /\ disturbed' \in BOOLEAN
    BY <1>12, <1>a, <1>b DEF CopyFails
  <2> QED
    BY <1>12, <2>1, <2>2 DEF CopyFails, TypeOK, Intact, RowsOf
<1>13. ASSUME NEW t \in Tables, AddKey(t) PROVE TypeOK'
  BY <1>13 DEF AddKey, TypeOK, Intact, RowsOf
<1>14. CASE UNCHANGED vars
  BY <1>14 DEF vars, run, TypeOK, Intact, RowsOf
<1> QED
  BY <1>1, <1>2, <1>3, <1>4, <1>5, <1>6, <1>7, <1>8, <1>9, <1>10, <1>11, <1>12, <1>13,
     <1>14 DEF Next, CommandStep

\* Every reachable state is well typed.
THEOREM Typing == Spec => []TypeOK
BY TypeInit, TypeStep, PTL DEF Spec

-----------------------------------------------------------------------------
(* Each part of the invariant. *)

LEMMA InvInit == Init => Inv
<1> SUFFICES ASSUME Init PROVE Inv
  OBVIOUS
<1>1. Present = {}
  BY DEF Init, Present
<1> QED
  BY <1>1 DEF Init, Inv, PhaseInv, CopyInv, KeyInv, QuietInv

LEMMA PhaseStep == TypeOK /\ PhaseInv /\ [Next]_vars => PhaseInv'
<1> SUFFICES ASSUME TypeOK, PhaseInv, [Next]_vars PROVE PhaseInv'
  OBVIOUS
<1>a. ASSUME NEW how, Ends(how) PROVE PhaseInv'
  BY <1>a DEF Ends, PhaseInv
<1>1. CASE SourceChange \/ UNCHANGED vars
  BY <1>1 DEF SourceChange, vars, run, PhaseInv
<1>2. CASE Invoke
  BY <1>2 DEF Invoke, PhaseInv, TypeOK
<1>3. CASE Clean
  BY <1>3 DEF Clean, PhaseInv
<1>4. CASE CleanFails \/ KeysFail \/ Finish \/ Kill
  BY <1>4, <1>a DEF CleanFails, KeysFail, Finish, Kill
<1>5. CASE EndCopying
  <2>1. CASE Cancelled
    BY <1>5, <2>1, <1>a DEF EndCopying
  <2>2. CASE ~Cancelled
    BY <1>5, <2>2 DEF EndCopying, CopyingOver, PhaseInv
  <2> QED
    BY <2>1, <2>2
<1>6. ASSUME NEW t \in Tables, DeleteTable(t) PROVE PhaseInv'
  BY <1>6 DEF DeleteTable, PhaseInv
<1>7. ASSUME NEW t \in Tables, StartCopy(t) PROVE PhaseInv'
  BY <1>7 DEF StartCopy, MayStart, PhaseInv, TypeOK
<1>8. ASSUME NEW t \in Tables, CommitCopy(t) \/ CopyFails(t) PROVE PhaseInv'
  <2>1. /\ UNCHANGED <<phase, snap, strategy, toDelete, result>>
        /\ pc' \in {[pc EXCEPT ![t] = "copied"], [pc EXCEPT ![t] = "failed"]}
        /\ pc[t] = "copying" \/ (pc[t] = "queued" /\ phase = "copying")
    BY <1>8 DEF CommitCopy, CopyFails, MayStart
  <2>2. phase = "copying"
    BY <2>1 DEF PhaseInv, TypeOK
  <2> QED
    BY <2>1, <2>2 DEF PhaseInv, TypeOK
<1>9. ASSUME NEW t \in Tables, AddKey(t) PROVE PhaseInv'
  BY <1>9 DEF AddKey, PhaseInv
<1> QED
  BY <1>1, <1>2, <1>3, <1>4, <1>5, <1>6, <1>7, <1>8, <1>9 DEF Next, CommandStep

\* A table that is empty gets a snapshot whole or stays empty, and the rows of no
\* other table change.
LEMMA CopyOne ==
    ASSUME TypeOK, NEW t \in Tables, tgt' = Copied(t)
    PROVE  /\ \A u \in Tables \ {t} : \A r \in RowsOf(u) : tgt'[r] = tgt[r]
           /\ Empty(t) => \A r \in RowsOf(t) : tgt'[r] = IF r \in snap[t] THEN 1 ELSE 0
<1>1. \A r \in Rows : tgt'[r] = IF r \in snap[t] THEN tgt[r] + 1 ELSE tgt[r]
  BY DEF Copied
<1>2. snap[t] \subseteq RowsOf(t)
  BY DEF TypeOK
<1> QED
  BY <1>1, <1>2 DEF Empty, RowsOf

\* Deletes and copies.
LEMMA CopyStep == TypeOK /\ PhaseInv /\ CopyInv /\ [Next]_vars => CopyInv'
<1> SUFFICES ASSUME TypeOK, PhaseInv, CopyInv, [Next]_vars, Replaces' PROVE CopyInv'
  BY DEF CopyInv
<1>a. ASSUME UNCHANGED strategy PROVE Replaces
  BY <1>a DEF Replaces
<1>b. ASSUME NEW how \in {"none", "failed"}, Ends(how) PROVE CopyInv'
  BY <1>b DEF Ends, CopyInv
<1>1. CASE SourceChange \/ UNCHANGED vars
  <2>1. UNCHANGED <<strategy, tgt, phase, toDelete, pc, snap, result>>
    BY <1>1 DEF SourceChange, vars, run
  <2> QED
    BY <2>1, <1>a DEF CopyInv, Empty, Whole
<1>2. CASE Invoke
  BY <1>2 DEF Invoke, CopyInv
<1>3. CASE Clean
  <2>1. tgt' = Emptied(Tables) /\ phase' = "copying" /\ UNCHANGED <<strategy, pc, result>>
    BY <1>3 DEF Clean, Replaces
  <2>2. \A r \in Rows : tgt'[r] = 0
    BY <2>1, RowsAssumption DEF Emptied
  <2>3. \A t \in Tables : pc'[t] = "queued"
    BY <1>3, <2>1 DEF Clean, PhaseInv
  <2>4. result' # "ok"
    BY <1>3, <2>1 DEF Clean, PhaseInv
  <2> QED
    BY <2>1, <2>2, <2>3, <2>4 DEF CopyInv, Empty, RowsOf
<1>4. CASE CleanFails \/ KeysFail \/ Kill
  BY <1>4, <1>b DEF CleanFails, KeysFail, Kill
<1>5. CASE Finish
  <2>1. CASE Ends("failed")
    BY <2>1, <1>b
  <2>2. CASE Ends("ok")
    <3>1. phase' = "off" /\ UNCHANGED <<tgt, snap, strategy>> /\ phase = "indexes"
      BY <1>5, <2>2 DEF Finish, Ends
    <3>2. \A t \in Tables : Whole(t)
      BY <3>1, <1>a DEF CopyInv, PhaseInv
    <3> QED
      BY <3>1, <3>2 DEF CopyInv, Whole
  <2> QED
    BY <1>5, <2>1, <2>2 DEF Finish
<1>6. CASE EndCopying
  <2>1. CASE Cancelled
    BY <1>6, <2>1, <1>b DEF EndCopying
  <2>2. CASE ~Cancelled
    <3>1. /\ phase = "copying" /\ phase' = "keys"
          /\ UNCHANGED <<strategy, tgt, snap, pc, result>>
      BY <1>6, <2>2 DEF EndCopying
    <3> QED
      BY <3>1, <1>a DEF CopyInv, Empty, Whole
  <2> QED
    BY <2>1, <2>2
<1>7. ASSUME NEW t \in Tables, DeleteTable(t) PROVE CopyInv'
  <2>1. /\ phase = "cleaning" /\ tgt' = Emptied({t}) /\ toDelete' = toDelete \ {t}
        /\ phase' = IF toDelete = {t} THEN "copying" ELSE phase
        /\ UNCHANGED <<strategy, pc, result>> /\ result # "ok" /\ t \in toDelete
    BY <1>7 DEF DeleteTable, PhaseInv
  <2>2. strategy = "delete"
    <3>1. strategy \in {"truncate", "delete"}
      BY <2>1, StrategiesAssumption DEF TypeOK, Replaces
    <3> QED
      BY <3>1, <2>1 DEF PhaseInv
  <2>3. \A r \in Rows : tgt'[r] = IF TableOf[r] = t THEN 0 ELSE tgt[r]
    BY <2>1 DEF Emptied
  <2>4. \A u \in Tables \ toDelete' : \A r \in RowsOf(u) : tgt'[r] = 0
    BY <2>1, <2>2, <2>3, <1>a DEF CopyInv, Empty, RowsOf
  <2>5. \A u \in Tables : pc'[u] = "queued"
    BY <2>1 DEF PhaseInv
  <2> QED
    BY <2>1, <2>4, <2>5 DEF CopyInv, Empty
<1>8. ASSUME NEW t \in Tables, StartCopy(t) PROVE CopyInv'
  <2>1. /\ phase = "copying" /\ pc[t] = "queued" /\ pc' = [pc EXCEPT ![t] = "copying"]
        /\ snap' = [snap EXCEPT ![t] = Snapshot(t)]
        /\ UNCHANGED <<strategy, tgt, phase, result>> /\ result # "ok"
    BY <1>8 DEF StartCopy, MayStart, PhaseInv
  <2>2. pc'[t] = "copying" /\ \A u \in Tables \ {t} : pc'[u] = pc[u]
    BY <2>1 DEF TypeOK
  <2>3. \A u \in Tables \ {t} : snap'[u] = snap[u]
    BY <2>1
  <2> QED
    BY <2>1, <2>2, <2>3, <1>a DEF CopyInv, Empty, Whole
<1>9. ASSUME NEW t \in Tables, CommitCopy(t) \/ CopyFails(t) PROVE CopyInv'
  <2>1. /\ UNCHANGED <<phase, snap, strategy, toDelete, result>>
        /\ \/ pc' = [pc EXCEPT ![t] = "copied"] /\ tgt' = Copied(t)
           \/ pc' = [pc EXCEPT ![t] = "failed"] /\ tgt' \in {tgt, Copied(t)}
        /\ \/ pc[t] = "copying"
           \/ pc[t] = "queued" /\ phase = "copying"
    BY <1>9 DEF CommitCopy, CopyFails, MayStart, LeftByError
  <2>2. phase = "copying" /\ result # "ok"
    BY <2>1 DEF PhaseInv, TypeOK
  <2>3. Empty(t)
    BY <2>1, <2>2, <1>a DEF CopyInv
  <2>4. \A u \in Tables \ {t} : pc'[u] = pc[u] /\ \A r \in RowsOf(u) : tgt'[r] = tgt[r]
    BY <2>1, CopyOne DEF TypeOK
  <2>5. ASSUME NEW u \in Tables \ {t}
        PROVE  /\ pc'[u] \in {"queued", "copying"} => Empty(u)'
               /\ pc'[u] = "copied" => Whole(u)'
               /\ pc'[u] = "failed" => Empty(u)' \/ Whole(u)'
    BY <2>1, <2>2, <2>4, <1>a DEF CopyInv, Empty, Whole
  <2>6. \/ pc'[t] = "copied" /\ Whole(t)'
        \/ pc'[t] = "failed" /\ (Empty(t)' \/ Whole(t)')
    <3>1. tgt' = Copied(t) => Whole(t)'
      BY <2>1, <2>3, CopyOne DEF Whole
    <3>2. tgt' = tgt => Empty(t)'
      BY <2>3 DEF Empty
    <3> QED
      BY <2>1, <3>1, <3>2 DEF TypeOK
  <2> QED
    BY <2>1, <2>2, <2>5, <2>6 DEF CopyInv
<1>10. ASSUME NEW t \in Tables, AddKey(t) PROVE CopyInv'
  <2>1. /\ UNCHANGED <<strategy, tgt, pc, snap, result>> /\ phase = "keys"
        /\ phase' \in {"keys", "indexes"}
    BY <1>10 DEF AddKey
  <2>2. result # "ok"
    BY <2>1 DEF PhaseInv
  <2> QED
    BY <2>1, <2>2, <1>a DEF CopyInv, Empty, Whole
<1> QED
  BY <1>1, <1>2, <1>3, <1>4, <1>5, <1>6, <1>7, <1>8, <1>9, <1>10 DEF Next, CommandStep

\* No statement breaks a foreign key of the target, and reconcileForeignKeys leaves
\* none out.
LEMMA KeyStep == TypeOK /\ PhaseInv /\ KeyInv /\ [Next]_vars => KeyInv'
<1> SUFFICES ASSUME TypeOK, PhaseInv, KeyInv, [Next]_vars PROVE KeyInv'
  OBVIOUS
<1>a. ASSUME NEW how, Ends(how), UNCHANGED <<tgt, keys>>, how = "ok" => phase = "indexes"
      PROVE  KeyInv'
  BY <1>a DEF Ends, KeyInv, Present
<1>1. CASE SourceChange \/ UNCHANGED vars
  BY <1>1 DEF SourceChange, vars, run, KeyInv, Present
<1>2. CASE Invoke
  BY <1>2 DEF Invoke, KeyInv, Present
<1>3. CASE Clean
  <2>1. phase' = "copying" /\ UNCHANGED <<keys, result>> /\ result = "none"
    BY <1>3 DEF Clean, PhaseInv
  <2>2. tgt' = tgt \/ Present' = {}
    BY <1>3, RowsAssumption DEF Clean, Emptied, Present
  <2> QED
    BY <2>1, <2>2 DEF KeyInv, Present
<1>4. CASE CleanFails \/ KeysFail \/ Finish \/ Kill
  BY <1>4, <1>a DEF CleanFails, KeysFail, Finish, Kill
<1>5. CASE EndCopying
  <2>1. CASE Cancelled
    BY <1>5, <2>1, <1>a DEF EndCopying
  <2>2. CASE ~Cancelled
    BY <1>5, <2>2 DEF EndCopying, KeyInv, Present, PhaseInv
  <2> QED
    BY <2>1, <2>2
<1>6. ASSUME NEW t \in Tables, DeleteTable(t) PROVE KeyInv'
  <2>1. /\ phase' \in {"cleaning", "copying"} /\ UNCHANGED <<keys, result>> /\ result = "none"
        /\ Held(t) = {}
    BY <1>6 DEF DeleteTable, PhaseInv
  <2>2. Present' = Present \ RowsOf(t)
    BY <1>6 DEF DeleteTable, Emptied, Present, RowsOf, TypeOK
  <2>3. ASSUME NEW r \in Present', TableOf[r] \in keys
        PROVE  RefersTo[r] \in Present' \union {NoRow}
    <3>1. r \in Present \ RowsOf(t) /\ RefersTo[r] \in Present \union {NoRow}
      BY <2>2, <2>3 DEF KeyInv
    <3>2. RefersTo[r] \notin RowsOf(t) \intersect Present
      BY <2>1, <2>3, <3>1 DEF Held, Present
    <3> QED
      BY <3>1, <3>2, <2>2
  <2> QED
    BY <2>1, <2>3 DEF KeyInv
<1>7. ASSUME NEW t \in Tables, StartCopy(t) PROVE KeyInv'
  BY <1>7 DEF StartCopy, KeyInv, Present
<1>8. ASSUME NEW t \in Tables, CommitCopy(t) \/ CopyFails(t) PROVE KeyInv'
  <2>1. /\ UNCHANGED <<phase, toKey, keys, result>>
        /\ tgt' = tgt \/ (tgt' = Copied(t) /\ Accepted(t))
    BY <1>8 DEF CommitCopy, CopyFails, LeftByError
  <2>2. CASE tgt' = tgt
    BY <2>1, <2>2 DEF KeyInv, Present
  <2>3. CASE tgt' = Copied(t) /\ Accepted(t)
    <3>1. snap[t] \subseteq RowsOf(t)
      BY DEF TypeOK
    <3>2. Present' = Present \union snap[t]
      BY <2>3, <3>1 DEF Copied, Present, RowsOf, TypeOK
    <3>3. ASSUME NEW r \in Present', TableOf[r] \in keys
          PROVE  RefersTo[r] \in Present' \union {NoRow}
      <4>1. CASE r \in Present
        BY <4>1, <3>2, <3>3 DEF KeyInv
      <4>2. CASE r \in snap[t]
        <5>1. TableOf[r] = t
          BY <4>2, <3>1 DEF RowsOf
        <5> QED
          BY <4>2, <5>1, <2>3, <3>2, <3>3 DEF Accepted
      <4> QED
        BY <4>1, <4>2, <3>2
    <3> QED
      BY <2>1, <3>3 DEF KeyInv
  <2> QED
    BY <2>1, <2>2, <2>3
<1>9. ASSUME NEW t \in Tables, AddKey(t) PROVE KeyInv'
  <2>1. /\ phase = "keys"
        /\ KeyExists(t) \/ Dangling(t) = {}
        /\ keys' = keys \union {t} /\ toKey' = toKey \ {t}
        /\ phase' = IF toKey = {t} THEN "indexes" ELSE phase
        /\ UNCHANGED <<tgt, result>>
    BY <1>9 DEF AddKey, KeyExists
  <2>2. ASSUME NEW r \in Present, TableOf[r] \in keys'
        PROVE  RefersTo[r] \in Present \union {NoRow}
    <3>1. CASE TableOf[r] \in keys
      BY <3>1 DEF KeyInv
    <3>2. CASE TableOf[r] \notin keys
      BY <3>2, <2>1, <2>2 DEF KeyExists, Dangling, Present, RowsOf
    <3> QED
      BY <3>1, <3>2
  <2>3. Tables \ toKey' \subseteq keys' /\ keys' \subseteq Tables /\ result = "none"
    BY <2>1, <1>9 DEF AddKey, KeyInv, PhaseInv, TypeOK
  <2> QED
    BY <2>1, <2>2, <2>3 DEF KeyInv, Present
<1> QED
  BY <1>1, <1>2, <1>3, <1>4, <1>5, <1>6, <1>7, <1>8, <1>9 DEF Next, CommandStep

\* What the source's own foreign keys and the levels say of a row of t.
LEMMA Parents ==
    ASSUME TypeOK, NEW r \in src
    PROVE  \/ RefersTo[r] = NoRow
           \/ /\ RefersTo[r] \in src /\ TableOf[RefersTo[r]] \in Tables
              /\ \/ TableOf[RefersTo[r]] = TableOf[r]
                 \/ LevelOf[TableOf[RefersTo[r]]] < LevelOf[TableOf[r]]
BY RowsAssumption, LevelsAssumption DEF TypeOK, Intact

\* The tables of later levels are empty when a table is emptied: no key holds its rows.
LEMMA NothingHeld ==
    ASSUME TypeOK, PhaseInv, CopyInv, Replaces, phase = "cleaning", NEW t \in toDelete,
           DeletesNext(t)
    PROVE  Held(t) = {}
<1>1. strategy = "delete"
  BY StrategiesAssumption DEF TypeOK, Replaces, PhaseInv
<1>2. SUFFICES ASSUME NEW r \in Rows, r \notin RowsOf(t), tgt[r] > 0, RefersTo[r] \in RowsOf(t)
               PROVE  FALSE
  BY DEF Held, Present
<1>3. t \in Tables /\ TableOf[r] \in Tables /\ TableOf[r] # t /\ TableOf[RefersTo[r]] = t
      /\ RefersTo[r] # NoRow
  BY <1>2, RowsAssumption DEF TypeOK, RowsOf
<1>4. LevelOf[t] < LevelOf[TableOf[r]]
  BY <1>2, <1>3, LevelsAssumption
<1>5. TableOf[r] \notin toDelete
  BY <1>3, <1>4, LevelsAssumption DEF DeletesNext
<1>6. Empty(TableOf[r])
  BY <1>1, <1>3, <1>5 DEF CopyInv
<1> QED
  BY <1>2, <1>6 DEF Empty, RowsOf, TypeOK

\* In a run that nothing disturbs the copied tables hold what the source holds.
LEMMA CopiedAsSource ==
    ASSUME TypeOK, CopyInv, QuietInv, Replaces, ~disturbed,
           phase \in {"copying", "keys"}, NEW r \in src, pc[TableOf[r]] = "copied"
    PROVE  r \in Present
<1>1. r \in Rows /\ TableOf[r] \in Tables
  BY RowsAssumption DEF TypeOK
<1>2. Whole(TableOf[r]) /\ snap[TableOf[r]] = Snapshot(TableOf[r])
  BY <1>1 DEF CopyInv, QuietInv
<1> QED
  BY <1>1, <1>2 DEF Whole, Snapshot, RowsOf, Present

\* No key of the target refuses a copy.
LEMMA NothingRefused ==
    ASSUME TypeOK, PhaseInv, CopyInv, QuietInv, Replaces, ~disturbed,
           NEW t \in Tables, pc[t] = "copying"
    PROVE  Accepted(t)
<1>1. phase = "copying"
  BY DEF PhaseInv, TypeOK
<1>2. Empty(t) /\ snap[t] = Snapshot(t)
  BY <1>1 DEF CopyInv, QuietInv
<1>3. snap[t] \intersect Present = {}
  BY <1>2 DEF Snapshot, Empty, Present
<1>4. ASSUME NEW r \in snap[t] PROVE RefersTo[r] \in Present \union snap[t] \union {NoRow}
  <2>1. r \in src /\ TableOf[r] = t
    BY <1>2 DEF Snapshot, RowsOf
  <2>2. CASE RefersTo[r] = NoRow
    BY <2>2
  <2>3. CASE RefersTo[r] \in src /\ TableOf[RefersTo[r]] = t
    <3>1. RefersTo[r] \in RowsOf(t)
      BY <2>3 DEF TypeOK, RowsOf
    <3> QED
      BY <2>3, <3>1, <1>2 DEF Snapshot
  <2>4. CASE /\ RefersTo[r] \in src /\ TableOf[RefersTo[r]] \in Tables
             /\ LevelOf[TableOf[RefersTo[r]]] < LevelOf[t]
    <3>1. pc[TableOf[RefersTo[r]]] = "copied"
      BY <2>4 DEF QuietInv
    <3> QED
      BY <2>4, <3>1, <1>1, CopiedAsSource
  <2> QED
    BY <2>1, <2>2, <2>3, <2>4, Parents
<1> QED
  BY <1>3, <1>4 DEF Accepted

\* No row dangles when the foreign keys are added.
LEMMA NothingDangles ==
    ASSUME TypeOK, PhaseInv, CopyInv, QuietInv, Replaces, ~disturbed, phase = "keys",
           NEW t \in Tables
    PROVE  Dangling(t) = {}
<1>1. SUFFICES ASSUME NEW r \in Rows, tgt[r] > 0, TableOf[r] = t
               PROVE  RefersTo[r] \in Present \union {NoRow}
  BY DEF Dangling, Present, RowsOf
<1>2. \A u \in Tables : pc[u] = "copied"
  BY DEF PhaseInv
<1>3. Whole(t) /\ snap[t] = Snapshot(t)
  BY <1>2 DEF CopyInv, QuietInv
<1>4. r \in src
  BY <1>1, <1>3 DEF Whole, Snapshot, RowsOf
<1> QED
  BY <1>2, <1>4, Parents, CopiedAsSource

\* A run fails only where it was disturbed.
LEMMA QuietStep ==
    TypeOK /\ PhaseInv /\ CopyInv /\ QuietInv /\ [Next]_vars => QuietInv'
<1> SUFFICES ASSUME TypeOK, PhaseInv, CopyInv, QuietInv, [Next]_vars, Replaces', ~disturbed'
             PROVE  QuietInv'
  BY DEF QuietInv
<1>a. ASSUME NEW how, Ends(how), how # "failed" PROVE QuietInv'
  BY <1>a DEF Ends, QuietInv
<1>b. ASSUME UNCHANGED <<strategy, disturbed>> PROVE Replaces /\ ~disturbed
  BY <1>b DEF Replaces
<1>c. ASSUME UNCHANGED <<strategy, disturbed, src, pc, snap>>, result' \in {result, "none"}
      PROVE  QuietInv'
  BY <1>b, <1>c DEF QuietInv, Snapshot
<1>d. ~Fault
  BY DEF Fault
<1>1. CASE SourceChange
  BY <1>1 DEF SourceChange
<1>2. CASE Invoke
  BY <1>2 DEF Invoke, PhaseInv, QuietInv
<1>3. CASE Clean
  BY <1>3, <1>c DEF Clean, NoFault
<1>4. CASE CleanFails
  <2>1. /\ phase = "cleaning" /\ UNCHANGED <<strategy, disturbed>>
        /\ \E t \in toDelete : DeletesNext(t) /\ Held(t) # {}
    BY <1>4, <1>d DEF CleanFails, NoFault
  <2> QED
    BY <2>1, <1>b, NothingHeld
<1>5. CASE EndCopying
  <2>1. Replaces /\ ~disturbed
    BY <1>5, <1>b DEF EndCopying
  <2>2. ~Cancelled
    BY <2>1 DEF QuietInv, Cancelled
  <2> QED
    BY <1>5, <2>2, <1>c DEF EndCopying
<1>6. CASE KeysFail
  <2>1. /\ phase = "keys" /\ UNCHANGED <<strategy, disturbed>>
        /\ \E t \in toKey : Dangling(t) # {}
    BY <1>6, <1>d DEF KeysFail, NoFault
  <2> QED
    BY <2>1, <1>b, NothingDangles DEF TypeOK
<1>7. CASE Finish
  BY <1>7, <1>a, <1>d DEF Finish
<1>8. CASE Kill
  BY <1>8, <1>d DEF Kill
<1>9. ASSUME NEW t \in Tables, DeleteTable(t) PROVE QuietInv'
  BY <1>9, <1>c DEF DeleteTable, NoFault
<1>10. ASSUME NEW t \in Tables, StartCopy(t) PROVE QuietInv'
  <2>1. /\ pc' = [pc EXCEPT ![t] = "copying"] /\ snap' = [snap EXCEPT ![t] = Snapshot(t)]
        /\ UNCHANGED <<strategy, disturbed, src, result>> /\ pc[t] = "queued"
        /\ \A u \in Tables : LevelOf[u] < LevelOf[t] => pc[u] = "copied"
    BY <1>10 DEF StartCopy, MayStart
  <2>2. \A u \in Tables \ {t} : pc'[u] = pc[u] /\ snap'[u] = snap[u]
    BY <2>1 DEF TypeOK
  <2>3. pc'[t] = "copying" /\ snap'[t] = Snapshot(t)
    BY <2>1 DEF TypeOK
  <2>4. \A u \in Tables : Snapshot(u)' = Snapshot(u)
    BY <2>1 DEF Snapshot
  <2>5. \A u \in Tables : pc[u] = "copied" => pc'[u] = "copied"
    BY <2>1, <2>2
  <2> QED
    BY <2>1, <2>2, <2>3, <2>4, <2>5, <1>b DEF QuietInv
<1>11. ASSUME NEW t \in Tables, CommitCopy(t) PROVE QuietInv'
  <2>1. /\ pc' = [pc EXCEPT ![t] = "copied"] /\ pc[t] = "copying"
        /\ UNCHANGED <<strategy, disturbed, src, snap, result>>
    BY <1>11 DEF CommitCopy
  <2>2. pc'[t] = "copied" /\ \A u \in Tables \ {t} : pc'[u] = pc[u]
    BY <2>1 DEF TypeOK
  <2> QED
    BY <2>1, <2>2, <1>b DEF QuietInv, Snapshot
<1>12. ASSUME NEW t \in Tables, CopyFails(t) PROVE QuietInv'
  <2>1. /\ UNCHANGED <<strategy, disturbed>>
        /\ Cancelled \/ (pc[t] = "copying" /\ ~Accepted(t))
    BY <1>12, <1>d DEF CopyFails, NoFault
  <2>2. ~Cancelled
    BY <2>1, <1>b DEF QuietInv, Cancelled
  <2> QED
    BY <2>1, <2>2, <1>b, NothingRefused
<1>13. ASSUME NEW t \in Tables, AddKey(t) PROVE QuietInv'
  BY <1>13, <1>c DEF AddKey
<1>14. CASE UNCHANGED vars
  BY <1>14, <1>c DEF vars, run
<1> QED
  BY <1>1, <1>2, <1>3, <1>4, <1>5, <1>6, <1>7, <1>8, <1>9, <1>10, <1>11, <1>12, <1>13,
     <1>14 DEF Next, CommandStep

-----------------------------------------------------------------------------
(* The theorems. *)

LEMMA Invariant == Spec => [](TypeOK /\ Inv)
<1>1. Init => TypeOK /\ Inv
  BY TypeInit, InvInit
<1>2. TypeOK /\ Inv /\ [Next]_vars => (TypeOK /\ Inv)'
  BY TypeStep, PhaseStep, CopyStep, KeyStep, QuietStep DEF Inv
<1> QED
  BY <1>1, <1>2, PTL DEF Spec

\* A run that succeeds leaves exactly what its queries returned, each row once,
\* whatever the runs before it left.
THEOREM Exact == Spec => []SuccessIsSnapshot
<1>1. TypeOK /\ Inv => SuccessIsSnapshot
  <2> SUFFICES ASSUME TypeOK, Inv, result = "ok", Replaces, NEW r \in Rows
               PROVE  tgt[r] = IF r \in snap[TableOf[r]] THEN 1 ELSE 0
    BY DEF SuccessIsSnapshot
  <2>1. TableOf[r] \in Tables /\ r \in RowsOf(TableOf[r])
    BY RowsAssumption DEF RowsOf
  <2> QED
    BY <2>1 DEF Inv, CopyInv, Whole
<1> QED
  BY <1>1, Invariant, PTL

\* A table is never left with a part of its rows (the transaction of fullPreparedTable).
THEOREM InWhole == Spec => []CopyIsWhole
<1>1. TypeOK /\ Inv => CopyIsWhole
  <2> SUFFICES ASSUME TypeOK, Inv, Replaces, phase \in {"copying", "keys", "indexes"},
                      NEW t \in Tables
               PROVE  Empty(t) \/ Whole(t)
    BY DEF CopyIsWhole, Empty, Whole
  <2>1. pc[t] \in {"queued", "copying", "copied", "failed"}
    BY DEF TypeOK
  <2> QED
    BY <2>1 DEF Inv, CopyInv
<1> QED
  BY <1>1, Invariant, PTL

\* After a success every foreign key is there and holds (reconcileForeignKeys).
THEOREM References == Spec => []SuccessIsIntact
<1>1. TypeOK /\ Inv => SuccessIsIntact
  <2>1. \A r \in Present : TableOf[r] \in Tables
    BY RowsAssumption DEF Present
  <2> QED
    BY <2>1 DEF Inv, KeyInv, SuccessIsIntact, Intact
<1> QED
  BY <1>1, Invariant, PTL

\* The order of cleanFullTargets and of the copies satisfies the foreign keys of the
\* target, with any levels that respect them.
THEOREM OrderAccepted == Spec => []FailureHasReason
<1>1. TypeOK /\ Inv => FailureHasReason
  BY DEF Inv, QuietInv, FailureHasReason, TypeOK
<1> QED
  BY <1>1, Invariant, PTL
=============================================================================
