------------------------------ MODULE FullSync ------------------------------
(***************************************************************************)
(* The data of a full synchronisation: Syncer.Full empties the targets     *)
(* (cleanFullTargets), copies each table in a transaction of its own,      *)
(* level by level (fullPreparedTable), and creates the foreign keys that   *)
(* the target does not have (reconcileForeignKeys), while the source keeps *)
(* changing and calls may fail.  Module SyncCommand has the workers and    *)
(* the context; here the tables of a level may run at the same time in any *)
(* order, and one that fails cancels the others.                           *)
(*                                                                         *)
(* A row stands for its whole contents and refers to at most one row of    *)
(* another table, or of its own.  The target is a bag of rows.             *)
(***************************************************************************)
EXTENDS Integers, FiniteSets

CONSTANTS
    Tables,         \* the configured tables
    Rows,           \* the rows that may exist
    NoRow,          \* no row
    TableOf,        \* TableOf[r]: the table of row r
    RefersTo,       \* RefersTo[r]: the row that r refers to, or NoRow
    LevelOf,        \* LevelOf[t]: the dependency level of table t
    Keyed,          \* the tables with a primary key
    Strategies,     \* the values of full_strategy considered
    MaxRuns,        \* bound: invocations
    MaxWrites,      \* bound: changes of the source
    MaxFaults       \* bound: failed calls and kills

ASSUME RowsAssumption == NoRow \notin Rows /\ TableOf \in [Rows -> Tables]
ASSUME LevelsAssumption ==
    /\ RefersTo \in [Rows -> Rows \union {NoRow}]
    /\ LevelOf \in [Tables -> Nat]
    /\ \A r \in Rows :
          \/ RefersTo[r] = NoRow
          \/ TableOf[RefersTo[r]] = TableOf[r]
          \/ LevelOf[TableOf[RefersTo[r]]] < LevelOf[TableOf[r]]
ASSUME StrategiesAssumption ==
    Strategies \subseteq {"truncate", "delete", "append"}
ASSUME LimitsAssumption ==
    Keyed \subseteq Tables /\ {MaxRuns, MaxWrites, MaxFaults} \subseteq Nat

VARIABLES
    strategy,   \* full_strategy
    src,        \* the committed rows of the source
    tgt,        \* tgt[r]: copies of row r in the target
    keys,       \* the tables whose foreign key the target has
    phase,      \* "off", "cleaning", "copying", "keys" or "indexes"
    toDelete,   \* the target tables still to be emptied, under "delete"
    pc,         \* pc[t]: "queued", "copying", "copied" or "failed"
    snap,       \* snap[t]: the rows that the query of table t returned
    toKey,      \* the tables whose foreign keys are still to be looked at
    result,     \* of the last invocation: "none", "ok" or "failed"
    disturbed,  \* history: the source changed or a call failed in this run
    runs,       \* invocations so far
    writes,     \* changes of the source so far
    faults      \* faults so far

run == <<strategy, phase, toDelete, pc, snap, toKey, result, runs>>
vars == <<src, tgt, keys, run, disturbed, writes, faults>>

RowsOf(t) == {r \in Rows : TableOf[r] = t}

\* Every reference within the set R of rows leads to a row in R.
Intact(R) == \A r \in R : RefersTo[r] \in R \union {NoRow}

Present == {r \in Rows : tgt[r] > 0}

-----------------------------------------------------------------------------
(* The source, whose own foreign keys always hold. *)

SourceChange ==
    /\ writes < MaxWrites
    /\ \E r \in Rows :
          /\ src' = IF r \in src THEN src \ {r} ELSE src \union {r}
          /\ Intact(src')
    /\ writes' = writes + 1
    /\ disturbed' = TRUE
    /\ UNCHANGED <<tgt, keys, run, faults>>

-----------------------------------------------------------------------------
(* The command. *)

Fault == faults < MaxFaults /\ faults' = faults + 1 /\ disturbed' = TRUE
NoFault == UNCHANGED <<faults, disturbed>>

\* The command returns, or is killed. Its variables are put back.
Ends(how) ==
    /\ phase' = "off"
    /\ toDelete' = {}
    /\ pc' = [t \in Tables |-> "queued"]
    /\ toKey' = {}
    /\ result' = how

Invoke ==
    /\ phase = "off"
    /\ runs < MaxRuns
    /\ runs' = runs + 1
    /\ phase' = "cleaning"
    /\ toDelete' = IF strategy = "delete" THEN Tables ELSE {}
    /\ snap' = [t \in Tables |-> {}]
    /\ result' = "none"
    /\ disturbed' = FALSE
    /\ UNCHANGED <<strategy, src, tgt, keys, pc, toKey, writes, faults>>

\* Faulty variants of the definitions that follow, for the mutants of
\* PROJECT.json: nothing is emptied, and parents are emptied first.
EmptiedNot(T) == tgt
DeletesParent(t) == \A u \in toDelete : LevelOf[u] >= LevelOf[t]

\* The target without the rows of the tables T.
Emptied(T) == [r \in Rows |-> IF TableOf[r] \in T THEN 0 ELSE tgt[r]]

\* The levels are emptied from the last to the first.
DeletesNext(t) == \A u \in toDelete : LevelOf[u] <= LevelOf[t]

\* append makes no call; truncate empties all tables in one statement, which
\* their foreign keys do not hinder.
Clean ==
    /\ phase = "cleaning"
    /\ strategy # "delete"
    /\ tgt' = IF strategy = "append" THEN tgt ELSE Emptied(Tables)
    /\ phase' = "copying"
    /\ NoFault
    /\ UNCHANGED <<strategy, src, keys, toDelete, pc, snap, toKey, result, runs,
                   writes>>

\* The rows that a foreign key of the target holds back when t is emptied.
Held(t) ==
    {r \in Present \ RowsOf(t) :
        TableOf[r] \in keys /\ RefersTo[r] \in RowsOf(t) \intersect Present}

DeleteTable(t) ==
    /\ phase = "cleaning"
    /\ t \in toDelete /\ DeletesNext(t)
    /\ Held(t) = {}
    /\ tgt' = Emptied({t})
    /\ toDelete' = toDelete \ {t}
    /\ phase' = IF toDelete = {t} THEN "copying" ELSE phase
    /\ NoFault
    /\ UNCHANGED <<strategy, src, keys, pc, snap, toKey, result, runs, writes>>

\* The statement fails, by itself or because of a foreign key.
CleanFails ==
    /\ phase = "cleaning"
    /\ strategy # "append"
    /\ \/ Fault
       \/ NoFault /\ \E t \in toDelete : DeletesNext(t) /\ Held(t) # {}
    /\ Ends("failed")
    /\ UNCHANGED <<strategy, src, tgt, keys, snap, runs, writes>>

Cancelled == \E t \in Tables : pc[t] = "failed"

\* Faulty variant: levels are not waited for.
StartsAnyTime(t) == phase = "copying"

\* A table starts when all tables of the levels before have been copied.
MayStart(t) ==
    /\ phase = "copying"
    /\ \A u \in Tables : LevelOf[u] < LevelOf[t] => pc[u] = "copied"

\* What the query of the source table returns: one statement, one snapshot.
Snapshot(t) == src \intersect RowsOf(t)

StartCopy(t) ==
    /\ MayStart(t)
    /\ pc[t] = "queued"
    /\ ~Cancelled
    /\ pc' = [pc EXCEPT ![t] = "copying"]
    /\ snap' = [snap EXCEPT ![t] = Snapshot(t)]
    /\ UNCHANGED <<strategy, src, tgt, keys, phase, toDelete, toKey, result,
                   disturbed, runs, writes, faults>>

\* The target after the COPY of the snapshot of t.
Copied(t) == [r \in Rows |-> IF r \in snap[t] THEN tgt[r] + 1 ELSE tgt[r]]

\* The primary key and the foreign key of t allow the COPY.
Accepted(t) ==
    /\ t \in Keyed => snap[t] \intersect Present = {}
    /\ t \in keys => \A r \in snap[t] :
          RefersTo[r] \in Present \union snap[t] \union {NoRow}

\* COPY and COMMIT.
CommitCopy(t) ==
    /\ pc[t] = "copying"
    /\ Accepted(t)
    /\ tgt' = Copied(t)
    /\ pc' = [pc EXCEPT ![t] = "copied"]
    /\ UNCHANGED <<strategy, src, keys, phase, toDelete, snap, toKey, result,
                   disturbed, runs, writes, faults>>

\* Faulty variant: no transaction, so that an error leaves part of the rows.
LeftInPart(t) ==
    {[r \in Rows |-> IF r \in S THEN tgt[r] + 1 ELSE tgt[r]] :
        S \in SUBSET snap[t]}

\* What an error leaves: the transaction is rolled back, unless it is COMMIT
\* that failed and the server had carried it out.
LeftByError(t) == IF Accepted(t) THEN {tgt, Copied(t)} ELSE {tgt}

\* The query, COPY or COMMIT fails: by itself, because of a key, or because
\* another table has failed and cancelled the context.
CopyFails(t) ==
    /\ \/ pc[t] = "copying"
       \/ MayStart(t) /\ pc[t] = "queued"
    /\ \/ Fault /\ tgt' \in LeftByError(t)
       \/ NoFault /\ pc[t] = "copying" /\ ~Accepted(t) /\ UNCHANGED tgt
       \/ NoFault /\ Cancelled /\ tgt' \in LeftByError(t)
    /\ pc' = [pc EXCEPT ![t] = "failed"]
    /\ UNCHANGED <<strategy, src, keys, phase, toDelete, snap, toKey, result,
                   runs, writes>>

\* Faulty variant: only success ends the copying.
AllCopied == \A t \in Tables : pc[t] = "copied"

\* runMappings has returned for the last level, or with an error.
CopyingOver ==
    \/ \A t \in Tables : pc[t] = "copied"
    \/ Cancelled /\ \A t \in Tables : pc[t] # "copying"

EndCopying ==
    /\ phase = "copying"
    /\ CopyingOver
    /\ IF Cancelled
       THEN Ends("failed")
       ELSE /\ phase' = "keys"
            /\ toKey' = Tables
            /\ UNCHANGED <<toDelete, pc, result>>
    /\ UNCHANGED <<strategy, src, tgt, keys, snap, disturbed, runs, writes,
                   faults>>

\* Faulty variant: the key is added NOT VALID, without a look at the rows.
DanglingUnseen(t) == {}

\* The rows of t that refer to no row of the target.
Dangling(t) ==
    {r \in Present \intersect RowsOf(t) : RefersTo[r] \notin Present \union {NoRow}}

KeyExists(t) == t \in keys

\* reconcileForeignKeys, one table: ALTER TABLE ... ADD CONSTRAINT checks the
\* rows that are there.
AddKey(t) ==
    /\ phase = "keys"
    /\ t \in toKey
    /\ KeyExists(t) \/ Dangling(t) = {}
    /\ keys' = IF KeyExists(t) THEN keys ELSE keys \union {t}
    /\ toKey' = toKey \ {t}
    /\ phase' = IF toKey = {t} THEN "indexes" ELSE phase
    /\ UNCHANGED <<strategy, src, tgt, toDelete, pc, snap, result, disturbed,
                   runs, writes, faults>>

KeysFail ==
    /\ phase = "keys"
    /\ \/ Fault
       \/ NoFault /\ \E t \in toKey : ~KeyExists(t) /\ Dangling(t) # {}
    /\ Ends("failed")
    /\ UNCHANGED <<strategy, src, tgt, keys, snap, runs, writes>>

\* syncPreparedIndexes, after which Full returns.
Finish ==
    /\ phase = "indexes"
    /\ \/ NoFault /\ Ends("ok")
       \/ Fault /\ Ends("failed")
    /\ UNCHANGED <<strategy, src, tgt, keys, snap, runs, writes>>

Kill ==
    /\ phase # "off"
    /\ Fault
    /\ Ends("failed")
    /\ UNCHANGED <<strategy, src, tgt, keys, snap, runs, writes>>

-----------------------------------------------------------------------------
Init ==
    /\ strategy \in Strategies
    /\ src \in {R \in SUBSET Rows : Intact(R)}
    /\ tgt = [r \in Rows |-> 0]
    /\ keys = {}
    /\ phase = "off"
    /\ toDelete = {}
    /\ pc = [t \in Tables |-> "queued"]
    /\ snap = [t \in Tables |-> {}]
    /\ toKey = {}
    /\ result = "none"
    /\ disturbed = FALSE
    /\ runs = 0
    /\ writes = 0
    /\ faults = 0

CommandStep ==
    \/ Clean \/ CleanFails \/ EndCopying \/ KeysFail \/ Finish
    \/ \E t \in Tables : \/ DeleteTable(t) \/ StartCopy(t) \/ CommitCopy(t)
                         \/ CopyFails(t) \/ AddKey(t)

Next == SourceChange \/ Invoke \/ CommandStep \/ Kill

Spec == Init /\ [][Next]_vars

\* The command takes its steps and every database call returns.
FairSpec == Spec /\ WF_vars(CommandStep /\ UNCHANGED faults)

-----------------------------------------------------------------------------
(* Properties. *)

Replaces == strategy # "append"

\* Type invariant.
TypeOK ==
    /\ strategy \in Strategies
    /\ src \subseteq Rows /\ Intact(src)
    /\ tgt \in [Rows -> Nat]
    /\ keys \subseteq Tables
    /\ phase \in {"off", "cleaning", "copying", "keys", "indexes"}
    /\ toDelete \subseteq Tables
    /\ pc \in [Tables -> {"queued", "copying", "copied", "failed"}]
    /\ snap \in [Tables -> SUBSET Rows] /\ \A t \in Tables : snap[t] \subseteq RowsOf(t)
    /\ toKey \subseteq Tables
    /\ result \in {"none", "ok", "failed"}
    /\ disturbed \in BOOLEAN
    /\ runs \in 0 .. MaxRuns
    /\ writes \in 0 .. MaxWrites
    /\ faults \in 0 .. MaxFaults

\* A successful truncate or delete run leaves in each target table exactly the
\* rows that its query returned, each once, whatever earlier runs that failed
\* or were killed had left there.
SuccessIsSnapshot ==
    result = "ok" /\ Replaces =>
        \A r \in Rows : tgt[r] = IF r \in snap[TableOf[r]] THEN 1 ELSE 0

\* After a successful run the target has every foreign key and no row that
\* refers to nothing, although each table was read at a moment of its own.
SuccessIsIntact == result = "ok" => keys = Tables /\ Intact(Present)

\* A table is copied in whole or not at all: from the clean-up on it is empty
\* or holds one snapshot, whatever fails.
CopyIsWhole ==
    Replaces /\ phase \in {"copying", "keys", "indexes"} =>
        \A t \in Tables :
            \/ \A r \in RowsOf(t) : tgt[r] = 0
            \/ \A r \in RowsOf(t) : tgt[r] = IF r \in snap[t] THEN 1 ELSE 0

\* The order of clean-up and copies never makes a run fail: when nothing else
\* failed and the source stood still, foreign keys of the target, present from
\* earlier runs or not, refuse no statement.
FailureHasReason ==
    result = "failed" /\ Replaces => disturbed

\* Every run returns.
RunReturns == phase # "off" ~> phase = "off"
=============================================================================
