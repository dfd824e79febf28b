--------------------------- MODULE StructureSync ---------------------------
(***************************************************************************)
(* prepareStructure for the tables of a run, each by a worker of its own,  *)
(* over any number of runs that end, fail or are killed in the middle: the *)
(* source's catalog is read, and schema, sequence, table, columns and      *)
(* indexes are created or altered in the target, a statement at a time.    *)
(*                                                                         *)
(* A column is what a target may have wrong about it: its type, its        *)
(* default and its NULL constraint.  "source" is as in the source, the     *)
(* default "none" is a default that is missing.                            *)
(*                                                                         *)
(* inspectTable and inspectSequences leave their loops over rows without   *)
(* rows.Err(): a connection that is lost cuts the result short and nothing *)
(* tells.                                                                  *)
(*                                                                         *)
(* The rows that a target table has may refuse a statement for as long as  *)
(* nobody corrects them.  Rows that a synchronisation brings fit: they come *)
(* from the source.                                                        *)
(***************************************************************************)
EXTENDS Integers, Sequences, Functions

CONSTANTS
    Tables,         \* the mappings, by their target table
    Names,          \* the names of columns and indexes
    SchemaOf,       \* the target schema of each table
    Columns,        \* the source's columns of a table, in order, its key first
    Serial,         \* the column whose default draws from the table's sequence
    Identity,       \* tables whose catalog has no expression for that default
    Indexes,        \* the source's indexes of a table, in order; no two tables
                    \* of one target schema have an index of one name
    IndexColumns,   \* the columns of each index
    InitialTables,  \* what each target table may be before the first run
    Misfits,        \* what the rows of a table that is there refuse at first
    MaxValue,       \* bound: no value is drawn once a source sequence is there
    MaxFaults       \* bound: statements that fail and results cut short

ASSUME StructureAssumption ==
    /\ Columns \in Seq(Names) /\ Columns # <<>> /\ Indexes \in Seq(Names)
    /\ Serial \in Range(Columns) /\ Identity \subseteq Tables
    /\ IndexColumns \in [Range(Indexes) -> SUBSET Range(Columns)]
    /\ MaxValue \in Nat /\ MaxFaults \in Nat

VARIABLES
    value,          \* value[t]: the source's sequence
    schemas,        \* the target's schemas
    target,         \* target[t]: the target table, or NoTable
    misfits,        \* misfits[t]: what the rows of the target table refuse
    sequence,       \* sequence[t]: the target's sequence
    at,             \* at[t]: the step of prepareStructure t's worker is at, 0: none
    read,           \* read[t]: what inspectTable found in the source
    seen,           \* seen[t]: what it found in the target, and what was done since
    outcome,        \* "none", "running", "ok", or why the run failed
    cut,            \* a result was cut short in this run (history)
    atStart,        \* the source's sequences when the run started (history)
    faults

vars == <<value, schemas, target, misfits, sequence, at, read, seen, outcome, cut, atStart,
          faults>>
catalog == <<schemas, target, sequence>>
memory == <<at, read, seen, outcome>>
others == <<value, misfits, cut, atStart, faults>>

\* Faulty variant of the list that follows, for the mutants of PROJECT.json:
\* the table before its sequence.
StepsTableFirst == <<"inspect source", "find schema", "create schema", "inspect target",
                     "table", "make sequence", "set sequence", "own sequence", "indexes">>

\* syncSequences is called before and after the table, which gets it as owner.
Steps == <<"inspect source", "find schema", "create schema", "inspect target",
           "make sequence", "set sequence", "table",
           "make sequence", "set sequence", "own sequence", "indexes">>

Done == Len(Steps) + 1
Does(t, step) == outcome = "running" /\ at[t] \in DOMAIN Steps /\ Steps[at[t]] = step
Forward(t) == at' = [at EXCEPT ![t] = @ + 1]

Attributes == {"type", "default", "nullable"}
AsInSource == [a \in Attributes |-> "source"]
NoTable == [columns |-> <<>>, pk |-> "none", indexes |-> <<>>]
NoSequence == [exists |-> FALSE, value |-> 0, owned |-> FALSE]
NothingRead == [columns |-> <<>>, sequence |-> FALSE, value |-> 0]

\* What a catalog may show of a table.
Partial(S) == UNION {[D -> S] : D \in SUBSET Names}
ColumnStates == [Attributes -> {"source", "other", "none"}]
TableStates ==
    [columns : Partial(ColumnStates), pk : {"none", "source", "other"},
     indexes : Partial({"source", "other"})]

\* A table that is there has columns and a key, "other" for no key as well.
ASSUME TargetAssumption ==
    /\ SchemaOf \in [Tables -> Range(SchemaOf)]
    /\ InitialTables \in [Tables -> SUBSET TableStates]
    /\ \A t \in Tables : \A table \in InitialTables[t] :
          table = NoTable \/ (DOMAIN table.columns # {} /\ table.pk # "none")

\* What rows refuse of column or index n: a type that a value does not convert to,
\* NOT NULL for a NULL or for a new column without default, a second equal key.
Refusals == Names \X {"type", "nullable", "unique"}
ASSUME MisfitsAssumption == Misfits \subseteq Refusals

\* Rows that may not fit: there are some, and what the source asks for column or
\* index n is not asked of them yet.
Unguarded(table, n) ==
    /\ table # NoTable /\ n \notin DOMAIN table.indexes
    /\ n \in DOMAIN table.columns => table.columns[n] # AsInSource

\* The function f with v at c, which may be new to it.
With(f, c, v) == [x \in DOMAIN f \union {c} |-> IF x = c THEN v ELSE f[x]]

-----------------------------------------------------------------------------
(* Runs. *)

StartRun ==
    /\ outcome # "running" /\ outcome' = "running"
    /\ at' = [t \in Tables |-> 1]
    /\ cut' = FALSE /\ atStart' = value
    /\ UNCHANGED <<value, misfits, catalog, read, seen, faults>>

\* The command returns, and what it had in memory is gone.
Return(result) ==
    /\ outcome' = result
    /\ at' = [t \in Tables |-> 0]
    /\ read' = [t \in Tables |-> NothingRead]
    /\ seen' = [t \in Tables |-> NoTable]

EndRun ==
    /\ outcome = "running" /\ \A t \in Tables : at[t] = Done
    /\ Return("ok")
    /\ UNCHANGED <<catalog, others>>

\* A statement fails, the command is interrupted or the process is killed. The
\* workers of the other tables are cancelled.
Fault ==
    /\ outcome = "running"
    /\ faults < MaxFaults /\ faults' = faults + 1
    /\ Return("fault")
    /\ UNCHANGED <<value, misfits, catalog, cut, atStart>>

\* The source application draws a value.
SourceDraws(t) ==
    /\ \A u \in Tables : value[u] < MaxValue
    /\ value' = [value EXCEPT ![t] = @ + 1]
    /\ UNCHANGED <<misfits, catalog, memory, cut, atStart, faults>>

\* Someone corrects or removes rows of the target.
CorrectRows(t) ==
    /\ \E m \in misfits[t] : misfits' = [misfits EXCEPT ![t] = @ \ {m}]
    /\ UNCHANGED <<value, catalog, memory, cut, atStart, faults>>

-----------------------------------------------------------------------------
(* Catalogs. *)

WholeResult == UNCHANGED <<cut, faults>>
ResultCutShort == cut' = TRUE /\ faults < MaxFaults /\ faults' = faults + 1

\* inspectTable of the source. Without columns the table is taken not to exist.
InspectSource(t) ==
    /\ Does(t, "inspect source")
    /\ \E n \in 0 .. Len(Columns), s \in BOOLEAN :
          /\ IF n = Len(Columns) /\ s THEN WholeResult ELSE ResultCutShort
          /\ IF n = 0 THEN Return("not there")
             ELSE /\ read' = [read EXCEPT ![t] =
                        [columns |-> SubSeq(Columns, 1, n), sequence |-> s, value |-> value[t]]]
                  /\ Forward(t)
                  /\ UNCHANGED <<seen, outcome>>
    /\ UNCHANGED <<value, misfits, catalog, atStart>>

\* CREATE SCHEMA IF NOT EXISTS looks for the schema and then inserts it.
FindSchema(t) ==
    /\ Does(t, "find schema")
    /\ at' = [at EXCEPT ![t] = @ + IF SchemaOf[t] \in schemas THEN 2 ELSE 1]
    /\ UNCHANGED <<catalog, read, seen, outcome, others>>

\* The insert fails if another session has inserted the schema in between.
CreateSchema(t) ==
    /\ Does(t, "create schema")
    /\ schemas' = schemas \union {SchemaOf[t]}
    /\ IF SchemaOf[t] \in schemas THEN Return("race")
                                  ELSE Forward(t) /\ UNCHANGED <<read, seen, outcome>>
    /\ UNCHANGED <<target, sequence, others>>

\* inspectTable of the target, of whose columns some may be cut off.
InspectTarget(t) ==
    /\ Does(t, "inspect target")
    /\ \E cs \in SUBSET DOMAIN target[t].columns :
          /\ IF cs = DOMAIN target[t].columns THEN WholeResult ELSE ResultCutShort
          /\ seen' = [seen EXCEPT ![t] = IF cs = {} THEN NoTable
                                         ELSE [target[t] EXCEPT !.columns = Restrict(@, cs)]]
    /\ Forward(t)
    /\ UNCHANGED <<value, misfits, catalog, read, outcome, atStart>>

-----------------------------------------------------------------------------
(* syncSequences: nothing to do for a table whose sequence was not read. *)

\* Faulty variant: no setval.
ValueKept(t) == sequence[t].value

\* The value after setval.
ValueSet(t) == read[t].value

\* The sequence after a statement: CREATE IF NOT EXISTS and ALTER, setval, OWNED BY.
SequenceAfter(t, step) ==
    CASE step = "make sequence" -> [sequence[t] EXCEPT !.exists = TRUE]
      [] step = "set sequence"  -> [sequence[t] EXCEPT !.value = ValueSet(t)]
      [] step = "own sequence"  -> [sequence[t] EXCEPT !.owned = TRUE]

\* OWNED BY names a column that the table does not have.
NothingToOwn(t, step) == step = "own sequence" /\ Serial \notin DOMAIN target[t].columns

SyncSequence(t, step) ==
    /\ Does(t, step)
    /\ IF ~read[t].sequence
       THEN UNCHANGED sequence /\ Forward(t) /\ UNCHANGED <<read, seen, outcome>>
       ELSE IF NothingToOwn(t, step) THEN UNCHANGED sequence /\ Return("undefined")
       ELSE /\ sequence' = [sequence EXCEPT ![t] = SequenceAfter(t, step)]
            /\ Forward(t) /\ UNCHANGED <<read, seen, outcome>>
    /\ UNCHANGED <<schemas, target, others>>

-----------------------------------------------------------------------------
(* createTable and reconcileTable. *)

Missing(t, c) == c \notin DOMAIN seen[t].columns

\* Faulty variant: the default of an identity column that is there is compared
\* with what the catalog says.
DefaultInCatalog(t, c) ==
    IF c = Serial /\ t \in Identity /\ ~Missing(t, c) THEN "none" ELSE "source"

\* The default that the target's column is to have: that of an identity column
\* is put together from the owned sequence.
WantedDefault(t, c) ==
    IF c = Serial /\ t \in Identity /\ ~read[t].sequence THEN "none" ELSE "source"
Wanted(t, c) == [AsInSource EXCEPT !["default"] = WantedDefault(t, c)]

\* A default that draws from a sequence needs it.
Undefined(t, c) == c = Serial /\ WantedDefault(t, c) = "source" /\ ~sequence[t].exists

\* Faulty variant: the primary key is left to a statement of its own.
CreatedWithoutKey(t) ==
    [columns |-> [c \in Range(read[t].columns) |-> Wanted(t, c)], pk |-> "none", indexes |-> <<>>]

\* The table after CREATE TABLE: columns and primary key in one statement.
Created(t) ==
    [columns |-> [c \in Range(read[t].columns) |-> Wanted(t, c)], pk |-> "source", indexes |-> <<>>]

CreateTable(t) ==
    /\ Does(t, "table") /\ seen[t] = NoTable
    /\ IF target[t] # NoTable THEN Return("exists") /\ UNCHANGED target
       ELSE IF \E c \in Range(read[t].columns) : Undefined(t, c)
       THEN Return("undefined") /\ UNCHANGED target
       ELSE /\ target' = [target EXCEPT ![t] = Created(t)]
            /\ Forward(t) /\ UNCHANGED <<read, seen, outcome>>
    /\ UNCHANGED <<schemas, sequence, others>>

\* Faulty variant: NULL constraints are not compared.
DiffersButForNull(t, c) ==
    Missing(t, c) \/ \E a \in {"type", "default"} : seen[t].columns[c][a] # Wanted(t, c)[a]

\* The column is not in the target as it is wanted.
Differs(t, c) == Missing(t, c) \/ seen[t].columns[c] # Wanted(t, c)
ToAlter(t) == {i \in DOMAIN read[t].columns : Differs(t, read[t].columns[i])}

\* The attributes are altered one by one: type, default, NULL constraint.
NextAttribute(t, c) ==
    LET differs(a) == seen[t].columns[c][a] # Wanted(t, c)[a]
    IN  CASE differs("type") -> "type"
          [] ~differs("type") /\ differs("default") -> "default"
          [] OTHER -> "nullable"

\* The column after one statement: ADD COLUMN, or ALTER COLUMN of an attribute.
Altered(t, c) ==
    IF Missing(t, c) THEN Wanted(t, c)
    ELSE [seen[t].columns[c] EXCEPT ![NextAttribute(t, c)] = Wanted(t, c)[NextAttribute(t, c)]]

\* What the statement asks of the rows that are there: NOT NULL of a new column,
\* the type or NOT NULL of one that is altered.
Asked(t, c) == <<c, IF Missing(t, c) THEN "nullable" ELSE NextAttribute(t, c)>>

\* What the target says of the statement.
Answer(t, c) ==
    IF Missing(t, c) /\ c \in DOMAIN target[t].columns THEN "exists"
    ELSE IF (Missing(t, c) \/ NextAttribute(t, c) = "default") /\ Undefined(t, c) THEN "undefined"
    ELSE IF Asked(t, c) \in misfits[t] THEN "refused"
    ELSE "done"

\* One statement of reconcileTable for column c.
AlterColumn(t, c) ==
    IF Answer(t, c) # "done" THEN Return(Answer(t, c)) /\ UNCHANGED target
    ELSE /\ target' = [target EXCEPT ![t].columns = With(@, c, Altered(t, c))]
         /\ seen' = [seen EXCEPT ![t].columns = With(@, c, Altered(t, c))]
         /\ UNCHANGED <<at, read, outcome>>

\* The next one, for the first column that is to be altered.
AlterTable(t) ==
    /\ Does(t, "table") /\ seen[t] # NoTable
    /\ \E i \in ToAlter(t) :
          /\ \A j \in ToAlter(t) : i <= j
          /\ AlterColumn(t, read[t].columns[i])
    /\ UNCHANGED <<schemas, sequence, others>>

\* The primary key is compared after the columns and never altered.
CompareKeys(t) ==
    /\ Does(t, "table") /\ seen[t] # NoTable
    /\ ToAlter(t) = {}
    /\ IF seen[t].pk = "source" THEN Forward(t) /\ UNCHANGED <<read, seen, outcome>>
                                ELSE Return("conflict")
    /\ UNCHANGED <<catalog, others>>

-----------------------------------------------------------------------------
(* reconcileIndexes with the indexes read before: at once in the incremental   *)
(* command, after the data in the full one.                                    *)

ToIndex(t) ==
    {i \in DOMAIN Indexes :
        Indexes[i] \notin DOMAIN seen[t].indexes \/ seen[t].indexes[Indexes[i]] # "source"}

\* What the target says of CREATE INDEX.
IndexAnswer(t, i) ==
    IF ~(IndexColumns[i] \subseteq DOMAIN target[t].columns) THEN "undefined"
    ELSE IF <<i, "unique">> \in misfits[t] THEN "refused"
    ELSE "done"

\* CREATE INDEX for one that is missing; one of another definition is an error.
MakeIndex(t, i) ==
    IF i \in DOMAIN seen[t].indexes THEN Return("conflict") /\ UNCHANGED target
    ELSE IF IndexAnswer(t, i) # "done" THEN Return(IndexAnswer(t, i)) /\ UNCHANGED target
    ELSE /\ target' = [target EXCEPT ![t].indexes = With(@, i, "source")]
         /\ seen' = [seen EXCEPT ![t].indexes = With(@, i, "source")]
         /\ UNCHANGED <<at, read, outcome>>

CreateIndex(t) ==
    /\ Does(t, "indexes")
    /\ \E n \in ToIndex(t) :
          /\ \A m \in ToIndex(t) : n <= m
          /\ MakeIndex(t, Indexes[n])
    /\ UNCHANGED <<schemas, sequence, others>>

TableReady(t) ==
    /\ Does(t, "indexes") /\ ToIndex(t) = {}
    /\ Forward(t)
    /\ UNCHANGED <<catalog, read, seen, outcome, others>>

-----------------------------------------------------------------------------
Init ==
    /\ value = [t \in Tables |-> 0] /\ atStart = value
    /\ schemas \in SUBSET Range(SchemaOf)
    /\ target \in [Tables -> UNION Range(InitialTables)]
    /\ \A t \in Tables :
          target[t] \in InitialTables[t] /\ (target[t] # NoTable => SchemaOf[t] \in schemas)
    /\ misfits = [t \in Tables |-> {m \in Misfits : Unguarded(target[t], m[1])}]
    /\ sequence = [t \in Tables |-> NoSequence]
    /\ at = [t \in Tables |-> 0]
    /\ read = [t \in Tables |-> NothingRead]
    /\ seen = [t \in Tables |-> NoTable]
    /\ outcome = "none" /\ cut = FALSE /\ faults = 0

TableStep(t) ==
    \/ InspectSource(t) \/ FindSchema(t) \/ CreateSchema(t) \/ InspectTarget(t)
    \/ \E step \in {"make sequence", "set sequence", "own sequence"} : SyncSequence(t, step)
    \/ CreateTable(t) \/ AlterTable(t) \/ CompareKeys(t)
    \/ CreateIndex(t) \/ TableReady(t)

Next ==
    \/ StartRun \/ EndRun \/ Fault
    \/ \E t \in Tables : TableStep(t) \/ SourceDraws(t) \/ CorrectRows(t)

Spec == Init /\ [][Next]_vars

\* Statements return, and the command is given again.
FairSpec ==
    /\ Spec
    /\ WF_vars(StartRun) /\ WF_vars(EndRun)
    /\ \A t \in Tables : WF_vars(TableStep(t))

-----------------------------------------------------------------------------
(* Properties. *)

\* Type invariant.
TypeOK ==
    /\ schemas \subseteq Range(SchemaOf)
    /\ target \in [Tables -> TableStates] /\ seen \in [Tables -> TableStates]
    /\ misfits \in [Tables -> SUBSET Misfits]
    /\ sequence \in [Tables -> [exists : BOOLEAN, value : 0 .. MaxValue, owned : BOOLEAN]]
    /\ read \in [Tables -> [columns : Seq(Range(Columns)), sequence : BOOLEAN,
                           value : 0 .. MaxValue]]
    /\ value \in [Tables -> 0 .. MaxValue] /\ atStart \in [Tables -> 0 .. MaxValue]
    /\ at \in [Tables -> 0 .. Done]
    /\ outcome \in {"none", "running", "ok", "fault", "race", "conflict", "exists",
                    "undefined", "refused", "not there"}
    /\ cut \in BOOLEAN /\ faults \in 0 .. MaxFaults

\* The target has all that the source has, as the source has it.
Structured(t) ==
    /\ \A c \in Range(Columns) :
          c \in DOMAIN target[t].columns /\ target[t].columns[c] = AsInSource
    /\ target[t].pk = "source"
    /\ \A i \in Range(Indexes) :
          i \in DOMAIN target[t].indexes /\ target[t].indexes[i] = "source"
    /\ sequence[t].exists /\ sequence[t].owned

\* The target has a key or an index of its own.
Conflict(t) ==
    \/ target[t].pk = "other"
    \/ \E i \in Range(Indexes) \intersect DOMAIN target[t].indexes :
          target[t].indexes[i] # "source"

\* A run that succeeds has aligned every table with the source, whatever earlier
\* runs left half done, unless a lost connection cut a result short.
SuccessIsStructured == outcome = "ok" /\ ~cut => \A t \in Tables : Structured(t)

\* A table that is as in the source is left so by every statement of every later
\* run: nothing is taken back to be done again.
StaysStructured == [][\A t \in Tables : Structured(t) /\ ~cut' => Structured(t)']_vars

\* A run fails because a statement failed, because the target has a key, an index
\* or rows of its own, because two workers created one schema at once, or because
\* a result was cut short; never because the statements come in an order that
\* the target refuses.
RefusalIsExplained ==
    /\ outcome \in {"undefined", "exists", "not there"} => cut
    /\ outcome = "conflict" => \E t \in Tables : Conflict(t)
    /\ outcome = "race" => \E t, u \in Tables : t # u /\ SchemaOf[t] = SchemaOf[u]

\* After a run that succeeds the target's sequences are not behind what the
\* source's were at its start, so that the target does not hand out their values.
SequencesCaughtUp ==
    outcome = "ok" /\ ~cut => \A t \in Tables : sequence[t].value >= atStart[t]

\* Without a conflict the target is aligned in the end, wherever runs stopped: also
\* those whose ALTER COLUMN, ADD COLUMN or CREATE UNIQUE INDEX the rows refused, as
\* they do in every run until someone has corrected the last of them.
EventuallyStructured ==
    (\A t \in Tables : ~Conflict(t)) /\ <>(\A t \in Tables : misfits[t] = {})
        => <>[](\A t \in Tables : Structured(t))
=============================================================================
