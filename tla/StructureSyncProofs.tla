------------------------ MODULE StructureSyncProofs ------------------------
(***************************************************************************)
(* Proofs about StructureSync, for any tables, schemas, columns, indexes,  *)
(* targets to begin with and bounds.                                       *)
(***************************************************************************)
EXTENDS StructureSync, TLAPS

-----------------------------------------------------------------------------
(* The invariant: for each table, what its worker knows and has done when it is  *)
(* at step n of Steps. A result that was cut short takes most of it away.        *)

\* What was read of the source.
ReadInv(t) ==
    /\ at[t] >= 2 => read[t].columns # <<>>
    /\ at[t] >= 2 /\ ~cut =>
          /\ read[t].columns = Columns /\ read[t].sequence
          /\ read[t].value >= atStart[t]

\* What was seen of the target is still there: no other worker touches the table.
SeenInv(t) ==
    /\ at[t] \in 5 .. 7 /\ seen[t] # NoTable =>
          /\ seen[t].pk = target[t].pk /\ target[t].pk # "none"
          /\ seen[t].indexes = target[t].indexes
    /\ at[t] \in 5 .. 7 /\ ~cut => seen[t] = target[t]
    /\ at[t] >= 8 => target[t].pk = "source" /\ seen[t].indexes = target[t].indexes

HasColumns(t) ==
    \A c \in Range(Columns) : c \in DOMAIN target[t].columns /\ target[t].columns[c] = AsInSource
HasIndexes(t) ==
    \A i \in Range(Indexes) :
        i \in DOMAIN target[t].indexes /\ target[t].indexes[i] = "source"

\* What has been done.
DoneInv(t) ==
    ~cut =>
        /\ at[t] >= 6 => sequence[t].exists
        /\ at[t] >= 7 => sequence[t].value >= atStart[t]
        /\ at[t] >= 8 => HasColumns(t)
        /\ at[t] >= 11 => sequence[t].owned
        /\ at[t] >= 12 => HasIndexes(t)

\* A schema that was missing and is there comes from the worker of another table.
SchemaInv(t) ==
    at[t] = 3 /\ SchemaOf[t] \in schemas => \E u \in Tables : u # t /\ SchemaOf[u] = SchemaOf[t]

TableInv(t) ==
    /\ atStart[t] <= value[t]
    /\ target[t] = NoTable \/ (DOMAIN target[t].columns # {} /\ target[t].pk # "none")
    /\ outcome = "running" => ReadInv(t) /\ SeenInv(t) /\ DoneInv(t) /\ SchemaInv(t)

\* What a run that has ended says.
OutcomeInv ==
    /\ outcome = "ok" /\ ~cut =>
          \A t \in Tables : Structured(t) /\ sequence[t].value >= atStart[t]
    /\ RefusalIsExplained

Inv == (\A t \in Tables : TableInv(t)) /\ OutcomeInv

-----------------------------------------------------------------------------
(* Partial functions. *)

LEMMA PartialIs ==
    ASSUME NEW S, NEW f \in Partial(S)
    PROVE  DOMAIN f \subseteq Names /\ f \in [DOMAIN f -> S]
BY DEF Partial

LEMMA PartialOf ==
    ASSUME NEW S, NEW D \in SUBSET Names, NEW f \in [D -> S]
    PROVE  f \in Partial(S)
BY DEF Partial

LEMMA PartialNone ==
    ASSUME NEW S
    PROVE  <<>> \in Partial(S)
<1>1. <<>> \in [{} -> S]
  OBVIOUS
<1> QED
  BY <1>1, PartialOf

LEMMA PartialWith ==
    ASSUME NEW S, NEW f \in Partial(S), NEW c \in Names, NEW v \in S
    PROVE  With(f, c, v) \in Partial(S)
<1>1. DOMAIN f \subseteq Names /\ f \in [DOMAIN f -> S]
  BY PartialIs
<1>2. With(f, c, v) \in [DOMAIN f \union {c} -> S]
  BY <1>1 DEF With
<1> QED
  BY <1>1, <1>2, PartialOf

LEMMA PartialRestrict ==
    ASSUME NEW S, NEW f \in Partial(S), NEW D \in SUBSET DOMAIN f
    PROVE  Restrict(f, D) \in Partial(S)
<1>1. DOMAIN f \subseteq Names /\ f \in [DOMAIN f -> S]
  BY PartialIs
<1>2. Restrict(f, D) \in [D -> S]
  BY <1>1 DEF Restrict
<1> QED
  BY <1>1, <1>2, PartialOf

-----------------------------------------------------------------------------
(* Types. *)

LEMMA NoElements ==
    ASSUME NEW S
    PROVE  <<>> \in Seq(S)
OBVIOUS

LEMMA LastStep == Done = 12
BY DEF Done, Steps

LEMMA Bounds ==
    /\ MaxValue \in Nat /\ MaxFaults \in Nat
    /\ 0 \in 0 .. MaxValue /\ 0 \in 0 .. Done /\ 1 \in 0 .. Done
<1>1. MaxValue \in Nat /\ MaxFaults \in Nat
  BY StructureAssumption
<1> QED
  BY <1>1, LastStep

LEMMA NamesOfColumns == Range(Columns) \subseteq Names
BY StructureAssumption DEF Range

LEMMA PrefixType ==
    ASSUME NEW n \in 0 .. Len(Columns)
    PROVE  /\ SubSeq(Columns, 1, n) \in Seq(Range(Columns))
           /\ n # 0 => SubSeq(Columns, 1, n) # <<>>
           /\ n = Len(Columns) => SubSeq(Columns, 1, n) = Columns
<1>1. Columns \in Seq(Names)
  BY StructureAssumption
<1>2. Columns \in Seq(Range(Columns))
  BY <1>1 DEF Range
<1> HIDE DEF Range
<1> QED
  BY <1>1, <1>2

LEMMA NoTableType == NoTable \in TableStates
BY PartialNone DEF NoTable, TableStates

LEMMA WantedType ==
    ASSUME NEW t, NEW c
    PROVE  Wanted(t, c) \in ColumnStates
BY DEF Wanted, WantedDefault, AsInSource, Attributes, ColumnStates

\* A statement for a column leaves a state of a column.
LEMMA AlteredType ==
    ASSUME NEW t \in Tables, NEW c \in Names, seen[t] \in TableStates
    PROVE  Altered(t, c) \in ColumnStates
<1>1. CASE Missing(t, c)
  BY <1>1, WantedType DEF Altered
<1>2. CASE ~Missing(t, c)
  <2>1. seen[t].columns[c] \in ColumnStates
    BY <1>2, PartialIs DEF Missing, TableStates
  <2>2. NextAttribute(t, c) \in Attributes
    BY DEF NextAttribute, Attributes
  <2>3. Wanted(t, c)[NextAttribute(t, c)] \in {"source", "other", "none"}
    BY <2>2, WantedType DEF ColumnStates
  <2> QED
    BY <1>2, <2>1, <2>2, <2>3 DEF Altered, ColumnStates
<1> QED
  BY <1>1, <1>2

\* Return leaves nothing in memory.
LEMMA ReturnType ==
    ASSUME TypeOK, NEW result, Return(result),
           result \in {"ok", "fault", "race", "conflict", "exists", "undefined", "refused",
                      "not there"}
    PROVE  /\ seen' \in [Tables -> TableStates]
           /\ read' \in [Tables -> [columns : Seq(Range(Columns)), sequence : BOOLEAN,
                                    value : 0 .. MaxValue]]
           /\ at' \in [Tables -> 0 .. Done]
           /\ outcome' \in {"none", "running", "ok", "fault", "race", "conflict", "exists",
                            "undefined", "refused", "not there"}
<1>1. <<>> \in Seq(Range(Columns))
  BY NoElements
<1> QED
  BY <1>1, Bounds, NoTableType DEF Return, NothingRead

-----------------------------------------------------------------------------
(* Where a worker is. *)

LEMMA StepList ==
    /\ DOMAIN Steps = 1 .. 11
    /\ Steps[1] = "inspect source" /\ Steps[2] = "find schema"
    /\ Steps[3] = "create schema" /\ Steps[4] = "inspect target"
    /\ Steps[5] = "make sequence" /\ Steps[6] = "set sequence" /\ Steps[7] = "table"
    /\ Steps[8] = "make sequence" /\ Steps[9] = "set sequence"
    /\ Steps[10] = "own sequence" /\ Steps[11] = "indexes"
BY DEF Steps

LEMMA StepAt ==
    ASSUME NEW t \in Tables, NEW step, Does(t, step)
    PROVE  /\ outcome = "running" /\ at[t] \in 1 .. 11
           /\ step = "inspect source" => at[t] = 1
           /\ step = "find schema" => at[t] = 2
           /\ step = "create schema" => at[t] = 3
           /\ step = "inspect target" => at[t] = 4
           /\ step = "make sequence" => at[t] \in {5, 8}
           /\ step = "set sequence" => at[t] \in {6, 9}
           /\ step = "table" => at[t] = 7
           /\ step = "own sequence" => at[t] = 10
           /\ step = "indexes" => at[t] = 11
<1>1. outcome = "running" /\ at[t] \in 1 .. 11 /\ Steps[at[t]] = step
  BY StepList DEF Does
<1>2. \/ at[t] = 1 \/ at[t] = 2 \/ at[t] = 3 \/ at[t] = 4 \/ at[t] = 5 \/ at[t] = 6
      \/ at[t] = 7 \/ at[t] = 8 \/ at[t] = 9 \/ at[t] = 10 \/ at[t] = 11
  BY <1>1
<1>3. at[t] = 1 => step = "inspect source"
  BY <1>1, StepList
<1>4. at[t] = 2 => step = "find schema"
  BY <1>1, StepList
<1>5. at[t] = 3 => step = "create schema"
  BY <1>1, StepList
<1>6. at[t] = 4 => step = "inspect target"
  BY <1>1, StepList
<1>7. at[t] = 5 => step = "make sequence"
  BY <1>1, StepList
<1>8. at[t] = 6 => step = "set sequence"
  BY <1>1, StepList
<1>9. at[t] = 7 => step = "table"
  BY <1>1, StepList
<1>10. at[t] = 8 => step = "make sequence"
  BY <1>1, StepList
<1>11. at[t] = 9 => step = "set sequence"
  BY <1>1, StepList
<1>12. at[t] = 10 => step = "own sequence"
  BY <1>1, StepList
<1>13. at[t] = 11 => step = "indexes"
  BY <1>1, StepList
<1> QED
  BY <1>1, <1>2, <1>3, <1>4, <1>5, <1>6, <1>7, <1>8, <1>9, <1>10, <1>11, <1>12, <1>13

\* What a step of a worker does to where it is.
LEMMA ForwardType ==
    ASSUME TypeOK, NEW t \in Tables, at[t] \in 1 .. 11, Forward(t)
    PROVE  /\ at' \in [Tables -> 0 .. Done]
           /\ at'[t] = at[t] + 1
           /\ \A u \in Tables \ {t} : at'[u] = at[u]
<1>1. at \in [Tables -> 0 .. 12] /\ Done = 12
  BY LastStep DEF TypeOK
<1>2. at[t] + 1 \in 0 .. 12
  OBVIOUS
<1> QED
  BY <1>1, <1>2 DEF Forward

-----------------------------------------------------------------------------
(* Type correctness. *)

LEMMA TypeInit == Init => TypeOK
<1> SUFFICES ASSUME Init PROVE TypeOK
  OBVIOUS
<1>1. target \in [Tables -> TableStates]
  <2>1. \A t \in Tables : target[t] \in TableStates
    BY TargetAssumption DEF Init
  <2>2. target = [t \in Tables |-> target[t]]
    BY DEF Init
  <2> QED
    BY <2>1, <2>2
<1>2. read \in [Tables -> [columns : Seq(Range(Columns)), sequence : BOOLEAN,
                         value : 0 .. MaxValue]]
  BY NoElements, Bounds DEF Init, NothingRead
<1>3. /\ seen \in [Tables -> TableStates]
      /\ sequence \in [Tables -> [exists : BOOLEAN, value : 0 .. MaxValue, owned : BOOLEAN]]
      /\ at \in [Tables -> 0 .. Done]
      /\ value \in [Tables -> 0 .. MaxValue] /\ atStart \in [Tables -> 0 .. MaxValue]
      /\ faults \in 0 .. MaxFaults
      /\ misfits \in [Tables -> SUBSET Misfits]
  BY NoTableType, Bounds DEF Init, NoSequence
<1> QED
  BY <1>1, <1>2, <1>3 DEF Init, TypeOK

\* A result that is cut short.
LEMMA CutType ==
    ASSUME TypeOK, WholeResult \/ ResultCutShort
    PROVE  /\ cut' \in BOOLEAN /\ faults' \in 0 .. MaxFaults
           /\ cut => cut'
<1>1. cut \in BOOLEAN /\ faults \in 0 .. MaxFaults /\ MaxFaults \in Nat
  BY Bounds DEF TypeOK
<1>2. CASE WholeResult
  BY <1>1, <1>2 DEF WholeResult
<1>3. CASE ResultCutShort
  <2>1. cut' = TRUE
    BY <1>3 DEF ResultCutShort
  <2>2. faults' \in 0 .. MaxFaults
    BY <1>1, <1>3 DEF ResultCutShort
  <2> QED
    BY <2>1, <2>2
<1> QED
  BY <1>2, <1>3

LEMMA InspectSourceType ==
    ASSUME TypeOK, NEW t \in Tables, InspectSource(t)
    PROVE  TypeOK'
<1>1. PICK n \in 0 .. Len(Columns), s \in BOOLEAN :
          /\ IF n = Len(Columns) /\ s THEN WholeResult ELSE ResultCutShort
          /\ IF n = 0 THEN Return("not there")
             ELSE /\ read' = [read EXCEPT ![t] =
                        [columns |-> SubSeq(Columns, 1, n), sequence |-> s, value |-> value[t]]]
                  /\ Forward(t)
                  /\ UNCHANGED <<seen, outcome>>
  BY DEF InspectSource
<1>2. cut' \in BOOLEAN /\ faults' \in 0 .. MaxFaults
  BY <1>1, CutType
<1>3. UNCHANGED <<value, misfits, schemas, target, sequence, atStart>>
  BY DEF InspectSource, catalog
<1>4. CASE n = 0
  BY <1>1, <1>2, <1>3, <1>4, ReturnType DEF TypeOK
<1>5. CASE n # 0
  <2>1. SubSeq(Columns, 1, n) \in Seq(Range(Columns))
    BY <1>5, PrefixType
  <2>2. at[t] \in 1 .. 11
    BY StepAt DEF InspectSource
  <2>3. at' \in [Tables -> 0 .. Done]
    BY <1>1, <1>5, <2>2, ForwardType
  <2>4. read' \in [Tables -> [columns : Seq(Range(Columns)), sequence : BOOLEAN,
                             value : 0 .. MaxValue]]
    <3>1. value[t] \in 0 .. MaxValue
      BY DEF TypeOK
    <3>2. [columns |-> SubSeq(Columns, 1, n), sequence |-> s, value |-> value[t]]
             \in [columns : Seq(Range(Columns)), sequence : BOOLEAN, value : 0 .. MaxValue]
      BY <2>1, <3>1
    <3> QED
      BY <1>1, <1>5, <3>2 DEF TypeOK
  <2> QED
    BY <1>1, <1>2, <1>3, <1>5, <2>3, <2>4 DEF TypeOK
<1> QED
  BY <1>4, <1>5

\* A table with other columns, or other indexes.
LEMMA ColumnsChanged ==
    ASSUME NEW x \in TableStates, NEW f \in Partial(ColumnStates)
    PROVE  LET y == [x EXCEPT !.columns = f]
           IN  y \in TableStates /\ y.columns = f /\ y.pk = x.pk /\ y.indexes = x.indexes
BY DEF TableStates

LEMMA IndexesChanged ==
    ASSUME NEW x \in TableStates, NEW f \in Partial({"source", "other"})
    PROVE  LET y == [x EXCEPT !.indexes = f]
           IN  y \in TableStates /\ y.columns = x.columns /\ y.pk = x.pk /\ y.indexes = f
BY DEF TableStates

LEMMA InspectTargetType ==
    ASSUME TypeOK, NEW t \in Tables, InspectTarget(t)
    PROVE  TypeOK'
<1>1. PICK cs \in SUBSET DOMAIN target[t].columns :
          /\ IF cs = DOMAIN target[t].columns THEN WholeResult ELSE ResultCutShort
          /\ seen' = [seen EXCEPT ![t] = IF cs = {} THEN NoTable
                                         ELSE [target[t] EXCEPT !.columns = Restrict(@, cs)]]
  BY DEF InspectTarget
<1>2. cut' \in BOOLEAN /\ faults' \in 0 .. MaxFaults
  BY <1>1, CutType
<1>3. at' \in [Tables -> 0 .. Done]
  BY StepAt, ForwardType DEF InspectTarget
<1>4. target[t] \in TableStates /\ target[t].columns \in Partial(ColumnStates)
  BY DEF TypeOK, TableStates
<1>5. [target[t] EXCEPT !.columns = Restrict(target[t].columns, cs)] \in TableStates
  BY <1>4, PartialRestrict, ColumnsChanged
<1>6. seen' \in [Tables -> TableStates]
  BY <1>1, <1>5, NoTableType DEF TypeOK
<1> QED
  BY <1>2, <1>3, <1>6 DEF InspectTarget, TypeOK, catalog

LEMMA SchemaType ==
    ASSUME TypeOK, NEW t \in Tables, FindSchema(t) \/ CreateSchema(t)
    PROVE  TypeOK'
<1>1. CASE FindSchema(t)
  <2>1. at[t] = 2 /\ at \in [Tables -> 0 .. 12] /\ Done = 12
    BY <1>1, StepAt, LastStep DEF FindSchema, TypeOK
  <2>2. at' \in [Tables -> 0 .. Done]
    <3>1. CASE SchemaOf[t] \in schemas
      <4>1. at' = [at EXCEPT ![t] = @ + 2]
        BY <1>1, <3>1 DEF FindSchema
      <4> QED
        BY <2>1, <4>1
    <3>2. CASE SchemaOf[t] \notin schemas
      <4>1. at' = [at EXCEPT ![t] = @ + 1]
        BY <1>1, <3>2 DEF FindSchema
      <4> QED
        BY <2>1, <4>1
    <3> QED
      BY <3>1, <3>2
  <2> QED
    BY <1>1, <2>2 DEF FindSchema, TypeOK, catalog, others
<1>2. CASE CreateSchema(t)
  <2>1. SchemaOf[t] \in Range(SchemaOf)
    BY TargetAssumption
  <2>2. schemas' \subseteq Range(SchemaOf)
    BY <1>2, <2>1 DEF CreateSchema, TypeOK
  <2>3. at[t] \in 1 .. 11
    BY <1>2, StepAt DEF CreateSchema
  <2>4. CASE SchemaOf[t] \in schemas
    BY <1>2, <2>2, <2>4, ReturnType DEF CreateSchema, TypeOK, others
  <2>5. CASE SchemaOf[t] \notin schemas
    <3>1. at' \in [Tables -> 0 .. Done]
      BY <1>2, <2>3, <2>5, ForwardType DEF CreateSchema
    <3> QED
      BY <1>2, <2>2, <2>5, <3>1 DEF CreateSchema, TypeOK, others
  <2> QED
    BY <2>4, <2>5
<1> QED
  BY <1>1, <1>2

LEMMA SyncSequenceType ==
    ASSUME TypeOK, NEW t \in Tables,
           NEW step \in {"make sequence", "set sequence", "own sequence"},
           SyncSequence(t, step)
    PROVE  TypeOK'
<1>1. UNCHANGED <<schemas, target, value, misfits, cut, atStart, faults>>
  BY DEF SyncSequence, others
<1>2. at[t] \in 1 .. 11
  BY StepAt DEF SyncSequence
<1>3. CASE UNCHANGED sequence /\ Forward(t) /\ UNCHANGED <<read, seen, outcome>>
  <2>1. at' \in [Tables -> 0 .. Done]
    BY <1>2, <1>3, ForwardType
  <2> QED
    BY <1>1, <1>3, <2>1 DEF TypeOK
<1>4. CASE UNCHANGED sequence /\ Return("undefined")
  BY <1>1, <1>4, ReturnType DEF TypeOK
<1>5. CASE /\ sequence' = [sequence EXCEPT ![t] = SequenceAfter(t, step)]
           /\ Forward(t) /\ UNCHANGED <<read, seen, outcome>>
  <2>1. at' \in [Tables -> 0 .. Done]
    BY <1>2, <1>5, ForwardType
  <2>2. /\ sequence[t] \in [exists : BOOLEAN, value : 0 .. MaxValue, owned : BOOLEAN]
        /\ read[t].value \in 0 .. MaxValue
    BY DEF TypeOK
  <2>3. SequenceAfter(t, step) \in [exists : BOOLEAN, value : 0 .. MaxValue, owned : BOOLEAN]
    BY <2>2 DEF SequenceAfter, ValueSet
  <2>4. sequence' \in [Tables -> [exists : BOOLEAN, value : 0 .. MaxValue, owned : BOOLEAN]]
    BY <1>5, <2>3 DEF TypeOK
  <2> QED
    BY <1>1, <1>5, <2>1, <2>4 DEF TypeOK
<1> QED
  BY <1>3, <1>4, <1>5 DEF SyncSequence

LEMMA CreateTableType ==
    ASSUME TypeOK, NEW t \in Tables, CreateTable(t)
    PROVE  TypeOK'
<1>1. read[t].columns \in Seq(Range(Columns))
  BY DEF TypeOK
<1>2. Range(read[t].columns) \subseteq Range(Columns)
  BY <1>1 DEF Range
<1>3. [c \in Range(read[t].columns) |-> Wanted(t, c)] \in Partial(ColumnStates)
  BY <1>2, NamesOfColumns, WantedType, PartialOf
<1>4. Created(t) \in TableStates
  BY <1>3, PartialNone DEF Created, TableStates
<1>5. at[t] \in 1 .. 11
  BY StepAt DEF CreateTable
<1>6. UNCHANGED <<schemas, sequence, value, misfits, cut, atStart, faults>>
  BY DEF CreateTable, others
<1>7. CASE Return("exists") /\ UNCHANGED target
  BY <1>6, <1>7, ReturnType DEF TypeOK
<1>8. CASE Return("undefined") /\ UNCHANGED target
  BY <1>6, <1>8, ReturnType DEF TypeOK
<1>9. CASE /\ target' = [target EXCEPT ![t] = Created(t)]
           /\ Forward(t) /\ UNCHANGED <<read, seen, outcome>>
  <2>1. at' \in [Tables -> 0 .. Done]
    BY <1>5, <1>9, ForwardType
  <2>2. target' \in [Tables -> TableStates]
    BY <1>4, <1>9 DEF TypeOK
  <2> QED
    BY <1>6, <1>9, <2>1, <2>2 DEF TypeOK
<1> QED
  BY <1>7, <1>8, <1>9 DEF CreateTable

\* The column after a statement, in the target and in memory.
LEMMA AlterColumnType ==
    ASSUME TypeOK, NEW t \in Tables, NEW c \in Names
    PROVE  /\ With(target[t].columns, c, Altered(t, c)) \in Partial(ColumnStates)
           /\ With(seen[t].columns, c, Altered(t, c)) \in Partial(ColumnStates)
<1>1. /\ seen[t] \in TableStates
      /\ target[t].columns \in Partial(ColumnStates)
      /\ seen[t].columns \in Partial(ColumnStates)
  BY DEF TypeOK, TableStates
<1> QED
  BY <1>1, AlteredType, PartialWith

LEMMA AlterTableType ==
    ASSUME TypeOK, NEW t \in Tables, AlterTable(t)
    PROVE  TypeOK'
<1>1. PICK i \in DOMAIN read[t].columns : AlterColumn(t, read[t].columns[i])
  BY DEF AlterTable, ToAlter
<1> DEFINE c == read[t].columns[i]
<1>2. c \in Names
  <2>1. read[t].columns \in Seq(Range(Columns))
    BY DEF TypeOK
  <2>2. c \in Range(Columns)
    BY <2>1
  <2> QED
    BY <2>2, NamesOfColumns
<1>3. UNCHANGED <<schemas, sequence, value, misfits, cut, atStart, faults>>
  BY DEF AlterTable, others
<1>4. CASE Answer(t, c) # "done"
  <2>1. Answer(t, c) \in {"exists", "undefined", "refused"}
    BY <1>4 DEF Answer
  <2> QED
    BY <1>1, <1>3, <1>4, <2>1, ReturnType DEF AlterColumn, TypeOK
<1>5. CASE Answer(t, c) = "done"
  <2>1. target[t] \in TableStates /\ seen[t] \in TableStates
    BY DEF TypeOK
  <2> DEFINE f == With(target[t].columns, c, Altered(t, c))
             g == With(seen[t].columns, c, Altered(t, c))
  <2>2. f \in Partial(ColumnStates) /\ g \in Partial(ColumnStates)
    BY <1>2, AlterColumnType
  <2>3. [target[t] EXCEPT !.columns = f] \in TableStates
    BY <2>1, <2>2, ColumnsChanged
  <2>4. [seen[t] EXCEPT !.columns = g] \in TableStates
    BY <2>1, <2>2, ColumnsChanged
  <2>5. /\ target' = [target EXCEPT ![t] = [target[t] EXCEPT !.columns = f]]
        /\ seen' = [seen EXCEPT ![t] = [seen[t] EXCEPT !.columns = g]]
        /\ UNCHANGED <<at, read, outcome>>
    BY <1>1, <1>5 DEF AlterColumn
  <2> HIDE DEF f, g
  <2>6. target' \in [Tables -> TableStates] /\ seen' \in [Tables -> TableStates]
    BY <2>3, <2>4, <2>5 DEF TypeOK
  <2> QED
    BY <1>3, <2>5, <2>6 DEF TypeOK
<1> QED
  BY <1>4, <1>5

LEMMA CompareKeysType ==
    ASSUME TypeOK, NEW t \in Tables, CompareKeys(t)
    PROVE  TypeOK'
<1>1. at[t] \in 1 .. 11
  BY StepAt DEF CompareKeys
<1>2. CASE seen[t].pk = "source"
  <2>1. at' \in [Tables -> 0 .. Done]
    BY <1>1, <1>2, ForwardType DEF CompareKeys
  <2> QED
    BY <1>2, <2>1 DEF CompareKeys, TypeOK, catalog, others
<1>3. CASE seen[t].pk # "source"
  BY <1>3, ReturnType DEF CompareKeys, TypeOK, catalog, others
<1> QED
  BY <1>2, <1>3

LEMMA IndexType ==
    ASSUME TypeOK, NEW t \in Tables, CreateIndex(t) \/ TableReady(t)
    PROVE  TypeOK'
<1>1. CASE TableReady(t)
  <2>1. at' \in [Tables -> 0 .. Done]
    BY <1>1, StepAt, ForwardType DEF TableReady
  <2> QED
    BY <1>1, <2>1 DEF TableReady, TypeOK, catalog, others
<1>2. CASE CreateIndex(t)
  <2>1. PICK n \in DOMAIN Indexes : MakeIndex(t, Indexes[n])
    BY <1>2 DEF CreateIndex, ToIndex
  <2> DEFINE i == Indexes[n]
  <2>2. i \in Names
    BY StructureAssumption
  <2>3. UNCHANGED <<schemas, sequence, value, misfits, cut, atStart, faults>>
    BY <1>2 DEF CreateIndex, others
  <2>4. CASE i \in DOMAIN seen[t].indexes
    BY <2>1, <2>3, <2>4, ReturnType DEF MakeIndex, TypeOK
  <2>5. CASE i \notin DOMAIN seen[t].indexes /\ IndexAnswer(t, i) # "done"
    <3>1. Return(IndexAnswer(t, i)) /\ UNCHANGED target
      BY <2>1, <2>5 DEF MakeIndex
    <3>2. IndexAnswer(t, i) \in {"undefined", "refused"}
      BY <2>5 DEF IndexAnswer
    <3> QED
      BY <2>3, <3>1, <3>2, ReturnType DEF TypeOK
  <2>6. CASE i \notin DOMAIN seen[t].indexes /\ IndexAnswer(t, i) = "done"
    <3>1. /\ target[t] \in TableStates /\ seen[t] \in TableStates
          /\ target[t].indexes \in Partial({"source", "other"})
          /\ seen[t].indexes \in Partial({"source", "other"})
      BY DEF TypeOK, TableStates
    <3> DEFINE f == With(target[t].indexes, i, "source")
               g == With(seen[t].indexes, i, "source")
    <3>2. f \in Partial({"source", "other"}) /\ g \in Partial({"source", "other"})
      BY <2>2, <3>1, PartialWith
    <3>3. [target[t] EXCEPT !.indexes = f] \in TableStates
      BY <3>1, <3>2, IndexesChanged
    <3>4. [seen[t] EXCEPT !.indexes = g] \in TableStates
      BY <3>1, <3>2, IndexesChanged
    <3>5. /\ target' = [target EXCEPT ![t] = [target[t] EXCEPT !.indexes = f]]
          /\ seen' = [seen EXCEPT ![t] = [seen[t] EXCEPT !.indexes = g]]
          /\ UNCHANGED <<at, read, outcome>>
      BY <2>1, <2>6 DEF MakeIndex
    <3> HIDE DEF f, g
    <3>6. target' \in [Tables -> TableStates] /\ seen' \in [Tables -> TableStates]
      BY <3>3, <3>4, <3>5 DEF TypeOK
    <3> QED
      BY <2>3, <3>5, <3>6 DEF TypeOK
  <2> QED
    BY <2>4, <2>5, <2>6
<1> QED
  BY <1>1, <1>2

LEMMA TypeStep ==
    ASSUME TypeOK, [Next]_vars
    PROVE  TypeOK'
<1>1. CASE StartRun
  BY <1>1, Bounds DEF StartRun, TypeOK, catalog
<1>2. CASE EndRun
  BY <1>2, ReturnType DEF EndRun, TypeOK, catalog, others
<1>3. CASE Fault
  <2>1. faults' \in 0 .. MaxFaults
    BY <1>3, Bounds DEF Fault, TypeOK
  <2> QED
    BY <1>3, <2>1, ReturnType DEF Fault, TypeOK, catalog
<1>4. ASSUME NEW t \in Tables, SourceDraws(t) PROVE TypeOK'
  <2>1. value' \in [Tables -> 0 .. MaxValue]
    <3>1. value[t] \in 0 .. MaxValue /\ value[t] < MaxValue
      BY <1>4 DEF TypeOK, SourceDraws
    <3>2. value[t] + 1 \in 0 .. MaxValue
      BY <3>1, Bounds
    <3> QED
      BY <1>4, <3>2 DEF TypeOK, SourceDraws
  <2> QED
    BY <1>4, <2>1 DEF SourceDraws, TypeOK, catalog, memory
<1>5. ASSUME NEW t \in Tables, TableStep(t) PROVE TypeOK'
  BY <1>5, InspectSourceType, SchemaType, InspectTargetType, SyncSequenceType,
     CreateTableType, AlterTableType, CompareKeysType, IndexType DEF TableStep
<1>6. ASSUME NEW t \in Tables, CorrectRows(t) PROVE TypeOK'
  BY <1>6 DEF CorrectRows, TypeOK, catalog, memory
<1>7. CASE UNCHANGED vars
  BY <1>7 DEF vars, TypeOK
<1> QED
  BY <1>1, <1>2, <1>3, <1>4, <1>5, <1>6, <1>7 DEF Next

\* Every reachable state is well typed (prepareStructure, syncPreparedIndexes).
THEOREM Typing == Spec => []TypeOK
<1> QED
  BY TypeInit, TypeStep, PTL DEF Spec

-----------------------------------------------------------------------------
(* The invariant holds. *)

LEMMA InvInit == Init => Inv
<1> SUFFICES ASSUME Init PROVE Inv
  OBVIOUS
<1>1. OutcomeInv
  BY DEF Init, OutcomeInv, RefusalIsExplained
<1>2. ASSUME NEW t \in Tables PROVE TableInv(t)
  <2>1. target[t] = NoTable \/ (DOMAIN target[t].columns # {} /\ target[t].pk # "none")
    BY TargetAssumption DEF Init
  <2>2. atStart[t] <= value[t] /\ outcome # "running"
    BY DEF Init
  <2> QED
    BY <2>1, <2>2 DEF TableInv
<1> QED
  BY <1>1, <1>2 DEF Inv

\* A run that ends keeps what it has done.
LEMMA ReturnInv ==
    ASSUME Inv, NEW result, Return(result), result # "running",
           UNCHANGED <<value, target, atStart>>, OutcomeInv'
    PROVE  Inv'
<1>1. outcome' # "running"
  BY DEF Return
<1>2. ASSUME NEW t \in Tables PROVE TableInv(t)'
  BY <1>1 DEF Inv, TableInv
<1> QED
  BY <1>2 DEF Inv

\* While a run is under way it says nothing.
LEMMA RunningSays ==
    ASSUME outcome' = "running"
    PROVE  OutcomeInv'
BY DEF OutcomeInv, RefusalIsExplained

\* What the worker of t does is nothing to a table u.
LEMMA OthersInv ==
    ASSUME TypeOK, NEW u \in Tables, TableInv(u), outcome' = outcome, cut => cut',
           at'[u] = at[u], read'[u] = read[u], seen'[u] = seen[u],
           target'[u] = target[u], sequence'[u] = sequence[u],
           value'[u] = value[u], atStart'[u] = atStart[u],
           NEW t \in Tables, t # u, schemas' \subseteq schemas \union {SchemaOf[t]}
    PROVE  TableInv(u)'
<1>1. SchemaInv(u) => SchemaInv(u)'
  BY DEF SchemaInv
<1>2. HasColumns(u)' <=> HasColumns(u)
  BY DEF HasColumns
<1>3. HasIndexes(u)' <=> HasIndexes(u)
  BY DEF HasIndexes
<1>4. ReadInv(u) => ReadInv(u)'
  BY DEF ReadInv
<1>5. SeenInv(u) => SeenInv(u)'
  BY DEF SeenInv
<1>6. DoneInv(u) => DoneInv(u)'
  BY <1>2, <1>3 DEF DoneInv
<1> QED
  BY <1>1, <1>4, <1>5, <1>6 DEF TableInv

\* A step of t's worker keeps the invariant if it keeps what is said of t.
LEMMA WorkerInv ==
    ASSUME TypeOK, Inv, NEW t \in Tables, TableInv(t)', outcome = "running",
           outcome' = "running", cut => cut', UNCHANGED <<value, atStart>>,
           schemas' \subseteq schemas \union {SchemaOf[t]},
           \A u \in Tables \ {t} :
              /\ at'[u] = at[u] /\ read'[u] = read[u] /\ seen'[u] = seen[u]
              /\ target'[u] = target[u] /\ sequence'[u] = sequence[u]
    PROVE  Inv'
<1>1. ASSUME NEW u \in Tables, u # t PROVE TableInv(u)'
  <2>1. TableInv(u)
    BY DEF Inv
  <2>2. /\ at'[u] = at[u] /\ read'[u] = read[u] /\ seen'[u] = seen[u]
        /\ target'[u] = target[u] /\ sequence'[u] = sequence[u]
        /\ value'[u] = value[u] /\ atStart'[u] = atStart[u] /\ outcome' = outcome
    BY <1>1
  <2> QED
    BY <1>1, <2>1, <2>2, OthersInv
<1> QED
  BY <1>1, RunningSays DEF Inv

LEMMA ValueType ==
    ASSUME TypeOK, NEW t \in Tables
    PROVE  /\ atStart[t] \in Int /\ value[t] \in Int
           /\ read[t].value \in Int /\ sequence[t].value \in Int
<1>1. /\ atStart[t] \in 0 .. MaxValue /\ value[t] \in 0 .. MaxValue
      /\ read[t].value \in 0 .. MaxValue /\ sequence[t].value \in 0 .. MaxValue
  BY DEF TypeOK
<1> QED
  BY <1>1, Bounds

LEMMA InspectSourceInv ==
    ASSUME TypeOK, Inv, NEW t \in Tables, InspectSource(t)
    PROVE  Inv'
<1>1. PICK n \in 0 .. Len(Columns), s \in BOOLEAN :
          /\ IF n = Len(Columns) /\ s THEN WholeResult ELSE ResultCutShort
          /\ IF n = 0 THEN Return("not there")
             ELSE /\ read' = [read EXCEPT ![t] =
                        [columns |-> SubSeq(Columns, 1, n), sequence |-> s, value |-> value[t]]]
                  /\ Forward(t)
                  /\ UNCHANGED <<seen, outcome>>
  BY DEF InspectSource
<1>2. UNCHANGED <<value, schemas, target, sequence, atStart>>
  BY DEF InspectSource, catalog
<1>3. at[t] = 1 /\ outcome = "running"
  BY StepAt DEF InspectSource
<1>4. CASE n = 0
  <2>1. n # Len(Columns)
    BY <1>4, StructureAssumption
  <2>2. cut' = TRUE
    BY <1>1, <2>1 DEF ResultCutShort
  <2>3. outcome' = "not there"
    BY <1>1, <1>4 DEF Return
  <2>4. OutcomeInv'
    BY <2>2, <2>3 DEF OutcomeInv, RefusalIsExplained
  <2> QED
    BY <1>1, <1>2, <1>4, <2>4, ReturnInv
<1>5. CASE n # 0
  <2>1. at'[t] = 2 /\ \A u \in Tables \ {t} : at'[u] = at[u]
    BY <1>1, <1>3, <1>5, ForwardType
  <2>2. read'[t] = [columns |-> SubSeq(Columns, 1, n), sequence |-> s, value |-> value[t]]
    BY <1>1, <1>5 DEF TypeOK
  <2>3. ReadInv(t)'
    <3>1. SubSeq(Columns, 1, n) # <<>>
      BY <1>5, PrefixType
    <3>2. ~cut' => n = Len(Columns) /\ s
      BY <1>1 DEF ResultCutShort
    <3>3. ~cut' => SubSeq(Columns, 1, n) = Columns
      BY <3>2, PrefixType
    <3>4. value[t] >= atStart[t]
      <4>1. atStart[t] <= value[t]
        BY DEF Inv, TableInv
      <4>2. atStart[t] \in Int /\ value[t] \in Int
        BY ValueType
      <4> QED
        BY <4>1, <4>2
    <3> QED
      BY <1>2, <2>2, <3>1, <3>2, <3>3, <3>4 DEF ReadInv
  <2>4. SeenInv(t)' /\ DoneInv(t)' /\ SchemaInv(t)'
    BY <2>1 DEF SeenInv, DoneInv, SchemaInv
  <2>5. TableInv(t)'
    BY <1>2, <2>3, <2>4 DEF Inv, TableInv
  <2>6. cut => cut'
    BY <1>1, CutType
  <2>7. \A u \in Tables \ {t} : read'[u] = read[u]
    BY <1>1, <1>5 DEF TypeOK
  <2> QED
    BY <1>1, <1>2, <1>3, <1>5, <2>1, <2>5, <2>6, <2>7, WorkerInv
<1> QED
  BY <1>4, <1>5

LEMMA FindSchemaInv ==
    ASSUME TypeOK, Inv, NEW t \in Tables, FindSchema(t)
    PROVE  Inv'
<1>1. at[t] = 2 /\ outcome = "running" /\ outcome' = "running"
  BY StepAt DEF FindSchema
<1>2. UNCHANGED <<value, schemas, target, sequence, read, seen, cut, atStart>>
  BY DEF FindSchema, catalog, others
<1>3. /\ \A u \in Tables \ {t} : at'[u] = at[u]
      /\ SchemaOf[t] \in schemas => at'[t] = 4
      /\ SchemaOf[t] \notin schemas => at'[t] = 3
  <2>1. at \in [Tables -> 0 .. 12] /\ at[t] = 2
    BY <1>1, LastStep DEF TypeOK
  <2>2. CASE SchemaOf[t] \in schemas
    <3>1. at' = [at EXCEPT ![t] = @ + 2]
      BY <2>2 DEF FindSchema
    <3> QED
      BY <2>1, <2>2, <3>1
  <2>3. CASE SchemaOf[t] \notin schemas
    <3>1. at' = [at EXCEPT ![t] = @ + 1]
      BY <2>3 DEF FindSchema
    <3> QED
      BY <2>1, <2>3, <3>1
  <2> QED
    BY <2>2, <2>3
<1>4. ReadInv(t)'
  BY <1>1, <1>2 DEF ReadInv, Inv, TableInv
<1>5. SeenInv(t)' /\ DoneInv(t)' /\ SchemaInv(t)'
  BY <1>2, <1>3 DEF SeenInv, DoneInv, SchemaInv
<1>6. TableInv(t)'
  BY <1>2, <1>4, <1>5 DEF Inv, TableInv
<1> QED
  BY <1>1, <1>2, <1>3, <1>6, WorkerInv

LEMMA CreateSchemaInv ==
    ASSUME TypeOK, Inv, NEW t \in Tables, CreateSchema(t)
    PROVE  Inv'
<1>1. at[t] = 3 /\ outcome = "running"
  BY StepAt DEF CreateSchema
<1>2. UNCHANGED <<value, target, sequence, cut, atStart>>
  BY DEF CreateSchema, others
<1>3. CASE SchemaOf[t] \in schemas
  <2>1. Return("race")
    BY <1>3 DEF CreateSchema
  <2>2. \E u \in Tables : u # t /\ SchemaOf[u] = SchemaOf[t]
    BY <1>1, <1>3 DEF Inv, TableInv, SchemaInv
  <2>3. outcome' = "race"
    BY <2>1 DEF Return
  <2>4. OutcomeInv'
    BY <2>2, <2>3 DEF OutcomeInv, RefusalIsExplained
  <2> QED
    BY <1>2, <2>1, <2>4, ReturnInv
<1>4. CASE SchemaOf[t] \notin schemas
  <2>1. Forward(t) /\ UNCHANGED <<read, seen, outcome>>
    BY <1>4 DEF CreateSchema
  <2>2. at'[t] = 4 /\ \A u \in Tables \ {t} : at'[u] = at[u]
    BY <1>1, <2>1, ForwardType
  <2>3. ReadInv(t)'
    BY <1>1, <1>2, <2>1 DEF ReadInv, Inv, TableInv
  <2>4. SeenInv(t)' /\ DoneInv(t)' /\ SchemaInv(t)'
    BY <2>2 DEF SeenInv, DoneInv, SchemaInv
  <2>5. TableInv(t)'
    BY <1>2, <2>3, <2>4 DEF Inv, TableInv
  <2>6. schemas' = schemas \union {SchemaOf[t]}
    BY DEF CreateSchema
  <2> QED
    BY <1>1, <1>2, <2>1, <2>2, <2>5, <2>6, WorkerInv
<1> QED
  BY <1>3, <1>4

LEMMA InspectTargetInv ==
    ASSUME TypeOK, Inv, NEW t \in Tables, InspectTarget(t)
    PROVE  Inv'
<1>1. PICK cs \in SUBSET DOMAIN target[t].columns :
          /\ IF cs = DOMAIN target[t].columns THEN WholeResult ELSE ResultCutShort
          /\ seen' = [seen EXCEPT ![t] = IF cs = {} THEN NoTable
                                         ELSE [target[t] EXCEPT !.columns = Restrict(@, cs)]]
  BY DEF InspectTarget
<1>2. UNCHANGED <<value, schemas, target, sequence, read, atStart>>
  BY DEF InspectTarget, catalog
<1>3. at[t] = 4 /\ outcome = "running" /\ outcome' = "running"
  BY StepAt DEF InspectTarget
<1>4. at'[t] = 5 /\ \A u \in Tables \ {t} : at'[u] = at[u]
  <2>1. Forward(t)
    BY DEF InspectTarget
  <2> QED
    BY <1>3, <2>1, ForwardType
<1>5. cut => cut'
  BY <1>1, CutType
<1>6. target[t] = NoTable \/ (DOMAIN target[t].columns # {} /\ target[t].pk # "none")
  BY DEF Inv, TableInv
<1>7. target[t] \in TableStates /\ target[t].columns \in Partial(ColumnStates)
  BY DEF TypeOK, TableStates
<1>8. SeenInv(t)'
  <2>1. ~cut' => cs = DOMAIN target[t].columns
    BY <1>1 DEF ResultCutShort
  <2>2. CASE cs = {}
    <3>1. seen'[t] = NoTable
      BY <1>1, <2>2 DEF TypeOK
    <3>2. ~cut' => target[t] = NoTable
      BY <1>6, <2>1, <2>2
    <3> QED
      BY <1>2, <1>4, <3>1, <3>2 DEF SeenInv
  <2>3. CASE cs # {}
    <3>1. seen'[t] = [target[t] EXCEPT !.columns = Restrict(target[t].columns, cs)]
      BY <1>1, <2>3 DEF TypeOK
    <3>2. seen'[t].pk = target[t].pk /\ seen'[t].indexes = target[t].indexes
      BY <1>7, <3>1, PartialRestrict, ColumnsChanged
    <3>3. target[t] # NoTable
      <4>1. DOMAIN NoTable.columns = {}
        BY DEF NoTable
      <4> QED
        BY <2>3, <4>1
    <3>4. ASSUME ~cut' PROVE seen'[t] = target[t]
      <4>1. target[t].columns \in [DOMAIN target[t].columns -> ColumnStates]
        BY <1>7, PartialIs
      <4>2. Restrict(target[t].columns, cs) = target[t].columns
        BY <2>1, <3>4, <4>1 DEF Restrict
      <4> QED
        BY <1>7, <3>1, <4>2 DEF TableStates
    <3> QED
      BY <1>2, <1>4, <1>6, <3>2, <3>3, <3>4 DEF SeenInv
  <2> QED
    BY <2>2, <2>3
<1>9. ReadInv(t)'
  BY <1>2, <1>3, <1>5 DEF ReadInv, Inv, TableInv
<1>10. DoneInv(t)' /\ SchemaInv(t)'
  BY <1>4 DEF DoneInv, SchemaInv
<1>11. TableInv(t)'
  BY <1>2, <1>8, <1>9, <1>10 DEF Inv, TableInv
<1>12. \A u \in Tables \ {t} : seen'[u] = seen[u]
  BY <1>1 DEF TypeOK
<1> QED
  BY <1>2, <1>3, <1>4, <1>5, <1>11, <1>12, WorkerInv

\* What a statement of syncSequences does, by the step that it is.
Synced(t) ==
    /\ UNCHANGED <<value, schemas, target, read, seen, outcome, cut, atStart>>
    /\ outcome = "running" /\ Forward(t)
    /\ \A u \in Tables \ {t} : sequence'[u] = sequence[u]
    /\ \/ /\ at[t] = 5 \/ at[t] = 8
          /\ read[t].sequence =>
                /\ sequence'[t].exists /\ sequence'[t].value = sequence[t].value
                /\ sequence'[t].owned = sequence[t].owned
       \/ /\ at[t] = 6 \/ at[t] = 9
          /\ read[t].sequence =>
                /\ sequence'[t].exists = sequence[t].exists
                /\ sequence'[t].value = read[t].value
                /\ sequence'[t].owned = sequence[t].owned
       \/ /\ at[t] = 10
          /\ read[t].sequence =>
                /\ sequence'[t].exists = sequence[t].exists
                /\ sequence'[t].value = sequence[t].value
                /\ sequence'[t].owned

LEMMA SequenceStatement ==
    ASSUME TypeOK, NEW t \in Tables,
           NEW step \in {"make sequence", "set sequence", "own sequence"},
           SyncSequence(t, step), read[t].sequence => ~NothingToOwn(t, step)
    PROVE  Synced(t)
<1>1. /\ UNCHANGED <<value, schemas, target, read, seen, outcome, cut, atStart>>
      /\ Forward(t)
  BY DEF SyncSequence, others
<1>2. \A u \in Tables \ {t} : sequence'[u] = sequence[u]
  BY DEF SyncSequence, TypeOK
<1>3. /\ outcome = "running"
      /\ step = "make sequence" => at[t] = 5 \/ at[t] = 8
      /\ step = "set sequence" => at[t] = 6 \/ at[t] = 9
      /\ step = "own sequence" => at[t] = 10
  BY StepAt DEF SyncSequence
<1>4. read[t].sequence => sequence'[t] = SequenceAfter(t, step)
  BY DEF SyncSequence, TypeOK
<1>5. sequence[t] \in [exists : BOOLEAN, value : 0 .. MaxValue, owned : BOOLEAN]
  BY DEF TypeOK
<1>6. CASE step = "make sequence"
  <2>1. /\ SequenceAfter(t, step).exists /\ SequenceAfter(t, step).value = sequence[t].value
        /\ SequenceAfter(t, step).owned = sequence[t].owned
    BY <1>5, <1>6 DEF SequenceAfter
  <2> QED
    BY <1>1, <1>2, <1>3, <1>4, <1>6, <2>1 DEF Synced
<1>7. CASE step = "set sequence"
  <2>1. /\ SequenceAfter(t, step).exists = sequence[t].exists
        /\ SequenceAfter(t, step).value = read[t].value
        /\ SequenceAfter(t, step).owned = sequence[t].owned
    BY <1>5, <1>7 DEF SequenceAfter, ValueSet
  <2> QED
    BY <1>1, <1>2, <1>3, <1>4, <1>7, <2>1 DEF Synced
<1>8. CASE step = "own sequence"
  <2>1. /\ SequenceAfter(t, step).exists = sequence[t].exists
        /\ SequenceAfter(t, step).value = sequence[t].value
        /\ SequenceAfter(t, step).owned
    BY <1>5, <1>8 DEF SequenceAfter
  <2> QED
    BY <1>1, <1>2, <1>3, <1>4, <1>8, <2>1 DEF Synced
<1> QED
  BY <1>6, <1>7, <1>8

LEMMA SyncedInv ==
    ASSUME TypeOK, Inv, NEW t \in Tables, Synced(t)
    PROVE  Inv'
<1>1. /\ UNCHANGED <<value, schemas, target, read, seen, outcome, cut, atStart>>
      /\ outcome = "running" /\ Forward(t)
  BY DEF Synced
<1>2. at[t] = 5 \/ at[t] = 6 \/ at[t] = 8 \/ at[t] = 9 \/ at[t] = 10
  BY DEF Synced
<1>3. at'[t] = at[t] + 1 /\ \A u \in Tables \ {t} : at'[u] = at[u]
  BY <1>1, <1>2, ForwardType
<1>4. \A u \in Tables \ {t} : sequence'[u] = sequence[u]
  BY DEF Synced
<1>5. ReadInv(t) /\ SeenInv(t) /\ DoneInv(t)
  BY <1>1 DEF Inv, TableInv
<1>6. ReadInv(t)'
  BY <1>1, <1>2, <1>3, <1>5 DEF ReadInv
<1>7. SeenInv(t)'
  BY <1>1, <1>2, <1>3, <1>5 DEF SeenInv
<1>8. SchemaInv(t)'
  BY <1>2, <1>3 DEF SchemaInv
<1>9. DoneInv(t)'
  <2> SUFFICES ASSUME ~cut PROVE DoneInv(t)'
    BY <1>1 DEF DoneInv
  <2>1. read[t].sequence /\ read[t].value >= atStart[t]
    BY <1>2, <1>5 DEF ReadInv
  <2>2. HasColumns(t)' <=> HasColumns(t)
    BY <1>1 DEF HasColumns
  <2>3. CASE at[t] = 5 \/ at[t] = 8
    <3>1. /\ sequence'[t].exists /\ sequence'[t].value = sequence[t].value
          /\ sequence'[t].owned = sequence[t].owned
      BY <2>1, <2>3 DEF Synced
    <3> QED
      BY <1>1, <1>3, <1>5, <2>2, <2>3, <3>1 DEF DoneInv
  <2>4. CASE at[t] = 6 \/ at[t] = 9
    <3>1. /\ sequence'[t].exists = sequence[t].exists /\ sequence'[t].value = read[t].value
          /\ sequence'[t].owned = sequence[t].owned
      BY <2>1, <2>4 DEF Synced
    <3> QED
      BY <1>1, <1>3, <1>5, <2>1, <2>2, <2>4, <3>1 DEF DoneInv
  <2>5. CASE at[t] = 10
    <3>1. /\ sequence'[t].exists = sequence[t].exists
          /\ sequence'[t].value = sequence[t].value /\ sequence'[t].owned
      BY <2>1, <2>5 DEF Synced
    <3> QED
      BY <1>1, <1>3, <1>5, <2>2, <2>5, <3>1 DEF DoneInv
  <2> QED
    BY <1>2, <2>3, <2>4, <2>5
<1>10. TableInv(t)'
  BY <1>1, <1>6, <1>7, <1>8, <1>9 DEF Inv, TableInv
<1> QED
  BY <1>1, <1>3, <1>4, <1>10, WorkerInv

\* OWNED BY names a column that is not there.
OwnRefused(t) ==
    /\ Does(t, "own sequence") /\ Serial \notin DOMAIN target[t].columns
    /\ Return("undefined")
    /\ UNCHANGED <<value, schemas, target, sequence, cut, atStart>>

LEMMA SequenceStep ==
    ASSUME TypeOK, NEW t \in Tables,
           NEW step \in {"make sequence", "set sequence", "own sequence"},
           SyncSequence(t, step)
    PROVE  Synced(t) \/ OwnRefused(t)
<1>1. CASE read[t].sequence /\ NothingToOwn(t, step)
  BY <1>1 DEF SyncSequence, NothingToOwn, OwnRefused, others
<1>2. CASE ~(read[t].sequence /\ NothingToOwn(t, step))
  BY <1>2, SequenceStatement
<1> QED
  BY <1>1, <1>2

\* Only a result that was cut short leaves the table without the column.
LEMMA OwnRefusedInv ==
    ASSUME TypeOK, Inv, NEW t \in Tables, OwnRefused(t)
    PROVE  Inv'
<1>1. at[t] = 10 /\ outcome = "running"
  BY StepAt DEF OwnRefused
<1>2. DoneInv(t)
  BY <1>1 DEF Inv, TableInv
<1>3. cut'
  <2>1. ~cut => HasColumns(t)
    BY <1>1, <1>2 DEF DoneInv
  <2>2. Serial \in Range(Columns) /\ Serial \notin DOMAIN target[t].columns
    BY StructureAssumption DEF OwnRefused
  <2>3. cut
    BY <2>1, <2>2 DEF HasColumns
  <2> QED
    BY <2>3 DEF OwnRefused
<1>4. outcome' = "undefined"
  BY DEF OwnRefused, Return
<1>5. OutcomeInv'
  BY <1>3, <1>4 DEF OutcomeInv, RefusalIsExplained
<1> QED
  BY <1>5, ReturnInv DEF OwnRefused

\* With the sequence read, a column is wanted as it is in the source.
LEMMA WantedAsInSource ==
    ASSUME NEW t, NEW c, read[t].sequence
    PROVE  WantedDefault(t, c) = "source" /\ Wanted(t, c) = AsInSource
BY DEF WantedDefault, Wanted, AsInSource, Attributes

LEMMA CreateTableInv ==
    ASSUME TypeOK, Inv, NEW t \in Tables, CreateTable(t)
    PROVE  Inv'
<1>1. UNCHANGED <<value, schemas, sequence, cut, atStart>> /\ seen[t] = NoTable
  BY DEF CreateTable, others
<1>2. at[t] = 7 /\ outcome = "running"
  BY StepAt DEF CreateTable
<1>3. ReadInv(t) /\ SeenInv(t) /\ DoneInv(t)
  BY <1>2 DEF Inv, TableInv
<1>4. CASE target[t] # NoTable
  <2>1. Return("exists") /\ UNCHANGED target
    BY <1>4 DEF CreateTable
  <2>2. cut'
    BY <1>1, <1>2, <1>3, <1>4 DEF SeenInv
  <2>3. OutcomeInv'
    BY <2>1, <2>2 DEF Return, OutcomeInv, RefusalIsExplained
  <2> QED
    BY <1>1, <2>1, <2>3, ReturnInv
<1>5. CASE target[t] = NoTable /\ \E c \in Range(read[t].columns) : Undefined(t, c)
  <2>1. Return("undefined") /\ UNCHANGED target
    BY <1>5 DEF CreateTable
  <2>2. cut'
    BY <1>1, <1>2, <1>3, <1>5 DEF DoneInv, Undefined
  <2>3. OutcomeInv'
    BY <2>1, <2>2 DEF Return, OutcomeInv, RefusalIsExplained
  <2> QED
    BY <1>1, <2>1, <2>3, ReturnInv
<1>6. CASE target[t] = NoTable /\ ~\E c \in Range(read[t].columns) : Undefined(t, c)
  <2>1. /\ target' = [target EXCEPT ![t] = Created(t)]
        /\ Forward(t) /\ UNCHANGED <<read, seen, outcome>>
    BY <1>6 DEF CreateTable
  <2>2. at'[t] = 8 /\ \A u \in Tables \ {t} : at'[u] = at[u]
    BY <1>2, <2>1, ForwardType
  <2>3. target'[t] = Created(t) /\ \A u \in Tables \ {t} : target'[u] = target[u]
    BY <2>1 DEF TypeOK
  <2>4. ReadInv(t)'
    BY <1>1, <1>2, <1>3, <2>1, <2>2 DEF ReadInv
  <2>5. SeenInv(t)'
    BY <1>1, <2>1, <2>2, <2>3 DEF SeenInv, Created, NoTable
  <2>6. DoneInv(t)'
    <3> SUFFICES ASSUME ~cut PROVE DoneInv(t)'
      BY <1>1 DEF DoneInv
    <3>1. read[t].columns = Columns /\ read[t].sequence
      BY <1>2, <1>3 DEF ReadInv
    <3>2. HasColumns(t)'
      <4> SUFFICES ASSUME NEW c \in Range(Columns)
                   PROVE  c \in DOMAIN target'[t].columns /\ target'[t].columns[c] = AsInSource
        BY DEF HasColumns
      <4>1. Created(t).columns = [d \in Range(Columns) |-> Wanted(t, d)]
        BY <3>1 DEF Created
      <4> QED
        BY <2>3, <3>1, <4>1, WantedAsInSource
    <3> QED
      BY <1>1, <1>2, <1>3, <2>2, <3>2 DEF DoneInv
  <2>7. DOMAIN target'[t].columns # {} /\ target'[t].pk # "none"
    <3>1. read[t].columns # <<>> /\ read[t].columns \in Seq(Range(Columns))
      BY <1>2, <1>3 DEF ReadInv, TypeOK
    <3>2. read[t].columns[1] \in Range(read[t].columns)
      <4>1. 1 \in DOMAIN read[t].columns
        BY <3>1
      <4> QED
        BY <4>1 DEF Range
    <3>3. DOMAIN Created(t).columns = Range(read[t].columns)
      BY DEF Created
    <3>4. Created(t).pk = "source"
      BY DEF Created
    <3> QED
      BY <2>3, <3>2, <3>3, <3>4
  <2>8. SchemaInv(t)'
    BY <2>2 DEF SchemaInv
  <2>9. TableInv(t)'
    BY <1>1, <2>4, <2>5, <2>6, <2>7, <2>8 DEF Inv, TableInv
  <2> QED
    BY <1>1, <1>2, <2>1, <2>2, <2>3, <2>9, WorkerInv
<1> QED
  BY <1>4, <1>5, <1>6

LEMMA AlterTableInv ==
    ASSUME TypeOK, Inv, NEW t \in Tables, AlterTable(t)
    PROVE  Inv'
<1>1. PICK i \in DOMAIN read[t].columns : AlterColumn(t, read[t].columns[i])
  BY DEF AlterTable, ToAlter
<1> DEFINE c == read[t].columns[i]
           f == With(target[t].columns, c, Altered(t, c))
           g == With(seen[t].columns, c, Altered(t, c))
<1>2. UNCHANGED <<value, schemas, sequence, cut, atStart>> /\ seen[t] # NoTable
  BY DEF AlterTable, others
<1>3. at[t] = 7 /\ outcome = "running"
  BY StepAt DEF AlterTable
<1>4. ReadInv(t) /\ SeenInv(t) /\ DoneInv(t)
  BY <1>3 DEF Inv, TableInv
<1>5. /\ seen[t].pk = target[t].pk /\ target[t].pk # "none"
      /\ seen[t].indexes = target[t].indexes
      /\ ~cut => seen[t] = target[t]
  BY <1>2, <1>3, <1>4 DEF SeenInv
<1>6. CASE Answer(t, c) # "done"
  <2>1. Return(Answer(t, c)) /\ UNCHANGED target
    BY <1>1, <1>6 DEF AlterColumn
  <2>2. Answer(t, c) \in {"exists", "undefined", "refused"}
    BY <1>6 DEF Answer
  <2>3. cut \/ Answer(t, c) = "refused"
    <3> SUFFICES ASSUME ~cut PROVE Answer(t, c) = "refused"
      OBVIOUS
    <3>1. seen[t] = target[t]
      BY <1>5
    <3>2. ~(Missing(t, c) /\ c \in DOMAIN target[t].columns)
      BY <3>1 DEF Missing
    <3>3. sequence[t].exists
      BY <1>3, <1>4 DEF DoneInv
    <3>4. ~Undefined(t, c)
      BY <3>3 DEF Undefined
    <3> QED
      BY <1>6, <3>2, <3>4 DEF Answer
  <2>4. /\ outcome' \in {"exists", "undefined", "refused"}
        /\ cut' \/ outcome' = "refused"
    BY <1>2, <2>1, <2>2, <2>3 DEF Return
  <2>5. OutcomeInv'
    BY <2>4 DEF OutcomeInv, RefusalIsExplained
  <2>6. Answer(t, c) # "running"
    BY <2>2
  <2> QED
    BY <1>2, <2>1, <2>5, <2>6, ReturnInv
<1>7. CASE Answer(t, c) = "done"
  <2>1. /\ target' = [target EXCEPT ![t].columns = f]
        /\ seen' = [seen EXCEPT ![t].columns = g]
        /\ UNCHANGED <<at, read, outcome>>
    BY <1>1, <1>7 DEF AlterColumn
  <2>2. f = g \/ cut
    BY <1>5
  <2>3. c \in DOMAIN f
    BY DEF With
  <2> HIDE DEF c, f, g
  <2>4. target[t] \in TableStates /\ seen[t] \in TableStates
    BY DEF TypeOK
  <2>5. /\ target'[t] = [target[t] EXCEPT !.columns = f]
        /\ seen'[t] = [seen[t] EXCEPT !.columns = g]
        /\ \A u \in Tables \ {t} : target'[u] = target[u] /\ seen'[u] = seen[u]
    BY <2>1 DEF TypeOK
  <2>6. /\ target'[t].columns = f /\ target'[t].pk = target[t].pk
        /\ target'[t].indexes = target[t].indexes
        /\ seen'[t].pk = seen[t].pk /\ seen'[t].indexes = seen[t].indexes
    BY <2>4, <2>5 DEF TableStates
  <2>7. ~cut => seen'[t] = target'[t]
    BY <1>5, <2>2, <2>5
  <2>8. SeenInv(t)'
    BY <1>2, <1>3, <1>5, <2>1, <2>6, <2>7 DEF SeenInv
  <2>9. ReadInv(t)'
    BY <1>2, <1>4, <2>1 DEF ReadInv
  <2>10. DoneInv(t)' /\ SchemaInv(t)'
    BY <1>2, <1>3, <1>4, <2>1 DEF DoneInv, SchemaInv
  <2>11. DOMAIN target'[t].columns # {} /\ target'[t].pk # "none"
    BY <1>5, <2>3, <2>6
  <2>12. TableInv(t)'
    BY <1>2, <2>8, <2>9, <2>10, <2>11 DEF Inv, TableInv
  <2> QED
    BY <1>2, <1>3, <2>1, <2>5, <2>12, WorkerInv
<1> QED
  BY <1>6, <1>7

LEMMA CompareKeysInv ==
    ASSUME TypeOK, Inv, NEW t \in Tables, CompareKeys(t)
    PROVE  Inv'
<1>1. /\ UNCHANGED <<value, schemas, target, sequence, cut, atStart>>
      /\ seen[t] # NoTable /\ ToAlter(t) = {}
  BY DEF CompareKeys, catalog, others
<1>2. at[t] = 7 /\ outcome = "running"
  BY StepAt DEF CompareKeys
<1>3. ReadInv(t) /\ SeenInv(t) /\ DoneInv(t)
  BY <1>2 DEF Inv, TableInv
<1>4. /\ seen[t].pk = target[t].pk /\ target[t].pk # "none"
      /\ seen[t].indexes = target[t].indexes
      /\ ~cut => seen[t] = target[t]
  BY <1>1, <1>2, <1>3 DEF SeenInv
<1>5. CASE seen[t].pk # "source"
  <2>1. Return("conflict")
    BY <1>5 DEF CompareKeys
  <2>2. target'[t].pk = "other"
    <3>1. target[t] \in TableStates
      BY DEF TypeOK
    <3> QED
      BY <1>1, <1>4, <1>5, <3>1 DEF TableStates
  <2>3. Conflict(t)' /\ outcome' = "conflict"
    BY <2>1, <2>2 DEF Conflict, Return
  <2>4. OutcomeInv'
    BY <2>3 DEF OutcomeInv, RefusalIsExplained
  <2> QED
    BY <1>1, <2>1, <2>4, ReturnInv
<1>6. CASE seen[t].pk = "source"
  <2>1. Forward(t) /\ UNCHANGED <<read, seen, outcome>>
    BY <1>6 DEF CompareKeys
  <2>2. at'[t] = 8 /\ \A u \in Tables \ {t} : at'[u] = at[u]
    BY <1>2, <2>1, ForwardType
  <2>3. ReadInv(t)'
    BY <1>1, <1>2, <1>3, <2>1, <2>2 DEF ReadInv
  <2>4. SeenInv(t)'
    BY <1>1, <1>4, <1>6, <2>1, <2>2 DEF SeenInv
  <2>5. DoneInv(t)'
    <3> SUFFICES ASSUME ~cut PROVE DoneInv(t)'
      BY <1>1 DEF DoneInv
    <3>1. read[t].columns = Columns /\ read[t].sequence
      BY <1>2, <1>3 DEF ReadInv
    <3>2. HasColumns(t)'
      <4> SUFFICES ASSUME NEW c \in Range(Columns)
                   PROVE  c \in DOMAIN target[t].columns /\ target[t].columns[c] = AsInSource
        BY <1>1 DEF HasColumns
      <4>1. PICK i \in DOMAIN Columns : Columns[i] = c
        BY DEF Range
      <4>2. ~Differs(t, c)
        BY <1>1, <3>1, <4>1 DEF ToAlter
      <4>3. c \in DOMAIN seen[t].columns /\ seen[t].columns[c] = Wanted(t, c)
        BY <4>2 DEF Differs, Missing
      <4> QED
        BY <1>4, <3>1, <4>3, WantedAsInSource
    <3> QED
      BY <1>1, <1>2, <1>3, <2>2, <3>2 DEF DoneInv
  <2>6. SchemaInv(t)'
    BY <2>2 DEF SchemaInv
  <2>7. TableInv(t)'
    BY <1>1, <2>3, <2>4, <2>5, <2>6 DEF Inv, TableInv
  <2> QED
    BY <1>1, <1>2, <2>1, <2>2, <2>7, WorkerInv
<1> QED
  BY <1>5, <1>6

LEMMA CreateIndexInv ==
    ASSUME TypeOK, Inv, NEW t \in Tables, CreateIndex(t)
    PROVE  Inv'
<1>1. PICK n \in ToIndex(t) : MakeIndex(t, Indexes[n])
  BY DEF CreateIndex
<1> DEFINE i == Indexes[n]
<1>2. n \in DOMAIN Indexes /\ i \in Range(Indexes)
  BY DEF ToIndex, Range
<1>3. UNCHANGED <<value, schemas, sequence, cut, atStart>>
  BY DEF CreateIndex, others
<1>4. at[t] = 11 /\ outcome = "running"
  BY StepAt DEF CreateIndex
<1>5. ReadInv(t) /\ SeenInv(t) /\ DoneInv(t)
  BY <1>4 DEF Inv, TableInv
<1>6. target[t].pk = "source" /\ seen[t].indexes = target[t].indexes
  BY <1>4, <1>5 DEF SeenInv
<1>7. CASE i \in DOMAIN seen[t].indexes
  <2>1. Return("conflict") /\ UNCHANGED target
    BY <1>1, <1>7 DEF MakeIndex
  <2>2. seen[t].indexes[i] # "source"
    BY <1>7 DEF ToIndex
  <2>3. i \in DOMAIN target'[t].indexes /\ target'[t].indexes[i] # "source"
    BY <1>6, <1>7, <2>1, <2>2
  <2>4. Conflict(t)'
    BY <1>2, <2>3 DEF Conflict
  <2>5. outcome' = "conflict"
    BY <2>1 DEF Return
  <2>6. OutcomeInv'
    BY <2>4, <2>5 DEF OutcomeInv, RefusalIsExplained
  <2> QED
    BY <1>3, <2>1, <2>6, ReturnInv
<1>8. CASE i \notin DOMAIN seen[t].indexes /\ IndexAnswer(t, i) # "done"
  <2>1. Return(IndexAnswer(t, i)) /\ UNCHANGED target
    BY <1>1, <1>8 DEF MakeIndex
  <2>2. IndexAnswer(t, i) \in {"undefined", "refused"}
    BY <1>8 DEF IndexAnswer
  <2>3. cut \/ IndexAnswer(t, i) = "refused"
    <3> SUFFICES ASSUME ~cut PROVE IndexAnswer(t, i) = "refused"
      OBVIOUS
    <3>1. Range(Columns) \subseteq DOMAIN target[t].columns
      BY <1>4, <1>5 DEF DoneInv, HasColumns
    <3>2. IndexColumns[i] \subseteq Range(Columns)
      BY <1>2, StructureAssumption
    <3>3. IndexColumns[i] \subseteq DOMAIN target[t].columns
      BY <3>1, <3>2
    <3> QED
      BY <1>8, <3>3 DEF IndexAnswer
  <2>4. /\ outcome' \in {"undefined", "refused"}
        /\ cut' \/ outcome' = "refused"
    BY <1>3, <2>1, <2>2, <2>3 DEF Return
  <2>5. OutcomeInv'
    BY <2>4 DEF OutcomeInv, RefusalIsExplained
  <2>6. IndexAnswer(t, i) # "running"
    BY <2>2
  <2> QED
    BY <1>3, <2>1, <2>5, <2>6, ReturnInv
<1>9. CASE i \notin DOMAIN seen[t].indexes /\ IndexAnswer(t, i) = "done"
  <2> DEFINE f == With(target[t].indexes, i, "source")
             g == With(seen[t].indexes, i, "source")
  <2>1. /\ target' = [target EXCEPT ![t].indexes = f]
        /\ seen' = [seen EXCEPT ![t].indexes = g]
        /\ UNCHANGED <<at, read, outcome>>
    BY <1>1, <1>9 DEF MakeIndex
  <2>2. f = g
    BY <1>6
  <2> HIDE DEF i, f, g
  <2>3. target[t] \in TableStates /\ seen[t] \in TableStates
    BY DEF TypeOK
  <2>4. /\ target'[t] = [target[t] EXCEPT !.indexes = f]
        /\ seen'[t] = [seen[t] EXCEPT !.indexes = g]
        /\ \A u \in Tables \ {t} : target'[u] = target[u] /\ seen'[u] = seen[u]
    BY <2>1 DEF TypeOK
  <2>5. /\ target'[t].columns = target[t].columns /\ target'[t].pk = target[t].pk
        /\ target'[t].indexes = f /\ seen'[t].indexes = g
    BY <2>3, <2>4 DEF TableStates
  <2>6. SeenInv(t)'
    BY <1>4, <1>6, <2>1, <2>2, <2>5 DEF SeenInv
  <2>7. ReadInv(t)'
    BY <1>3, <1>5, <2>1 DEF ReadInv
  <2>8. HasColumns(t)' <=> HasColumns(t)
    BY <2>5 DEF HasColumns
  <2>9. DoneInv(t)' /\ SchemaInv(t)'
    BY <1>3, <1>4, <1>5, <2>1, <2>8 DEF DoneInv, SchemaInv
  <2>10. target'[t] = NoTable \/ (DOMAIN target'[t].columns # {} /\ target'[t].pk # "none")
    <3>1. target[t] # NoTable
      BY <1>6 DEF NoTable
    <3> QED
      BY <3>1, <2>5 DEF Inv, TableInv
  <2>11. TableInv(t)'
    BY <1>3, <2>6, <2>7, <2>9, <2>10 DEF Inv, TableInv
  <2> QED
    BY <1>3, <1>4, <2>1, <2>4, <2>11, WorkerInv
<1> QED
  BY <1>7, <1>8, <1>9

LEMMA TableReadyInv ==
    ASSUME TypeOK, Inv, NEW t \in Tables, TableReady(t)
    PROVE  Inv'
<1>1. /\ UNCHANGED <<value, schemas, target, sequence, read, seen, outcome, cut, atStart>>
      /\ Forward(t) /\ ToIndex(t) = {}
  BY DEF TableReady, catalog, others
<1>2. at[t] = 11 /\ outcome = "running"
  BY StepAt DEF TableReady
<1>3. at'[t] = 12 /\ \A u \in Tables \ {t} : at'[u] = at[u]
  BY <1>1, <1>2, ForwardType
<1>4. ReadInv(t) /\ SeenInv(t) /\ DoneInv(t)
  BY <1>2 DEF Inv, TableInv
<1>5. ReadInv(t)'
  BY <1>1, <1>2, <1>3, <1>4 DEF ReadInv
<1>6. SeenInv(t)'
  BY <1>1, <1>2, <1>3, <1>4 DEF SeenInv
<1>7. HasIndexes(t)'
  <2> SUFFICES ASSUME NEW i \in Range(Indexes)
               PROVE  i \in DOMAIN target[t].indexes /\ target[t].indexes[i] = "source"
    BY <1>1 DEF HasIndexes
  <2>1. PICK n \in DOMAIN Indexes : Indexes[n] = i
    BY DEF Range
  <2>2. i \in DOMAIN seen[t].indexes /\ seen[t].indexes[i] = "source"
    BY <1>1, <2>1 DEF ToIndex
  <2>3. seen[t].indexes = target[t].indexes
    BY <1>2, <1>4 DEF SeenInv
  <2> QED
    BY <2>2, <2>3
<1>8. HasColumns(t)' <=> HasColumns(t)
  BY <1>1 DEF HasColumns
<1>9. DoneInv(t)' /\ SchemaInv(t)'
  BY <1>1, <1>2, <1>3, <1>4, <1>7, <1>8 DEF DoneInv, SchemaInv
<1>10. TableInv(t)'
  BY <1>1, <1>5, <1>6, <1>9 DEF Inv, TableInv
<1> QED
  BY <1>1, <1>2, <1>3, <1>10, WorkerInv

LEMMA EndRunInv ==
    ASSUME TypeOK, Inv, EndRun
    PROVE  Inv'
<1>1. /\ UNCHANGED <<value, schemas, target, sequence, cut, atStart>>
      /\ outcome = "running" /\ Return("ok")
  BY DEF EndRun, catalog, others
<1>2. ASSUME NEW t \in Tables, ~cut
      PROVE  Structured(t)' /\ sequence'[t].value >= atStart'[t]
  <2>1. at[t] = 12
    BY LastStep DEF EndRun
  <2>2. SeenInv(t) /\ DoneInv(t)
    BY <1>1 DEF Inv, TableInv
  <2>3. /\ target[t].pk = "source" /\ HasColumns(t) /\ HasIndexes(t)
        /\ sequence[t].exists /\ sequence[t].owned /\ sequence[t].value >= atStart[t]
    BY <1>2, <2>1, <2>2 DEF SeenInv, DoneInv
  <2> QED
    BY <1>1, <2>3 DEF Structured, HasColumns, HasIndexes
<1>3. outcome' = "ok"
  BY <1>1 DEF Return
<1>4. OutcomeInv'
  BY <1>1, <1>2, <1>3 DEF OutcomeInv, RefusalIsExplained
<1> QED
  BY <1>1, <1>4, ReturnInv

LEMMA FaultInv ==
    ASSUME TypeOK, Inv, Fault
    PROVE  Inv'
<1>1. UNCHANGED <<value, schemas, target, sequence, cut, atStart>> /\ Return("fault")
  BY DEF Fault, catalog
<1>2. outcome' = "fault"
  BY <1>1 DEF Return
<1>3. OutcomeInv'
  BY <1>2 DEF OutcomeInv, RefusalIsExplained
<1> QED
  BY <1>1, <1>3, ReturnInv

LEMMA StartRunInv ==
    ASSUME TypeOK, Inv, StartRun
    PROVE  Inv'
<1>1. ASSUME NEW t \in Tables PROVE TableInv(t)'
  <2>1. at'[t] = 1 /\ target'[t] = target[t] /\ atStart'[t] = value'[t] /\ value'[t] = value[t]
    BY DEF StartRun, catalog
  <2>2. ReadInv(t)' /\ SeenInv(t)' /\ DoneInv(t)' /\ SchemaInv(t)'
    BY <2>1 DEF ReadInv, SeenInv, DoneInv, SchemaInv
  <2>3. atStart'[t] <= value'[t]
    BY <2>1, ValueType
  <2> QED
    BY <2>1, <2>2, <2>3 DEF Inv, TableInv
<1>2. outcome' = "running"
  BY DEF StartRun
<1> QED
  BY <1>1, <1>2, RunningSays DEF Inv

LEMMA SourceDrawsInv ==
    ASSUME TypeOK, Inv, NEW t \in Tables, SourceDraws(t)
    PROVE  Inv'
<1>1. UNCHANGED <<schemas, target, sequence, at, read, seen, outcome, cut, atStart>>
  BY DEF SourceDraws, catalog, memory
<1>2. ASSUME NEW u \in Tables PROVE TableInv(u)'
  <2>1. atStart[u] <= value[u] /\ atStart[u] \in Int /\ value[u] \in Int
    BY ValueType DEF Inv, TableInv
  <2>2. value'[u] = value[u] \/ value'[u] = value[u] + 1
    BY DEF SourceDraws, TypeOK
  <2>3. atStart'[u] <= value'[u]
    BY <1>1, <2>1, <2>2
  <2>4. /\ ReadInv(u) <=> ReadInv(u)'
        /\ SeenInv(u) <=> SeenInv(u)'
        /\ DoneInv(u) <=> DoneInv(u)'
        /\ SchemaInv(u) <=> SchemaInv(u)'
    BY <1>1 DEF ReadInv, SeenInv, DoneInv, SchemaInv, HasColumns, HasIndexes
  <2> QED
    BY <1>1, <2>3, <2>4 DEF Inv, TableInv
<1>3. OutcomeInv'
  BY <1>1 DEF Inv, OutcomeInv, RefusalIsExplained, Conflict, Structured
<1> QED
  BY <1>2, <1>3 DEF Inv

\* What the rows refuse is not in the invariant.
LEMMA SameInv ==
    ASSUME Inv,
           UNCHANGED <<value, schemas, target, sequence, at, read, seen, outcome, cut, atStart>>
    PROVE  Inv'
<1>1. ASSUME NEW t \in Tables PROVE TableInv(t)'
  <2>1. /\ ReadInv(t) <=> ReadInv(t)'
        /\ SeenInv(t) <=> SeenInv(t)'
        /\ DoneInv(t) <=> DoneInv(t)'
        /\ SchemaInv(t) <=> SchemaInv(t)'
    BY DEF ReadInv, SeenInv, DoneInv, SchemaInv, HasColumns, HasIndexes
  <2> QED
    BY <2>1 DEF Inv, TableInv
<1>2. OutcomeInv'
  BY DEF Inv, OutcomeInv, RefusalIsExplained, Conflict, Structured
<1> QED
  BY <1>1, <1>2 DEF Inv

LEMMA CorrectRowsInv ==
    ASSUME TypeOK, Inv, NEW t \in Tables, CorrectRows(t)
    PROVE  Inv'
<1>1. UNCHANGED <<value, schemas, target, sequence, at, read, seen, outcome, cut, atStart>>
  BY DEF CorrectRows, catalog, memory
<1> QED
  BY <1>1, SameInv

LEMMA TableStepInv ==
    ASSUME TypeOK, Inv, NEW t \in Tables, TableStep(t)
    PROVE  Inv'
<1>1. ASSUME NEW step \in {"make sequence", "set sequence", "own sequence"},
             SyncSequence(t, step)
      PROVE  Inv'
  BY <1>1, SequenceStep, SyncedInv, OwnRefusedInv
<1> QED
  BY <1>1, InspectSourceInv, FindSchemaInv, CreateSchemaInv, InspectTargetInv,
     CreateTableInv, AlterTableInv, CompareKeysInv, CreateIndexInv, TableReadyInv
     DEF TableStep

LEMMA InvStep ==
    ASSUME TypeOK, Inv, [Next]_vars
    PROVE  Inv'
<1>1. CASE UNCHANGED vars
  <2>1. UNCHANGED <<value, schemas, target, sequence, at, read, seen, outcome, cut, atStart>>
    BY <1>1 DEF vars
  <2> QED
    BY <2>1, SameInv
<1> QED
  BY <1>1, StartRunInv, EndRunInv, FaultInv, TableStepInv, SourceDrawsInv, CorrectRowsInv
     DEF Next

LEMMA Invariant == Spec => [](TypeOK /\ Inv)
<1>1. Init => TypeOK /\ Inv
  BY TypeInit, InvInit
<1>2. TypeOK /\ Inv /\ [Next]_vars => (TypeOK /\ Inv)'
  BY TypeStep, InvStep
<1> QED
  BY <1>1, <1>2, PTL DEF Spec

-----------------------------------------------------------------------------
(* What the invariant gives. *)

\* A command that succeeds, without a result cut short, has aligned every table,
\* whatever the runs before it left (prepareStructure, syncPreparedIndexes).
THEOREM Aligned == Spec => []SuccessIsStructured
<1>1. Inv => SuccessIsStructured
  BY DEF Inv, OutcomeInv, SuccessIsStructured
<1> QED
  BY <1>1, Invariant, PTL

\* The target refuses no statement for the order in which they come: createTable,
\* reconcileTable and reconcileIndexes find the sequence and the table as they
\* have to be, and CREATE SCHEMA fails only between tables of one schema.
THEOREM Explained == Spec => []RefusalIsExplained
<1>1. Inv => RefusalIsExplained
  BY DEF Inv, OutcomeInv
<1> QED
  BY <1>1, Invariant, PTL

\* After a command that succeeds, without a result cut short, the sequences that
\* syncSequences set are not behind those of the source at its start.
THEOREM CaughtUp == Spec => []SequencesCaughtUp
<1>1. Inv => SequencesCaughtUp
  BY DEF Inv, OutcomeInv, SequencesCaughtUp
<1> QED
  BY <1>1, Invariant, PTL

-----------------------------------------------------------------------------
(* What is as in the source stays. *)

LEMMA Unaffected ==
    ASSUME NEW t \in Tables, Structured(t), target'[t] = target[t],
           sequence'[t] = sequence[t]
    PROVE  Structured(t)'
BY DEF Structured

\* There is nothing left to do for a table that is as in the source.
LEMMA NothingToDo ==
    ASSUME TypeOK, Inv, NEW t \in Tables, Structured(t), ~cut
    PROVE  ~CreateTable(t) /\ ~AlterTable(t) /\ ~CreateIndex(t)
<1>1. target[t].pk = "source" /\ target[t] # NoTable
  BY DEF Structured, NoTable
<1>2. ASSUME outcome = "running" PROVE ReadInv(t) /\ SeenInv(t)
  BY <1>2 DEF Inv, TableInv
<1>3. ASSUME CreateTable(t) PROVE FALSE
  <2>1. at[t] = 7 /\ outcome = "running" /\ seen[t] = NoTable
    BY <1>3, StepAt DEF CreateTable
  <2> QED
    BY <1>1, <1>2, <2>1 DEF SeenInv
<1>4. ASSUME AlterTable(t) PROVE FALSE
  <2>1. at[t] = 7 /\ outcome = "running"
    BY <1>4, StepAt DEF AlterTable
  <2>2. seen[t] = target[t]
    BY <1>2, <2>1 DEF SeenInv
  <2>3. read[t].columns = Columns /\ read[t].sequence
    BY <1>2, <2>1 DEF ReadInv
  <2>4. PICK i \in DOMAIN Columns : Differs(t, Columns[i])
    BY <1>4, <2>3 DEF AlterTable, ToAlter
  <2>5. Columns[i] \in Range(Columns)
    BY DEF Range
  <2>6. Columns[i] \in DOMAIN target[t].columns /\ target[t].columns[Columns[i]] = AsInSource
    BY <2>5 DEF Structured
  <2> QED
    BY <2>2, <2>3, <2>4, <2>6, WantedAsInSource DEF Differs, Missing
<1>5. ASSUME CreateIndex(t) PROVE FALSE
  <2>1. at[t] = 11 /\ outcome = "running"
    BY <1>5, StepAt DEF CreateIndex
  <2>2. seen[t].indexes = target[t].indexes
    BY <1>2, <2>1 DEF SeenInv
  <2>3. PICK n \in DOMAIN Indexes : \/ Indexes[n] \notin DOMAIN seen[t].indexes
                                    \/ seen[t].indexes[Indexes[n]] # "source"
    BY <1>5 DEF CreateIndex, ToIndex
  <2>4. Indexes[n] \in Range(Indexes)
    BY DEF Range
  <2> QED
    BY <2>2, <2>3, <2>4 DEF Structured
<1> QED
  BY <1>3, <1>4, <1>5

\* No statement for a table touches another.
LEMMA OwnTable ==
    ASSUME TypeOK, NEW t \in Tables, NEW u \in Tables \ {t}, TableStep(u)
    PROVE  target'[t] = target[t] /\ sequence'[t] = sequence[t]
<1>1. ASSUME InspectSource(u) \/ FindSchema(u) \/ CreateSchema(u) \/ InspectTarget(u)
             \/ CompareKeys(u) \/ TableReady(u)
      PROVE  UNCHANGED <<target, sequence>>
  BY <1>1 DEF InspectSource, FindSchema, CreateSchema, InspectTarget, CompareKeys,
              TableReady, catalog
<1>2. ASSUME NEW step \in {"make sequence", "set sequence", "own sequence"},
             SyncSequence(u, step)
      PROVE  target'[t] = target[t] /\ sequence'[t] = sequence[t]
  BY <1>2, SequenceStep DEF Synced, OwnRefused
<1>3. CASE CreateTable(u)
  BY <1>3 DEF CreateTable, TypeOK
<1>4. CASE AlterTable(u)
  BY <1>4 DEF AlterTable, AlterColumn, TypeOK
<1>5. CASE CreateIndex(u)
  BY <1>5 DEF CreateIndex, MakeIndex, TypeOK
<1> QED
  BY <1>1, <1>2, <1>3, <1>4, <1>5 DEF TableStep

\* A statement for a table that is as in the source leaves it so.
LEMMA KeptByWorker ==
    ASSUME TypeOK, Inv, NEW t \in Tables, TableStep(t), Structured(t), ~cut
    PROVE  Structured(t)'
<1>1. ASSUME InspectSource(t) \/ FindSchema(t) \/ CreateSchema(t) \/ InspectTarget(t)
             \/ CompareKeys(t) \/ TableReady(t)
      PROVE  UNCHANGED <<target, sequence>>
  BY <1>1 DEF InspectSource, FindSchema, CreateSchema, InspectTarget, CompareKeys,
              TableReady, catalog
<1>2. ASSUME Synced(t) PROVE Structured(t)'
  <2>1. read[t].sequence
    <3>1. at[t] >= 2 /\ outcome = "running"
      BY <1>2 DEF Synced
    <3> QED
      BY <3>1 DEF Inv, TableInv, ReadInv
  <2>2. sequence'[t].exists /\ sequence'[t].owned /\ target' = target
    BY <1>2, <2>1 DEF Synced, Structured
  <2> QED
    BY <2>2 DEF Structured
<1>3. ASSUME OwnRefused(t) PROVE UNCHANGED <<target, sequence>>
  BY <1>3 DEF OwnRefused
<1>4. ASSUME NEW step \in {"make sequence", "set sequence", "own sequence"},
             SyncSequence(t, step)
      PROVE  Structured(t)'
  BY <1>2, <1>3, <1>4, SequenceStep, Unaffected
<1> QED
  BY <1>1, <1>4, NothingToDo, Unaffected DEF TableStep

LEMMA CutStays ==
    ASSUME NEW t \in Tables, TableStep(t), ~cut'
    PROVE  ~cut
<1>1. ASSUME WholeResult \/ ResultCutShort PROVE cut => cut'
  BY <1>1 DEF WholeResult, ResultCutShort
<1>2. CASE InspectSource(t)
  BY <1>1, <1>2 DEF InspectSource
<1>3. CASE InspectTarget(t)
  BY <1>1, <1>3 DEF InspectTarget
<1>4. ASSUME NEW step \in {"make sequence", "set sequence", "own sequence"},
             SyncSequence(t, step)
      PROVE  cut' = cut
  BY <1>4 DEF SyncSequence, others
<1> QED
  BY <1>2, <1>3, <1>4
     DEF TableStep, FindSchema, CreateSchema, CreateTable, AlterTable, CompareKeys,
         CreateIndex, TableReady, others

LEMMA KeptByStep ==
    ASSUME TypeOK, Inv, [Next]_vars, NEW t \in Tables, Structured(t), ~cut'
    PROVE  Structured(t)'
<1>1. ASSUME StartRun \/ EndRun \/ Fault \/ UNCHANGED vars
             \/ (\E u \in Tables : SourceDraws(u) \/ CorrectRows(u))
      PROVE  UNCHANGED <<target, sequence>>
  BY <1>1 DEF StartRun, EndRun, Fault, SourceDraws, CorrectRows, catalog, vars
<1>2. ASSUME NEW u \in Tables, TableStep(u) PROVE Structured(t)'
  <2>1. ~cut
    BY <1>2, CutStays
  <2>2. CASE u = t
    BY <1>2, <2>1, <2>2, KeptByWorker
  <2>3. CASE u # t
    BY <1>2, <2>3, OwnTable, Unaffected
  <2> QED
    BY <2>2, <2>3
<1> QED
  BY <1>1, <1>2, Unaffected DEF Next

\* Without a result cut short, no statement of a later run takes back what is as in
\* the source (reconcileTable, syncSequences, reconcileIndexes).
THEOREM Kept == Spec => StaysStructured
<1>1. TypeOK /\ Inv /\ [Next]_vars
        => [\A t \in Tables : Structured(t) /\ ~cut' => Structured(t)']_vars
  BY KeptByStep
<1> QED
  BY <1>1, Invariant, PTL DEF Spec, StaysStructured
=============================================================================
