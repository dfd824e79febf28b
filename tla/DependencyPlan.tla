--------------------------- MODULE DependencyPlan ---------------------------
(***************************************************************************)
(* The order in which tables are synchronised: Syncer.dependencyLevels     *)
(* reads the foreign keys of every configured table from the source and    *)
(* topologicalLevels splits the tables into levels, so that a table comes  *)
(* after the tables it refers to.                                          *)
(*                                                                         *)
(* A table is named by its source table: the maps of the code are keyed by *)
(* schema and name of the source.                                          *)
(***************************************************************************)
EXTENDS Integers, Sequences, FiniteSets

CONSTANTS
    Tables,         \* the source tables that exist, configured or not
    Order,          \* the source table of each configured mapping, in order
    MaxLost         \* bound: foreign key results cut short by a lost connection

ASSUME OrderAssumption == Order \in Seq(Tables)
ASSUME LostAssumption == MaxLost \in Nat

VARIABLES
    refers,     \* the foreign keys: refers[t], the tables source table t refers to
    toRead,     \* the configured tables whose foreign keys are still to read
    deps,       \* dependencies: deps[t], the configured tables t has to wait for
    remaining,  \* the tables that are in no level yet
    levels,     \* the levels so far
    outcome,    \* "reading", "sorting", "planned", "cycle" or "failed"
    lost        \* results cut short so far

vars == <<refers, toRead, deps, remaining, levels, outcome, lost>>

\* A mapping is its position in the configuration. A level is the set of the
\* positions it was built from; the code appends them in increasing order.
Mappings == DOMAIN Order
Configured == {Order[m] : m \in Mappings}

\* The mapping that a level's position m stands for: mappings[key] holds the
\* last configured mapping of a source table.
MappingAt(m) ==
    CHOOSE n \in Mappings :
        /\ Order[n] = Order[m]
        /\ \A k \in Mappings : Order[k] = Order[m] => k <= n

\* Faulty variant of the definition that follows, for the mutants of
\* PROJECT.json: self-references kept.
WithItself(t, S) == S \intersect Configured

\* The configured tables other than t itself among S.
Relevant(t, S) == (S \intersect Configured) \ {t}

-----------------------------------------------------------------------------
Init ==
    /\ refers \in [Configured -> SUBSET Tables]
    /\ toRead = Configured
    /\ deps = [t \in Configured |-> {}]
    /\ remaining = Configured
    /\ levels = <<>>
    /\ outcome = "reading"
    /\ lost = 0

\* The foreign key query of one table, in map order, with all its rows.
ReadForeignKeys ==
    /\ outcome = "reading"
    /\ \E t \in toRead :
          /\ deps' = [deps EXCEPT ![t] = Relevant(t, refers[t])]
          /\ toRead' = toRead \ {t}
    /\ UNCHANGED <<refers, remaining, levels, outcome, lost>>

\* The connection is lost while the rows are read: rows.Next() returns FALSE,
\* rows.Close() has nothing to report, and the rows read so far are taken for
\* all there are.
ReadCutShort ==
    /\ outcome = "reading"
    /\ lost < MaxLost
    /\ lost' = lost + 1
    /\ \E t \in toRead : \E S \in SUBSET refers[t] :
          /\ deps' = [deps EXCEPT ![t] = Relevant(t, S)]
          /\ toRead' = toRead \ {t}
    /\ UNCHANGED <<refers, remaining, levels, outcome>>

\* The query itself returns an error, which ends the command.
ReadFails ==
    /\ outcome = "reading"
    /\ toRead # {}
    /\ lost < MaxLost
    /\ lost' = lost + 1
    /\ outcome' = "failed"
    /\ UNCHANGED <<refers, toRead, deps, remaining, levels>>

StartSorting ==
    /\ outcome = "reading"
    /\ toRead = {}
    /\ outcome' = "sorting"
    /\ UNCHANGED <<refers, toRead, deps, remaining, levels, lost>>

\* Faulty variants: one dependency done is enough; placed tables are looked at
\* again; one table in a round.
SomeDone(t) == t \in remaining /\ (deps[t] = {} \/ deps[t] \ remaining # {})
ReadyAgain(t) == deps[t] \intersect remaining = {}
FirstReady(t) ==
    /\ t \in remaining
    /\ deps[t] \intersect remaining = {}
    /\ \A m \in Mappings :
          Order[m] \in remaining /\ deps[Order[m]] \intersect remaining = {}
              => \E n \in 1 .. m : Order[n] = t

\* A table is ready when none of its dependencies remains.
Ready(t) == t \in remaining /\ deps[t] \intersect remaining = {}

\* One round of topologicalLevels: the ready tables are the next level.
NextLevel ==
    /\ outcome = "sorting"
    /\ \E t \in remaining : Ready(t)
    /\ levels' = Append(levels, {m \in Mappings : Ready(Order[m])})
    /\ remaining' = {t \in remaining : ~Ready(t)}
    /\ UNCHANGED <<refers, toRead, deps, outcome, lost>>

\* Faulty variant: a level without tables is not noticed.
NeverStuck == FALSE

\* The round found no table.
Stuck == remaining # {} /\ \A t \in remaining : ~Ready(t)

ReportCycle ==
    /\ outcome = "sorting"
    /\ Stuck
    /\ outcome' = "cycle"
    /\ UNCHANGED <<refers, toRead, deps, remaining, levels, lost>>

Finish ==
    /\ outcome = "sorting"
    /\ remaining = {}
    /\ outcome' = "planned"
    /\ UNCHANGED <<refers, toRead, deps, remaining, levels, lost>>

Next ==
    \/ ReadForeignKeys \/ ReadCutShort \/ ReadFails \/ StartSorting
    \/ NextLevel \/ ReportCycle \/ Finish

Spec == Init /\ [][Next]_vars
FairSpec == Spec /\ WF_vars(Next)

-----------------------------------------------------------------------------
(* Properties. *)

\* The tables of level i.
Level(i) == {Order[m] : m \in levels[i]}

\* Type invariant.
TypeOK ==
    /\ refers \in [Configured -> SUBSET Tables]
    /\ toRead \subseteq Configured
    /\ deps \in [Configured -> SUBSET Configured]
    /\ remaining \subseteq Configured
    /\ levels \in Seq(SUBSET Mappings)
    /\ outcome \in {"reading", "sorting", "planned", "cycle", "failed"}
    /\ lost \in 0 .. MaxLost

\* What the plan knows it respects: a table is placed in a later level than
\* every dependency that was read, whatever the graph and the order of the
\* configuration.
ReadParentsEarlier ==
    \A i \in DOMAIN levels : \A t \in Level(i) :
        \A p \in deps[t] : \E h \in 1 .. i - 1 : p \in Level(h)

\* A child is never synchronised before or beside its parent: a table is in a
\* later level than every configured table that it refers to in the source.
ParentsEarlier ==
    \A i \in DOMAIN levels : \A t \in Level(i) :
        \A p \in Relevant(t, refers[t]) : \E h \in 1 .. i - 1 : p \in Level(h)

\* Each configured mapping is carried out once: none is left out, and none is
\* done twice, at the same time or one after the other.
EveryMappingOnce ==
    outcome = "planned" =>
        \A n \in Mappings :
            \E i \in DOMAIN levels :
                /\ \E m \in levels[i] :
                      /\ MappingAt(m) = n
                      /\ \A k \in levels[i] : MappingAt(k) = n => k = m
                /\ \A h \in (DOMAIN levels) \ {i} :
                      \A m \in levels[h] : MappingAt(m) # n

\* Every table a cycle is reported for waits for another of them, so no order
\* of these tables respects their foreign keys.
CycleIsReal ==
    outcome = "cycle" =>
        /\ remaining # {}
        /\ \A t \in remaining : \E p \in remaining : p # t /\ p \in refers[t]

\* The plan has as few barriers as the foreign keys allow: each table of a
\* level after the first refers to a table of the level just before.
LevelsTight ==
    \A i \in DOMAIN levels : i > 1 =>
        \A t \in Level(i) : \E p \in Level(i - 1) : p \in refers[t]

\* What the callers of dependencyLevels build on. A plan gives every table one
\* level and, when no result was cut short, a level before it to every
\* configured table that it refers to: the assumption about levels that
\* FullSync makes, which copies and cleans a level at a time.
PlanServes ==
    outcome = "planned" /\ lost = 0 =>
        \E levelOf \in [Configured -> DOMAIN levels] :
            /\ \A t \in Configured : \A i \in DOMAIN levels :
                  t \in Level(i) <=> i = levelOf[t]
            /\ \A t \in Configured : \A p \in Relevant(t, refers[t]) :
                  levelOf[p] < levelOf[t]

\* No level is without work, so no stage of a command is one without tables:
\* what SyncStages assumes of the levels.
LevelsWork ==
    /\ \A i \in DOMAIN levels : levels[i] # {}
    /\ outcome = "planned" /\ Order # <<>> => levels # <<>>

\* How much is left to do. Every step of the planning makes it less, so the
\* rounds of topologicalLevels cannot go on for ever, whatever the graph.
LeftToDo ==
    LET phase == CASE outcome = "reading" -> 2
                   [] outcome = "sorting" -> 1
                   [] OTHER -> 0
    IN  Cardinality(toRead) + Cardinality(remaining) + phase
GetsOn == [][LeftToDo' \in Nat /\ LeftToDo' < LeftToDo]_vars

\* Planning ends in a plan or an error.
PlanningEnds == <>(outcome \in {"planned", "cycle", "failed"})

-----------------------------------------------------------------------------
(* The inductive invariants from which DependencyPlanProofs proves the     *)
(* safety properties above.                                                *)

\* Levels are made only once every foreign key has been read.
ReadFirst ==
    /\ outcome \in {"reading", "failed"} => levels = <<>>
    /\ outcome = "reading" => remaining = Configured
    /\ outcome \in {"sorting", "planned", "cycle"} => toRead = {}

\* What was read is in the source, and all of it if no result was cut short.
DepsRead ==
    /\ \A t \in Configured : deps[t] \subseteq Relevant(t, refers[t])
    /\ lost = 0 => \A t \in Configured \ toRead : deps[t] = Relevant(t, refers[t])

\* A table's mappings are in one level when it has left remaining, else in none.
Placed ==
    /\ \A i \in DOMAIN levels : \A m \in levels[i] : Order[m] \notin remaining
    /\ \A m \in Mappings : Order[m] \notin remaining =>
           \E i \in DOMAIN levels : m \in levels[i]
    /\ \A i, h \in DOMAIN levels : \A m \in levels[i], n \in levels[h] :
           Order[m] = Order[n] => i = h

\* A table that remains waits for one that remains or is in the last level.
Waiting ==
    levels # <<>> =>
        \A t \in remaining :
            \E p \in deps[t] : p \in remaining \/ p \in Level(Len(levels))

\* LevelsTight, of the foreign keys that were read.
ReadTight ==
    \A i \in DOMAIN levels : i > 1 =>
        \A t \in Level(i) : \E p \in Level(i - 1) : p \in deps[t]

\* At a cycle and at the end of the plan.
AtEnd ==
    /\ outcome = "cycle" =>
           remaining # {} /\ \A t \in remaining : deps[t] \cap remaining # {}
    /\ outcome = "planned" => remaining = {}

PlanInv ==
    /\ ReadFirst /\ DepsRead /\ Placed /\ Waiting /\ ReadTight /\ AtEnd
    /\ ReadParentsEarlier
=============================================================================
