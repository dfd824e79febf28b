----------------------------- MODULE SyncStages -----------------------------
(***************************************************************************)
(* The stages that Syncer.Full, Incremental and Validate go through, in    *)
(* order.  A stage is a call (database statements, one after the other) or *)
(* a pool (runMappings over a list of tables).                             *)
(***************************************************************************)
EXTENDS Sequences

CONSTANTS
    Levels,         \* dependencyLevels: a sequence of sequences of tables
    Configured,     \* the configured tables, in the order of the configuration
    Progress,       \* TRUE: a progress reporter is installed
    Strategy        \* full_strategy: "truncate", "delete" or "append"

\* There are tables, as Config.Validate asks, and the levels are of them, none of
\* them empty.
ASSUME StagesAssumption ==
    /\ Configured \in Seq(STRING) /\ Configured # <<>>
    /\ Levels \in Seq(Seq({Configured[i] : i \in DOMAIN Configured}))
    /\ Levels # <<>> /\ \A i \in DOMAIN Levels : Levels[i] # <<>>
    /\ Progress \in BOOLEAN
    /\ Strategy \in {"truncate", "delete", "append"}

Call(name) ==
    <<[name |-> name, pool |-> FALSE, tables |-> <<>>]>>

PoolOf(name, tables) == [name |-> name, pool |-> TRUE, tables |-> tables]
PerLevel(name) == [i \in DOMAIN Levels |-> PoolOf(name, Levels[i])]

\* COUNT(*) of every table for the progress bars, without levels.
Totals == IF Progress THEN <<PoolOf("totals", Configured)>> ELSE <<>>

\* cleanFullTargets makes no database call under "append".
Clean == IF Strategy = "append" THEN <<>> ELSE Call("clean")

\* Faulty variant of FullStages, for a mutant of PROJECT.json: the foreign keys
\* before the data, as in the incremental command.
FullKeysFirst ==
    Call("dependencies") \o PerLevel("prepare") \o Call("foreign keys") \o Totals
        \o Clean \o PerLevel("data") \o PerLevel("indexes")

FullStages ==
    Call("dependencies") \o PerLevel("prepare") \o Totals \o Clean
        \o PerLevel("data") \o Call("foreign keys") \o PerLevel("indexes")

\* Validate, of the schema command: one table after the other, in the order of
\* the configuration.
SchemaStages == [i \in DOMAIN Configured |-> Call("prepare")[1]]

IncrementalStages ==
    Call("dependencies") \o PerLevel("prepare") \o Call("foreign keys")
        \o Totals \o PerLevel("data")

StagesOf(command) ==
    CASE command = "full" -> FullStages
      [] command = "incremental" -> IncrementalStages
      [] command = "schema" -> SchemaStages
=============================================================================
