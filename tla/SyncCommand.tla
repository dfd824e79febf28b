---------------------------- MODULE SyncCommand ----------------------------
(***************************************************************************)
(* The execution of one command: the databases are opened, the stages run  *)
(* one after the other, the metrics are written and the databases closed.  *)
(* runMappings carries a stage out over a list of tables with a pool of    *)
(* workers, under a context that Ctrl+C, SIGTERM or a failing table        *)
(* cancels.                                                                *)
(*                                                                         *)
(* What a stage does to one table is abstracted to the connections it      *)
(* takes from the two bounded pools of database/sql and to its outcome: it *)
(* succeeds, fails by itself, or fails because its context is cancelled.   *)
(* A connection is never given under a cancelled context; an action past   *)
(* its last call may still succeed.                                        *)
(***************************************************************************)
EXTENDS Integers, Sequences, FiniteSets, SyncStages

CONSTANTS
    Commands,       \* the commands considered
    Parallelism,    \* table_parallelism
    Keyless,        \* the tables without a key
    Limits,         \* the values of max_open_conns considered, 0 for no limit
    MaxFaults       \* bound: calls and actions that fail by themselves

ASSUME CommandsAssumption == Commands \subseteq {"full", "incremental", "schema"}
ASSUME ParallelismAssumption == Parallelism \in Nat \ {0}
ASSUME LimitsAssumption ==
    Limits \subseteq Nat /\ MaxFaults \in Nat

VARIABLES
    command,        \* the command that was given
    limit,          \* max_open_conns of both databases
    phase,          \* "opening", "running", "closing" or "exited"
    stage,          \* the stage the command is at
    open,           \* the stage is a pool and runMappings is running
    jobs,           \* the channel of tables not taken yet
    at,             \* at[w]: "off", "selecting", "acting" or "returning"
    table,          \* table[w]: the table worker w took last
    step,           \* step[w]: how far w is in Connections
    error,          \* error[w]: "none", or how the body of w's action failed
    bar,            \* bar[t]: the progress bar of table t
    interrupted,    \* the command's context is cancelled
    stopped,        \* runMappings called cancel() on its own context
    firstErr,       \* "none", or the kind of error: "own" or "context"
    finished,       \* <<i, t>>: the action of stage i succeeded on table t
    counted,        \* the tables with an error in the metrics
    written,        \* <<>>, or <<the tables with an error in the metrics file>>
    result,         \* "running", "ok", "own" or "context"
    exit,           \* the same of the process, or "metrics" or "close"
    faults          \* actions and calls that failed by themselves

worker == <<jobs, at, table, step, error, bar, counted>>
pool == <<worker, stopped, firstErr, finished>>
given == <<command, limit>>
ending == <<phase, written, exit>>
vars == <<given, ending, stage, open, pool, interrupted, result, faults>>

Workers == 1 .. Parallelism
Tables == {Configured[i] : i \in DOMAIN Configured}
Stages == StagesOf(command)
Here == Stages[stage].name
Running == phase = "running" /\ result = "running"

\* The context runMappings derives and gives to the actions.
Cancelled == interrupted \/ stopped

\* Go on to the next stage, or return nil after the last one.
Advance ==
    /\ stage' = stage + 1
    /\ result' = IF stage = Len(Stages) THEN "ok" ELSE result

FaultHappens == faults < MaxFaults /\ faults' = faults + 1

\* A call fails by itself, or because its context, cancelled if c, is.
FailsAs(kind, c) ==
    \/ kind = "own" /\ FaultHappens
    \/ kind = "context" /\ c /\ UNCHANGED faults

-----------------------------------------------------------------------------
(* The databases are opened and pinged; then the calls of the command. *)

Open ==
    /\ phase = "opening" /\ ~interrupted
    /\ phase' = "running"
    /\ UNCHANGED <<given, stage, open, pool, interrupted, written, result,
                   exit, faults>>

OpenFails ==
    /\ phase = "opening"
    /\ \E kind \in {"own", "context"} :
          FailsAs(kind, interrupted) /\ result' = kind /\ exit' = kind
    /\ phase' = "exited"
    /\ UNCHANGED <<given, stage, open, pool, interrupted, written>>

CallSucceeds ==
    /\ Running /\ ~Stages[stage].pool
    /\ ~interrupted
    /\ Advance
    /\ UNCHANGED <<given, ending, open, pool, interrupted, faults>>

CallFails ==
    /\ Running /\ ~Stages[stage].pool
    /\ \E kind \in {"own", "context"} :
          FailsAs(kind, interrupted) /\ result' = kind
    /\ UNCHANGED <<given, ending, stage, open, pool, interrupted>>

-----------------------------------------------------------------------------
(* runMappings. *)

\* The job channel is filled and closed, the context derived, the workers
\* started: never more workers than tables.
OpenPool ==
    /\ Running /\ ~open /\ Stages[stage].pool
    /\ open' = TRUE
    /\ jobs' = Stages[stage].tables
    /\ at' = [w \in Workers |->
                 IF w <= Len(Stages[stage].tables) THEN "selecting" ELSE "off"]
    /\ stopped' = FALSE
    /\ firstErr' = "none"
    /\ UNCHANGED <<given, ending, stage, table, step, error, bar, counted,
                   interrupted, finished, result, faults>>

\* The progress bar of a table goes on to the state s, in the data stage.
Bars(t, s) ==
    bar' = IF Progress /\ Here = "data" THEN [bar EXCEPT ![t] = s] ELSE bar

\* select: a job is received, and its action starts. When the context is
\* cancelled as well, either case may be chosen.
TakeJob(w) ==
    /\ at[w] = "selecting"
    /\ jobs # <<>>
    /\ jobs' = Tail(jobs)
    /\ at' = [at EXCEPT ![w] = "acting"]
    /\ table' = [table EXCEPT ![w] = Head(jobs)]
    /\ step' = [step EXCEPT ![w] = 0]
    /\ Bars(Head(jobs), "running")
    /\ UNCHANGED <<given, ending, stage, open, error, counted, interrupted,
                   stopped, firstErr, finished, result, faults>>

MayLeave == Cancelled \/ jobs = <<>>

\* select: ctx.Done(), or the channel is empty and closed.
LeavePool(w) ==
    /\ at[w] = "selecting"
    /\ MayLeave
    /\ at' = [at EXCEPT ![w] = "off"]
    /\ UNCHANGED <<given, ending, stage, open, jobs, table, step, error, bar,
                   counted, interrupted, stopped, firstErr, finished, result,
                   faults>>

\* Faulty variant of Connections, for a mutant of PROJECT.json: the transaction of
\* a keyed table is begun before its rows are read.
TargetFirst(t) ==
    CASE Here = "prepare" -> <<{"source"}, {"target"}>>
      [] Here = "totals" -> <<{"source"}>>
      [] Here = "indexes" -> <<{"target"}>>
      [] OTHER -> IF t \in Keyless THEN <<{"source"}, {"source", "target"}>>
                                   ELSE <<{"target"}, {"source", "target"}>>

\* The connections the action of this stage on table t holds, one set after
\* the other. The rows of a copy, and of a cursor group of a table without a
\* key, stay open while they are written.
Connections(t) ==
    CASE Here = "prepare" -> <<{"source"}, {"target"}>>
      [] Here = "totals" -> <<{"source"}>>
      [] Here = "indexes" -> <<{"target"}>>
      [] OTHER -> IF command = "full" \/ t \in Keyless
                  THEN <<{"source"}, {"source", "target"}>>
                  ELSE <<{"source"}, {"target"}>>

HeldBy(w) ==
    IF at[w] = "acting" /\ step[w] > 0 THEN Connections(table[w])[step[w]] ELSE {}

\* The pool of db gives a connection: one is idle, or below the limit.
Available(db) ==
    limit = 0 \/ Cardinality({w \in Workers : db \in HeldBy(w)}) < limit

\* The action goes on to its next connections, and waits while none is free.
Connect(w) ==
    /\ at[w] = "acting" /\ step[w] < Len(Connections(table[w]))
    /\ ~Cancelled
    /\ \A db \in Connections(table[w])[step[w] + 1] \ HeldBy(w) : Available(db)
    /\ step' = [step EXCEPT ![w] = @ + 1]
    /\ UNCHANGED <<given, ending, stage, open, jobs, at, table, error, bar,
                   counted, interrupted, stopped, firstErr, finished, result,
                   faults>>

\* No call is left to make: all are made; or no index is missing in the target;
\* or the first read, with a connection it gives back, finds nothing new.
MayEnd(w) ==
    \/ step[w] = Len(Connections(table[w]))
    \/ Here = "indexes"
    \/ /\ command = "incremental" /\ Here = "data" /\ step[w] = 0
       /\ ~Cancelled /\ Available("source")

\* The body of the action ends, with its transaction, its rows and its bar.
EndBody(w) ==
    /\ at[w] = "acting"
    /\ at' = [at EXCEPT ![w] = "returning"]
    /\ \/ /\ MayEnd(w)
          /\ error' = [error EXCEPT ![w] = "none"]
          /\ Bars(table[w], "done")
          /\ UNCHANGED faults
       \/ /\ \E kind \in {"own", "context"} :
                FailsAs(kind, Cancelled) /\ error' = [error EXCEPT ![w] = kind]
          /\ Bars(table[w], "failed")
    /\ UNCHANGED <<given, ending, stage, open, jobs, table, step, counted,
                   interrupted, stopped, firstErr, finished, result>>

\* Nothing more fails: the action returns nil.
ActionSucceeds(w) ==
    /\ at[w] = "returning" /\ error[w] = "none"
    /\ at' = [at EXCEPT ![w] = "selecting"]
    /\ finished' = finished \union {<<stage, table[w]>>}
    /\ UNCHANGED <<given, ending, stage, open, jobs, table, step, error, bar,
                   counted, interrupted, stopped, firstErr, result, faults>>

\* Faulty variants: the last error is kept, or none.
LastError(kind) == kind
NoError(kind) == "none"

\* firstErr after an action has failed.
KeptError(kind) == IF firstErr = "none" THEN kind ELSE firstErr

\* Faulty variant: an error of the context is not counted.
CountedOwn(w, kind) ==
    IF Here = "data" /\ kind = "own" THEN counted \union {table[w]} ELSE counted

\* The metrics after the action of w has failed.
CountedError(w, kind) ==
    IF Here = "data" THEN counted \union {table[w]} ELSE counted

\* The body failed, or it did not and the deferred flush of the checkpoints
\* fails. The error is counted; under errorMu the first one is kept and the
\* context cancelled.
ActionFails(w) ==
    /\ at[w] = "returning"
    /\ at' = [at EXCEPT ![w] = "off"]
    /\ \E kind \in {"own", "context"} :
          /\ IF error[w] # "none"
             THEN kind = error[w] /\ UNCHANGED faults
             ELSE /\ command = "incremental" /\ Here = "data"
                  /\ FailsAs(kind, FALSE)
          /\ counted' = CountedError(w, kind)
          /\ firstErr' = KeptError(kind)
    /\ stopped' = TRUE
    /\ UNCHANGED <<given, ending, stage, open, jobs, table, step, error, bar,
                   interrupted, finished, result>>

\* Faulty variants: not to wait after an error, or only for the queue.
AllOffOrFailed == firstErr # "none" \/ \A w \in Workers : at[w] = "off"
QueueEmpty == jobs = <<>>

\* wg.Wait() is over.
AllOff == \A w \in Workers : at[w] = "off"

\* firstErr is returned, and an error ends the command.
ClosePool ==
    /\ open
    /\ AllOff
    /\ open' = FALSE
    /\ IF firstErr = "none" THEN Advance
                            ELSE result' = firstErr /\ UNCHANGED stage
    /\ UNCHANGED <<given, ending, pool, interrupted, faults>>

-----------------------------------------------------------------------------
(* The end of the process. *)

\* The deferred Finish of the progress reporter waits until every bar has
\* ended; then the metrics are written, whatever the result.
WriteMetrics ==
    /\ phase = "running" /\ result # "running"
    /\ \A t \in Tables : bar[t] # "running"
    /\ phase' = "closing"
    /\ \/ /\ written' = <<counted>>
          /\ exit' = result
          /\ UNCHANGED faults
       \/ /\ FaultHappens
          /\ exit' = IF result = "ok" THEN "metrics" ELSE result
          /\ UNCHANGED written
    /\ UNCHANGED <<given, stage, open, pool, interrupted, result>>

\* The deferred Close: its error is returned when there is no other.
Close ==
    /\ phase = "closing"
    /\ phase' = "exited"
    /\ \/ UNCHANGED <<exit, faults>>
       \/ FaultHappens /\ exit' = IF exit = "ok" THEN "close" ELSE exit
    /\ UNCHANGED <<given, stage, open, pool, interrupted, written, result>>

Interrupt ==
    /\ phase # "exited" /\ ~interrupted
    /\ interrupted' = TRUE
    /\ UNCHANGED <<given, ending, stage, open, pool, result, faults>>

-----------------------------------------------------------------------------
Init ==
    /\ command \in Commands
    /\ limit \in Limits
    /\ phase = "opening"
    /\ stage = 1
    /\ open = FALSE
    /\ jobs = <<>>
    /\ at = [w \in Workers |-> "off"]
    /\ table = [w \in Workers |-> "none"]
    /\ step = [w \in Workers |-> 0]
    /\ error = [w \in Workers |-> "none"]
    /\ bar = [t \in Tables |-> "none"]
    /\ interrupted = FALSE
    /\ stopped = FALSE
    /\ firstErr = "none"
    /\ finished = {}
    /\ counted = {}
    /\ written = <<>>
    /\ result = "running"
    /\ exit = "running"
    /\ faults = 0

WorkerStep(w) ==
    \/ TakeJob(w) \/ LeavePool(w) \/ Connect(w)
    \/ EndBody(w) \/ ActionSucceeds(w) \/ ActionFails(w)

MainStep ==
    \/ Open \/ OpenFails
    \/ CallSucceeds \/ CallFails
    \/ OpenPool \/ ClosePool
    \/ WriteMetrics \/ Close

Next == MainStep \/ (\E w \in Workers : WorkerStep(w)) \/ Interrupt

Spec == Init /\ [][Next]_vars

\* Goroutines run, and every database call that has its connection returns.
\* Nothing is owed a failure: a wait that only a fault would end is a deadlock.
FairSpec ==
    /\ Spec
    /\ WF_vars(MainStep /\ UNCHANGED faults)
    /\ \A w \in Workers : WF_vars(WorkerStep(w) /\ UNCHANGED faults)

-----------------------------------------------------------------------------
(* Properties. *)

\* Type invariant.
TypeOK ==
    /\ command \in Commands
    /\ limit \in Limits
    /\ phase \in {"opening", "running", "closing", "exited"}
    /\ stage \in 1 .. Len(Stages) + 1
    /\ open \in BOOLEAN
    /\ jobs \in Seq(Tables)
    /\ at \in [Workers -> {"off", "selecting", "acting", "returning"}]
    /\ table \in [Workers -> Tables \union {"none"}]
    /\ step \in [Workers -> 0 .. 2]
    /\ error \in [Workers -> {"none", "own", "context"}]
    /\ bar \in [Tables -> {"none", "running", "done", "failed"}]
    /\ interrupted \in BOOLEAN
    /\ stopped \in BOOLEAN
    /\ firstErr \in {"none", "own", "context"}
    /\ finished \subseteq (DOMAIN Stages) \X Tables
    /\ counted \subseteq Tables
    /\ written \in {<<>>} \union {<<failed>> : failed \in SUBSET Tables}
    /\ result \in {"running", "ok", "own", "context"}
    /\ exit \in {"running", "ok", "own", "context", "metrics", "close"}
    /\ faults \in 0 .. MaxFaults

\* Stage i is complete: its action succeeded on every one of its tables.
StageComplete(i) ==
    \A j \in DOMAIN Stages[i].tables : <<i, Stages[i].tables[j]>> \in finished

\* A child table is never synchronised before its parents, and no table before
\* every table's structure is prepared: an action reaches a database only when
\* all earlier pools (all earlier dependency levels among them) are complete.
ConnectsInOrder ==
    \A w \in Workers :
        HeldBy(w) # {} => \A i \in 1 .. stage - 1 : StageComplete(i)

\* No goroutine outlives the command: when the metrics are written and the
\* databases closed, no action is in flight that still uses a connection,
\* counts an error or draws its bar.
NoActionAfterReturn ==
    phase \in {"closing", "exited"} =>
        \A w \in Workers : at[w] \notin {"acting", "returning"}

\* The error reported is the cause and not its echo: siblings that fail because
\* a failing table cancelled them never hide that table's error, and neither do
\* the metrics or the databases that fail to close.
RootCause ==
    /\ exit = "context" => interrupted
    /\ exit \in {"metrics", "close"} => result = "ok"

\* A command that reports success and was not interrupted has done every stage
\* on every table, and no bar shows a table that failed or is not done.
SuccessIsComplete ==
    exit = "ok" /\ ~interrupted =>
        /\ \A i \in DOMAIN Stages : StageComplete(i)
        /\ \A i \in DOMAIN Stages : Stages[i].name = "data" /\ Progress =>
              \A j \in DOMAIN Stages[i].tables : bar[Stages[i].tables[j]] = "done"

\* The metrics and the result agree: the metrics show an error exactly when the
\* command failed while it synchronised data.
ErrorsAreCounted ==
    written # <<>> =>
        (written[1] # {} <=> result # "ok" /\ Stages[stage].name = "data")

\* A command that reports success has copied the data of every table.
SuccessCopiedData ==
    exit = "ok" =>
        \A i \in DOMAIN Stages : Stages[i].name = "data" => StageComplete(i)

\* The same of the full command, interrupted or not: database calls come after
\* the data, and they fail once the context is cancelled.
FullCopiedData == command = "full" => SuccessCopiedData

\* The configuration names no table twice, and no level does.
Repeats(tables) == \E i, j \in DOMAIN tables : i # j /\ tables[i] = tables[j]
NoRepeats == ~Repeats(Configured) /\ \A i \in DOMAIN Levels : ~Repeats(Levels[i])

\* No two workers are ever at one table: what the modules of the single tables
\* take for granted.
OneWorkerPerTable ==
    \A v, w \in Workers :
        /\ v # w
        /\ at[v] \in {"acting", "returning"} /\ at[w] \in {"acting", "returning"}
        => table[v] # table[w]

\* The main goroutine has a step to take that is no failure: a call to make, a
\* pool to start, or nothing left to wait for.
MainMayGo ==
    \/ phase \in {"opening", "closing"}
    \/ Running /\ (Stages[stage].pool => ~open \/ AllOff)
    \/ phase = "running" /\ result # "running" /\ \A t \in Tables : bar[t] # "running"

\* So has worker w: its action waits for no connection, or is cancelled.
WorkerMayGo(w) ==
    \/ at[w] \in {"selecting", "returning"}
    \/ /\ at[w] = "acting"
       /\ \/ Cancelled
          \/ MayEnd(w)
          \/ \A db \in Connections(table[w])[step[w] + 1] \ HeldBy(w) : Available(db)

\* Nobody waits for everybody: until the process has exited, the main goroutine
\* or a worker can go on by itself, with any number of workers on any number of
\* connections, one included.
NeverStuck == phase # "exited" => MainMayGo \/ \E w \in Workers : WorkerMayGo(w)

\* How much is left: stages and the end of the process, which the main goroutine
\* goes through, and within a stage the tables in the channel and the steps of the
\* workers, as the set of <<worker, step>> still to be taken.
EndsLeft ==
    CASE phase = "opening" -> 3
      [] phase = "running" -> 2
      [] phase = "closing" -> 1
      [] OTHER -> 0
CallsLeft ==
    2 * (Len(Stages) + 1 - stage) + (IF open THEN 0 ELSE 1) + EndsLeft
        + (IF result = "running" THEN 2 ELSE 0) + (IF interrupted THEN 0 ELSE 1)
StepsLeft(w) ==
    CASE at[w] = "acting"    -> 5 - step[w]
      [] at[w] = "returning" -> 2
      [] at[w] = "selecting" -> 1
      [] OTHER               -> 0
StepsToTake == {m \in Workers \X (1 .. 5) : m[2] <= StepsLeft(m[1])}
WorkLeft == 5 * Len(jobs) + Cardinality(StepsToTake)

\* Every step, of whichever goroutine and whether it succeeds or fails, leaves
\* less: the main goroutine has less to go through, or as much and the workers
\* less. So no schedule keeps a command going for ever; with NeverStuck it ends.
GetsOn ==
    [][/\ CallsLeft' \in Nat /\ WorkLeft' \in Nat
       /\ \/ CallsLeft' < CallsLeft
          \/ CallsLeft' = CallsLeft /\ WorkLeft' < WorkLeft]_vars

\* The command ends, whatever fails and whenever it is interrupted, with pools
\* of connections smaller than the workers that take two of them each.
CommandReturns == <>(phase = "exited")
=============================================================================
