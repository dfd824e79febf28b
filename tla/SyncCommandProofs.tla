------------------------- MODULE SyncCommandProofs -------------------------
(***************************************************************************)
(* Proofs about SyncCommand, for any configuration and levels, any number  *)
(* of workers, connections and faults.                                     *)
(***************************************************************************)
EXTENDS SyncCommand, SequenceTheorems, FiniteSetTheorems, TLAPS

-----------------------------------------------------------------------------
(* Lemmas about the stages of the commands. *)

Names == {"dependencies", "prepare", "totals", "clean", "data", "foreign keys",
          "indexes"}

\* What a stage is carried out over: nothing, all tables, or a level.
Lists == {<<>>, Configured} \union {Levels[i] : i \in DOMAIN Levels}

\* A stage: a call has no tables and does not copy data.
Stage == {s \in [name : Names, pool : BOOLEAN, tables : Lists] :
             ~s.pool => s.tables = <<>> /\ s.name # "data"}

LEMMA ListsType == Lists \subseteq Seq(Tables)
<1>1. Configured \in [1 .. Len(Configured) -> Tables] /\ Len(Configured) \in Nat
  BY StagesAssumption, LenProperties DEF Tables
<1>2. Configured \in Seq(Tables)
  BY <1>1, SeqDef
<1>3. \A i \in DOMAIN Levels : Levels[i] \in Seq(Tables)
  BY StagesAssumption, LenProperties, ElementOfSeq DEF Tables
<1> QED
  BY <1>2, <1>3, EmptySeq DEF Lists

\* A function on 1 .. n is a sequence.
LEMMA FunctionIsSeq ==
    ASSUME NEW S, NEW n \in Nat, NEW s \in [1 .. n -> S]
    PROVE  s \in Seq(S) /\ Len(s) = n
<1>1. s \in Seq(S)
  BY SeqDef
<1>2. DOMAIN s = 1 .. Len(s) /\ Len(s) \in Nat
  BY <1>1, LenProperties
<1> QED
  BY <1>1, <1>2

\* A call is a list of one stage, and is no pool.
LEMMA CallType ==
    ASSUME NEW name \in Names, name # "data"
    PROVE  /\ Call(name) \in Seq(Stage)
           /\ Len(Call(name)) = 1 /\ Len(Call(name)) >= 1
           /\ ~Call(name)[1].pool
<1>1. [name |-> name, pool |-> FALSE, tables |-> <<>>] \in Stage
  BY EmptySeq DEF Stage, Lists
<1> QED
  BY <1>1 DEF Call

\* A pool is a stage.
LEMMA PoolType ==
    ASSUME NEW name \in Names, NEW tables \in Lists
    PROVE  PoolOf(name, tables) \in Stage /\ PoolOf(name, tables).name = name
BY DEF PoolOf, Stage

\* A list of one stage, or of none.
LEMMA OneStage ==
    ASSUME NEW s \in Stage
    PROVE  /\ <<s>> \in Seq(Stage) /\ Len(<<s>>) = 1 /\ <<s>>[1] = s
           /\ <<>> \in Seq(Stage) /\ Len(<<>>) = 0
BY EmptySeq

\* One pool for each level.
LEMMA LevelsType ==
    ASSUME NEW name \in Names
    PROVE  /\ PerLevel(name) \in Seq(Stage)
           /\ \A i \in 1 .. Len(PerLevel(name)) : PerLevel(name)[i].name = name
<1>1. DOMAIN Levels = 1 .. Len(Levels) /\ Len(Levels) \in Nat
  BY StagesAssumption, LenProperties
<1>2. ASSUME NEW i \in DOMAIN Levels PROVE PoolOf(name, Levels[i]) \in Stage
  <2>1. Levels[i] \in Lists
    BY DEF Lists
  <2> QED
    BY <2>1, PoolType
<1>3. PerLevel(name) \in [1 .. Len(Levels) -> Stage]
  BY <1>1, <1>2 DEF PerLevel
<1>4. PerLevel(name) \in Seq(Stage) /\ Len(PerLevel(name)) = Len(Levels)
  BY <1>1, <1>3, FunctionIsSeq
<1> QED
  BY <1>1, <1>4 DEF PerLevel, PoolOf

\* What comes before the data or between, if anything.
LEMMA OthersType ==
    /\ Totals \in Seq(Stage) /\ Clean \in Seq(Stage)
    /\ \A i \in 1 .. Len(Totals) : Totals[i].name = "totals"
    /\ \A i \in 1 .. Len(Clean) : Clean[i].name = "clean"
<1>1. Configured \in Lists
  BY DEF Lists
<1>2. "totals" \in Names /\ "clean" \in Names
  BY DEF Names
<1>4. Totals \in Seq(Stage) /\ \A i \in 1 .. Len(Totals) : Totals[i].name = "totals"
  <2>1. CASE Progress
    <3>1. Totals = <<PoolOf("totals", Configured)>>
      BY <2>1 DEF Totals
    <3> QED
      BY <3>1, <1>1, <1>2, PoolType, OneStage
  <2>2. CASE ~Progress
    <3>1. Totals = <<>>
      BY <2>2 DEF Totals
    <3> QED
      BY <3>1, EmptySeq
  <2> QED
    BY <2>1, <2>2
<1>5. Call("clean") \in Seq(Stage) /\ Len(Call("clean")) = 1
      /\ Call("clean")[1].name = "clean"
  BY <1>2, CallType DEF Call
<1>6. Clean \in Seq(Stage) /\ \A i \in 1 .. Len(Clean) : Clean[i].name = "clean"
  <2>1. CASE Strategy = "append"
    <3>1. Clean = <<>>
      BY <2>1 DEF Clean
    <3> QED
      BY <3>1, EmptySeq
  <2>2. CASE Strategy # "append"
    <3>1. Clean = Call("clean")
      BY <2>2 DEF Clean
    <3> QED
      BY <3>1, <1>5
  <2> QED
    BY <2>1, <2>2
<1> QED
  BY <1>1, <1>4, <1>6

\* Two lists of stages, one after the other.
LEMMA Joined ==
    ASSUME NEW s \in Seq(Stage), NEW t \in Seq(Stage)
    PROVE  /\ s \o t \in Seq(Stage)
           /\ Len(s \o t) = Len(s) + Len(t)
           /\ Len(s) \in Nat /\ Len(t) \in Nat
           /\ \A i \in 1 .. Len(s) : (s \o t)[i] = s[i]
           /\ \A i \in 1 .. Len(t) : (s \o t)[Len(s) + i] = t[i]
           /\ \A i \in 1 .. Len(s) + Len(t) :
                 i <= Len(s) \/ i - Len(s) \in 1 .. Len(t)
BY ConcatProperties, LenProperties

LEMMA JoinedType ==
    ASSUME NEW s \in Seq(Stage), NEW t \in Seq(Stage), Len(s) >= 1
    PROVE  s \o t \in Seq(Stage) /\ Len(s \o t) >= 1
BY Joined

\* The full command: the list of its stages is not empty, and after every stage that
\* copies data there is a call, of the foreign keys.
LEMMA FullType ==
    /\ FullStages \in Seq(Stage) /\ Len(FullStages) >= 1
    /\ \A i \in 1 .. Len(FullStages) : FullStages[i].name = "data" =>
          \E k \in i + 1 .. Len(FullStages) : ~FullStages[k].pool
<1> DEFINE head == Call("dependencies") \o PerLevel("prepare") \o Totals \o Clean
                     \o PerLevel("data")
           keys == Call("foreign keys")
           tail == PerLevel("indexes")
<1>1. \A n \in {"dependencies", "prepare", "data", "foreign keys", "indexes"} : n \in Names
  BY DEF Names
<1>2. /\ Call("dependencies") \in Seq(Stage) /\ Len(Call("dependencies")) >= 1
      /\ keys \in Seq(Stage) /\ Len(keys) = 1 /\ ~keys[1].pool
  BY <1>1, CallType
<1>3. /\ PerLevel("prepare") \in Seq(Stage) /\ PerLevel("data") \in Seq(Stage)
      /\ tail \in Seq(Stage) /\ \A i \in 1 .. Len(tail) : tail[i].name = "indexes"
  BY <1>1, LevelsType
<1>4. head \in Seq(Stage) /\ Len(head) >= 1
  <2>1. /\ Call("dependencies") \o PerLevel("prepare") \in Seq(Stage)
        /\ Len(Call("dependencies") \o PerLevel("prepare")) >= 1
    BY <1>2, <1>3, JoinedType
  <2>2. /\ Call("dependencies") \o PerLevel("prepare") \o Totals \in Seq(Stage)
        /\ Len(Call("dependencies") \o PerLevel("prepare") \o Totals) >= 1
    BY <2>1, OthersType, JoinedType
  <2>3. /\ Call("dependencies") \o PerLevel("prepare") \o Totals \o Clean \in Seq(Stage)
        /\ Len(Call("dependencies") \o PerLevel("prepare") \o Totals \o Clean) >= 1
    BY <2>2, OthersType, JoinedType
  <2> QED
    BY <2>3, <1>3, JoinedType
<1> HIDE DEF head, keys, tail
<1> DEFINE front == head \o keys
<1>5. /\ front \in Seq(Stage) /\ Len(front) = Len(head) + 1 /\ Len(head) \in Nat
      /\ front[Len(head) + 1] = keys[1]
  <2>1. /\ head \o keys \in Seq(Stage)
        /\ Len(head \o keys) = Len(head) + Len(keys)
        /\ Len(head) \in Nat
        /\ \A i \in 1 .. Len(keys) : (head \o keys)[Len(head) + i] = keys[i]
    BY <1>2, <1>4, Joined, Zenon
  <2> QED
    BY <2>1, <1>2
<1>6. FullStages = front \o tail
  BY DEF FullStages, head, keys, tail
<1> HIDE DEF front
<1>7. /\ FullStages \in Seq(Stage)
      /\ Len(FullStages) = Len(head) + 1 + Len(tail)
      /\ Len(head) \in Nat /\ Len(tail) \in Nat
      /\ FullStages[Len(head) + 1] = keys[1]
      /\ \A i \in 1 .. Len(tail) : FullStages[Len(head) + 1 + i] = tail[i]
  <2>1. /\ front \o tail \in Seq(Stage)
        /\ Len(front \o tail) = Len(front) + Len(tail)
        /\ Len(tail) \in Nat
        /\ \A i \in 1 .. Len(front) : (front \o tail)[i] = front[i]
        /\ \A i \in 1 .. Len(tail) : (front \o tail)[Len(front) + i] = tail[i]
    BY <1>3, <1>5, Joined, Zenon
  <2> QED
    BY <2>1, <1>5, <1>6
<1>8. ASSUME NEW i \in 1 .. Len(FullStages), FullStages[i].name = "data"
      PROVE  \E k \in i + 1 .. Len(FullStages) : ~FullStages[k].pool
  <2>1. CASE i <= Len(head)
    <3>1. Len(head) + 1 \in i + 1 .. Len(FullStages)
      BY <2>1, <1>7
    <3> QED
      BY <3>1, <1>7, <1>2
  <2>2. CASE i = Len(head) + 1
    <3>1. FALSE
      BY <2>2, <1>8, <1>7, <1>2, ElementOfSeq DEF Stage
    <3> QED
      BY <3>1
  <2>3. CASE i > Len(head) + 1
    <3>1. i - (Len(head) + 1) \in 1 .. Len(tail)
      BY <2>3, <1>7
    <3>2. FullStages[i] = tail[i - (Len(head) + 1)]
      BY <3>1, <1>7
    <3> QED
      BY <3>1, <3>2, <1>3, <1>8
  <2> QED
    BY <2>1, <2>2, <2>3, <1>7
<1>9. FullStages \in Seq(Stage) /\ Len(FullStages) >= 1
  BY <1>7
<1> QED
  BY <1>8, <1>9, Zenon

\* The incremental command.
LEMMA IncrementalType ==
    IncrementalStages \in Seq(Stage) /\ Len(IncrementalStages) >= 1
<1>1. \A n \in {"dependencies", "prepare", "data", "foreign keys"} : n \in Names
  BY DEF Names
<1>2. /\ Call("dependencies") \in Seq(Stage) /\ Len(Call("dependencies")) >= 1
      /\ Call("foreign keys") \in Seq(Stage)
      /\ PerLevel("prepare") \in Seq(Stage) /\ PerLevel("data") \in Seq(Stage)
  BY <1>1, CallType, LevelsType
<1>3. /\ Call("dependencies") \o PerLevel("prepare") \in Seq(Stage)
      /\ Len(Call("dependencies") \o PerLevel("prepare")) >= 1
  BY <1>2, JoinedType
<1>4. /\ Call("dependencies") \o PerLevel("prepare") \o Call("foreign keys") \in Seq(Stage)
      /\ Len(Call("dependencies") \o PerLevel("prepare") \o Call("foreign keys")) >= 1
  BY <1>2, <1>3, JoinedType
<1>5. /\ Call("dependencies") \o PerLevel("prepare") \o Call("foreign keys") \o Totals
            \in Seq(Stage)
      /\ Len(Call("dependencies") \o PerLevel("prepare") \o Call("foreign keys") \o Totals) >= 1
  BY <1>4, OthersType, JoinedType
<1> QED
  BY <1>2, <1>5, JoinedType DEF IncrementalStages

\* The schema command.
LEMMA SchemaType == SchemaStages \in Seq(Stage) /\ Len(SchemaStages) >= 1
<1>1. DOMAIN Configured = 1 .. Len(Configured) /\ Len(Configured) \in Nat \ {0}
  BY StagesAssumption, LenProperties, EmptySeq
<1>2. Call("prepare") \in Seq(Stage) /\ Len(Call("prepare")) = 1
  BY CallType DEF Names
<1>3. Call("prepare")[1] \in Stage
  BY <1>2, ElementOfSeq
<1>4. SchemaStages \in [1 .. Len(Configured) -> Stage]
  BY <1>1, <1>3 DEF SchemaStages
<1> QED
  BY <1>1, <1>4, FunctionIsSeq

\* The stages of the command that was given.
LEMMA StagesType ==
    ASSUME command \in Commands
    PROVE  /\ Stages \in Seq(Stage) /\ Len(Stages) \in Nat \ {0}
           /\ DOMAIN Stages = 1 .. Len(Stages)
           /\ \A i \in 1 .. Len(Stages) : Stages[i] \in Stage
           /\ command = "full" =>
                 \A i \in 1 .. Len(Stages) : Stages[i].name = "data" =>
                    \E k \in i + 1 .. Len(Stages) : ~Stages[k].pool
<1>1. command \in {"full", "incremental", "schema"}
  BY CommandsAssumption
<1>2. Stages \in Seq(Stage) /\ Len(Stages) >= 1
  BY <1>1, FullType, IncrementalType, SchemaType DEF Stages, StagesOf
<1>3. command = "full" => Stages = FullStages
  BY DEF Stages, StagesOf
<1> QED
  BY <1>2, <1>3, FullType, LenProperties, ElementOfSeq

-----------------------------------------------------------------------------
(* The invariant. *)

\* A pool runs in a stage of the command, and workers only in a pool; a command that
\* has its result has no pool, and has no error before it has its result.
PoolInv ==
    /\ phase = "opening" => result = "running"
    /\ result # "ok" => stage <= Len(Stages)
    /\ result = "ok" => stage = Len(Stages) + 1
    /\ open => Running /\ Stages[stage].pool
    /\ ~open => \A w \in Workers : at[w] = "off"
    /\ phase \in {"closing", "exited"} => result # "running"
    /\ result = "running" /\ ~open => firstErr = "none"

\* An error of the context is kept only where no other came before, and then
\* the interrupt is its cause.
CauseInv ==
    /\ stopped <=> firstErr # "none"
    /\ \A w \in Workers : at[w] = "returning" /\ error[w] = "context" => Cancelled
    /\ "context" \in {firstErr, result, exit} => interrupted
    /\ exit \in {"ok", "metrics", "close"} => result = "ok"

\* Where tables are while a pool runs that nothing has cancelled.
Queued(t) == \E i \in 1 .. Len(jobs) : jobs[i] = t
InWork(w) == at[w] \in {"acting", "returning"}
WorkInv ==
    /\ \A w \in Workers : InWork(w) => table[w] \in Tables
    /\ open /\ ~Cancelled =>
          /\ \A j \in DOMAIN Stages[stage].tables :
                \/ Queued(Stages[stage].tables[j])
                \/ \E w \in Workers : InWork(w) /\ table[w] = Stages[stage].tables[j]
                \/ <<stage, Stages[stage].tables[j]>> \in finished
          /\ jobs = <<>> \/ at[1] # "off"

\* What is complete: without an interrupt, while a connection is held, and where a
\* call came after it, every earlier stage.
DoneInv ==
    /\ ~interrupted => \A i \in 1 .. stage - 1 : StageComplete(i)
    /\ \A w \in Workers : at[w] = "acting" /\ step[w] > 0 =>
          \A i \in 1 .. stage - 1 : StageComplete(i)
    /\ \A k \in 1 .. stage - 1 : ~Stages[k].pool =>
          \A i \in 1 .. k - 1 : StageComplete(i)

InData == stage <= Len(Stages) /\ Here = "data"

\* Which errors are counted, and when the metrics are written.
CountInv ==
    /\ counted # {} <=> firstErr # "none" /\ InData
    /\ firstErr # "none" => open \/ result = firstErr
    /\ result \in {"own", "context"} =>
          \/ result = firstErr
          \/ firstErr = "none" /\ stage \in 1 .. Len(Stages) /\ ~Stages[stage].pool
          \/ written = <<>> /\ phase = "exited"
    /\ written # <<>> => written = <<counted>> /\ phase \in {"closing", "exited"}

\* The bar of a table whose data is synchronised is done, or drawn again, unless
\* the command is about to fail.
Failing ==
    \/ firstErr # "none"
    \/ \E w \in Workers : at[w] = "returning" /\ error[w] # "none"
DoneBar(t) ==
    \/ bar[t] = "done"
    \/ InData /\ \E w \in Workers : at[w] = "acting" /\ table[w] = t
    \/ Failing
BarInv ==
    Progress =>
        /\ \A i \in DOMAIN Stages, t \in Tables :
              <<i, t>> \in finished /\ Stages[i].name = "data" => DoneBar(t)
        /\ InData => \A w \in Workers : at[w] = "returning" => DoneBar(table[w])

Inv == PoolInv /\ CauseInv /\ WorkInv /\ DoneInv /\ CountInv /\ BarInv

-----------------------------------------------------------------------------
(* Types and stages. *)

\* The command stays what it was given as, and with it its stages.
LEMMA SameStages ==
    ASSUME TypeOK, [Next]_vars
    PROVE  command' = command /\ limit' = limit /\ Stages' = Stages
<1>1. command' = command /\ limit' = limit
  BY DEF Next, MainStep, WorkerStep, Open, OpenFails, CallSucceeds, CallFails,
         OpenPool, ClosePool, WriteMetrics, Close, TakeJob, LeavePool, Connect,
         EndBody, ActionSucceeds, ActionFails, Interrupt, vars, given
<1> QED
  BY <1>1 DEF Stages

LEMMA TypeInit == Init => TypeOK
<1> SUFFICES ASSUME Init PROVE TypeOK
  OBVIOUS
<1>1. command \in Commands
  BY DEF Init
<1>2. Len(Stages) \in Nat
  BY <1>1, StagesType
<1>3. /\ jobs \in Seq(Tables)
      /\ at \in [Workers -> {"off", "selecting", "acting", "returning"}]
      /\ table \in [Workers -> Tables \union {"none"}]
      /\ step \in [Workers -> 0 .. 2]
      /\ error \in [Workers -> {"none", "own", "context"}]
      /\ bar \in [Tables -> {"none", "running", "done", "failed"}]
  BY EmptySeq DEF Init
<1>4. /\ stage \in 1 .. Len(Stages) + 1
      /\ finished \subseteq (DOMAIN Stages) \X Tables
      /\ counted \subseteq Tables
      /\ written \in {<<>>} \union {<<failed>> : failed \in SUBSET Tables}
  BY <1>2 DEF Init
<1>5. /\ command \in Commands /\ limit \in Limits /\ phase = "opening" /\ open = FALSE
      /\ interrupted = FALSE /\ stopped = FALSE /\ firstErr = "none"
      /\ result = "running" /\ exit = "running" /\ faults \in 0 .. MaxFaults
  BY LimitsAssumption DEF Init
<1> QED
  BY <1>3, <1>4, <1>5 DEF TypeOK

\* The tables of a stage, and what is left of them in the channel.
LEMMA JobsType ==
    ASSUME TypeOK
    PROVE  /\ Len(Stages) \in Nat \ {0} /\ DOMAIN Stages = 1 .. Len(Stages)
           /\ stage \in Nat \ {0} /\ stage <= Len(Stages) + 1
           /\ \A i \in 1 .. Len(Stages) :
                 /\ Stages[i].tables \in Seq(Tables)
                 /\ ~Stages[i].pool => Stages[i].tables = <<>> /\ Stages[i].name # "data"
           /\ jobs # <<>> => Head(jobs) \in Tables /\ Tail(jobs) \in Seq(Tables)
<1>1. command \in Commands /\ stage \in 1 .. Len(Stages) + 1 /\ jobs \in Seq(Tables)
  BY DEF TypeOK
<1>2. jobs # <<>> => Head(jobs) \in Tables /\ Tail(jobs) \in Seq(Tables)
  BY <1>1, HeadTailProperties
<1>3. \A i \in 1 .. Len(Stages) : Stages[i] \in Stage
  BY <1>1, StagesType
<1>4. \A i \in 1 .. Len(Stages) :
         /\ Stages[i].tables \in Seq(Tables)
         /\ ~Stages[i].pool => Stages[i].tables = <<>> /\ Stages[i].name # "data"
  BY <1>3, ListsType DEF Stage
<1>5. Len(Stages) \in Nat \ {0} /\ DOMAIN Stages = 1 .. Len(Stages)
  BY <1>1, StagesType
<1> QED
  BY <1>1, <1>2, <1>4, <1>5

\* A bar that goes on is a bar.
LEMMA BarsType ==
    ASSUME TypeOK, NEW t \in Tables, NEW s \in {"none", "running", "done", "failed"},
           Bars(t, s)
    PROVE  bar' \in [Tables -> {"none", "running", "done", "failed"}]
BY DEF TypeOK, Bars

LEMMA TypeStep == TypeOK /\ PoolInv /\ WorkInv /\ [Next]_vars => TypeOK'
<1> SUFFICES ASSUME TypeOK, PoolInv, WorkInv, [Next]_vars PROVE TypeOK'
  OBVIOUS
<1>a. command' = command /\ limit' = limit /\ Stages' = Stages
  BY SameStages
<1>b. /\ Len(Stages) \in Nat \ {0} /\ DOMAIN Stages = 1 .. Len(Stages)
      /\ stage \in Nat \ {0} /\ stage <= Len(Stages) + 1
  BY JobsType
<1>c. ASSUME FaultHappens PROVE faults' \in 0 .. MaxFaults
  BY <1>c, LimitsAssumption DEF FaultHappens, TypeOK
<1>d. ASSUME NEW kind, NEW c, FailsAs(kind, c)
      PROVE  kind \in {"own", "context"} /\ faults' \in 0 .. MaxFaults
  BY <1>c, <1>d DEF FailsAs, TypeOK
<1>e. ASSUME Advance, Running
      PROVE  stage' \in 1 .. Len(Stages) + 1 /\ result' \in {"running", "ok"}
  <2>1. stage <= Len(Stages) /\ result = "running"
    BY <1>e DEF PoolInv, Running
  <2>2. stage' = stage + 1 /\ result' \in {"ok", result}
    BY <1>e DEF Advance
  <2> QED
    BY <2>1, <2>2, <1>b
<1>1. CASE Open
  BY <1>1, <1>a DEF Open, TypeOK, pool, worker
<1>2. CASE OpenFails
  BY <1>2, <1>a, <1>d DEF OpenFails, TypeOK, pool, worker
<1>3. CASE CallSucceeds
  BY <1>3, <1>a, <1>e DEF CallSucceeds, TypeOK, pool, worker, ending
<1>4. CASE CallFails
  BY <1>4, <1>a, <1>d DEF CallFails, TypeOK, pool, worker, ending
<1>5. CASE OpenPool
  <2>1. stage \in 1 .. Len(Stages)
    BY <1>5, <1>b DEF OpenPool, PoolInv, Running
  <2>2. jobs' \in Seq(Tables)
    BY <1>5, <2>1, JobsType DEF OpenPool
  <2>3. at' \in [Workers -> {"off", "selecting", "acting", "returning"}]
    BY <1>5 DEF OpenPool
  <2> QED
    BY <1>5, <1>a, <2>2, <2>3 DEF OpenPool, TypeOK, ending
<1>6. CASE ClosePool
  <2>1. /\ stage' \in 1 .. Len(Stages) + 1
        /\ result' \in {"running", "ok", "own", "context"}
    <3>1. CASE firstErr = "none"
      BY <1>6, <3>1, <1>e DEF ClosePool, PoolInv
    <3>2. CASE firstErr # "none"
      BY <1>6, <3>2 DEF ClosePool, TypeOK
    <3> QED
      BY <3>1, <3>2
  <2> QED
    BY <1>6, <1>a, <2>1 DEF ClosePool, TypeOK, pool, worker, ending
<1>7. CASE WriteMetrics
  <2>1. written' \in {<<>>} \union {<<failed>> : failed \in SUBSET Tables}
    BY <1>7 DEF WriteMetrics, TypeOK
  <2>2. exit' \in {"running", "ok", "own", "context", "metrics", "close"}
    BY <1>7 DEF WriteMetrics, TypeOK
  <2>3. faults' \in 0 .. MaxFaults
    BY <1>7, <1>c DEF WriteMetrics, TypeOK
  <2> QED
    BY <1>7, <1>a, <2>1, <2>2, <2>3 DEF WriteMetrics, TypeOK, pool, worker
<1>8. CASE Close
  BY <1>8, <1>a, <1>c DEF Close, TypeOK, pool, worker
<1>9. CASE Interrupt
  BY <1>9, <1>a DEF Interrupt, TypeOK, pool, worker, ending
<1>10. ASSUME NEW w \in Workers, TakeJob(w) PROVE TypeOK'
  <2>1. Head(jobs) \in Tables /\ Tail(jobs) \in Seq(Tables)
    BY <1>10, JobsType DEF TakeJob
  <2>2. bar' \in [Tables -> {"none", "running", "done", "failed"}]
    BY <1>10, <2>1, BarsType DEF TakeJob
  <2> QED
    BY <1>10, <1>a, <2>1, <2>2 DEF TakeJob, TypeOK, ending
<1>11. ASSUME NEW w \in Workers, LeavePool(w) PROVE TypeOK'
  BY <1>11, <1>a DEF LeavePool, TypeOK, ending
<1>12. ASSUME NEW w \in Workers, Connect(w) PROVE TypeOK'
  <2>1. step[w] + 1 \in 0 .. 2
    <3> DEFINE n == Len(Connections(table[w]))
    <3>1. n \in 0 .. 2
      BY DEF Connections
    <3>2. step[w] < n /\ step[w] \in 0 .. 2
      BY <1>12 DEF Connect, TypeOK
    <3> HIDE DEF n
    <3> QED
      BY <3>1, <3>2
  <2>2. step' \in [Workers -> 0 .. 2]
    BY <1>12, <2>1 DEF Connect, TypeOK
  <2> QED
    BY <1>12, <1>a, <2>2 DEF Connect, TypeOK, ending
<1>13. ASSUME NEW w \in Workers, EndBody(w) PROVE TypeOK'
  <2>1. table[w] \in Tables
    BY <1>13 DEF EndBody, WorkInv, InWork
  <2>2. bar' \in [Tables -> {"none", "running", "done", "failed"}]
    BY <1>13, <2>1, BarsType DEF EndBody
  <2>3. /\ error' \in [Workers -> {"none", "own", "context"}]
        /\ faults' \in 0 .. MaxFaults
    BY <1>13, <1>d DEF EndBody, TypeOK
  <2> QED
    BY <1>13, <1>a, <2>2, <2>3 DEF EndBody, TypeOK, ending
<1>14. ASSUME NEW w \in Workers, ActionSucceeds(w) PROVE TypeOK'
  <2>1. table[w] \in Tables /\ open
    BY <1>14 DEF ActionSucceeds, WorkInv, InWork, PoolInv
  <2>2. stage \in DOMAIN Stages
    BY <2>1, <1>b DEF PoolInv, Running
  <2>3. finished' \subseteq (DOMAIN Stages) \X Tables
    BY <1>14, <2>1, <2>2 DEF ActionSucceeds, TypeOK
  <2> QED
    BY <1>14, <1>a, <2>3 DEF ActionSucceeds, TypeOK, ending
<1>15. ASSUME NEW w \in Workers, ActionFails(w) PROVE TypeOK'
  <2>1. table[w] \in Tables
    BY <1>15 DEF ActionFails, WorkInv, InWork
  <2>2. PICK kind \in {"own", "context"} :
           /\ counted' = CountedError(w, kind) /\ firstErr' = KeptError(kind)
           /\ UNCHANGED faults \/ FailsAs(kind, FALSE)
    BY <1>15 DEF ActionFails
  <2>3. /\ counted' \subseteq Tables /\ firstErr' \in {"none", "own", "context"}
        /\ faults' \in 0 .. MaxFaults
    BY <2>1, <2>2, <1>d DEF CountedError, KeptError, TypeOK
  <2> QED
    BY <1>15, <1>a, <2>3 DEF ActionFails, TypeOK, ending
<1>16. CASE UNCHANGED vars
  BY <1>16, <1>a DEF vars, TypeOK, pool, worker, ending
<1> QED
  BY <1>1, <1>2, <1>3, <1>4, <1>5, <1>6, <1>7, <1>8, <1>9, <1>10, <1>11, <1>12,
     <1>13, <1>14, <1>15, <1>16 DEF Next, MainStep, WorkerStep

-----------------------------------------------------------------------------
(* Each part of the invariant. *)

LEMMA InvInit == Init => Inv
<1> SUFFICES ASSUME Init PROVE Inv
  OBVIOUS
<1>1. TypeOK
  BY TypeInit
<1>2. Len(Stages) \in Nat \ {0}
  BY <1>1, JobsType
<1>3. PoolInv /\ CauseInv
  BY <1>2 DEF Init, PoolInv, CauseInv, Running
<1>4. WorkInv /\ DoneInv
  BY <1>2 DEF Init, WorkInv, InWork, DoneInv
<1>5. CountInv /\ BarInv
  BY <1>2 DEF Init, CountInv, BarInv, Failing, DoneBar
<1> QED
  BY <1>3, <1>4, <1>5 DEF Inv

\* A stage ends with its last worker, the command with its last stage.
LEMMA PoolStep == TypeOK /\ PoolInv /\ [Next]_vars => PoolInv'
<1> SUFFICES ASSUME TypeOK, PoolInv, [Next]_vars PROVE PoolInv'
  OBVIOUS
<1>a. Stages' = Stages
  BY SameStages
<1>b. Len(Stages) \in Nat \ {0} /\ stage \in Nat \ {0}
  BY JobsType
<1>c. ASSUME Advance, Running
      PROVE  /\ result' # "ok" => stage' <= Len(Stages)
             /\ result' = "ok" => stage' = Len(Stages) + 1
             /\ result' \in {"running", "ok"}
  <2>1. stage <= Len(Stages) /\ result = "running"
    BY <1>c DEF PoolInv, Running
  <2>2. stage' = stage + 1 /\ result' = IF stage = Len(Stages) THEN "ok" ELSE "running"
    BY <1>c, <2>1 DEF Advance
  <2> QED
    BY <2>1, <2>2, <1>b
<1>1. CASE Open \/ OpenFails \/ WriteMetrics \/ Close \/ Interrupt
  <2>1. CASE Open
    BY <2>1, <1>a DEF Open, PoolInv, Running, pool, worker
  <2>2. CASE OpenFails
    BY <2>2, <1>a DEF OpenFails, FailsAs, PoolInv, Running, pool, worker
  <2>3. CASE WriteMetrics \/ Close
    BY <2>3, <1>a DEF WriteMetrics, Close, PoolInv, Running, pool, worker
  <2>4. CASE Interrupt
    BY <2>4, <1>a DEF Interrupt, PoolInv, Running, pool, worker, ending
  <2> QED
    BY <1>1, <2>1, <2>2, <2>3, <2>4
<1>2. CASE CallSucceeds
  BY <1>2, <1>a, <1>c DEF CallSucceeds, PoolInv, Running, pool, worker, ending
<1>3. CASE CallFails
  BY <1>3, <1>a DEF CallFails, FailsAs, PoolInv, Running, pool, worker, ending
<1>4. CASE OpenPool
  BY <1>4, <1>a DEF OpenPool, PoolInv, Running, ending
<1>5. CASE ClosePool
  <2>1. /\ open' = FALSE /\ AllOff /\ UNCHANGED <<at, firstErr, phase>> /\ Running
    BY <1>5 DEF ClosePool, pool, worker, ending, PoolInv
  <2>2. CASE firstErr = "none"
    BY <1>5, <2>1, <2>2, <1>a, <1>c DEF ClosePool, AllOff, PoolInv, Running
  <2>3. CASE firstErr # "none"
    BY <1>5, <2>1, <2>3, <1>a DEF ClosePool, AllOff, PoolInv, Running, TypeOK
  <2> QED
    BY <2>2, <2>3
<1>6. ASSUME NEW w \in Workers, WorkerStep(w) PROVE PoolInv'
  <2>1. at[w] # "off" /\ open
    BY <1>6 DEF WorkerStep, TakeJob, LeavePool, Connect, EndBody, ActionSucceeds,
                ActionFails, PoolInv
  <2>2. UNCHANGED <<result, stage, open, phase>>
    BY <1>6 DEF WorkerStep, TakeJob, LeavePool, Connect, EndBody, ActionSucceeds,
                ActionFails, ending
  <2> QED
    BY <2>1, <2>2, <1>a DEF PoolInv, Running
<1>7. CASE UNCHANGED vars
  BY <1>7, <1>a DEF vars, PoolInv, Running, pool, worker, ending
<1> QED
  BY <1>1, <1>2, <1>3, <1>4, <1>5, <1>6, <1>7 DEF Next, MainStep

\* Only an interrupt and an error cancel, and an error cancels after it is kept.
LEMMA CauseStep == TypeOK /\ PoolInv /\ CauseInv /\ [Next]_vars => CauseInv'
<1> SUFFICES ASSUME TypeOK, PoolInv, CauseInv, [Next]_vars PROVE CauseInv'
  OBVIOUS
<1>1. CASE Open \/ CallSucceeds \/ CallFails \/ Interrupt
  BY <1>1 DEF Open, CallSucceeds, CallFails, Interrupt, Advance, FailsAs, Running,
              CauseInv, Cancelled, given, ending, pool, worker
<1>2. CASE OpenFails
  BY <1>2 DEF OpenFails, FailsAs, CauseInv, Cancelled, pool, worker
<1>3. CASE OpenPool
  BY <1>3 DEF OpenPool, CauseInv, Cancelled, ending
<1>4. CASE ClosePool
  BY <1>4 DEF ClosePool, Advance, Running, PoolInv, CauseInv, Cancelled, pool, worker, ending
<1>5. CASE WriteMetrics \/ Close
  BY <1>5 DEF WriteMetrics, Close, CauseInv, Cancelled, TypeOK, pool, worker
<1>6. ASSUME NEW w \in Workers, TakeJob(w) \/ LeavePool(w) \/ Connect(w) \/ ActionSucceeds(w)
      PROVE  CauseInv'
  BY <1>6 DEF TakeJob, LeavePool, Connect, ActionSucceeds, CauseInv, Cancelled, TypeOK, ending
<1>7. ASSUME NEW w \in Workers, EndBody(w) PROVE CauseInv'
  BY <1>7 DEF EndBody, FailsAs, CauseInv, Cancelled, TypeOK, ending
<1>8. ASSUME NEW w \in Workers, ActionFails(w) PROVE CauseInv'
  <2>1. PICK kind \in {"own", "context"} :
           /\ kind = "context" => Cancelled
           /\ firstErr' = KeptError(kind)
    BY <1>8 DEF ActionFails, FailsAs, CauseInv
  <2>2. /\ stopped' = TRUE /\ at' = [at EXCEPT ![w] = "off"]
        /\ UNCHANGED <<error, interrupted, result, exit>>
    BY <1>8 DEF ActionFails, ending
  <2>3. firstErr' # "none" /\ (firstErr' = "context" => interrupted)
    BY <2>1 DEF KeptError, CauseInv, Cancelled
  <2> QED
    BY <2>2, <2>3 DEF CauseInv, Cancelled, TypeOK
<1>9. CASE UNCHANGED vars
  BY <1>9 DEF vars, CauseInv, Cancelled, pool, worker, ending
<1> QED
  BY <1>1, <1>2, <1>3, <1>4, <1>5, <1>6, <1>7, <1>8, <1>9 DEF Next, MainStep, WorkerStep

\* While nothing cancels the pool, a table leaves the channel for a worker and a
\* worker for the tables that are finished.
LEMMA WorkStep == TypeOK /\ PoolInv /\ WorkInv /\ [Next]_vars => WorkInv'
<1> SUFFICES ASSUME TypeOK, PoolInv, WorkInv, [Next]_vars PROVE WorkInv'
  OBVIOUS
<1>a. Stages' = Stages
  BY SameStages
<1>b. ASSUME open, ~Cancelled, NEW j \in DOMAIN Stages[stage].tables, NEW t,
             t = Stages[stage].tables[j]
      PROVE  Queued(t) \/ (\E w \in Workers : InWork(w) /\ table[w] = t)
                \/ <<stage, t>> \in finished
  BY <1>b DEF WorkInv
<1>c. ASSUME UNCHANGED <<stage, open>>,
             \A w \in Workers : InWork(w)' => table'[w] \in Tables,
             open /\ ~Cancelled' => jobs' = <<>> \/ at'[1] # "off",
             ASSUME open, ~Cancelled', NEW j \in DOMAIN Stages[stage].tables, NEW t,
                    t = Stages[stage].tables[j]
             PROVE  Queued(t)' \/ (\E w \in Workers : InWork(w)' /\ table'[w] = t)
                       \/ <<stage, t>> \in finished'
      PROVE  WorkInv'
  BY <1>a, <1>c, Zenon DEF WorkInv
<1>1. CASE Open \/ OpenFails \/ CallSucceeds \/ CallFails \/ WriteMetrics \/ Close
  <2>1. ~open' /\ UNCHANGED <<at, table>>
    BY <1>1 DEF Open, OpenFails, CallSucceeds, CallFails, WriteMetrics, Close, PoolInv,
                Running, pool, worker
  <2> QED
    BY <2>1 DEF WorkInv, InWork
<1>2. CASE ClosePool
  BY <1>2 DEF ClosePool, WorkInv, InWork, pool, worker
<1>3. CASE Interrupt
  BY <1>3 DEF Interrupt, WorkInv, InWork, Cancelled, pool, worker
<1>4. CASE OpenPool
  <2>1. stage \in 1 .. Len(Stages)
    BY <1>4, JobsType DEF OpenPool, PoolInv, Running
  <2>2. jobs' \in Seq(Tables) /\ jobs' = Stages[stage].tables
    BY <1>4, <2>1, JobsType DEF OpenPool
  <2>3. DOMAIN jobs' = 1 .. Len(jobs') /\ Len(jobs') \in Nat /\ (jobs' # <<>> => Len(jobs') >= 1)
    BY <2>2, LenProperties, EmptySeq
  <2>4. \A w \in Workers : at'[w] = IF w <= Len(jobs') THEN "selecting" ELSE "off"
    BY <1>4, <2>2 DEF OpenPool
  <2>5. 1 \in Workers
    BY ParallelismAssumption DEF Workers
  <2>6. stage' = stage
    BY <1>4 DEF OpenPool
  <2> QED
    BY <2>2, <2>3, <2>4, <2>5, <2>6, <1>a DEF WorkInv, InWork, Queued
<1>5. ASSUME NEW w \in Workers, TakeJob(w) PROVE WorkInv'
  <2>1. /\ jobs' = Tail(jobs) /\ jobs # <<>> /\ jobs \in Seq(Tables) /\ at[w] = "selecting"
        /\ at' = [at EXCEPT ![w] = "acting"] /\ table' = [table EXCEPT ![w] = Head(jobs)]
        /\ UNCHANGED <<stage, open, interrupted, stopped, finished>>
    BY <1>5 DEF TakeJob, TypeOK
  <2>2. /\ Head(jobs) \in Tables /\ Len(jobs) \in Nat /\ Len(Tail(jobs)) = Len(jobs) - 1
        /\ \A i \in 1 .. Len(Tail(jobs)) : Tail(jobs)[i] = jobs[i + 1]
        /\ Head(jobs) = jobs[1]
    BY <2>1, HeadTailProperties, LenProperties
  <2>3. /\ at'[w] = "acting" /\ table'[w] = jobs[1]
        /\ \A u \in Workers \ {w} : at'[u] = at[u] /\ table'[u] = table[u]
    BY <2>1, <2>2 DEF TypeOK
  <2>4. \A u \in Workers : InWork(u)' => table'[u] \in Tables
    BY <2>2, <2>3 DEF WorkInv, InWork
  <2>5. ASSUME NEW t, Queued(t) PROVE Queued(t)' \/ t = jobs[1]
    <3>1. PICK i \in 1 .. Len(jobs) : jobs[i] = t
      BY <2>5 DEF Queued
    <3>2. CASE i > 1
      <4>1. i - 1 \in 1 .. Len(Tail(jobs)) /\ Tail(jobs)[i - 1] = t
        BY <3>1, <3>2, <2>2
      <4> QED
        BY <4>1, <2>1 DEF Queued
    <3> QED
      BY <3>1, <3>2, <2>2
  <2>6. ASSUME NEW u \in Workers, InWork(u) PROVE u # w /\ InWork(u)' /\ table'[u] = table[u]
    BY <2>6, <2>1, <2>3 DEF InWork
  <2>7. InWork(w)'
    BY <2>3 DEF InWork
  <2>8. Cancelled' = Cancelled
    BY <2>1 DEF Cancelled
  <2>9. ASSUME open, ~Cancelled', NEW j \in DOMAIN Stages[stage].tables, NEW t,
               t = Stages[stage].tables[j]
        PROVE  Queued(t)' \/ (\E u \in Workers : InWork(u)' /\ table'[u] = t)
                  \/ <<stage, t>> \in finished'
    <3>1. Queued(t) \/ (\E u \in Workers : InWork(u) /\ table[u] = t)
             \/ <<stage, t>> \in finished
      BY <1>b, <2>8, <2>9
    <3>2. CASE Queued(t)
      BY <3>2, <2>3, <2>5, <2>7
    <3>3. CASE \E u \in Workers : InWork(u) /\ table[u] = t
      BY <3>3, <2>6
    <3> QED
      BY <3>1, <3>2, <3>3, <2>1
  <2>10. open /\ ~Cancelled' => at'[1] # "off"
    <3>1. open /\ ~Cancelled' => at[1] # "off"
      BY <2>1, <2>8 DEF WorkInv
    <3> QED
      BY <3>1, <2>1, ParallelismAssumption DEF TypeOK, Workers
  <2> QED
    BY <1>c, <2>1, <2>4, <2>9, <2>10
<1>6. ASSUME NEW w \in Workers, LeavePool(w) PROVE WorkInv'
  <2>1. /\ at[w] = "selecting" /\ at' = [at EXCEPT ![w] = "off"]
        /\ Cancelled \/ jobs = <<>>
        /\ UNCHANGED <<jobs, table, stage, open, interrupted, stopped, finished>>
    BY <1>6 DEF LeavePool, MayLeave
  <2>2. \A u \in Workers : InWork(u)' <=> InWork(u)
    BY <2>1 DEF InWork, TypeOK
  <2> QED
    BY <2>1, <2>2, <1>a DEF WorkInv, Cancelled, Queued
<1>7. ASSUME NEW w \in Workers, Connect(w) \/ EndBody(w) PROVE WorkInv'
  <2>1. /\ at[w] = "acting"
        /\ at' \in {at, [at EXCEPT ![w] = "returning"]}
        /\ UNCHANGED <<jobs, table, stage, open, interrupted, stopped, finished>>
    BY <1>7 DEF Connect, EndBody
  <2>2. \A u \in Workers : InWork(u)' <=> InWork(u)
    BY <2>1 DEF InWork, TypeOK
  <2>3. at'[1] # "off" \/ at[1] = "off"
    BY <2>1, ParallelismAssumption DEF TypeOK, Workers
  <2> QED
    BY <2>1, <2>2, <2>3, <1>a DEF WorkInv, Cancelled, Queued
<1>8. ASSUME NEW w \in Workers, ActionSucceeds(w) PROVE WorkInv'
  <2>1. /\ at[w] = "returning" /\ at' = [at EXCEPT ![w] = "selecting"]
        /\ finished' = finished \union {<<stage, table[w]>>}
        /\ UNCHANGED <<jobs, table, stage, open, interrupted, stopped>>
    BY <1>8 DEF ActionSucceeds
  <2>2. \A u \in Workers : /\ InWork(u)' => InWork(u)
                          /\ InWork(u) => InWork(u)' \/ u = w
    BY <2>1 DEF InWork, TypeOK
  <2>3. at'[1] # "off" \/ at[1] = "off"
    BY <2>1, ParallelismAssumption DEF TypeOK, Workers
  <2>4. Cancelled' = Cancelled
    BY <2>1 DEF Cancelled
  <2>5. ASSUME open, ~Cancelled', NEW j \in DOMAIN Stages[stage].tables, NEW t,
               t = Stages[stage].tables[j]
        PROVE  Queued(t)' \/ (\E u \in Workers : InWork(u)' /\ table'[u] = t)
                  \/ <<stage, t>> \in finished'
    <3>1. Queued(t) \/ (\E u \in Workers : InWork(u) /\ table[u] = t)
             \/ <<stage, t>> \in finished
      BY <1>b, <2>4, <2>5
    <3>2. Queued(t)' <=> Queued(t)
      BY <2>1 DEF Queued
    <3> QED
      BY <3>1, <3>2, <2>1, <2>2
  <2>6. open /\ ~Cancelled' => jobs' = <<>> \/ at'[1] # "off"
    BY <2>1, <2>3, <2>4 DEF WorkInv
  <2>7. ASSUME NEW u \in Workers, InWork(u)' PROVE table'[u] \in Tables
    <3>1. InWork(u)
      BY <2>1, <2>7 DEF InWork, TypeOK
    <3>2. table[u] \in Tables
      BY <3>1 DEF WorkInv
    <3> QED
      BY <3>2, <2>1
  <2> QED
    BY <1>c, <2>1, <2>5, <2>6, <2>7
<1>9. ASSUME NEW w \in Workers, ActionFails(w) PROVE WorkInv'
  <2>1. /\ at[w] = "returning" /\ at' = [at EXCEPT ![w] = "off"]
        /\ Cancelled' /\ UNCHANGED table
    BY <1>9 DEF ActionFails, Cancelled
  <2> QED
    BY <2>1 DEF WorkInv, InWork, TypeOK
<1>10. CASE UNCHANGED vars
  BY <1>10, <1>a DEF vars, WorkInv, InWork, Queued, Cancelled, pool, worker, ending
<1> QED
  BY <1>1, <1>2, <1>3, <1>4, <1>5, <1>6, <1>7, <1>8, <1>9, <1>10
     DEF Next, MainStep, WorkerStep

\* What is complete stays complete. A stage is left complete, unless an interrupt
\* stopped its pool; then nothing connects any more, and no call succeeds.
LEMMA DoneStep ==
    TypeOK /\ PoolInv /\ CauseInv /\ WorkInv /\ DoneInv /\ [Next]_vars => DoneInv'
<1> SUFFICES ASSUME TypeOK, PoolInv, CauseInv, WorkInv, DoneInv, [Next]_vars PROVE DoneInv'
  OBVIOUS
<1>a. Stages' = Stages
  BY SameStages
<1>b. Len(Stages) \in Nat \ {0} /\ stage \in Nat \ {0}
  BY JobsType
<1>c. ASSUME finished \subseteq finished', NEW i, StageComplete(i) PROVE StageComplete(i)'
  BY <1>a, <1>c DEF StageComplete
<1>d. ASSUME UNCHANGED stage, finished \subseteq finished', interrupted => interrupted',
             \A w \in Workers : at'[w] = "acting" /\ step'[w] > 0 =>
                (at[w] = "acting" /\ step[w] > 0) \/ ~interrupted
      PROVE  DoneInv'
  <2>1. ASSUME NEW w \in Workers, at'[w] = "acting" /\ step'[w] > 0
        PROVE  \A i \in 1 .. stage - 1 : StageComplete(i)
    BY <2>1, <1>d DEF DoneInv
  <2> QED
    BY <2>1, <1>a, <1>c, <1>d DEF DoneInv
<1>e. ASSUME stage' = stage + 1, finished' = finished, UNCHANGED interrupted,
             \A w \in Workers : at'[w] = "off",
             ~interrupted => StageComplete(stage),
             ~Stages[stage].pool => ~interrupted
      PROVE  DoneInv'
  <2>1. \A i \in 1 .. stage' - 1 : i \in 1 .. stage - 1 \/ i = stage
    BY <1>b, <1>e
  <2>2. ~interrupted => \A i \in 1 .. stage' - 1 : StageComplete(i)
    BY <2>1, <1>e DEF DoneInv
  <2>3. ASSUME NEW k \in 1 .. stage' - 1, ~Stages[k].pool
        PROVE  \A i \in 1 .. k - 1 : StageComplete(i)
    BY <2>1, <2>3, <1>e DEF DoneInv
  <2> QED
    BY <2>2, <2>3, <1>a, <1>c, <1>e DEF DoneInv
<1>1. CASE Open \/ OpenFails \/ CallFails \/ WriteMetrics \/ Close
  BY <1>1, <1>d DEF Open, OpenFails, CallFails, WriteMetrics, Close, pool, worker
<1>2. CASE Interrupt
  BY <1>2, <1>d DEF Interrupt, pool, worker
<1>3. CASE CallSucceeds
  <2>1. /\ stage' = stage + 1 /\ ~interrupted /\ UNCHANGED <<finished, interrupted, at>>
        /\ ~Stages[stage].pool /\ Running
    BY <1>3 DEF CallSucceeds, Advance, pool, worker
  <2>2. \A w \in Workers : at'[w] = "off"
    BY <2>1 DEF PoolInv
  <2>3. stage \in 1 .. Len(Stages)
    BY <2>1, <1>b DEF PoolInv, Running
  <2>4. Stages[stage].tables = <<>>
    BY <2>1, <2>3, JobsType
  <2>5. StageComplete(stage)
    BY <2>4 DEF StageComplete
  <2> QED
    BY <2>1, <2>2, <2>5, <1>e
<1>4. CASE OpenPool
  <2>1. \A w \in Workers : at'[w] # "acting"
    BY <1>4 DEF OpenPool
  <2> QED
    BY <1>4, <2>1, <1>d DEF OpenPool
<1>5. CASE ClosePool
  <2>1. /\ open /\ \A w \in Workers : at[w] = "off"
        /\ UNCHANGED <<at, step, finished, interrupted>>
    BY <1>5 DEF ClosePool, AllOff, pool, worker
  <2>2. CASE firstErr # "none"
    <3>1. stage' = stage
      BY <1>5, <2>2 DEF ClosePool
    <3> QED
      BY <3>1, <2>1, <1>d
  <2>3. CASE firstErr = "none"
    <3>1. stage' = stage + 1
      BY <1>5, <2>3 DEF ClosePool, Advance
    <3>2. Stages[stage].pool
      BY <2>1 DEF PoolInv
    <3>3. ASSUME ~interrupted PROVE StageComplete(stage)
      <4>1. ~Cancelled
        BY <3>3, <2>3 DEF CauseInv, Cancelled
      <4>2. 1 \in Workers
        BY ParallelismAssumption DEF Workers
      <4>3. jobs = <<>>
        BY <4>1, <4>2, <2>1 DEF WorkInv
      <4>4. Len(jobs) = 0
        BY <4>3, EmptySeq
      <4>5. ASSUME NEW t PROVE ~Queued(t)
        BY <4>4 DEF Queued
      <4>6. \A w \in Workers : ~InWork(w)
        BY <2>1 DEF InWork
      <4> QED
        BY <4>1, <4>5, <4>6, <2>1 DEF WorkInv, StageComplete
    <3> QED
      BY <3>1, <3>2, <3>3, <2>1, <1>e
  <2> QED
    BY <2>2, <2>3
<1>6. ASSUME NEW w \in Workers, TakeJob(w) PROVE DoneInv'
  <2>1. \A u \in Workers : at'[u] = "acting" /\ step'[u] > 0 => at[u] = "acting" /\ step[u] > 0
    BY <1>6 DEF TakeJob, TypeOK
  <2> QED
    BY <1>6, <2>1, <1>d DEF TakeJob
<1>7. ASSUME NEW w \in Workers, Connect(w) PROVE DoneInv'
  BY <1>7, <1>d DEF Connect, Cancelled
<1>8. ASSUME NEW w \in Workers,
             LeavePool(w) \/ EndBody(w) \/ ActionSucceeds(w) \/ ActionFails(w)
      PROVE  DoneInv'
  <2>1. /\ \A u \in Workers : at'[u] = "acting" => at[u] = "acting"
        /\ UNCHANGED <<step, stage, interrupted>> /\ finished \subseteq finished'
    BY <1>8 DEF LeavePool, EndBody, ActionSucceeds, ActionFails, TypeOK
  <2> QED
    BY <2>1, <1>d
<1>9. CASE UNCHANGED vars
  BY <1>9, <1>d DEF vars, pool, worker
<1> QED
  BY <1>1, <1>2, <1>3, <1>4, <1>5, <1>6, <1>7, <1>8, <1>9 DEF Next, MainStep, WorkerStep

\* The first error of a pool and the errors of the metrics come together, and stay:
\* a pool that failed is the last one.
LEMMA CountStep ==
    TypeOK /\ PoolInv /\ CountInv /\ [Next]_vars => CountInv'
<1> SUFFICES ASSUME TypeOK, PoolInv, CountInv, [Next]_vars PROVE CountInv'
  OBVIOUS
<1>a. Stages' = Stages
  BY SameStages
<1>b. Len(Stages) \in Nat \ {0} /\ stage \in Nat \ {0}
  BY JobsType
<1>c. Running => written = <<>>
  BY DEF CountInv, Running
<1>1. CASE Open
  BY <1>1, <1>a DEF Open, CountInv, InData, Here, pool, worker
<1>2. CASE OpenFails
  <2>1. firstErr = "none" /\ written = <<>>
    BY <1>2 DEF OpenFails, PoolInv, CountInv, Running
  <2> QED
    BY <1>2, <2>1, <1>a DEF OpenFails, CountInv, InData, Here, pool, worker
<1>3. CASE CallSucceeds
  <2>1. firstErr = "none" /\ ~open /\ result' \in {"running", "ok"}
    BY <1>3 DEF CallSucceeds, PoolInv, Running, Advance
  <2> QED
    BY <1>3, <2>1, <1>a DEF CallSucceeds, CountInv, InData, Here, ending, pool, worker
<1>4. CASE CallFails
  <2>1. firstErr = "none" /\ ~open /\ stage \in 1 .. Len(Stages) /\ ~Stages[stage].pool
    BY <1>4, <1>b DEF CallFails, PoolInv, Running
  <2> QED
    BY <1>4, <2>1, <1>a, <1>c DEF CallFails, CountInv, InData, Here, ending, pool, worker
<1>5. CASE OpenPool
  <2>1. firstErr = "none" /\ firstErr' = "none" /\ result' = "running"
    BY <1>5 DEF OpenPool, PoolInv, Running
  <2> QED
    BY <1>5, <2>1, <1>a DEF OpenPool, CountInv, InData, Here, ending
<1>6. CASE ClosePool
  <2>1. Running /\ UNCHANGED <<firstErr, counted, written, phase>>
    BY <1>6 DEF ClosePool, PoolInv, pool, worker, ending
  <2>2. CASE firstErr = "none"
    <3>1. result' \in {"running", "ok"}
      BY <1>6, <2>1, <2>2 DEF ClosePool, Advance, Running
    <3> QED
      BY <3>1, <2>1, <2>2, <1>a DEF CountInv
  <2>3. CASE firstErr # "none"
    <3>1. result' = firstErr /\ stage' = stage
      BY <1>6, <2>3 DEF ClosePool
    <3> QED
      BY <3>1, <2>1, <2>3, <1>a DEF CountInv, InData, Here
  <2> QED
    BY <2>2, <2>3
<1>7. CASE WriteMetrics \/ Close
  <2>1. /\ UNCHANGED <<result, firstErr, counted, stage, open>>
        /\ \/ phase = "running" /\ written' \in {written, <<counted>>} /\ phase' = "closing"
           \/ phase = "closing" /\ UNCHANGED written /\ phase' = "exited"
    BY <1>7 DEF WriteMetrics, Close, pool, worker
  <2> QED
    BY <2>1, <1>a DEF CountInv, InData, Here
<1>8. CASE Interrupt
  BY <1>8, <1>a DEF Interrupt, CountInv, InData, Here, ending, pool, worker
<1>9. ASSUME NEW w \in Workers,
             TakeJob(w) \/ LeavePool(w) \/ Connect(w) \/ EndBody(w) \/ ActionSucceeds(w)
      PROVE  CountInv'
  BY <1>9, <1>a DEF TakeJob, LeavePool, Connect, EndBody, ActionSucceeds, CountInv, InData, Here,
                    ending
<1>10. ASSUME NEW w \in Workers, ActionFails(w) PROVE CountInv'
  <2>1. open /\ Running /\ stage <= Len(Stages)
    BY <1>10 DEF ActionFails, PoolInv, Running
  <2>2. PICK kind \in {"own", "context"} :
           counted' = CountedError(w, kind) /\ firstErr' = KeptError(kind)
    BY <1>10 DEF ActionFails
  <2>3. /\ firstErr' # "none"
        /\ counted' = IF InData THEN counted \union {table[w]} ELSE counted
    BY <2>1, <2>2 DEF KeptError, CountedError, InData
  <2>4. UNCHANGED <<open, result, phase, written, stage>>
    BY <1>10 DEF ActionFails, ending
  <2>5. InData' <=> InData
    BY <2>4, <1>a DEF InData, Here
  <2>6. counted' # {} <=> InData
    BY <2>3 DEF CountInv
  <2> QED
    BY <2>1, <2>3, <2>4, <2>5, <2>6, <1>c DEF CountInv, Running
<1>11. CASE UNCHANGED vars
  BY <1>11, <1>a DEF vars, CountInv, InData, Here, ending, pool, worker
<1> QED
  BY <1>1, <1>2, <1>3, <1>4, <1>5, <1>6, <1>7, <1>8, <1>9, <1>10, <1>11
     DEF Next, MainStep, WorkerStep

\* A bar is drawn again only by a worker that will end it, and ends failed only where
\* the command is about to fail.
LEMMA BarStep ==
    TypeOK /\ PoolInv /\ WorkInv /\ BarInv /\ [Next]_vars => BarInv'
<1> SUFFICES ASSUME TypeOK, PoolInv, WorkInv, BarInv, [Next]_vars, Progress PROVE BarInv'
  BY DEF BarInv
<1>a. Stages' = Stages
  BY SameStages
<1>b. ASSUME UNCHANGED finished,
             \A w \in Workers : at'[w] # "returning",
             \A t \in Tables : DoneBar(t) => DoneBar(t)'
      PROVE  BarInv'
  BY <1>a, <1>b DEF BarInv
<1>c. ASSUME \A w \in Workers : at[w] = "off", UNCHANGED <<at, bar, firstErr, finished>>
      PROVE  BarInv'
  <2>1. \A t \in Tables : DoneBar(t) => DoneBar(t)'
    BY <1>c DEF DoneBar, Failing
  <2> QED
    BY <2>1, <1>b, <1>c
<1>d. ASSUME UNCHANGED <<stage, finished, table>>,
             \A w \in Workers : at'[w] = "returning" => at[w] = "returning",
             \A t \in Tables : DoneBar(t) => DoneBar(t)'
      PROVE  BarInv'
  <2>1. InData' <=> InData
    BY <1>a, <1>d DEF InData, Here
  <2>2. ASSUME InData, NEW w \in Workers, at'[w] = "returning" PROVE DoneBar(table[w])'
    <3>1. at[w] = "returning"
      BY <1>d, <2>2
    <3>2. table[w] \in Tables
      BY <3>1 DEF WorkInv, InWork
    <3>3. PICK t \in Tables : t = table[w]
      BY <3>2
    <3>4. DoneBar(t)
      BY <3>1, <3>3, <2>2 DEF BarInv
    <3>5. DoneBar(t)'
      BY <3>4, <1>d
    <3> QED
      BY <3>3, <3>5, <1>d DEF DoneBar
  <2> QED
    BY <2>1, <2>2, <1>a, <1>d DEF BarInv
<1>1. CASE Open \/ OpenFails \/ CallSucceeds \/ CallFails \/ WriteMetrics \/ Close \/ ClosePool
  <2>1. \A w \in Workers : at[w] = "off"
    BY <1>1 DEF Open, OpenFails, CallSucceeds, CallFails, WriteMetrics, Close, ClosePool,
                AllOff, PoolInv, Running
  <2>2. UNCHANGED <<at, bar, firstErr, finished>>
    BY <1>1 DEF Open, OpenFails, CallSucceeds, CallFails, WriteMetrics, Close, ClosePool,
                pool, worker
  <2> QED
    BY <2>1, <2>2, <1>c
<1>2. CASE OpenPool
  <2>1. firstErr = "none" /\ \A w \in Workers : at[w] = "off"
    BY <1>2 DEF OpenPool, PoolInv, Running
  <2>2. /\ UNCHANGED <<bar, finished>>
        /\ \A w \in Workers : at'[w] # "returning"
    BY <1>2 DEF OpenPool
  <2>3. \A t \in Tables : DoneBar(t) => DoneBar(t)'
    BY <2>1, <2>2 DEF DoneBar, Failing
  <2> QED
    BY <2>2, <2>3, <1>b
<1>3. CASE Interrupt
  <2>1. UNCHANGED <<stage, finished, table, at, bar, firstErr, error>>
    BY <1>3 DEF Interrupt, pool, worker
  <2>2. \A t \in Tables : DoneBar(t) => DoneBar(t)'
    BY <2>1, <1>a DEF DoneBar, Failing, InData, Here
  <2> QED
    BY <2>1, <2>2, <1>d
<1>4. ASSUME NEW w \in Workers, TakeJob(w) PROVE BarInv'
  <2>1. /\ at[w] = "selecting" /\ at' = [at EXCEPT ![w] = "acting"]
        /\ table' = [table EXCEPT ![w] = Head(jobs)]
        /\ UNCHANGED <<stage, open, finished, error, firstErr>>
        /\ Bars(Head(jobs), "running") /\ jobs # <<>>
    BY <1>4 DEF TakeJob
  <2>2. Head(jobs) \in Tables /\ stage <= Len(Stages)
    BY <2>1, JobsType DEF PoolInv, Running
  <2>3. /\ at'[w] = "acting" /\ table'[w] = Head(jobs)
        /\ \A u \in Workers \ {w} : at'[u] = at[u] /\ table'[u] = table[u]
    BY <2>1 DEF TypeOK
  <2>4. InData' <=> InData
    BY <2>1, <1>a DEF InData, Here
  <2>5. InData <=> Here = "data"
    BY <2>2 DEF InData
  <2>6. \A t \in Tables \ {Head(jobs)} : bar'[t] = bar[t]
    BY <2>1, <2>2 DEF Bars, TypeOK
  <2>7. ~InData => bar' = bar
    BY <2>1, <2>5 DEF Bars
  <2>8. Failing => Failing'
    BY <2>1, <2>3 DEF Failing
  <2>9. ASSUME NEW t \in Tables, DoneBar(t) PROVE DoneBar(t)'
    <3>1. CASE bar[t] = "done"
      <4>1. CASE InData /\ t = Head(jobs)
        BY <4>1, <2>3, <2>4 DEF DoneBar
      <4>2. CASE ~(InData /\ t = Head(jobs))
        BY <4>2, <3>1, <2>6, <2>7 DEF DoneBar
      <4> QED
        BY <4>1, <4>2
    <3>2. CASE InData /\ \E u \in Workers : at[u] = "acting" /\ table[u] = t
      <4>1. PICK u \in Workers : at[u] = "acting" /\ table[u] = t
        BY <3>2
      <4>2. u # w
        BY <4>1, <2>1
      <4> QED
        BY <4>1, <4>2, <3>2, <2>3, <2>4 DEF DoneBar
    <3>3. CASE Failing
      BY <3>3, <2>8 DEF DoneBar
    <3> QED
      BY <2>9, <3>1, <3>2, <3>3 DEF DoneBar
  <2>10. ASSUME InData, NEW u \in Workers, at'[u] = "returning" PROVE DoneBar(table[u])'
    <3>1. at[u] = "returning" /\ table'[u] = table[u]
      BY <2>3, <2>10
    <3>2. PICK t \in Tables : t = table[u]
      BY <3>1 DEF WorkInv, InWork
    <3>3. DoneBar(t)
      BY <3>1, <3>2, <2>10 DEF BarInv
    <3>4. DoneBar(t)'
      BY <3>3, <2>9
    <3> QED
      BY <3>1, <3>2, <3>4 DEF DoneBar
  <2> QED
    BY <2>1, <2>4, <2>9, <2>10, <1>a DEF BarInv
<1>5. ASSUME NEW w \in Workers, LeavePool(w) \/ Connect(w) PROVE BarInv'
  <2>1. /\ UNCHANGED <<stage, finished, table, bar, firstErr, error>>
        /\ \A u \in Workers : /\ at'[u] = "returning" <=> at[u] = "returning"
                              /\ at'[u] = "acting" <=> at[u] = "acting"
    BY <1>5 DEF LeavePool, Connect, TypeOK
  <2>2. \A t \in Tables : DoneBar(t) => DoneBar(t)'
    BY <2>1, <1>a DEF DoneBar, Failing, InData, Here
  <2> QED
    BY <2>1, <2>2, <1>d
<1>6. ASSUME NEW w \in Workers, EndBody(w) PROVE BarInv'
  <2>1. /\ at[w] = "acting" /\ at' = [at EXCEPT ![w] = "returning"]
        /\ UNCHANGED <<stage, open, finished, table, firstErr>>
        /\ \/ error' = [error EXCEPT ![w] = "none"] /\ Bars(table[w], "done")
           \/ /\ \E kind \in {"own", "context"} : error' = [error EXCEPT ![w] = kind]
              /\ Bars(table[w], "failed")
    BY <1>6 DEF EndBody
  <2>2. table[w] \in Tables /\ stage <= Len(Stages)
    BY <2>1, JobsType DEF PoolInv, Running, WorkInv, InWork
  <2>3. /\ at'[w] = "returning"
        /\ \A u \in Workers \ {w} : at'[u] = at[u] /\ error'[u] = error[u]
    BY <2>1 DEF TypeOK
  <2>4. InData' <=> InData
    BY <2>1, <1>a DEF InData, Here
  <2>5. InData <=> Here = "data"
    BY <2>2 DEF InData
  <2>6. \A t \in Tables \ {table[w]} : bar'[t] = bar[t]
    BY <2>1, <2>2 DEF Bars, TypeOK
  <2>7. ~InData => bar' = bar
    BY <2>1, <2>5 DEF Bars
  <2>8. Failing => Failing'
    BY <2>1, <2>3 DEF Failing
  <2>9. Bars(table[w], "done") \/ Failing'
    BY <2>1, <2>3 DEF Failing, TypeOK
  <2>10. Failing' \/ ~InData \/ bar'[table[w]] = "done"
    BY <2>9, <2>2, <2>5 DEF Bars, TypeOK
  <2>11. ASSUME NEW t \in Tables, DoneBar(t) PROVE DoneBar(t)'
    <3>1. CASE bar[t] = "done"
      BY <3>1, <2>6, <2>7, <2>10 DEF DoneBar
    <3>2. CASE InData /\ \E u \in Workers : at[u] = "acting" /\ table[u] = t
      <4>1. PICK u \in Workers : at[u] = "acting" /\ table[u] = t
        BY <3>2
      <4>2. CASE u = w
        BY <4>1, <4>2, <3>2, <2>10 DEF DoneBar
      <4>3. CASE u # w
        BY <4>1, <4>3, <3>2, <2>1, <2>3, <2>4 DEF DoneBar
      <4> QED
        BY <4>2, <4>3
    <3>3. CASE Failing
      BY <3>3, <2>8 DEF DoneBar
    <3> QED
      BY <2>11, <3>1, <3>2, <3>3 DEF DoneBar
  <2>12. ASSUME InData, NEW u \in Workers, at'[u] = "returning" PROVE DoneBar(table[u])'
    <3>1. CASE u = w
      BY <3>1, <2>1, <2>10, <2>12 DEF DoneBar
    <3>2. CASE u # w
      <4>1. at[u] = "returning"
        BY <3>2, <2>3, <2>12
      <4>2. PICK t \in Tables : t = table[u]
        BY <4>1 DEF WorkInv, InWork
      <4>3. DoneBar(t)
        BY <4>1, <4>2, <2>12 DEF BarInv
      <4>4. DoneBar(t)'
        BY <4>3, <2>11
      <4> QED
        BY <4>2, <4>4, <2>1 DEF DoneBar
    <3> QED
      BY <3>1, <3>2
  <2> QED
    BY <2>1, <2>4, <2>11, <2>12, <1>a DEF BarInv
<1>7. ASSUME NEW w \in Workers, ActionSucceeds(w) PROVE BarInv'
  <2>1. /\ at[w] = "returning" /\ error[w] = "none" /\ at' = [at EXCEPT ![w] = "selecting"]
        /\ finished' = finished \union {<<stage, table[w]>>}
        /\ UNCHANGED <<stage, open, table, bar, error, firstErr>>
    BY <1>7 DEF ActionSucceeds
  <2>2. table[w] \in Tables /\ stage <= Len(Stages)
    BY <2>1, JobsType DEF PoolInv, Running, WorkInv, InWork
  <2>3. \A u \in Workers : u = w \/ at'[u] = at[u]
    BY <2>1 DEF TypeOK
  <2>4. at'[w] = "selecting"
    BY <2>1 DEF TypeOK
  <2>5. InData' <=> InData
    BY <2>1, <1>a DEF InData, Here
  <2>6. Failing => Failing'
    BY <2>1, <2>3 DEF Failing
  <2>7. ASSUME NEW t \in Tables, DoneBar(t) PROVE DoneBar(t)'
    <3>1. CASE InData /\ \E u \in Workers : at[u] = "acting" /\ table[u] = t
      BY <3>1, <2>1, <2>3, <2>5 DEF DoneBar
    <3> QED
      BY <2>7, <3>1, <2>1, <2>6 DEF DoneBar
  <2>8. ASSUME NEW i \in DOMAIN Stages, NEW t \in Tables, <<i, t>> \in finished',
               Stages[i].name = "data"
        PROVE  DoneBar(t)'
    <3>1. CASE <<i, t>> \in finished
      BY <3>1, <2>7, <2>8 DEF BarInv
    <3>2. CASE i = stage /\ t = table[w]
      <4>1. InData
        BY <3>2, <2>2, <2>8 DEF InData, Here
      <4>2. DoneBar(t)
        BY <4>1, <3>2, <2>1 DEF BarInv
      <4> QED
        BY <4>2, <2>7
    <3> QED
      BY <3>1, <3>2, <2>1, <2>8
  <2>9. ASSUME InData, NEW u \in Workers, at'[u] = "returning" PROVE DoneBar(table[u])'
    <3>1. at[u] = "returning"
      BY <2>3, <2>4, <2>9
    <3>2. PICK t \in Tables : t = table[u]
      BY <3>1 DEF WorkInv, InWork
    <3>3. DoneBar(t)
      BY <3>1, <3>2, <2>9 DEF BarInv
    <3>4. DoneBar(t)'
      BY <3>3, <2>7
    <3> QED
      BY <3>2, <3>4, <2>1 DEF DoneBar
  <2> QED
    BY <2>5, <2>8, <2>9, <1>a DEF BarInv
<1>8. ASSUME NEW w \in Workers, ActionFails(w) PROVE BarInv'
  <2>1. PICK kind \in {"own", "context"} : firstErr' = KeptError(kind)
    BY <1>8 DEF ActionFails
  <2>2. Failing'
    BY <2>1 DEF KeptError, Failing
  <2> QED
    BY <2>2 DEF BarInv, DoneBar
<1>9. CASE UNCHANGED vars
  <2>1. UNCHANGED <<stage, finished, table, at, bar, firstErr, error>>
    BY <1>9 DEF vars, pool, worker
  <2>2. \A t \in Tables : DoneBar(t) => DoneBar(t)'
    BY <2>1, <1>a DEF DoneBar, Failing, InData, Here
  <2> QED
    BY <2>1, <2>2, <1>d
<1> QED
  BY <1>1, <1>2, <1>3, <1>4, <1>5, <1>6, <1>7, <1>8, <1>9 DEF Next, MainStep, WorkerStep

-----------------------------------------------------------------------------
(* The theorems. *)

LEMMA Invariant == Spec => [](TypeOK /\ Inv)
<1>1. Init => TypeOK /\ Inv
  BY TypeInit, InvInit
<1>2. TypeOK /\ Inv /\ [Next]_vars => (TypeOK /\ Inv)'
  <2> SUFFICES ASSUME TypeOK, Inv, [Next]_vars PROVE TypeOK' /\ Inv'
    OBVIOUS
  <2>1. TypeOK'
    BY TypeStep DEF Inv
  <2>2. PoolInv' /\ CauseInv'
    BY PoolStep, CauseStep DEF Inv
  <2>3. WorkInv' /\ DoneInv'
    BY WorkStep, DoneStep DEF Inv
  <2>4. CountInv' /\ BarInv'
    BY CountStep, BarStep DEF Inv
  <2> QED
    BY <2>1, <2>2, <2>3, <2>4 DEF Inv
<1> QED
  BY <1>1, <1>2, PTL DEF Spec

\* Type correctness, for any levels, workers, pools and faults.
THEOREM Typing == Spec => []TypeOK
BY Invariant, PTL

\* When the metrics are written and the databases closed, no goroutine of a pool is
\* left in an action.
THEOREM Quiet == Spec => []NoActionAfterReturn
<1>1. TypeOK /\ Inv => NoActionAfterReturn
  BY DEF Inv, PoolInv, Running, NoActionAfterReturn
<1> QED
  BY <1>1, Invariant, PTL

\* The command reports its context only when it was interrupted, and the files and
\* connections it ends with only when nothing failed before.
THEOREM Cause == Spec => []RootCause
<1>1. TypeOK /\ Inv => RootCause
  BY DEF Inv, CauseInv, RootCause
<1> QED
  BY <1>1, Invariant, PTL

\* An action reaches a database only when every earlier stage, and with it every
\* level of the tables it depends on, is complete.
THEOREM Ordered == Spec => []ConnectsInOrder
<1>1. TypeOK /\ Inv => ConnectsInOrder
  BY DEF Inv, DoneInv, ConnectsInOrder, HeldBy
<1> QED
  BY <1>1, Invariant, PTL

\* A success that was not interrupted is complete, and its bars say so.
THEOREM Complete == Spec => []SuccessIsComplete
<1>1. TypeOK /\ Inv => SuccessIsComplete
  <2> SUFFICES ASSUME TypeOK, Inv, exit = "ok", ~interrupted
               PROVE  /\ \A i \in DOMAIN Stages : StageComplete(i)
                      /\ \A i \in DOMAIN Stages : Stages[i].name = "data" /\ Progress =>
                            \A j \in DOMAIN Stages[i].tables :
                               bar[Stages[i].tables[j]] = "done"
    BY DEF SuccessIsComplete
  <2>1. result = "ok" /\ stage = Len(Stages) + 1 /\ ~open
    BY DEF Inv, CauseInv, PoolInv, Running
  <2>2. DOMAIN Stages = 1 .. Len(Stages) /\ Len(Stages) \in Nat
    BY JobsType
  <2>3. \A i \in DOMAIN Stages : StageComplete(i)
    BY <2>1, <2>2 DEF Inv, DoneInv
  <2>4. firstErr = "none" /\ \A w \in Workers : at[w] = "off"
    BY <2>1 DEF Inv, CountInv, PoolInv, TypeOK
  <2>5. ~Failing /\ ~InData
    BY <2>1, <2>2, <2>4 DEF Failing, InData
  <2>6. ASSUME NEW i \in DOMAIN Stages, Stages[i].name = "data", Progress,
               NEW j \in DOMAIN Stages[i].tables
        PROVE  bar[Stages[i].tables[j]] = "done"
    <3>1. Stages[i].tables \in Seq(Tables)
      BY <2>2, JobsType
    <3>2. PICK t \in Tables : t = Stages[i].tables[j]
      BY <3>1, <2>6, ElementOfSeq, LenProperties
    <3>3. <<i, t>> \in finished
      BY <2>3, <2>6, <3>2 DEF StageComplete
    <3> QED
      BY <3>2, <3>3, <2>5, <2>6 DEF Inv, BarInv, DoneBar
  <2> QED
    BY <2>3, <2>6
<1> QED
  BY <1>1, Invariant, PTL

\* The metrics file names a table with an error exactly when the command failed while
\* it synchronised data.
THEOREM Counted == Spec => []ErrorsAreCounted
<1>1. TypeOK /\ Inv => ErrorsAreCounted
  <2> SUFFICES ASSUME TypeOK, Inv, written # <<>>
               PROVE  written[1] # {} <=> result # "ok" /\ Stages[stage].name = "data"
    BY DEF ErrorsAreCounted
  <2>1. written[1] = counted /\ phase \in {"closing", "exited"}
    BY DEF Inv, CountInv
  <2>2. result # "running" /\ ~open
    BY <2>1 DEF Inv, PoolInv, Running
  <2>3. counted # {} <=> firstErr # "none" /\ stage <= Len(Stages) /\ Stages[stage].name = "data"
    BY DEF Inv, CountInv, InData, Here
  <2>4. firstErr # "none" => result = firstErr /\ result # "ok"
    BY <2>2 DEF Inv, CountInv, TypeOK
  <2>5. ASSUME result # "ok", Stages[stage].name = "data"
        PROVE  firstErr # "none" /\ stage <= Len(Stages)
    <3>1. result \in {"own", "context"} /\ stage <= Len(Stages)
      BY <2>2, <2>5 DEF TypeOK, Inv, PoolInv
    <3>2. stage \in 1 .. Len(Stages)
      BY <3>1, JobsType
    <3>3. Stages[stage].pool
      BY <3>2, <2>5, JobsType
    <3> QED
      BY <3>1, <3>3 DEF Inv, CountInv
  <2> QED
    BY <2>1, <2>3, <2>4, <2>5
<1> QED
  BY <1>1, Invariant, PTL

\* A full command that reports success has copied every table, interrupted or not.
THEOREM Copied == Spec => []FullCopiedData
<1>1. TypeOK /\ Inv => FullCopiedData
  <2> SUFFICES ASSUME TypeOK, Inv, command = "full", exit = "ok",
                      NEW i \in DOMAIN Stages, Stages[i].name = "data"
               PROVE  StageComplete(i)
    BY DEF FullCopiedData, SuccessCopiedData
  <2>1. stage = Len(Stages) + 1
    BY DEF Inv, CauseInv, PoolInv
  <2>2. DOMAIN Stages = 1 .. Len(Stages) /\ Len(Stages) \in Nat
    BY JobsType
  <2>3. command \in Commands
    BY DEF TypeOK
  <2>4. PICK k \in i + 1 .. Len(Stages) : ~Stages[k].pool
    BY <2>2, <2>3, StagesType
  <2>5. k \in 1 .. stage - 1 /\ i \in 1 .. k - 1
    BY <2>1, <2>2, <2>4
  <2> QED
    BY <2>4, <2>5 DEF Inv, DoneInv
<1> QED
  BY <1>1, Invariant, PTL
-----------------------------------------------------------------------------
(* Nobody waits for everybody.                                             *)

\* An action takes no more connections than it has sets of, and a bar runs only
\* while an action does.
WaitInv ==
    /\ \A w \in Workers : at[w] = "acting" => step[w] <= Len(Connections(table[w]))
    /\ \A t \in Tables : bar[t] = "running" =>
          Progress /\ InData /\ \E w \in Workers : at[w] = "acting" /\ table[w] = t

\* Every table needs some connections, one set or two of them.
LEMMA ConnectionsType ==
    ASSUME NEW t
    PROVE  Len(Connections(t)) \in 1 .. 2
BY DEF Connections

\* Within a stage a table needs the same connections.
LEMMA SameConnections ==
    ASSUME TypeOK, [Next]_vars, stage' = stage, NEW t
    PROVE  Connections(t)' = Connections(t)
BY SameStages DEF Connections, Here

LEMMA WaitStep == TypeOK /\ PoolInv /\ WorkInv /\ WaitInv /\ [Next]_vars => WaitInv'
<1> SUFFICES ASSUME TypeOK, PoolInv, WorkInv, WaitInv, [Next]_vars PROVE WaitInv'
  OBVIOUS
<1>a. Stages' = Stages /\ DOMAIN at = Workers /\ DOMAIN table = Workers
      /\ DOMAIN step = Workers /\ DOMAIN bar = Tables
  BY SameStages DEF TypeOK
<1>b. ASSUME stage' = stage PROVE InData' = InData /\ Here' = Here
  BY <1>a, <1>b DEF InData, Here
<1>1. CASE UNCHANGED <<stage, at, table, step, bar>>
  BY <1>1, <1>b, SameConnections DEF WaitInv
<1>2. CASE (\A w \in Workers : at[w] # "acting" /\ at'[w] # "acting") /\ UNCHANGED bar
  BY <1>2 DEF WaitInv
<1>3. CASE CallSucceeds \/ CallFails \/ OpenPool \/ ClosePool
  <2>1. \A w \in Workers : at[w] # "acting"
    BY <1>3 DEF CallSucceeds, CallFails, OpenPool, ClosePool, AllOff, PoolInv
  <2>2. UNCHANGED bar /\ \A w \in Workers : at'[w] # "acting"
    BY <1>3, <2>1 DEF CallSucceeds, CallFails, OpenPool, ClosePool, pool, worker
  <2> QED
    BY <2>1, <2>2, <1>2
<1>4. ASSUME NEW w \in Workers, TakeJob(w) PROVE WaitInv'
  <2>1. /\ at[w] = "selecting" /\ Bars(Head(jobs), "running")
        /\ at' = [at EXCEPT ![w] = "acting"] /\ table' = [table EXCEPT ![w] = Head(jobs)]
        /\ step' = [step EXCEPT ![w] = 0] /\ UNCHANGED <<stage, open>> /\ open
    BY <1>4 DEF TakeJob, PoolInv
  <2>2. stage <= Len(Stages)
    BY <2>1 DEF PoolInv, Running
  <2>3. ASSUME NEW v \in Workers, at'[v] = "acting"
        PROVE  step'[v] <= Len(Connections(table[v]))'
    <3>1. CASE v = w
      <4>1. step'[v] = 0 /\ Len(Connections(table'[v])) \in 1 .. 2
        BY <2>1, <3>1, <1>a, ConnectionsType
      <4>2. Connections(table[v])' = Connections(table'[v])
        BY <2>1, <1>a, SameStages DEF Connections, Here
      <4> QED
        BY <4>1, <4>2
    <3>2. CASE v # w
      <4>1. at[v] = "acting" /\ step'[v] = step[v] /\ table'[v] = table[v]
        BY <2>1, <2>3, <3>2, <1>a
      <4>2. Connections(table[v])' = Connections(table[v])
        BY <2>1, <4>1, <1>a, SameStages DEF Connections, Here
      <4> QED
        BY <4>1, <4>2 DEF WaitInv
    <3> QED
      BY <3>1, <3>2
  <2>4. ASSUME NEW t \in Tables, bar'[t] = "running"
        PROVE  /\ Progress /\ InData'
               /\ \E v \in Workers : at'[v] = "acting" /\ table'[v] = t
    <3>1. CASE bar[t] = "running"
      <4>1. PICK v \in Workers : at[v] = "acting" /\ table[v] = t
        BY <3>1 DEF WaitInv
      <4> QED
        BY <2>1, <3>1, <4>1, <1>a, <1>b DEF WaitInv
    <3>2. CASE bar[t] # "running"
      <4>1. t = Head(jobs) /\ Progress /\ Here = "data"
        BY <2>1, <2>4, <3>2, <1>a DEF Bars
      <4> QED
        BY <2>1, <2>2, <4>1, <1>a, <1>b DEF InData
    <3> QED
      BY <3>1, <3>2
  <2> QED
    BY <2>3, <2>4 DEF WaitInv
<1>5. ASSUME NEW w \in Workers, Connect(w) PROVE WaitInv'
  <2>1. /\ step' = [step EXCEPT ![w] = @ + 1] /\ step[w] < Len(Connections(table[w]))
        /\ UNCHANGED <<stage, at, table, bar>>
    BY <1>5 DEF Connect
  <2>2. ASSUME NEW v \in Workers, at[v] = "acting"
        PROVE  step'[v] <= Len(Connections(table[v]))
    <3>1. CASE v = w
      <4> DEFINE n == Len(Connections(table[v]))
      <4>1. step'[v] = step[v] + 1 /\ step[v] < n /\ step[v] \in 0 .. 2
        BY <2>1, <3>1, <1>a DEF TypeOK
      <4>2. n \in 1 .. 2
        BY ConnectionsType
      <4> HIDE DEF n
      <4>3. step'[v] <= n
        BY <4>1, <4>2
      <4> QED
        BY <4>3 DEF n
    <3>2. CASE v # w
      BY <2>1, <2>2, <3>2, <1>a DEF WaitInv
    <3> QED
      BY <3>1, <3>2
  <2>3. \A v \in Workers : Connections(table[v])' = Connections(table[v])
    BY <2>1, SameConnections
  <2> QED
    BY <2>1, <2>2, <2>3, <1>b DEF WaitInv
<1>6. ASSUME NEW w \in Workers, LeavePool(w) \/ ActionSucceeds(w) \/ ActionFails(w)
      PROVE  WaitInv'
  <2>1. /\ at[w] # "acting"
        /\ \E x \in {"off", "selecting"} : at' = [at EXCEPT ![w] = x]
        /\ UNCHANGED <<stage, table, step, bar>>
    BY <1>6 DEF LeavePool, ActionSucceeds, ActionFails
  <2>2. \A v \in Workers : at'[v] = "acting" <=> at[v] = "acting"
    BY <2>1, <1>a
  <2>3. \A v \in Workers : Connections(table[v])' = Connections(table[v])
    BY <2>1, SameConnections
  <2> QED
    BY <2>1, <2>2, <2>3, <1>b DEF WaitInv
<1>7. ASSUME NEW w \in Workers, EndBody(w) PROVE WaitInv'
  <2>1. /\ at[w] = "acting" /\ at' = [at EXCEPT ![w] = "returning"]
        /\ UNCHANGED <<stage, table, step>>
        /\ \E x \in {"done", "failed"} : Bars(table[w], x)
    BY <1>7 DEF EndBody
  <2>2. \A v \in Workers : Connections(table[v])' = Connections(table[v])
    BY <2>1, SameConnections
  <2>3. \A v \in Workers : at'[v] = "acting" => at[v] = "acting"
    BY <2>1, <1>a
  <2>4. ASSUME NEW t \in Tables, bar'[t] = "running"
        PROVE  /\ Progress /\ InData
               /\ \E v \in Workers : at'[v] = "acting" /\ table[v] = t
    <3>1. bar[t] = "running"
      BY <2>1, <2>4, <1>a DEF Bars
    <3>2. Progress /\ InData
      BY <3>1 DEF WaitInv
    <3>3. PICK v \in Workers : at[v] = "acting" /\ table[v] = t
      BY <3>1 DEF WaitInv
    <3>4. t # table[w]
      BY <2>1, <2>4, <3>2, <1>a DEF Bars, InData
    <3> QED
      BY <2>1, <3>2, <3>3, <3>4, <1>a
  <2> QED
    BY <2>1, <2>2, <2>3, <2>4, <1>b DEF WaitInv
<1> QED
  BY <1>1, <1>3, <1>4, <1>5, <1>6, <1>7
     DEF Next, MainStep, WorkerStep, Open, OpenFails, WriteMetrics, Close, Interrupt,
         vars, pool, worker

\* A database whose connections nobody holds gives one.
LEMMA FreePool ==
    ASSUME TypeOK, NEW db, \A w \in Workers : db \notin HeldBy(w)
    PROVE  Available(db)
<1>1. {w \in Workers : db \in HeldBy(w)} = {}
  OBVIOUS
<1>2. Cardinality({w \in Workers : db \in HeldBy(w)}) = 0
  BY <1>1, FS_EmptySet
<1>3. limit \in Nat
  BY LimitsAssumption DEF TypeOK
<1> QED
  BY <1>2, <1>3 DEF Available

\* Of the workers in a pool one can go on: the first connections are of the source,
\* and who has one and needs the target is not kept from it by a worker that is
\* waiting as well.
LEMMA SomeoneGoes ==
    ASSUME TypeOK, WaitInv, ~Cancelled, NEW a \in Workers, at[a] = "acting",
           \A w \in Workers : at[w] \in {"off", "acting"}
    PROVE  \E w \in Workers : WorkerMayGo(w)
<1> SUFFICES ASSUME \A w \in Workers : ~WorkerMayGo(w) PROVE FALSE
  OBVIOUS
<1>1. Here \notin {"indexes"}
  BY DEF WorkerMayGo, MayEnd
<1>2. ASSUME NEW w \in Workers, at[w] = "acting"
      PROVE  /\ step[w] \in Nat
             /\ step[w] < Len(Connections(table[w]))
  <2> DEFINE n == Len(Connections(table[w]))
  <2>1. step[w] # n
    BY <1>2 DEF WorkerMayGo, MayEnd
  <2>2. step[w] <= n /\ step[w] \in 0 .. 2
    BY <1>2 DEF WaitInv, TypeOK
  <2>3. n \in 1 .. 2
    BY ConnectionsType
  <2> HIDE DEF n
  <2>4. step[w] \in Nat /\ step[w] < n
    BY <2>1, <2>2, <2>3
  <2> QED
    BY <2>4 DEF n
<1>3. ASSUME NEW w \in Workers, at[w] = "acting"
      PROVE  \/ step[w] = 0
             \/ step[w] = 1 /\ Len(Connections(table[w])) = 2
  <2> DEFINE n == Len(Connections(table[w]))
  <2>1. step[w] \in Nat /\ step[w] < n /\ n \in 1 .. 2
    BY <1>2, <1>3, ConnectionsType
  <2> HIDE DEF n
  <2>2. step[w] = 0 \/ (step[w] = 1 /\ n = 2)
    BY <2>1
  <2> QED
    BY <2>2 DEF n
<1>4. ASSUME NEW w \in Workers PROVE HeldBy(w) \subseteq {"source"}
  <2>1. CASE at[w] = "acting" /\ step[w] = 1
    <3>1. Connections(table[w])[1] = {"source"}
      BY <1>1, <1>3, <2>1 DEF Connections
    <3> QED
      BY <2>1, <3>1 DEF HeldBy
  <2>2. CASE ~(at[w] = "acting" /\ step[w] = 1)
    <3>1. ~(at[w] = "acting" /\ step[w] > 0)
      BY <1>3, <2>2
    <3> QED
      BY <3>1 DEF HeldBy
  <2> QED
    BY <2>1, <2>2
<1>5. Available("target")
  <2>1. \A w \in Workers : "target" \notin HeldBy(w)
    BY <1>4
  <2> QED
    BY <2>1, FreePool
<1>6. CASE \E w \in Workers : at[w] = "acting" /\ step[w] = 1
  <2>1. PICK w \in Workers : at[w] = "acting" /\ step[w] = 1
    BY <1>6
  <2>2. Len(Connections(table[w])) = 2
    BY <2>1, <1>3
  <2>3. Connections(table[w])[1] = {"source"}
    BY <1>1 DEF Connections
  <2>4. Connections(table[w])[2] \in {{"target"}, {"source", "target"}}
    BY <2>2 DEF Connections
  <2>5. HeldBy(w) = {"source"}
    BY <2>1, <2>3 DEF HeldBy
  <2>6. \A db \in Connections(table[w])[2] \ HeldBy(w) : Available(db)
    BY <1>5, <2>4, <2>5
  <2> QED
    BY <2>1, <2>6 DEF WorkerMayGo
<1>7. CASE \A w \in Workers : at[w] = "acting" => step[w] = 0
  <2>1. \A w \in Workers : "source" \notin HeldBy(w)
    BY <1>7 DEF HeldBy
  <2>2. Available("source")
    BY <2>1, FreePool
  <2>3. Connections(table[a])[1] = {"source"}
    BY <1>1 DEF Connections
  <2>4. \A db \in Connections(table[a])[1] \ HeldBy(a) : Available(db)
    BY <2>2, <2>3
  <2> QED
    BY <2>4, <1>7 DEF WorkerMayGo
<1> QED
  BY <1>3, <1>6, <1>7

\* Nobody waits for everybody: until the process has exited the main goroutine or a
\* worker can go on without a fault, for any number of workers, of tables and of
\* connections, a single one included; and a command that has its result does not
\* wait for a progress bar that nobody draws.
THEOREM Unstuck == Spec => []NeverStuck
<1>1. Init => WaitInv
  BY DEF Init, WaitInv
<1>2. TypeOK /\ Inv /\ WaitInv /\ [Next]_vars => WaitInv'
  BY WaitStep DEF Inv
<1>3. TypeOK /\ Inv /\ WaitInv => NeverStuck
  <2> SUFFICES ASSUME TypeOK, Inv, WaitInv, phase # "exited", ~MainMayGo
               PROVE  \E w \in Workers : WorkerMayGo(w)
    BY DEF NeverStuck
  <2>1. phase = "running"
    BY DEF MainMayGo, TypeOK
  <2>2. result = "running"
    <3> SUFFICES ASSUME result # "running" PROVE FALSE
      OBVIOUS
    <3>1. \A w \in Workers : at[w] = "off"
      BY DEF Inv, PoolInv, Running
    <3>2. \A t \in Tables : bar[t] # "running"
      BY <3>1 DEF WaitInv
    <3> QED
      BY <2>1, <3>2 DEF MainMayGo
  <2>3. PICK a \in Workers : at[a] # "off"
    BY <2>1, <2>2 DEF MainMayGo, Running, AllOff
  <2>4. CASE Cancelled \/ \E w \in Workers : at[w] \in {"selecting", "returning"}
    BY <2>3, <2>4 DEF WorkerMayGo, TypeOK
  <2>5. CASE ~Cancelled /\ \A w \in Workers : at[w] \notin {"selecting", "returning"}
    <3>1. \A w \in Workers : at[w] \in {"off", "acting"}
      BY <2>5 DEF TypeOK
    <3> QED
      BY <2>3, <2>5, <3>1, SomeoneGoes
  <2> QED
    BY <2>4, <2>5
<1> QED
  BY <1>1, <1>2, <1>3, Invariant, PTL DEF Spec

-----------------------------------------------------------------------------
(* No two workers are at one table.                                        *)

\* A table is in the channel once, or with one worker, or with none.
AloneInv ==
    /\ \A i, j \in 1 .. Len(jobs) : jobs[i] = jobs[j] => i = j
    /\ \A w \in Workers : InWork(w) => ~Queued(table[w])
    /\ OneWorkerPerTable

\* What a stage is carried out over names no table twice.
LEMMA StageRepeatsNot ==
    ASSUME NoRepeats, TypeOK, stage <= Len(Stages)
    PROVE  \A i, j \in 1 .. Len(Stages[stage].tables) :
              Stages[stage].tables[i] = Stages[stage].tables[j] => i = j
<1> DEFINE tables == Stages[stage].tables
<1>1. tables \in Lists
  <2>1. stage \in 1 .. Len(Stages)
    BY JobsType
  <2>2. Stages[stage] \in Stage
    BY <2>1, StagesType DEF TypeOK
  <2> QED
    BY <2>2 DEF Stage
<1>2. ~Repeats(tables)
  <2>1. ~Repeats(<<>>)
    BY DEF Repeats
  <2> QED
    BY <1>1, <2>1 DEF Lists, NoRepeats
<1>3. DOMAIN tables = 1 .. Len(tables)
  BY <1>1, ListsType, LenProperties
<1> HIDE DEF tables
<1>4. \A i, j \in 1 .. Len(tables) : tables[i] = tables[j] => i = j
  BY <1>2, <1>3 DEF Repeats
<1> QED
  BY <1>4 DEF tables

LEMMA AloneStep ==
    ASSUME NoRepeats, TypeOK, PoolInv, AloneInv, [Next]_vars
    PROVE  AloneInv'
<1>a. DOMAIN at = Workers /\ DOMAIN table = Workers /\ jobs \in Seq(Tables)
  BY DEF TypeOK
<1>1. ASSUME UNCHANGED <<jobs, table>>, \A w \in Workers : InWork(w)' => InWork(w)
      PROVE  AloneInv'
  BY <1>1 DEF AloneInv, OneWorkerPerTable, InWork, Queued
<1>2. CASE OpenPool
  <2>1. stage <= Len(Stages) /\ jobs' = Stages[stage].tables
    BY <1>2 DEF OpenPool, PoolInv, Running
  <2>2. \A w \in Workers : ~InWork(w)'
    BY <1>2 DEF OpenPool, InWork
  <2> QED
    BY <2>1, <2>2, StageRepeatsNot DEF AloneInv, OneWorkerPerTable, InWork
<1>3. ASSUME NEW w \in Workers, TakeJob(w) PROVE AloneInv'
  <2>1. /\ jobs # <<>> /\ jobs' = Tail(jobs)
        /\ at' = [at EXCEPT ![w] = "acting"] /\ table' = [table EXCEPT ![w] = Head(jobs)]
    BY <1>3 DEF TakeJob
  <2>2. /\ Len(jobs) \in Nat \ {0} /\ Len(jobs') = Len(jobs) - 1
        /\ Head(jobs) = jobs[1]
        /\ \A i \in 1 .. Len(jobs') : jobs'[i] = jobs[i + 1]
    BY <2>1, <1>a, HeadTailProperties, LenProperties, EmptySeq
  <2>3. \A i, j \in 1 .. Len(jobs') : jobs'[i] = jobs'[j] => i = j
    BY <2>2 DEF AloneInv
  <2>4. ASSUME NEW t, Queued(t)' PROVE Queued(t) /\ t # Head(jobs)
    <3>1. PICK i \in 1 .. Len(jobs') : jobs'[i] = t
      BY <2>4 DEF Queued
    <3>2. i + 1 \in 1 .. Len(jobs) /\ 1 \in 1 .. Len(jobs) /\ jobs[i + 1] = t /\ i + 1 # 1
      BY <3>1, <2>2
    <3> QED
      BY <3>2, <2>2 DEF Queued, AloneInv
  <2>5. Queued(Head(jobs))
    BY <2>2 DEF Queued
  <2>6. ASSUME NEW v \in Workers, InWork(v)'
        PROVE  (v = w /\ table'[v] = Head(jobs)) \/ (InWork(v) /\ table'[v] = table[v])
    BY <2>1, <2>6, <1>a DEF InWork
  <2>7. \A v \in Workers : InWork(v)' => ~Queued(table[v])'
    BY <2>4, <2>6 DEF AloneInv
  <2>8. ASSUME NEW u \in Workers, NEW v \in Workers, u # v, InWork(u)', InWork(v)'
        PROVE  table'[u] # table'[v]
    BY <2>5, <2>6, <2>8 DEF AloneInv, OneWorkerPerTable, InWork
  <2> QED
    BY <2>3, <2>7, <2>8 DEF AloneInv, OneWorkerPerTable, InWork
<1>4. ASSUME NEW w \in Workers,
             \/ LeavePool(w) \/ Connect(w) \/ EndBody(w) \/ ActionSucceeds(w)
             \/ ActionFails(w)
      PROVE  AloneInv'
  <2>1. UNCHANGED <<jobs, table>>
    BY <1>4 DEF LeavePool, Connect, EndBody, ActionSucceeds, ActionFails
  <2>2. \/ UNCHANGED at
        \/ at[w] = "acting" /\ at' = [at EXCEPT ![w] = "returning"]
        \/ at' = [at EXCEPT ![w] = "selecting"] \/ at' = [at EXCEPT ![w] = "off"]
    BY <1>4 DEF LeavePool, Connect, EndBody, ActionSucceeds, ActionFails
  <2>3. \A v \in Workers : InWork(v)' => InWork(v)
    BY <2>2, <1>a DEF InWork
  <2> QED
    BY <2>1, <2>3, <1>1
<1>5. CASE UNCHANGED <<jobs, at, table>>
  BY <1>5, <1>1 DEF InWork
<1> QED
  BY <1>2, <1>3, <1>4, <1>5
     DEF Next, MainStep, WorkerStep, Open, OpenFails, CallSucceeds, CallFails, ClosePool,
         WriteMetrics, Close, Interrupt, vars, pool, worker

\* A configuration that names no table twice never has two workers at one table, at
\* no stage: each table's copy, page loop or structure is one goroutine's alone.
THEOREM Alone ==
    ASSUME NoRepeats
    PROVE  Spec => []OneWorkerPerTable
<1>1. Init => AloneInv
  BY DEF Init, AloneInv, OneWorkerPerTable, InWork
<1>2. TypeOK /\ Inv /\ AloneInv /\ [Next]_vars => AloneInv'
  BY AloneStep DEF Inv
<1>3. AloneInv => OneWorkerPerTable
  BY DEF AloneInv
<1> QED
  BY <1>1, <1>2, <1>3, Invariant, PTL DEF Spec

-----------------------------------------------------------------------------
(* Nothing goes on for ever.                                               *)

\* The steps to be taken can be counted, and so can the stages.
MeasureType ==
    /\ \A w \in Workers : StepsLeft(w) \in 0 .. 5
    /\ IsFiniteSet(StepsToTake) /\ Cardinality(StepsToTake) \in Nat
    /\ Len(jobs) \in Nat
    /\ WorkLeft \in Nat /\ CallsLeft \in Nat

LEMMA MeasureTyped == TypeOK => MeasureType
<1> SUFFICES ASSUME TypeOK PROVE MeasureType
  OBVIOUS
<1>1. ASSUME NEW w \in Workers PROVE StepsLeft(w) \in 0 .. 5
  <2>1. step[w] \in 0 .. 2
    BY DEF TypeOK
  <2> QED
    BY <2>1 DEF StepsLeft
<1>2. IsFiniteSet(Workers \X (1 .. 5))
  <2>1. IsFiniteSet(1 .. Parallelism)
    BY ParallelismAssumption, FS_Interval
  <2>2. IsFiniteSet(1 .. 5)
    <3>1. \A n \in Int : IsFiniteSet(1 .. n)
      BY FS_Interval
    <3>2. 5 \in Int
      OBVIOUS
    <3> QED
      BY <3>1, <3>2, Zenon
  <2> QED
    BY <2>1, <2>2, FS_Product DEF Workers
<1>3. IsFiniteSet(StepsToTake) /\ Cardinality(StepsToTake) \in Nat
  BY <1>2, FS_Subset, FS_CardinalityType DEF StepsToTake
<1>4. Len(jobs) \in Nat
  BY LenProperties DEF TypeOK
<1>5. stage \in Nat /\ Len(Stages) \in Nat /\ stage <= Len(Stages) + 1
  BY StagesType DEF TypeOK
<1>6. CallsLeft \in Nat
  BY <1>5 DEF CallsLeft, EndsLeft
<1> QED
  BY <1>1, <1>3, <1>4, <1>6 DEF WorkLeft, MeasureType

\* A worker that has fewer steps left while the others have as many.
LEMMA FewerSteps ==
    ASSUME MeasureType, MeasureType', NEW w \in Workers,
           \A v \in Workers : v = w \/ StepsLeft(v)' = StepsLeft(v),
           StepsLeft(w)' < StepsLeft(w), UNCHANGED jobs
    PROVE  WorkLeft' < WorkLeft
<1>1. /\ \A v \in Workers : StepsLeft(v) \in 0 .. 5 /\ StepsLeft(v)' \in 0 .. 5
      /\ IsFiniteSet(StepsToTake)
      /\ Cardinality(StepsToTake) \in Nat /\ Cardinality(StepsToTake') \in Nat
      /\ Len(jobs) \in Nat
  BY DEF MeasureType
<1>2. \A v \in Workers : StepsLeft(v)' <= StepsLeft(v)
  BY <1>1
<1>3. StepsToTake' \subseteq StepsToTake
  BY <1>1, <1>2 DEF StepsToTake
<1>4. <<w, StepsLeft(w)>> \in StepsToTake /\ <<w, StepsLeft(w)>> \notin StepsToTake'
  BY <1>1 DEF StepsToTake
<1>5. /\ Cardinality(StepsToTake') <= Cardinality(StepsToTake)
      /\ Cardinality(StepsToTake') # Cardinality(StepsToTake)
  BY <1>1, <1>3, <1>4, FS_Subset
<1> QED
  BY <1>1, <1>5 DEF WorkLeft

LEMMA OneMore ==
    ASSUME NEW S, NEW x, IsFiniteSet(S), Cardinality(S) \in Nat
    PROVE  /\ IsFiniteSet(S \union {x}) /\ Cardinality(S \union {x}) \in Nat
           /\ Cardinality(S \union {x}) <= Cardinality(S) + 1
<1>1. /\ IsFiniteSet(S \union {x})
      /\ Cardinality(S \union {x}) =
            IF x \in S THEN Cardinality(S) ELSE Cardinality(S) + 1
  BY FS_AddElement
<1> QED
  BY <1>1

\* A worker that takes a table has four steps more than it had, and the channel
\* has a table less, which stood for five.
LEMMA TakenJob ==
    ASSUME TypeOK, MeasureType, MeasureType', NEW w \in Workers, TakeJob(w)
    PROVE  WorkLeft' < WorkLeft
<1>1. /\ \A v \in Workers : StepsLeft(v) \in 0 .. 5 /\ StepsLeft(v)' \in 0 .. 5
      /\ IsFiniteSet(StepsToTake)
      /\ Cardinality(StepsToTake) \in Nat /\ Cardinality(StepsToTake') \in Nat
  BY DEF MeasureType
<1>2. \A v \in Workers : v = w \/ StepsLeft(v)' = StepsLeft(v)
  BY DEF TakeJob, StepsLeft, TypeOK
<1>3. StepsLeft(w) = 1
  BY DEF TakeJob, StepsLeft
<1>. DEFINE A == StepsToTake \union {<<w, 2>>}
            B == A \union {<<w, 3>>}
            C == B \union {<<w, 4>>}
            D == C \union {<<w, 5>>}
<1>4. StepsToTake' \subseteq D
  <2> SUFFICES ASSUME NEW m \in StepsToTake' PROVE m \in D
    OBVIOUS
  <2>1. PICK v \in Workers, i \in 1 .. 5 : m = <<v, i>>
    BY DEF StepsToTake
  <2>2. CASE v = w
    <3>1. i = 1 \/ i = 2 \/ i = 3 \/ i = 4 \/ i = 5
      OBVIOUS
    <3>2. i = 1 => m \in StepsToTake
      BY <2>1, <2>2, <1>3 DEF StepsToTake
    <3> QED
      BY <2>1, <2>2, <3>1, <3>2
  <2>3. CASE v # w
    <3>1. StepsLeft(v)' = StepsLeft(v)
      BY <2>3, <1>2
    <3>2. m \in StepsToTake
      BY <2>1, <3>1 DEF StepsToTake
    <3> QED
      BY <3>2
  <2> QED
    BY <2>2, <2>3
<1>5. IsFiniteSet(A) /\ Cardinality(A) \in Nat
      /\ Cardinality(A) <= Cardinality(StepsToTake) + 1
  BY <1>1, OneMore
<1>6. IsFiniteSet(B) /\ Cardinality(B) \in Nat /\ Cardinality(B) <= Cardinality(A) + 1
  BY <1>5, OneMore
<1>7. IsFiniteSet(C) /\ Cardinality(C) \in Nat /\ Cardinality(C) <= Cardinality(B) + 1
  BY <1>6, OneMore
<1>8. IsFiniteSet(D) /\ Cardinality(D) \in Nat /\ Cardinality(D) <= Cardinality(C) + 1
  BY <1>7, OneMore
<1>9. Cardinality(StepsToTake') <= Cardinality(D)
  BY <1>4, <1>8, FS_Subset
<1>10. Len(jobs) \in Nat /\ Len(jobs') \in Nat /\ Len(jobs') = Len(jobs) - 1
  BY LenProperties, EmptySeq, HeadTailProperties DEF TakeJob, TypeOK
<1>. HIDE DEF A, B, C, D
<1>11. Cardinality(StepsToTake') <= Cardinality(StepsToTake) + 4
  BY <1>1, <1>5, <1>6, <1>7, <1>8, <1>9
<1> QED
  BY <1>1, <1>10, <1>11 DEF WorkLeft

\* A step of a worker leaves less to its pool, and the main goroutine as much.
LEMMA WorkerGetsOn ==
    ASSUME TypeOK, MeasureType, MeasureType', NEW w \in Workers, WorkerStep(w)
    PROVE  CallsLeft' = CallsLeft /\ WorkLeft' < WorkLeft
<1>1. CallsLeft' = CallsLeft
  <2>1. UNCHANGED <<command, phase, stage, open, interrupted, result>>
    BY DEF WorkerStep, TakeJob, LeavePool, Connect, EndBody, ActionSucceeds,
           ActionFails, given, ending
  <2>2. Stages' = Stages
    BY <2>1 DEF Stages
  <2> QED
    BY <2>1, <2>2 DEF CallsLeft, EndsLeft
<1>2. CASE TakeJob(w)
  BY <1>1, <1>2, TakenJob
<1>3. step[w] \in 0 .. 2 /\ DOMAIN at = Workers /\ DOMAIN step = Workers
  BY DEF TypeOK
<1>4. CASE LeavePool(w)
  <2>1. \A v \in Workers : v = w \/ StepsLeft(v)' = StepsLeft(v)
    BY <1>3, <1>4 DEF LeavePool, StepsLeft
  <2>2. StepsLeft(w) = 1 /\ StepsLeft(w)' = 0
    BY <1>3, <1>4 DEF LeavePool, StepsLeft
  <2> QED
    BY <1>1, <1>4, <2>1, <2>2, FewerSteps DEF LeavePool
<1>5. CASE Connect(w)
  <2>1. \A v \in Workers : v = w \/ StepsLeft(v)' = StepsLeft(v)
    BY <1>3, <1>5 DEF Connect, StepsLeft
  <2>2. StepsLeft(w) = 5 - step[w] /\ StepsLeft(w)' = 5 - (step[w] + 1)
    BY <1>3, <1>5 DEF Connect, StepsLeft
  <2> QED
    BY <1>1, <1>3, <1>5, <2>1, <2>2, FewerSteps DEF Connect
<1>6. CASE EndBody(w)
  <2>1. \A v \in Workers : v = w \/ StepsLeft(v)' = StepsLeft(v)
    BY <1>3, <1>6 DEF EndBody, StepsLeft
  <2>2. StepsLeft(w) = 5 - step[w] /\ StepsLeft(w)' = 2
    BY <1>3, <1>6 DEF EndBody, StepsLeft
  <2> QED
    BY <1>1, <1>3, <1>6, <2>1, <2>2, FewerSteps DEF EndBody
<1>7. CASE ActionSucceeds(w) \/ ActionFails(w)
  <2>1. \A v \in Workers : v = w \/ StepsLeft(v)' = StepsLeft(v)
    BY <1>3, <1>7 DEF ActionSucceeds, ActionFails, StepsLeft
  <2>2. at[w] = "returning" /\ at'[w] \in {"selecting", "off"}
    BY <1>3, <1>7 DEF ActionSucceeds, ActionFails
  <2>3. StepsLeft(w) = 2 /\ (StepsLeft(w)' = 1 \/ StepsLeft(w)' = 0)
    BY <2>2 DEF StepsLeft
  <2>4. StepsLeft(w)' < StepsLeft(w)
    BY <2>3
  <2>5. UNCHANGED jobs
    BY <1>7 DEF ActionSucceeds, ActionFails
  <2> QED
    BY <1>1, <2>1, <2>4, <2>5, FewerSteps
<1> QED
  BY <1>1, <1>2, <1>4, <1>5, <1>6, <1>7 DEF WorkerStep

\* A step of the main goroutine, or an interrupt, leaves it less.
LEMMA MainGetsOn ==
    ASSUME TypeOK, PoolInv, MainStep \/ Interrupt
    PROVE  CallsLeft' < CallsLeft
<1>1. PICK n \in Nat : n = Len(Stages) /\ n = Len(Stages')
  <2>1. Stages' = Stages
    BY SameStages DEF Next
  <2> QED
    BY <2>1, StagesType DEF TypeOK
<1>2. stage \in Int
  BY StagesType DEF TypeOK
<1>a. EndsLeft \in Nat /\ (phase' = phase => EndsLeft' = EndsLeft)
  BY DEF EndsLeft
<1>3. CASE Open
  BY <1>1, <1>2, <1>3 DEF Open, CallsLeft, EndsLeft
<1>4. CASE OpenFails
  BY <1>1, <1>2, <1>4 DEF OpenFails, PoolInv, CallsLeft, EndsLeft
<1>5. CASE CallSucceeds
  <2>1. /\ result = "running" /\ stage' = stage + 1
        /\ UNCHANGED <<phase, open, interrupted>>
    BY <1>5 DEF CallSucceeds, Advance, Running, ending
  <2> QED
    BY <1>1, <1>2, <1>a, <2>1 DEF CallsLeft
<1>6. CASE CallFails
  BY <1>1, <1>2, <1>a, <1>6 DEF CallFails, Running, ending, CallsLeft
<1>7. CASE OpenPool
  BY <1>1, <1>2, <1>a, <1>7 DEF OpenPool, ending, CallsLeft
<1>8. CASE ClosePool
  <2>1. /\ result = "running" /\ open /\ open' = FALSE
        /\ UNCHANGED <<phase, interrupted>>
        /\ stage' = stage + 1 \/ (stage' = stage /\ result' = firstErr /\ firstErr # "none")
    BY <1>8 DEF ClosePool, Advance, PoolInv, Running, ending
  <2>2. CASE stage' = stage + 1
    BY <1>1, <1>2, <1>a, <2>1, <2>2 DEF CallsLeft
  <2>3. CASE stage' = stage /\ result' = firstErr
    <3>1. result' # "running"
      BY <2>3 DEF TypeOK
    <3> QED
      BY <1>1, <1>2, <1>a, <2>1, <2>3, <3>1 DEF CallsLeft
  <2> QED
    BY <2>1, <2>2, <2>3
<1>9. CASE WriteMetrics
  BY <1>1, <1>2, <1>9 DEF WriteMetrics, CallsLeft, EndsLeft
<1>10. CASE Close
  BY <1>1, <1>2, <1>10 DEF Close, CallsLeft, EndsLeft
<1>11. CASE Interrupt
  BY <1>1, <1>2, <1>a, <1>11 DEF Interrupt, ending, CallsLeft
<1> QED
  BY <1>3, <1>4, <1>5, <1>6, <1>7, <1>8, <1>9, <1>10, <1>11 DEF MainStep

\* Every step of a command leaves less to do, whatever interleaves, fails or is
\* interrupted: with Unstuck, a command that runs comes to its end.
THEOREM Progresses == Spec => GetsOn
<1>1. ASSUME TypeOK, MeasureType, MeasureType', Inv, Next
      PROVE  /\ CallsLeft' \in Nat /\ WorkLeft' \in Nat
             /\ \/ CallsLeft' < CallsLeft
                \/ CallsLeft' = CallsLeft /\ WorkLeft' < WorkLeft
  <2>1. CallsLeft' \in Nat /\ WorkLeft' \in Nat
    BY <1>1 DEF MeasureType
  <2>2. CASE \E w \in Workers : WorkerStep(w)
    BY <1>1, <2>1, <2>2, WorkerGetsOn
  <2>3. CASE MainStep \/ Interrupt
    BY <1>1, <2>1, <2>3, MainGetsOn DEF Inv
  <2> QED
    BY <1>1, <2>2, <2>3 DEF Next
<1>2. TypeOK /\ MeasureType /\ MeasureType' /\ Inv /\ [Next]_vars
        => [/\ CallsLeft' \in Nat /\ WorkLeft' \in Nat
            /\ \/ CallsLeft' < CallsLeft
               \/ CallsLeft' = CallsLeft /\ WorkLeft' < WorkLeft]_vars
  BY <1>1
<1> QED
  BY <1>2, Typing, MeasureTyped, Invariant, PTL DEF Spec, GetsOn
=============================================================================
