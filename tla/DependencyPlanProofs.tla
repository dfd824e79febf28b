------------------------ MODULE DependencyPlanProofs ------------------------
(***************************************************************************)
(* Proofs about DependencyPlan, for any tables, any foreign keys, any      *)
(* configured mappings and any number of lost connections.                 *)
(***************************************************************************)
EXTENDS DependencyPlan, FiniteSetTheorems, TLAPS

\* The configured tables are the tables of the mappings.
LEMMA ConfiguredTables == Configured \subseteq Tables /\ \A m \in Mappings : Order[m] \in Configured
  BY OrderAssumption DEF Configured, Mappings

\* Only configured tables are waited for, and those that were referred to.
LEMMA RelevantTables ==
  ASSUME NEW t, NEW S
  PROVE  Relevant(t, S) \subseteq Configured /\ Relevant(t, S) \subseteq S /\ t \notin Relevant(t, S)
  BY DEF Relevant

\* Every step keeps the types.
THEOREM Typing == Spec => []TypeOK
<1>1. Init => TypeOK
  BY LostAssumption DEF Init, TypeOK
<1>2. TypeOK /\ [Next]_vars => TypeOK'
  <2> SUFFICES ASSUME TypeOK, [Next]_vars PROVE TypeOK'
    OBVIOUS
  <2>. USE DEF TypeOK
  <2>1. CASE ReadForeignKeys
    BY <2>1, RelevantTables DEF ReadForeignKeys
  <2>2. CASE ReadCutShort
    BY <2>2, RelevantTables, LostAssumption DEF ReadCutShort
  <2>3. CASE ReadFails
    BY <2>3, LostAssumption DEF ReadFails
  <2>4. CASE StartSorting
    BY <2>4 DEF StartSorting
  <2>5. CASE NextLevel
    BY <2>5 DEF NextLevel
  <2>6. CASE ReportCycle
    BY <2>6 DEF ReportCycle
  <2>7. CASE Finish
    BY <2>7 DEF Finish
  <2>8. CASE UNCHANGED vars
    BY <2>8 DEF vars
  <2>. QED
    BY <2>1, <2>2, <2>3, <2>4, <2>5, <2>6, <2>7, <2>8 DEF Next
<1>. QED
  BY <1>1, <1>2, PTL DEF Spec

-----------------------------------------------------------------------------
(* The inductive invariant.                                                *)

\* Reading foreign keys keeps the invariant: there are no levels yet.
LEMMA ReadStep ==
  ASSUME TypeOK, PlanInv, outcome = "reading",
         NEW t \in toRead, NEW S \in SUBSET refers[t],
         \/ S = refers[t] /\ lost' = lost
         \/ lost' = lost + 1,
         deps' = [deps EXCEPT ![t] = Relevant(t, S)],
         toRead' = toRead \ {t},
         UNCHANGED <<refers, remaining, levels, outcome>>
  PROVE  PlanInv'
<1>1. levels = <<>> /\ levels' = <<>> /\ remaining' = Configured
  BY DEF PlanInv, ReadFirst
<1>2. ReadFirst' /\ Placed' /\ Waiting' /\ ReadTight' /\ AtEnd' /\ ReadParentsEarlier'
  BY <1>1, ConfiguredTables
     DEF ReadFirst, Placed, Waiting, ReadTight, AtEnd, ReadParentsEarlier
<1>3. DepsRead'
  <2>1. Relevant(t, S) \subseteq Relevant(t, refers[t])
    BY DEF Relevant
  <2>2. \A u \in Configured : deps'[u] \subseteq Relevant(u, refers[u])
    BY <2>1 DEF PlanInv, DepsRead, TypeOK
  <2>3. ASSUME lost' = 0, NEW u \in Configured \ toRead'
        PROVE  deps'[u] = Relevant(u, refers[u])
    BY <2>3, LostAssumption DEF PlanInv, DepsRead, TypeOK
  <2>. QED
    BY <2>2, <2>3 DEF DepsRead
<1>. QED
  BY <1>2, <1>3 DEF PlanInv

\* A round of the sort keeps the invariant.
LEMMA LevelStep ==
  ASSUME TypeOK, PlanInv, NextLevel
  PROVE  PlanInv'
<1>a. PICK last \in Nat : last = Len(levels)
  BY DEF TypeOK
<1>. DEFINE new == {m \in Mappings : Ready(Order[m])}
<1>0. /\ outcome = "sorting"
      /\ UNCHANGED <<refers, toRead, deps, outcome, lost>>
      /\ levels' = Append(levels, new)
      /\ remaining' = {t \in remaining : ~Ready(t)}
  BY DEF NextLevel
<1>1. /\ DOMAIN levels = 1 .. last
      /\ DOMAIN levels' = 1 .. last + 1
      /\ Len(levels') = last + 1
      /\ \A i \in 1 .. last : levels'[i] = levels[i]
      /\ levels'[last + 1] = new
  BY <1>0, <1>a DEF TypeOK
<1>2. \A i \in 1 .. last : Level(i)' = Level(i)
  BY <1>1 DEF Level
<1>3. Level(last + 1)' = {t \in remaining : Ready(t)}
  <2>1. \A t \in remaining : \E m \in Mappings : Order[m] = t
    BY DEF TypeOK, Configured
  <2>2. \A t : Ready(t) => t \in remaining
    BY DEF Ready
  <2>. QED
    BY <1>1, <2>1, <2>2 DEF Level
<1>4. \A t \in Configured : t \notin remaining => \E h \in 1 .. last : t \in Level(h)
  BY <1>1 DEF PlanInv, Placed, Configured, Level
<1>5. ReadFirst'
  BY <1>0 DEF PlanInv, ReadFirst
<1>6. DepsRead'
  BY <1>0 DEF PlanInv, DepsRead
<1>7. Placed'
  <2>1. ASSUME NEW i \in 1 .. last + 1, NEW m \in levels'[i]
        PROVE  Order[m] \notin remaining'
    <3>1. CASE i = last + 1
      BY <3>1, <2>1, <1>0, <1>1
    <3>2. CASE i \in 1 .. last
      BY <3>2, <2>1, <1>0, <1>1 DEF PlanInv, Placed
    <3>. QED
      BY <3>1, <3>2, <1>1
  <2>2. ASSUME NEW m \in Mappings, Order[m] \notin remaining'
        PROVE  \E i \in 1 .. last + 1 : m \in levels'[i]
    <3>1. CASE Order[m] \in remaining
      BY <3>1, <2>2, <1>0, <1>1
    <3>2. CASE Order[m] \notin remaining
      BY <3>2, <1>1 DEF PlanInv, Placed
    <3>. QED
      BY <3>1, <3>2
  <2>3. ASSUME NEW i \in 1 .. last + 1, NEW h \in 1 .. last + 1,
               NEW m \in levels'[i], NEW n \in levels'[h], Order[m] = Order[n]
        PROVE  i = h
    <3>1. CASE i \in 1 .. last /\ h \in 1 .. last
      BY <3>1, <2>3, <1>1 DEF PlanInv, Placed
    <3>2. ASSUME NEW j \in 1 .. last, NEW k \in levels[j], NEW l \in new,
                 Order[k] = Order[l]
          PROVE  FALSE
      BY <3>2, <1>1 DEF PlanInv, Placed, Ready
    <3>. QED
      BY <3>1, <3>2, <2>3, <1>1
  <2>. QED
    BY <2>1, <2>2, <2>3, <1>1 DEF Placed
<1>8. Waiting'
  <2> SUFFICES ASSUME NEW t \in remaining'
               PROVE  \E p \in deps[t] : p \in remaining' \/ p \in Level(last + 1)'
    BY <1>0, <1>1 DEF Waiting
  <2>1. PICK p \in deps[t] : p \in remaining
    BY <1>0 DEF Ready
  <2>. QED
    BY <2>1, <1>0, <1>3
<1>9. ReadTight'
  <2> SUFFICES ASSUME NEW i \in 1 .. last + 1, i > 1, NEW t \in Level(i)'
               PROVE  \E p \in Level(i - 1)' : p \in deps[t]
    BY <1>0, <1>1 DEF ReadTight
  <2>1. CASE i = last + 1
    <3>1. last \in 1 .. last /\ levels # <<>>
      BY <2>1, <1>1
    <3>2. t \in remaining /\ deps[t] \cap remaining = {}
      BY <2>1, <1>3 DEF Ready
    <3>3. \E p \in deps[t] : p \in Level(last)
      BY <3>1, <3>2, <1>a DEF PlanInv, Waiting
    <3>. QED
      BY <3>1, <3>3, <2>1, <1>1, <1>2
  <2>2. CASE i \in 1 .. last
    <3>1. i - 1 \in 1 .. last
      BY <2>2, <1>1
    <3>2. \E p \in Level(i - 1) : p \in deps[t]
      BY <2>2, <1>1, <1>2 DEF PlanInv, ReadTight
    <3>. QED
      BY <3>1, <3>2, <1>2
  <2>. QED
    BY <2>1, <2>2, <1>1
<1>10. AtEnd'
  BY <1>0 DEF AtEnd
<1>11. ReadParentsEarlier'
  <2> SUFFICES ASSUME NEW i \in 1 .. last + 1, NEW t \in Level(i)',
                      NEW p \in deps[t]
               PROVE  \E h \in 1 .. i - 1 : p \in Level(h)'
    BY <1>0, <1>1 DEF ReadParentsEarlier
  <2>1. CASE i = last + 1
    <3>1. t \in remaining /\ deps[t] \cap remaining = {}
      BY <2>1, <1>3 DEF Ready
    <3>2. p \in Configured \ remaining
      BY <3>1 DEF TypeOK
    <3>3. \E h \in 1 .. last : p \in Level(h)
      BY <3>2, <1>4
    <3>. QED
      BY <3>3, <2>1, <1>1, <1>2
  <2>2. CASE i \in 1 .. last
    <3>1. \E h \in 1 .. i - 1 : p \in Level(h)
      BY <2>2, <1>1, <1>2 DEF PlanInv, ReadParentsEarlier
    <3>2. \A h \in 1 .. i - 1 : h \in 1 .. last
      BY <2>2, <1>1
    <3>. QED
      BY <3>1, <3>2, <1>2
  <2>. QED
    BY <2>1, <2>2, <1>1
<1>. QED
  BY <1>5, <1>6, <1>7, <1>8, <1>9, <1>10, <1>11 DEF PlanInv

\* Every step keeps the invariant.
LEMMA PlanStep ==
  ASSUME TypeOK, PlanInv, [Next]_vars
  PROVE  PlanInv'
<1>1. CASE ReadForeignKeys
  <2>1. PICK t \in toRead : /\ deps' = [deps EXCEPT ![t] = Relevant(t, refers[t])]
                            /\ toRead' = toRead \ {t}
    BY <1>1 DEF ReadForeignKeys
  <2>. QED
    BY <1>1, <2>1, ReadStep DEF ReadForeignKeys
<1>2. CASE ReadCutShort
  <2>1. PICK t \in toRead : \E S \in SUBSET refers[t] :
          /\ deps' = [deps EXCEPT ![t] = Relevant(t, S)]
          /\ toRead' = toRead \ {t}
    BY <1>2 DEF ReadCutShort
  <2>2. PICK S \in SUBSET refers[t] :
          /\ deps' = [deps EXCEPT ![t] = Relevant(t, S)]
          /\ toRead' = toRead \ {t}
    BY <2>1
  <2>. QED
    BY <1>2, <2>2, ReadStep DEF ReadCutShort
<1>3. ASSUME UNCHANGED <<refers, toRead, deps, remaining, levels>>,
             lost' = lost \/ lost' = lost + 1,
             ReadFirst', AtEnd'
      PROVE  PlanInv'
  <2>1. Placed' /\ Waiting' /\ ReadTight' /\ ReadParentsEarlier'
    BY <1>3 DEF PlanInv, Placed, Waiting, ReadTight, ReadParentsEarlier, Level
  <2>2. DepsRead'
    BY <1>3, LostAssumption DEF PlanInv, DepsRead, TypeOK
  <2>. QED
    BY <1>3, <2>1, <2>2 DEF PlanInv
<1>4. CASE ReadFails
  BY <1>4, <1>3 DEF ReadFails, PlanInv, ReadFirst, AtEnd
<1>5. CASE StartSorting
  BY <1>5, <1>3 DEF StartSorting, PlanInv, ReadFirst, AtEnd
<1>6. CASE NextLevel
  BY <1>6, LevelStep
<1>7. CASE ReportCycle
  BY <1>7, <1>3 DEF ReportCycle, Stuck, Ready, PlanInv, ReadFirst, AtEnd
<1>8. CASE Finish
  BY <1>8, <1>3 DEF Finish, PlanInv, ReadFirst, AtEnd
<1>9. CASE UNCHANGED vars
  BY <1>9, <1>3 DEF vars, PlanInv, ReadFirst, AtEnd
<1>. QED
  BY <1>1, <1>2, <1>4, <1>5, <1>6, <1>7, <1>8, <1>9 DEF Next

\* The invariant holds of every plan in the making.
LEMMA Planning == Spec => [](TypeOK /\ PlanInv)
<1>1. Init => PlanInv
  BY ConfiguredTables
     DEF Init, PlanInv, ReadFirst, DepsRead, Placed, Waiting, ReadTight, AtEnd,
         ReadParentsEarlier
<1>2. TypeOK /\ PlanInv /\ [Next]_vars => PlanInv'
  BY PlanStep
<1>. QED
  BY <1>1, <1>2, Typing, PTL DEF Spec

-----------------------------------------------------------------------------
(* What the plan guarantees.                                               *)

\* A table is never planned before or beside a table it was seen to refer to,
\* whatever the foreign keys and the order of the configuration.
THEOREM ReadOrder == Spec => []ReadParentsEarlier
<1>1. PlanInv => ReadParentsEarlier
  BY DEF PlanInv
<1>. QED
  BY <1>1, Planning, PTL

\* Until a connection is lost while foreign keys are read, a child is never
\* planned before or beside its parent: such a loss is all that
\* DependencyPlan_lost can owe its counterexample to.
THEOREM SourceOrder == Spec => [](lost = 0 => ParentsEarlier)
<1>1. ASSUME TypeOK, PlanInv, lost = 0 PROVE ParentsEarlier
  <2> SUFFICES ASSUME NEW i \in DOMAIN levels, NEW t \in Level(i),
                      NEW p \in Relevant(t, refers[t])
               PROVE  \E h \in 1 .. i - 1 : p \in Level(h)
    BY DEF ParentsEarlier
  <2>1. toRead = {}
    BY <1>1 DEF TypeOK, PlanInv, ReadFirst
  <2>2. t \in Configured
    BY <1>1, ConfiguredTables DEF Level, TypeOK
  <2>3. p \in deps[t]
    BY <1>1, <2>1, <2>2 DEF PlanInv, DepsRead
  <2>. QED
    BY <1>1, <2>3 DEF PlanInv, ReadParentsEarlier
<1>. QED
  BY <1>1, Planning, PTL

\* A reported cycle is one of the source's foreign keys, even when some of
\* them were not read.
THEOREM RealCycle == Spec => []CycleIsReal
<1>1. ASSUME TypeOK, PlanInv PROVE CycleIsReal
  <2> SUFFICES ASSUME outcome = "cycle", NEW t \in remaining
               PROVE  \E p \in remaining : p # t /\ p \in refers[t]
    BY <1>1 DEF CycleIsReal, PlanInv, AtEnd
  <2>1. PICK p \in remaining : p \in deps[t]
    BY <1>1 DEF PlanInv, AtEnd
  <2>2. p \in Relevant(t, refers[t])
    BY <1>1, <2>1 DEF PlanInv, DepsRead, TypeOK
  <2>. QED
    BY <2>2, RelevantTables
<1>. QED
  BY <1>1, Planning, PTL

\* Every level has a reason: each of its tables refers to the level before.
THEOREM Tight == Spec => []LevelsTight
<1>1. ASSUME TypeOK, PlanInv PROVE LevelsTight
  <2> SUFFICES ASSUME NEW i \in DOMAIN levels, i > 1, NEW t \in Level(i)
               PROVE  \E p \in Level(i - 1) : p \in refers[t]
    BY DEF LevelsTight
  <2>1. PICK p \in Level(i - 1) : p \in deps[t]
    BY <1>1 DEF PlanInv, ReadTight
  <2>2. t \in Configured
    BY <1>1, ConfiguredTables DEF Level, TypeOK
  <2>. QED
    BY <1>1, <2>1, <2>2, RelevantTables DEF PlanInv, DepsRead
<1>. QED
  BY <1>1, Planning, PTL

\* When no source table is configured twice, every mapping is carried out
\* exactly once.
THEOREM EachOnce ==
  ASSUME \A m, n \in Mappings : Order[m] = Order[n] => m = n
  PROVE  Spec => []EveryMappingOnce
<1>1. \A m \in Mappings : MappingAt(m) = m
  <2> SUFFICES ASSUME NEW m \in Mappings PROVE MappingAt(m) = m
    OBVIOUS
  <2>1. m \in Int
    BY OrderAssumption DEF Mappings
  <2>2. \A n \in Mappings :
           (/\ Order[n] = Order[m]
            /\ \A k \in Mappings : Order[k] = Order[m] => k <= n) <=> n = m
    BY <2>1
  <2>. QED
    BY <2>2 DEF MappingAt
<1>2. ASSUME TypeOK, PlanInv PROVE EveryMappingOnce
  <2> SUFFICES ASSUME outcome = "planned", NEW n \in Mappings
               PROVE  \E i \in DOMAIN levels :
                         /\ \E m \in levels[i] :
                               /\ MappingAt(m) = n
                               /\ \A k \in levels[i] : MappingAt(k) = n => k = m
                         /\ \A h \in (DOMAIN levels) \ {i} :
                               \A m \in levels[h] : MappingAt(m) # n
    BY DEF EveryMappingOnce
  <2>1. \A h \in DOMAIN levels : levels[h] \subseteq Mappings
    BY <1>2 DEF TypeOK
  <2>2. PICK i \in DOMAIN levels : n \in levels[i]
    BY <1>2 DEF PlanInv, AtEnd, Placed
  <2>3. \A h \in (DOMAIN levels) \ {i} : n \notin levels[h]
    BY <1>2, <2>2 DEF PlanInv, Placed
  <2>. QED
    BY <1>1, <2>1, <2>2, <2>3
<1>. QED
  BY <1>2, Planning, PTL

\* What a plan is for: every table has one level, behind those of the tables
\* that it refers to when no foreign key was missed.
THEOREM Serves == Spec => []PlanServes
<1>1. ASSUME TypeOK, PlanInv PROVE PlanServes
  <2> SUFFICES ASSUME outcome = "planned", lost = 0
               PROVE  \E levelOf \in [Configured -> DOMAIN levels] :
                         /\ \A t \in Configured : \A i \in DOMAIN levels :
                               t \in Level(i) <=> i = levelOf[t]
                         /\ \A t \in Configured : \A p \in Relevant(t, refers[t]) :
                               levelOf[p] < levelOf[t]
    BY DEF PlanServes
  <2>. DEFINE levelOf == [t \in Configured |-> CHOOSE i \in DOMAIN levels : t \in Level(i)]
  <2>1. toRead = {} /\ remaining = {}
    BY <1>1 DEF TypeOK, PlanInv, ReadFirst, AtEnd
  <2>2. \A t \in Configured : \E i \in DOMAIN levels : t \in Level(i)
    BY <1>1, <2>1 DEF PlanInv, Placed, Configured, Level
  <2>3. \A t \in Configured : levelOf[t] \in DOMAIN levels /\ t \in Level(levelOf[t])
    BY <2>2
  <2>4. \A i, h \in DOMAIN levels : \A t \in Level(i) : t \in Level(h) => i = h
    BY <1>1 DEF PlanInv, Placed, Level
  <2>5. levelOf \in [Configured -> DOMAIN levels]
    BY <2>3
  <2>. HIDE DEF levelOf
  <2>6. ASSUME NEW t \in Configured, NEW i \in DOMAIN levels
        PROVE  t \in Level(i) <=> i = levelOf[t]
    BY <2>3, <2>4
  <2>7. ASSUME NEW t \in Configured, NEW p \in Relevant(t, refers[t])
        PROVE  levelOf[p] < levelOf[t]
    <3>1. p \in deps[t] /\ p \in Configured
      BY <1>1, <2>1, <2>7, RelevantTables DEF PlanInv, DepsRead
    <3>2. levelOf[t] \in DOMAIN levels /\ t \in Level(levelOf[t])
      BY <2>3
    <3>3. PICK h \in 1 .. levelOf[t] - 1 : p \in Level(h)
      BY <1>1, <3>1, <3>2 DEF PlanInv, ReadParentsEarlier
    <3>4. DOMAIN levels = 1 .. Len(levels) /\ Len(levels) \in Nat
      BY <1>1 DEF TypeOK
    <3>5. h \in DOMAIN levels /\ h < levelOf[t]
      BY <3>2, <3>3, <3>4
    <3>6. h = levelOf[p]
      BY <2>6, <3>1, <3>3, <3>5
    <3>. QED
      BY <3>5, <3>6
  <2>. QED
    BY <2>5, <2>6, <2>7
<1>. QED
  BY <1>1, Planning, PTL

\* No level, and so no stage, is one without tables.
THEOREM Work == Spec => []LevelsWork
<1>1. Init => LevelsWork
  BY DEF Init, LevelsWork
<1>2. ASSUME TypeOK, PlanInv, PlanInv', LevelsWork, [Next]_vars PROVE LevelsWork'
  <2>1. ASSUME levels' = levels, \A i \in DOMAIN levels : levels[i] # {}
        PROVE  \A i \in DOMAIN levels' : levels'[i] # {}
    BY <2>1
  <2>2. ASSUME NextLevel PROVE \A i \in DOMAIN levels' : levels'[i] # {}
    <3>1. PICK t \in remaining : Ready(t)
      BY <2>2 DEF NextLevel
    <3>2. PICK m \in Mappings : Order[m] = t
      BY <1>2 DEF TypeOK, Configured
    <3>. DEFINE new == {k \in Mappings : Ready(Order[k])}
    <3>3. m \in new
      BY <3>1, <3>2
    <3>. HIDE DEF new
    <3>4. levels' = Append(levels, new)
      BY <2>2 DEF NextLevel, new
    <3>. QED
      BY <1>2, <3>3, <3>4 DEF TypeOK, LevelsWork
  <2>3. levels' = levels \/ NextLevel
    BY <1>2 DEF Next, ReadForeignKeys, ReadCutShort, ReadFails, StartSorting,
                ReportCycle, Finish, vars
  <2>4. outcome' = "planned" /\ Order # <<>> => levels' # <<>>
    <3> SUFFICES ASSUME outcome' = "planned", Order # <<>> PROVE levels' # <<>>
      OBVIOUS
    <3>1. 1 \in Mappings
      BY OrderAssumption DEF Mappings
    <3>2. remaining' = {}
      BY <1>2 DEF PlanInv, AtEnd
    <3>3. \E i \in DOMAIN levels' : 1 \in levels'[i]
      BY <1>2, <3>1, <3>2 DEF PlanInv, Placed
    <3>. QED
      BY <3>3
  <2>. QED
    BY <1>2, <2>1, <2>2, <2>3, <2>4 DEF LevelsWork
<1>. QED
  BY <1>1, <1>2, Planning, PTL DEF Spec

-----------------------------------------------------------------------------
(* Planning gets on.                                                       *)

\* There are no more configured tables than mappings.
LEMMA FiniteTables ==
  /\ IsFiniteSet(Configured)
  /\ \A S \in SUBSET Configured : IsFiniteSet(S) /\ Cardinality(S) \in Nat
<1>1. PICK n \in Nat : Mappings = 1 .. n
  BY OrderAssumption DEF Mappings
<1>2. IsFiniteSet(Mappings)
  BY <1>1, FS_Interval
<1>3. Order \in Surjection(Mappings, Configured)
  BY OrderAssumption DEF Surjection, Mappings, Configured
<1>4. IsFiniteSet(Configured)
  BY <1>2, <1>3, FS_Surjection
<1>. QED
  BY <1>4, FS_Subset, FS_CardinalityType

\* A set of tables that loses one has fewer.
LEMMA FewerTables ==
  ASSUME NEW S \in SUBSET Configured, NEW T \in SUBSET S, T # S
  PROVE  Cardinality(T) \in Nat /\ Cardinality(S) \in Nat /\ Cardinality(T) < Cardinality(S)
<1>1. IsFiniteSet(S) /\ Cardinality(S) \in Nat /\ Cardinality(T) \in Nat
  BY FiniteTables
<1>2. Cardinality(T) <= Cardinality(S) /\ Cardinality(S) # Cardinality(T)
  BY <1>1, FS_Subset
<1>. QED
  BY <1>1, <1>2

\* Every step of the planning, of any graph and with any results cut short,
\* leaves less to do.
THEOREM Progress == Spec => GetsOn
<1>1. ASSUME TypeOK, TypeOK', Next PROVE LeftToDo' \in Nat /\ LeftToDo' < LeftToDo
  <2>1. PICK a, b \in Nat : a = Cardinality(toRead) /\ b = Cardinality(remaining)
    BY <1>1, FiniteTables DEF TypeOK
  <2>2. PICK x, y \in Nat : x = Cardinality(toRead') /\ y = Cardinality(remaining')
    BY <1>1, FiniteTables DEF TypeOK
  <2>3. toRead' = toRead => x = a
    BY <2>1, <2>2
  <2>4. remaining' = remaining => y = b
    BY <2>1, <2>2
  <2>5. ASSUME toRead' \subseteq toRead, toRead' # toRead PROVE x < a
    BY <1>1, <2>1, <2>2, <2>5, FewerTables DEF TypeOK
  <2>6. ASSUME remaining' \subseteq remaining, remaining' # remaining PROVE y < b
    BY <1>1, <2>1, <2>2, <2>6, FewerTables DEF TypeOK
  <2>7. CASE ReadForeignKeys \/ ReadCutShort
    <3>1. UNCHANGED <<remaining, outcome>> /\ \E t \in toRead : toRead' = toRead \ {t}
      BY <2>7 DEF ReadForeignKeys, ReadCutShort
    <3>2. y = b /\ x < a
      BY <3>1, <2>4, <2>5
    <3>. QED
      BY <2>1, <2>2, <3>1, <3>2 DEF LeftToDo
  <2>8. CASE ReadFails \/ StartSorting \/ ReportCycle \/ Finish
    <3>1. UNCHANGED <<toRead, remaining>>
      BY <2>8 DEF ReadFails, StartSorting, ReportCycle, Finish
    <3>2. x = a /\ y = b
      BY <3>1, <2>3, <2>4
    <3>3. \/ outcome = "reading" /\ outcome' \in {"sorting", "failed"}
          \/ outcome = "sorting" /\ outcome' \in {"cycle", "planned"}
      BY <2>8 DEF ReadFails, StartSorting, ReportCycle, Finish
    <3>. QED
      BY <2>1, <2>2, <3>2, <3>3 DEF LeftToDo
  <2>9. CASE NextLevel
    <3>1. UNCHANGED <<toRead, outcome>> /\ remaining' \subseteq remaining /\ remaining' # remaining
      BY <2>9 DEF NextLevel
    <3>2. x = a /\ y < b
      BY <3>1, <2>3, <2>6
    <3>. QED
      BY <2>1, <2>2, <3>1, <3>2 DEF LeftToDo
  <2>. QED
    BY <1>1, <2>7, <2>8, <2>9 DEF Next
<1>2. TypeOK /\ TypeOK' /\ [Next]_vars => [LeftToDo' \in Nat /\ LeftToDo' < LeftToDo]_vars
  BY <1>1
<1>. QED
  BY <1>2, Typing, PTL DEF Spec, GetsOn
=============================================================================
