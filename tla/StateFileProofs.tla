-------------------------- MODULE StateFileProofs --------------------------
(***************************************************************************)
(* Proofs about StateFile, for any number of invocations that overlap, any *)
(* tables, and any number of failing steps, kills and power failures.      *)
(*                                                                         *)
(* The invariant says what a save has reached at each of its steps, that   *)
(* what was renamed is complete and synced, and where the store of a       *)
(* process stands between the floor and what it committed.                 *)
(***************************************************************************)
EXTENDS StateFile, TLAPS

\* Only a process that runs and has something to save saves, and while it does
\* the temporary file has the store as it is; from the write on it is complete
\* and from the sync on it is synced.
SaveInv ==
    \A p \in Processes : Saving(p) =>
        /\ p \in running /\ dirty[p]
        /\ temporary[p].content = store[p]
        /\ at[p] >= 3 => temporary[p].complete
        /\ at[p] >= 4 => temporary[p].synced

\* What was renamed is complete and synced.
WholeInv == path.complete /\ path.synced /\ disk.complete /\ disk.synced

\* Nothing is claimed that is not committed.
ReachedInv ==
    \A t \in Tables :
        /\ path.content[t] <= reached[t] /\ disk.content[t] <= reached[t]
        /\ \A p \in Processes : store[p][t] <= committed[p][t]
                             /\ committed[p][t] <= reached[t]

\* Neither the stores nor the file are behind what the first invocation loaded.
FloorInv ==
    running # {} => \A t \in Tables :
        /\ path.content[t] >= floor[t]
        /\ \A p \in running : store[p][t] >= floor[t]

Inv == SaveInv /\ WholeInv /\ ReachedInv /\ FloorInv

-----------------------------------------------------------------------------
(* Lemmas about the definitions. *)

\* The steps of saveState, one by one.
LEMMA StepList ==
    /\ Len(SaveSteps) = 6
    /\ SaveSteps[1] = "create" /\ SaveSteps[2] = "chmod"
    /\ SaveSteps[3] = "write" /\ SaveSteps[4] = "sync"
    /\ SaveSteps[5] = "close" /\ SaveSteps[6] = "rename"
BY DEF SaveSteps

\* No pages, no file and a new file are what their types say.
LEMMA Constants ==
    /\ Nothing \in Contents
    /\ NoFile \in Files
BY BoundsAssumption DEF Nothing, Contents, NoFile, Files

\* A content names a number of pages for each table.
LEMMA Pages ==
    ASSUME NEW c \in Contents, NEW t \in Tables
    PROVE  c[t] \in Nat /\ c[t] <= MaxPages
BY BoundsAssumption DEF Contents

\* The temporary file after a step of saveState: its content is that of the
\* store from the first step on, the write completes it and the sync syncs it.
LEMMA AfterStep ==
    ASSUME NEW p \in Processes, NEW step,
           store[p] \in Contents, temporary[p] \in Files
    PROVE  /\ After(step, p) \in Files
           /\ step = "create" => After(step, p).content = store[p]
           /\ step # "create" => After(step, p).content = temporary[p].content
           /\ step = "write" => After(step, p).complete
           /\ step = "sync" => After(step, p).synced
           /\ step # "create" =>
                 /\ temporary[p].complete => After(step, p).complete
                 /\ temporary[p].synced => After(step, p).synced
<1>1. CASE step = "create"
  BY <1>1 DEF After, Files, EmptyFile
<1>2. CASE step = "write"
  BY <1>2 DEF After, Files
<1>3. CASE step = "sync"
  BY <1>3 DEF After, Files
<1>4. CASE step \notin {"create", "write", "sync"}
  BY <1>4 DEF After
<1> QED
  BY <1>1, <1>2, <1>3, <1>4

\* A power failure leaves the content of a file, and a synced file complete.
LEMMA Left ==
    ASSUME NEW f \in Files, NEW g \in LeftOf(f)
    PROVE  /\ g \in Files
           /\ g.content = f.content
           /\ g.synced
           /\ f.synced /\ f.complete => g.complete
<1>1. PICK c \in BOOLEAN : /\ g = [f EXCEPT !.synced = TRUE, !.complete = c]
                           /\ f.synced => c = f.complete
  BY DEF LeftOf, Files
<1> QED
  BY <1>1 DEF Files

-----------------------------------------------------------------------------
(* Types. *)

LEMMA TypeInit == Init => TypeOK
BY Constants, BoundsAssumption, StepList DEF Init, TypeOK

LEMMA TypeStep == TypeOK /\ [Next]_vars => TypeOK'
<1> SUFFICES ASSUME TypeOK, [Next]_vars PROVE TypeOK'
  OBVIOUS
<1> USE BoundsAssumption
<1>1. ASSUME NEW p \in Processes, Load(p) PROVE TypeOK'
  BY <1>1 DEF TypeOK, Load, Loaded, Files, counts
<1>2. ASSUME NEW p \in Processes, NEW t \in Tables, CommitPage(p, t) PROVE TypeOK'
  <2>1. committed[p][t] + 1 \in 0 .. MaxPages
    BY <1>2 DEF TypeOK, CommitPage, Contents
  <2>2. committed' \in [Processes -> Contents]
    BY <1>2, <2>1 DEF TypeOK, CommitPage, Contents
  <2>3. Max(reached[t], committed'[p][t]) \in 0 .. MaxPages
    BY <2>2 DEF TypeOK, Contents, Max
  <2>4. reached' \in Contents
    BY <1>2, <2>3 DEF TypeOK, CommitPage, Contents
  <2> QED
    BY <1>2, <2>2, <2>4 DEF TypeOK, CommitPage, counts
<1>3. ASSUME NEW p \in Processes, NEW t \in Tables, Update(p, t) PROVE TypeOK'
  <2>1. store[p][t] + 1 \in 0 .. MaxPages
    BY <1>3 DEF TypeOK, Update, PageToClaim, Contents
  <2>2. store' \in [Processes -> Contents]
    BY <1>3, <2>1 DEF TypeOK, Update, Contents
  <2> QED
    BY <1>3, <2>2 DEF TypeOK, Update, Flagged, counts
<1>4. ASSUME NEW p \in Processes, SaveStep(p) PROVE TypeOK'
  <2>1. at[p] + 1 \in 0 .. 5
    BY <1>4, StepList DEF TypeOK, SaveStep, NextStep
  <2>2. After(NextStep(p), p) \in Files
    BY AfterStep DEF TypeOK
  <2>3. at' \in [Processes -> 0 .. Len(SaveSteps) - 1]
    BY <1>4, <2>1, StepList DEF TypeOK, SaveStep
  <2>4. temporary' \in [Processes -> Files]
    BY <1>4, <2>2 DEF TypeOK, SaveStep
  <2> QED
    BY <1>4, <2>3, <2>4 DEF TypeOK, SaveStep, memory, counts
<1>5. ASSUME NEW p \in Processes, Rename(p) PROVE TypeOK'
  BY <1>5, Constants, StepList DEF TypeOK, Rename, counts
<1>6. ASSUME NEW p \in Processes, SaveFails(p) PROVE TypeOK'
  BY <1>6, Constants, StepList DEF TypeOK, SaveFails, memory
<1>7. ASSUME NEW p \in Processes, End(p) PROVE TypeOK'
  BY <1>7 DEF TypeOK, End, memory, counts
<1>8. ASSUME NEW p \in Processes, Stop(p) PROVE TypeOK'
  BY <1>8, Constants, StepList DEF TypeOK, Stop, memory
<1>9. CASE WriteBack
  BY <1>9 DEF TypeOK, WriteBack, memory, counts
<1>10. CASE PowerLoss
  <2>1. path' \in Files
    BY <1>10, Left DEF TypeOK, PowerLoss
  <2> QED
    BY <1>10, <2>1, Constants, StepList DEF TypeOK, PowerLoss, memory
<1>11. CASE UNCHANGED vars
  BY <1>11 DEF TypeOK, vars
<1> QED
  BY <1>1, <1>2, <1>3, <1>4, <1>5, <1>6, <1>7, <1>8, <1>9, <1>10, <1>11
     DEF Next, Works

\* Every reachable state is well typed (loadState, checkpointStore, saveState).
THEOREM Typing == Spec => []TypeOK
BY TypeInit, TypeStep, PTL DEF Spec

-----------------------------------------------------------------------------
(* The invariant. *)

LEMMA InvInit == Init => Inv
BY BoundsAssumption
   DEF Init, Inv, SaveInv, WholeInv, ReachedInv, FloorInv, Saving, NoFile, Nothing

\* Each step of saveState builds on what the steps before it have done.
LEMMA SaveStepInv ==
    ASSUME TypeOK, SaveInv, NEW p \in Processes, SaveStep(p)
    PROVE  SaveInv'
<1>1. at[p] \in 0 .. 4 /\ at'[p] = at[p] + 1
  BY StepList DEF TypeOK, SaveStep, NextStep
<1>2. temporary'[p] = After(NextStep(p), p)
  BY DEF TypeOK, SaveStep
<1>3. store[p] \in Contents /\ temporary[p] \in Files
  BY DEF TypeOK
<1>4. CASE at[p] = 0
  <2>1. NextStep(p) = "create"
    BY <1>4, StepList DEF NextStep
  <2>2. temporary'[p].content = store[p]
    BY <2>1, <1>2, <1>3, AfterStep
  <2> QED
    BY <2>2, <1>1, <1>4 DEF SaveInv, Saving, SaveStep, memory, TypeOK
<1>5. CASE at[p] # 0
  <2>1. /\ temporary[p].content = store[p]
        /\ at[p] >= 3 => temporary[p].complete
        /\ at[p] >= 4 => temporary[p].synced
    BY <1>5 DEF SaveInv, Saving
  <2>2. NextStep(p) # "create"
    BY <1>1, <1>5, StepList DEF NextStep
  <2>3. at[p] = 2 => NextStep(p) = "write"
    BY StepList DEF NextStep
  <2>4. at[p] = 3 => NextStep(p) = "sync"
    BY StepList DEF NextStep
  <2>5. temporary'[p].content = store[p]
    BY <2>1, <2>2, <1>2, <1>3, AfterStep
  <2>6. at'[p] >= 3 => temporary'[p].complete
    BY <2>1, <2>2, <2>3, <1>1, <1>2, <1>3, AfterStep
  <2>7. at'[p] >= 4 => temporary'[p].synced
    BY <2>1, <2>2, <2>4, <1>1, <1>2, <1>3, AfterStep
  <2> QED
    BY <2>5, <2>6, <2>7 DEF SaveInv, Saving, SaveStep, memory, TypeOK
<1> QED
  BY <1>4, <1>5

\* What is renamed has been written and synced, and is the store.
LEMMA Renamed ==
    ASSUME TypeOK, SaveInv, NEW p \in Processes, Rename(p)
    PROVE  /\ path' = temporary[p]
           /\ path'.content = store[p]
           /\ path'.complete /\ path'.synced
<1>1. at[p] = 5
  BY StepList DEF TypeOK, Rename, NextStep
<1> QED
  BY <1>1 DEF Rename, SaveInv, Saving

\* A power failure leaves a content that the file or the disk had, whole.
LEMMA AfterPower ==
    ASSUME TypeOK, WholeInv, PowerLoss
    PROVE  /\ path'.content \in {path.content, disk.content}
           /\ path'.complete /\ path'.synced /\ disk' = path'
BY Left DEF TypeOK, WholeInv, PowerLoss

LEMMA InvStep == TypeOK /\ TypeOK' /\ Inv /\ [Next]_vars => Inv'
<1> SUFFICES ASSUME TypeOK, TypeOK', Inv, [Next]_vars PROVE Inv'
  OBVIOUS
<1> USE DEF Inv
<1>a. \A t \in Tables : /\ path.content[t] \in Nat /\ disk.content[t] \in Nat
                       /\ reached[t] \in Nat /\ floor[t] \in Nat
                       /\ \A q \in Processes : store[q][t] \in Nat
                                             /\ committed[q][t] \in Nat
  BY Pages DEF TypeOK, Files
<1>1. ASSUME NEW p \in Processes, Load(p) PROVE Inv'
  <2>1. SaveInv'
    BY <1>1 DEF Load, SaveInv, Saving, TypeOK
  <2>2. WholeInv'
    BY <1>1 DEF Load, WholeInv
  <2>3. ReachedInv'
    BY <1>1, <1>a DEF Load, Loaded, ReachedInv, TypeOK
  <2>4. FloorInv'
    BY <1>1, <1>a DEF Load, Loaded, FloorInv, TypeOK
  <2> QED
    BY <2>1, <2>2, <2>3, <2>4
<1>2. ASSUME NEW p \in Processes, NEW t \in Tables, CommitPage(p, t) PROVE Inv'
  <2>1. SaveInv'
    BY <1>2 DEF CommitPage, SaveInv, Saving
  <2>2. WholeInv'
    BY <1>2 DEF CommitPage, WholeInv
  <2>3. ReachedInv'
    <3>1. committed'[p][t] = committed[p][t] + 1
      BY <1>2 DEF CommitPage, TypeOK, Contents
    <3>2. reached'[t] >= reached[t] /\ reached'[t] >= committed'[p][t]
      BY <1>2, <1>a, <3>1 DEF CommitPage, TypeOK, Contents, Max
    <3>3. \A u \in Tables : u # t => reached'[u] = reached[u]
      BY <1>2 DEF CommitPage, TypeOK, Contents
    <3>4. \A q \in Processes, u \in Tables :
             q # p \/ u # t => committed'[q][u] = committed[q][u]
      BY <1>2 DEF CommitPage, TypeOK, Contents
    <3>5. UNCHANGED <<store, path, disk>> /\ reached'[t] \in Nat
      BY <1>2, Pages DEF CommitPage, TypeOK
    <3> QED
      BY <3>1, <3>2, <3>3, <3>4, <3>5, <1>a DEF ReachedInv
  <2>4. FloorInv'
    BY <1>2 DEF CommitPage, FloorInv
  <2> QED
    BY <2>1, <2>2, <2>3, <2>4
<1>3. ASSUME NEW p \in Processes, NEW t \in Tables, Update(p, t) PROVE Inv'
  <2>a. /\ store'[p][t] = store[p][t] + 1
        /\ \A u \in Tables : u # t => store'[p][u] = store[p][u]
        /\ \A q \in Processes : q # p => store'[q] = store[q]
    BY <1>3 DEF Update, TypeOK, Contents
  <2>1. SaveInv'
    BY <1>3, <2>a DEF Update, PageToClaim, SaveInv, Saving, TypeOK
  <2>2. WholeInv'
    BY <1>3 DEF Update, WholeInv
  <2>3. ReachedInv'
    BY <1>3, <1>a, <2>a DEF Update, PageToClaim, ReachedInv
  <2>4. FloorInv'
    <3>1. running # {} /\ running \subseteq Processes
      BY <1>3 DEF Update, TypeOK
    <3>2. \A q \in running, u \in Tables : store'[q][u] >= floor[u]
      BY <2>a, <1>a, <3>1 DEF FloorInv
    <3> QED
      BY <1>3, <3>1, <3>2 DEF Update, FloorInv
  <2> QED
    BY <2>1, <2>2, <2>3, <2>4
<1>4. ASSUME NEW p \in Processes, SaveStep(p) PROVE Inv'
  BY <1>4, SaveStepInv
     DEF SaveStep, memory, WholeInv, ReachedInv, FloorInv
<1>5. ASSUME NEW p \in Processes, Rename(p) PROVE Inv'
  <2>a. path' = temporary[p] /\ path'.content = store[p]
        /\ path'.complete /\ path'.synced
    BY <1>5, Renamed
  <2>1. SaveInv'
    BY <1>5 DEF Rename, SaveInv, Saving, TypeOK
  <2>2. WholeInv'
    BY <1>5, <2>a DEF Rename, WholeInv
  <2>3. ReachedInv'
    <3>1. \A t \in Tables : path'.content[t] <= reached[t]
      BY <2>a, <1>a DEF ReachedInv
    <3> QED
      BY <1>5, <3>1 DEF Rename, ReachedInv
  <2>4. FloorInv'
    BY <1>5, <2>a DEF Rename, FloorInv
  <2> QED
    BY <2>1, <2>2, <2>3, <2>4
<1>6. ASSUME NEW p \in Processes, SaveFails(p) PROVE Inv'
  <2>1. SaveInv'
    BY <1>6 DEF SaveFails, memory, SaveInv, Saving, TypeOK
  <2> QED
    BY <1>6, <2>1 DEF SaveFails, memory, WholeInv, ReachedInv, FloorInv
<1>7. ASSUME NEW p \in Processes, End(p) PROVE Inv'
  BY <1>7 DEF End, memory, SaveInv, Saving, WholeInv, ReachedInv, FloorInv
<1>8. ASSUME NEW p \in Processes, Stop(p) PROVE Inv'
  <2>1. SaveInv'
    BY <1>8 DEF Stop, memory, SaveInv, Saving, TypeOK
  <2> QED
    BY <1>8, <2>1 DEF Stop, memory, WholeInv, ReachedInv, FloorInv
<1>9. CASE WriteBack
  BY <1>9 DEF WriteBack, memory, SaveInv, Saving, WholeInv, ReachedInv, FloorInv
<1>10. CASE PowerLoss
  <2>a. /\ path'.content \in {path.content, disk.content}
        /\ path'.complete /\ path'.synced /\ disk' = path'
    BY <1>10, AfterPower
  <2>1. SaveInv'
    BY <1>10 DEF PowerLoss, SaveInv, Saving
  <2>2. WholeInv'
    BY <2>a DEF WholeInv
  <2>3. ReachedInv'
    BY <1>10, <2>a DEF PowerLoss, memory, ReachedInv
  <2>4. FloorInv'
    BY <1>10 DEF PowerLoss, FloorInv
  <2> QED
    BY <2>1, <2>2, <2>3, <2>4
<1>11. CASE UNCHANGED vars
  BY <1>11 DEF vars, SaveInv, Saving, WholeInv, ReachedInv, FloorInv
<1> QED
  BY <1>1, <1>2, <1>3, <1>4, <1>5, <1>6, <1>7, <1>8, <1>9, <1>10, <1>11
     DEF Next, Works

LEMMA Invariant == Spec => []Inv
<1>1. TypeOK /\ Inv /\ [Next]_vars => TypeOK' /\ Inv'
  BY TypeStep, InvStep
<1> QED
  BY TypeInit, InvInit, <1>1, PTL DEF Spec

\* The state file parses at every moment, with and without power (saveState
\* syncs before it renames).
THEOREM Whole == Spec => []NeverTorn
<1>1. Inv => NeverTorn
  BY DEF Inv, WholeInv, NeverTorn
<1> QED
  BY Invariant, <1>1, PTL

\* The file claims only pages that are in the target (update after the commit).
THEOREM Behind == Spec => []FileBehindTarget
<1>1. Inv => FileBehindTarget
  BY DEF Inv, ReachedInv, FileBehindTarget
<1> QED
  BY Invariant, <1>1, PTL

\* Invocations that overlap take the file back no further than to what it held
\* when the first of them loaded it (one loadState, then whole stores).
THEOREM Bounded == Spec => []OverlapBounded
<1>1. Inv => OverlapBounded
  BY DEF Inv, FloorInv, OverlapBounded
<1> QED
  BY Invariant, <1>1, PTL

-----------------------------------------------------------------------------
(* The refinement. *)

LEMMA PromiseInit == Init => Promise!Init
BY DEF Init, Promise!Init, NoFile, Nothing, Promise!Nothing, Held

\* What the store of a running invocation holds is held by its process.
LEMMA HeldStore == \A p \in running : p \in Processes => Held[p] = store[p]
BY DEF Held

\* A process moves on in its own store only.
LEMMA HeldUpdate ==
    ASSUME TypeOK, NEW p \in Processes, NEW t \in Tables, Update(p, t)
    PROVE  Promise!Update(p, t)
<1>1. /\ p \in running
      /\ store' = [store EXCEPT ![p][t] = @ + 1]
      /\ UNCHANGED <<running, path, disk>>
  BY DEF Update
<1>2. store[p][t] \in Nat /\ store[p][t] < MaxPages
  BY BoundsAssumption DEF Update, PageToClaim, TypeOK, Contents
<1>3. Held' = [Held EXCEPT ![p][t] = store[p][t] + 1]
  BY <1>1 DEF Held, TypeOK, Contents
<1>4. store[p][t] + 1 \in 0 .. MaxPages
  BY <1>2, BoundsAssumption
<1>5. <<Held[p][t], store[p][t] + 1>> \in PagesMoved
  BY <1>1, <1>2, <1>4, HeldStore, BoundsAssumption DEF PagesMoved
<1> QED
  BY <1>1, <1>3, <1>4, <1>5 DEF Promise!Update

\* Every step is a step of CheckpointFile or leaves its variables as they are.
LEMMA PromiseStep ==
    TypeOK /\ Inv /\ [Next]_vars => [Promise!Next]_(Promise!vars)
<1> SUFFICES ASSUME TypeOK, Inv, [Next]_vars
             PROVE  Promise!Next \/ UNCHANGED <<running, Held, path.content, disk.content>>
  BY DEF Promise!vars
<1>a. UNCHANGED <<running, store>> => UNCHANGED Held
  BY DEF Held
<1>1. ASSUME NEW p \in Processes, Load(p) PROVE Promise!Next
  <2>1. Held' = [Held EXCEPT ![p] = path.content]
    BY <1>1 DEF Load, Loaded, Held, TypeOK
  <2> QED
    BY <1>1, <2>1 DEF Load, Promise!Load, Promise!Next
<1>2. ASSUME NEW p \in Processes, NEW t \in Tables, CommitPage(p, t)
      PROVE  UNCHANGED <<running, Held, path.content, disk.content>>
  BY <1>2, <1>a DEF CommitPage
<1>3. ASSUME NEW p \in Processes, NEW t \in Tables, Update(p, t)
      PROVE  Promise!Next
  BY <1>3, HeldUpdate DEF Promise!Next
<1>4. ASSUME NEW p \in Processes, SaveStep(p)
      PROVE  UNCHANGED <<running, Held, path.content, disk.content>>
  BY <1>4, <1>a DEF SaveStep, memory
<1>5. ASSUME NEW p \in Processes, Rename(p) PROVE Promise!Next
  BY <1>5, <1>a, Renamed, HeldStore DEF Inv, Rename, Promise!Save, Promise!Next
<1>6. ASSUME NEW p \in Processes, SaveFails(p)
      PROVE  UNCHANGED <<running, Held, path.content, disk.content>>
  BY <1>6, <1>a DEF SaveFails, memory
<1>7. ASSUME NEW p \in Processes, End(p) \/ Stop(p) PROVE Promise!Next
  <2>1. /\ p \in running
        /\ running' = running \ {p}
        /\ UNCHANGED <<store, path, disk>>
    BY <1>7 DEF End, Stop, memory
  <2>2. Held' = [Held EXCEPT ![p] = Nothing]
    BY <2>1 DEF Held
  <2> QED
    BY <2>1, <2>2 DEF Promise!End, Promise!Next, Nothing, Promise!Nothing
<1>8. CASE WriteBack
  BY <1>8, <1>a DEF WriteBack, memory, Promise!WriteBack, Promise!Next
<1>9. CASE PowerLoss
  <2>1. running' = {} /\ Held' = [p \in Processes |-> Nothing]
    BY <1>9 DEF PowerLoss, Held
  <2> QED
    BY <1>9, <2>1, AfterPower
       DEF Inv, PowerLoss, Promise!PowerLoss, Promise!Next, Nothing, Promise!Nothing
<1>10. CASE UNCHANGED vars
  BY <1>10, <1>a DEF vars
<1> QED
  BY <1>1, <1>2, <1>3, <1>4, <1>5, <1>6, <1>7, <1>8, <1>9, <1>10
     DEF Next, Works

\* saveState and loadState implement a file that is replaced as a whole.
THEOREM Implementation == Spec => Atomic
<1>1. TypeOK /\ Inv /\ [Next]_vars => [Promise!Next]_(Promise!vars)
  BY PromiseStep
<1> QED
  BY Typing, Invariant, PromiseInit, <1>1, PTL DEF Spec, Atomic, Promise!Spec
=============================================================================
