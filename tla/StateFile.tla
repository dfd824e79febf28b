----------------------------- MODULE StateFile -----------------------------
(***************************************************************************)
(* The state file, step by step: loadState, the checkpoint store with its  *)
(* mutex, and saveState, which writes a temporary file, syncs it and       *)
(* renames it over the state file.  Invocations may overlap, as they do    *)
(* when cron starts one before the last has ended; a process may be killed *)
(* and the machine may lose its power between any two steps.               *)
(*                                                                         *)
(* The rename is atomic for every process.  It is not synced: the file     *)
(* system makes it durable some time later.  What was written to a file    *)
(* and not synced may be torn when the power returns.                      *)
(***************************************************************************)
EXTENDS Naturals, Sequences

CONSTANTS
    Processes,      \* invocations of the incremental command that may overlap
    Tables,         \* the configured tables
    MaxPages,       \* bound: pages that a table has to synchronise
    MaxFaults,      \* bound: steps of saveState that fail
    MaxCrashes      \* bound: kills and power failures

ASSUME BoundsAssumption ==
    MaxPages \in Nat \ {0} /\ MaxFaults \in Nat /\ MaxCrashes \in Nat

VARIABLES
    running,        \* the invocations that have loaded the file and not ended
    committed,      \* committed[p][t]: pages of t whose transaction p committed
    store,          \* store[p][t]: pages of t that p's checkpoint store claims
    dirty,          \* dirty[p]: the store's flag
    at,             \* at[p]: the steps of saveState p has done, 0: p is not saving
    temporary,      \* temporary[p]: the content of p's temporary file
    path,           \* the file under its name
    disk,           \* the file that is under this name without power
    reached,        \* reached[t]: pages of t that are in the target (history)
    floor,          \* what the file held when the first of the running invocations
                    \* loaded it (history)
    faults, crashes

vars == <<running, committed, store, dirty, at, temporary, path, disk, reached,
          floor, faults, crashes>>
memory == <<committed, store, dirty>>
counts == <<faults, crashes>>

Nothing == [t \in Tables |-> 0]
Contents == [Tables -> 0 .. MaxPages]

\* A file has a content, which is complete or not, and is synced or not.
Files == [content : Contents, complete : BOOLEAN, synced : BOOLEAN]
NoFile == [content |-> Nothing, complete |-> TRUE, synced |-> TRUE]
EmptyFile == [content |-> Nothing, complete |-> FALSE, synced |-> FALSE]

\* Faulty variant of the list that follows, for the mutants of PROJECT.json:
\* the content is not synced.
StepsUnsynced == <<"create", "chmod", "write", "close", "rename">>

SaveSteps == <<"create", "chmod", "write", "sync", "close", "rename">>
Saving(p) == at[p] # 0
NextStep(p) == SaveSteps[at[p] + 1]

Max(m, n) == IF m > n THEN m ELSE n

-----------------------------------------------------------------------------
(* Invocations. *)

\* Faulty variant: the store starts empty.
LoadedNothing(old) == Nothing

\* What the store holds after loadState.
Loaded(old) == path.content

\* loadState: no file is a file without checkpoints, one that does not parse is
\* an error.
Load(p) ==
    /\ p \notin running
    /\ path.complete
    /\ running' = running \union {p}
    /\ store' = [store EXCEPT ![p] = Loaded(@)]
    /\ committed' = [committed EXCEPT ![p] = store'[p]]
    /\ dirty' = [dirty EXCEPT ![p] = FALSE]
    /\ floor' = IF running = {} THEN path.content ELSE floor
    /\ UNCHANGED <<at, temporary, path, disk, reached, counts>>

\* The page after the last one committed by p; another invocation may have
\* committed it before.
CommitPage(p, t) ==
    /\ p \in running
    /\ committed[p][t] = store[p][t] /\ committed[p][t] < MaxPages
    /\ committed' = [committed EXCEPT ![p][t] = @ + 1]
    /\ reached' = [reached EXCEPT ![t] = Max(@, committed'[p][t])]
    /\ UNCHANGED <<running, store, dirty, at, temporary, path, disk, floor,
                   counts>>

\* Faulty variants: the checkpoint is moved before the commit, and while a save is
\* under way.
AnyPage(p, t) == store[p][t] < MaxPages /\ ~Saving(p)
PageUnlocked(p, t) == store[p][t] < committed[p][t]

\* checkpointStore.update comes after the commit and waits for the mutex, which
\* a save holds from the first to the last step.
PageToClaim(p, t) == store[p][t] < committed[p][t] /\ ~Saving(p)

\* Faulty variant: the flag is left as it is.
FlagKept(old) == old

\* The dirty flag after an update.
Flagged(old) == TRUE

Update(p, t) ==
    /\ p \in running
    /\ PageToClaim(p, t)
    /\ store' = [store EXCEPT ![p][t] = @ + 1]
    /\ dirty' = [dirty EXCEPT ![p] = Flagged(@)]
    /\ UNCHANGED <<running, committed, at, temporary, path, disk, reached, floor,
                   counts>>

-----------------------------------------------------------------------------
(* saveState, under the mutex of the store. *)

\* The file that is written, after the step. The content is the store as it was
\* encoded at the start.
After(step, p) ==
    CASE step = "create" -> [EmptyFile EXCEPT !.content = store[p]]
      [] step = "write"  -> [temporary[p] EXCEPT !.complete = TRUE]
      [] step = "sync"   -> [temporary[p] EXCEPT !.synced = TRUE]
      [] OTHER           -> temporary[p]

\* flushLocked saves nothing if the store is not dirty.
SaveStep(p) ==
    /\ p \in running
    /\ dirty[p]
    /\ NextStep(p) # "rename"
    /\ at' = [at EXCEPT ![p] = @ + 1]
    /\ temporary' = [temporary EXCEPT ![p] = After(NextStep(p), p)]
    /\ UNCHANGED <<running, memory, path, disk, reached, floor, counts>>

\* The rename, after which the temporary file is no more, and dirty = false.
Rename(p) ==
    /\ p \in running
    /\ Saving(p) /\ NextStep(p) = "rename"
    /\ path' = temporary[p]
    /\ temporary' = [temporary EXCEPT ![p] = NoFile]
    /\ at' = [at EXCEPT ![p] = 0]
    /\ dirty' = [dirty EXCEPT ![p] = FALSE]
    /\ UNCHANGED <<running, committed, store, disk, reached, floor, counts>>

\* A step fails: the temporary file is removed, the store stays dirty and the
\* error ends the task of one table; the others may save after it.
SaveFails(p) ==
    /\ p \in running
    /\ dirty[p]
    /\ faults < MaxFaults /\ faults' = faults + 1
    /\ at' = [at EXCEPT ![p] = 0]
    /\ temporary' = [temporary EXCEPT ![p] = NoFile]
    /\ UNCHANGED <<running, memory, path, disk, reached, floor, crashes>>

-----------------------------------------------------------------------------
(* Ends, crashes and the file system. *)

\* The command ends when all pages are synchronised and saved.
End(p) ==
    /\ p \in running
    /\ ~dirty[p]
    /\ \A t \in Tables : store[p][t] = MaxPages
    /\ running' = running \ {p}
    /\ UNCHANGED <<memory, at, temporary, path, disk, reached, floor, counts>>

\* The process is killed, or ends before that after an error or a signal.
Stop(p) ==
    /\ p \in running
    /\ crashes < MaxCrashes /\ crashes' = crashes + 1
    /\ running' = running \ {p}
    /\ at' = [at EXCEPT ![p] = 0]
    /\ temporary' = [temporary EXCEPT ![p] = NoFile]
    /\ UNCHANGED <<memory, path, disk, reached, floor, faults>>

\* The file system makes the last rename durable.
WriteBack ==
    /\ disk # path
    /\ disk' = path
    /\ UNCHANGED <<running, memory, at, temporary, path, reached, floor, counts>>

\* What is left of a file: what was not synced may be torn.
LeftOf(f) == {[f EXCEPT !.synced = TRUE, !.complete = c] :
                 c \in IF f.synced THEN {f.complete} ELSE {f.complete, FALSE}}

PowerLoss ==
    /\ crashes < MaxCrashes /\ crashes' = crashes + 1
    /\ running' = {}
    /\ at' = [p \in Processes |-> 0]
    /\ temporary' = [p \in Processes |-> NoFile]
    /\ path' \in LeftOf(path) \union LeftOf(disk)
    /\ disk' = path'
    /\ UNCHANGED <<memory, reached, floor, faults>>

-----------------------------------------------------------------------------
Init ==
    /\ running = {}
    /\ committed = [p \in Processes |-> Nothing]
    /\ store = [p \in Processes |-> Nothing]
    /\ dirty = [p \in Processes |-> FALSE]
    /\ at = [p \in Processes |-> 0]
    /\ temporary = [p \in Processes |-> NoFile]
    /\ path = NoFile
    /\ disk = NoFile
    /\ reached = Nothing
    /\ floor = Nothing
    /\ faults = 0 /\ crashes = 0

Works(p) ==
    \/ \E t \in Tables : CommitPage(p, t) \/ Update(p, t)
    \/ SaveStep(p) \/ Rename(p) \/ End(p)

Next ==
    \/ \E p \in Processes : Load(p) \/ Works(p) \/ SaveFails(p) \/ Stop(p)
    \/ WriteBack \/ PowerLoss

Spec == Init /\ [][Next]_vars

\* A process runs, saves what it has, and the command is run again and again.
FairSpec ==
    /\ Spec
    /\ \A p \in Processes :
          /\ WF_vars(Load(p)) /\ WF_vars(End(p))
          /\ WF_vars(SaveStep(p) \/ Rename(p))
          /\ \A t \in Tables : WF_vars(CommitPage(p, t)) /\ WF_vars(Update(p, t))

-----------------------------------------------------------------------------
(* Properties. *)

\* Type invariant.
TypeOK ==
    /\ running \subseteq Processes
    /\ committed \in [Processes -> Contents]
    /\ store \in [Processes -> Contents]
    /\ dirty \in [Processes -> BOOLEAN]
    /\ at \in [Processes -> 0 .. Len(SaveSteps) - 1]
    /\ temporary \in [Processes -> Files]
    /\ path \in Files /\ disk \in Files
    /\ reached \in Contents /\ floor \in Contents
    /\ faults \in 0 .. MaxFaults /\ crashes \in 0 .. MaxCrashes

\* The state file can always be read, whenever a process or the machine stops:
\* a file that does not parse would fail every later invocation.
NeverTorn == path.complete /\ disk.complete

\* Whatever invocations overlap and whatever a power failure brings back, the
\* file never claims a page that is not in the target.
FileBehindTarget == \A t \in Tables : path.content[t] <= reached[t]

\* Invocations that overlap may put back each other's checkpoints, but no
\* further than to what the file held when the first of them loaded it, and with
\* a single invocation therefore not at all.
OverlapBounded ==
    running # {} => \A t \in Tables : path.content[t] >= floor[t]

\* Saves are atomic, also towards invocations that overlap: what is renamed is
\* the store as it is at that moment. The store of a process that is not running
\* is no more.
PagesMoved == {m \in (0 .. MaxPages) \X (0 .. MaxPages) : m[2] = m[1] + 1}
Held == [p \in Processes |-> IF p \in running THEN store[p] ELSE Nothing]
Promise == INSTANCE CheckpointFile WITH
    Claims <- 0 .. MaxPages, First <- 0, Moves <- PagesMoved,
    store <- Held, file <- path.content, disk <- disk.content
Atomic == Promise!Spec

\* In the end the file claims every page, although invocations overlap.
EventuallySaved == <>[](\A t \in Tables : path.content[t] = MaxPages)
=============================================================================
