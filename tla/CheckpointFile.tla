--------------------------- MODULE CheckpointFile ---------------------------
(***************************************************************************)
(* What the state file promises to the invocations that use it, and how    *)
(* they use it: a file that is replaced as a whole.  An invocation loads   *)
(* it once, moves the checkpoints of its store on, and saves the whole     *)
(* store into the file; a power failure keeps the last save or falls back  *)
(* to one that the file system had made durable.                           *)
(*                                                                         *)
(* StateFile implements the promise step by step; IncrementalSync and      *)
(* NoKeyIncremental use the file no other way.                             *)
(***************************************************************************)
CONSTANTS
    Processes,      \* invocations of the incremental command that may overlap
    Tables,         \* the configured tables
    Claims,         \* what a checkpoint can say of a table
    First,          \* the claim of a table without a checkpoint
    Moves           \* the pairs <<c, d>> of claims where d is further than c

VARIABLES
    running,        \* the invocations that have loaded the file and not ended
    store,          \* store[p][t]: the claim of t in p's checkpoint store
    file,           \* the content of the state file
    disk            \* the content that the file falls back to without power

vars == <<running, store, file, disk>>

Nothing == [t \in Tables |-> First]     \* no file: no checkpoints

Init ==
    /\ running = {}
    /\ store = [p \in Processes |-> Nothing]
    /\ file = Nothing
    /\ disk = Nothing

Load(p) ==
    /\ p \notin running
    /\ running' = running \union {p}
    /\ store' = [store EXCEPT ![p] = file]
    /\ UNCHANGED <<file, disk>>

Update(p, t) ==
    /\ p \in running
    /\ \E c \in Claims :
          /\ <<store[p][t], c>> \in Moves
          /\ store' = [store EXCEPT ![p][t] = c]
    /\ UNCHANGED <<running, file, disk>>

Save(p) ==
    /\ p \in running
    /\ file' = store[p]
    /\ UNCHANGED <<running, store, disk>>

WriteBack ==
    /\ disk' = file
    /\ UNCHANGED <<running, store, file>>

\* The store is gone with its process.
End(p) ==
    /\ p \in running
    /\ running' = running \ {p}
    /\ store' = [store EXCEPT ![p] = Nothing]
    /\ UNCHANGED <<file, disk>>

PowerLoss ==
    /\ running' = {}
    /\ store' = [p \in Processes |-> Nothing]
    /\ \E content \in {file, disk} : file' = content /\ disk' = content

Next ==
    \/ \E p \in Processes : Load(p) \/ Save(p) \/ End(p)
    \/ \E p \in Processes, t \in Tables : Update(p, t)
    \/ WriteBack \/ PowerLoss

Spec == Init /\ [][Next]_vars
=============================================================================
