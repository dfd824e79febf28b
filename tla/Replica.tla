------------------------------ MODULE Replica ------------------------------
(***************************************************************************)
(* What incremental synchronisation promises to who uses the target and    *)
(* the state file: a copy that only goes forward, and a claim, per table,  *)
(* of what need not be read again.  Pages, batches, invocations, workers   *)
(* and failures are not to be seen here.                                   *)
(*                                                                         *)
(* A row is a key and a version, 0 where there is no row; a position is a  *)
(* pair of a version and a key, and positions are ordered by version.      *)
(***************************************************************************)
EXTENDS Integers

CONSTANTS
    Tables,         \* the tables
    Keys            \* the keys a row can have, numbers

VARIABLES
    now,            \* now[t][k]: the version of row k in the source
    copy,           \* copy[t][k]: the version of row k in the target
    claim           \* claim[t]: a position, of the state file

vars == <<now, copy, claim>>

Contents == [Tables -> [Keys -> Nat]]

Before(p, q) == p[1] < q[1] \/ (p[1] = q[1] /\ p[2] < q[2])

\* Row k of table t is copied, if the claim p does not leave it to be read.
RowCovered(t, k, p) ==
    now[t][k] > 0 /\ ~Before(p, <<now[t][k], k>>) => copy[t][k] = now[t][k]

Init ==
    /\ now = [t \in Tables |-> [k \in Keys |-> 0]]
    /\ copy = now
    /\ claim = [t \in Tables |-> <<0, 0>>]

\* Rows are written, with versions beyond the claim, or deleted.
Change ==
    /\ now' \in Contents
    /\ \A t \in Tables, k \in Keys :
          \/ now'[t][k] \in {now[t][k], 0}
          \/ Before(claim[t], <<now'[t][k], k>>) /\ copy[t][k] <= now'[t][k]
    /\ UNCHANGED <<copy, claim>>

\* Rows are copied, perhaps in a version the source no longer has, but never
\* over a newer one.
Apply ==
    /\ copy' \in Contents
    /\ \A t \in Tables, k \in Keys :
          /\ copy[t][k] <= copy'[t][k]
          /\ copy'[t][k] # copy[t][k] /\ now[t][k] > 0 => copy'[t][k] <= now[t][k]
    /\ UNCHANGED <<now, claim>>

\* The claim moves forward, over rows that are copied.
Claim ==
    /\ claim' \in [Tables -> Nat \X Nat]
    /\ \A t \in Tables :
          /\ ~Before(claim'[t], claim[t])
          /\ \A k \in Keys : RowCovered(t, k, claim'[t])
    /\ UNCHANGED <<now, copy>>

Next == Change \/ Apply \/ Claim

Spec == Init /\ [][Next]_vars

\* What a reader may rely on: behind the claim nothing is missing or old.
ClaimCovered == \A t \in Tables, k \in Keys : RowCovered(t, k, claim[t])
=============================================================================
