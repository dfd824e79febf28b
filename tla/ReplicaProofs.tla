---------------------------- MODULE ReplicaProofs ----------------------------
(* The promise of Replica, proved for every set of tables and of keys. *)
EXTENDS Replica, TLAPS

Typed ==
    /\ now \in Contents
    /\ copy \in Contents
    /\ claim \in [Tables -> Nat \X Nat]

LEMMA TypedStep ==
  ASSUME Typed, [Next]_vars
  PROVE  Typed'
  BY DEF Typed, Next, Change, Apply, Claim, vars

LEMMA CoveredStep ==
  ASSUME Typed, ClaimCovered, [Next]_vars
  PROVE  ClaimCovered'
<1> SUFFICES ASSUME NEW t \in Tables, NEW k \in Keys
             PROVE  RowCovered(t, k, claim[t])'
  BY DEF ClaimCovered
<1>a. RowCovered(t, k, claim[t])
  BY DEF ClaimCovered
<1>b. now[t][k] \in Nat /\ copy[t][k] \in Nat
  BY DEF Typed, Contents
<1>1. CASE Change
  <2>1. \/ now'[t][k] \in {now[t][k], 0}
        \/ Before(claim[t], <<now'[t][k], k>>)
    BY <1>1 DEF Change
  <2> QED
    BY <1>1, <1>a, <2>1 DEF Change, RowCovered
<1>2. CASE Apply
  <2>1. /\ copy[t][k] <= copy'[t][k]
        /\ copy'[t][k] # copy[t][k] /\ now[t][k] > 0 => copy'[t][k] <= now[t][k]
    BY <1>2 DEF Apply
  <2>2. copy'[t][k] \in Nat
    BY <1>2 DEF Apply, Contents
  <2> QED
    BY <1>2, <1>a, <1>b, <2>1, <2>2 DEF Apply, RowCovered
<1>3. CASE Claim
  BY <1>3 DEF Claim, RowCovered
<1>4. CASE UNCHANGED vars
  BY <1>4, <1>a DEF vars, RowCovered
<1> QED
  BY <1>1, <1>2, <1>3, <1>4 DEF Next

\* Behind the claim nothing is missing or old: the promise by itself, whatever
\* keeps it.
THEOREM ClaimHolds == Spec => []ClaimCovered
<1>1. Init => Typed /\ ClaimCovered
  BY DEF Init, Typed, Contents, ClaimCovered, RowCovered
<1>2. Typed /\ ClaimCovered /\ [Next]_vars => (Typed /\ ClaimCovered)'
  BY TypedStep, CoveredStep
<1> QED
  BY <1>1, <1>2, PTL DEF Spec
=============================================================================
