------------------------ MODULE MCIncrementalSync ------------------------
(* Instances of IncrementalSync for TLC. *)
EXTENDS IncrementalSync

ThreeKeys == 1 .. 3
TwoKeys == 1 .. 2
OneKey == {1}
=============================================================================
