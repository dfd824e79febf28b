----------------------------- MODULE MCFullSync -----------------------------
(* Instances of FullSync for TLC: a parent and an unrelated table in the     *)
(* first level, a child in the second; the child has no primary key.         *)
EXTENDS FullSync, TLC

CONSTANTS parent, other, child, p1, p2, o1, c1, c2

ThreeTables == {parent, other, child}
FiveRows == {p1, p2, o1, c1, c2}
RowTables ==
    p1 :> parent @@ p2 :> parent @@ o1 :> other @@ c1 :> child @@ c2 :> child
References == p1 :> NoRow @@ p2 :> p1 @@ o1 :> NoRow @@ c1 :> p1 @@ c2 :> p2
TwoLevels == parent :> 0 @@ other :> 0 @@ child :> 1
KeyedTables == {parent, other}
=============================================================================
