---------------------------- MODULE MCSyncCommand ----------------------------
(* Instances of SyncCommand for TLC: four tables in two levels, more tables   *)
(* in a level than workers and than connections, one table without a key.     *)
EXTENDS SyncCommand

TwoLevels == <<<<"customers", "products", "audit">>, <<"orders">>>>
Order == <<"orders", "customers", "products", "audit">>
=============================================================================
