-------------------------- MODULE MCDependencyPlan --------------------------
(* Instances of DependencyPlan for TLC. *)
EXTENDS DependencyPlan

CONSTANTS a, b, c, d

\* d exists but is not configured: foreign keys to it are ignored.
FourTables == {a, b, c, d}
ThreeConfigured == <<c, a, b>>

\* Two mappings of the source table a, to different targets.
TwoConfigured == <<b, a>>
TwoMappings == <<a, b, a>>
TwoTables == {a, b}
=============================================================================
