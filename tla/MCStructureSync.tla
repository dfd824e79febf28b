--------------------------- MODULE MCStructureSync ---------------------------
(* An instance of StructureSync for TLC: two tables of two columns in one      *)
(* target schema. One is not there before the first run, the other may be, and *)
(* differ from the source in columns, key or index. Its rows have NULLs where  *)
(* the source has none, and equal values where the source's index is unique.   *)
EXTENDS StructureSync, TLC

CONSTANTS orders, events

TwoColumns == <<"id", "name">>
OneIndex == <<"by_name">>
OfName == [i \in {"by_name"} |-> {"name"}]
NullsAndDuplicates == {<<"name", "nullable">>, <<"by_name", "unique">>}
OneSchema == [t \in Tables |-> "archive"]

Full == [c \in {"id", "name"} |-> AsInSource]
TableOf(columns, pk, indexes) == [columns |-> columns, pk |-> pk, indexes |-> indexes]
Targets ==
    events :> {NoTable} @@
    orders :> {NoTable,
        TableOf([c \in {"id", "extra"} |-> [AsInSource EXCEPT !["default"] = "none"]],
                "source", <<>>),
        TableOf([Full EXCEPT !["name"] = [@ EXCEPT !["type"] = "other", !["nullable"] = "other"]],
                "source", "by_name" :> "source"),
        TableOf(Full, "source", "by_name" :> "other"),
        TableOf(Full, "other", "by_name" :> "source")}
=============================================================================
