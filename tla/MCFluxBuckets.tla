--------------------------- MODULE MCFluxBuckets ---------------------------
(* An instance of FluxBuckets for TLC: two hosts of two nodes and one no   *)
(* node answers to, a known id and an unknown one, two bounds.             *)
EXTENDS FluxBuckets

Row(h, i, f, v, recent) ==
    [host |-> h, id |-> i, field |-> f, value |-> v, recent |-> recent]

Fine == {Row(h, "read", f, v, TRUE) : h \in {"h1", "h2"}, f \in Bounds, v \in {"v1"}}

SomeRows == Fine \cup
    {Row("h1", "read", "b", "v2", TRUE),           \* another value for one bound
     Row("h1", "read", "b", "v1", FALSE),          \* stale
     Row("h2", "read", Absent, "v1", TRUE),        \* no field
     Row("h2", "read", Inf, Absent, TRUE),         \* no value
     Row("h2", Absent, "b", "v1", TRUE),           \* no id
     Row("h3", "read", Inf, "v1", TRUE),           \* no such node
     Row("h1", "other", "b", "v1", TRUE)}          \* an id nobody mapped

NodeMap == [h1 |-> "n1", h2 |-> "n2", h3 |-> Absent]
OpMap == [read |-> "read", other |-> Absent]
=============================================================================
