--------------------------- MODULE MCFluxCollect ---------------------------
(* An instance of FluxCollect for TLC.  The inventories are lists of up to *)
(* three nodes of two domains that share a bare name, one written in upper *)
(* case, and two addresses; the queries are a measurement per node, the    *)
(* one the DT collector owns, and one of the whole cluster.                *)
EXTENDS FluxCollect

MCKeys == {"n1.a", "N1.a", "n1.b", "n1", "N1", "n2", "10.0.0.1", "10.0.0.2"}

MCLower == [k \in MCKeys |-> CASE k = "N1.a" -> "n1.a" [] k = "N1" -> "n1" [] OTHER -> k]

MCShort == [k \in MCKeys |-> CASE k = "n1.a" -> "n1" [] k = "n1.b" -> "n1"
                               [] k = "N1.a" -> "N1" [] OTHER -> k]

Named(x, ips) == [label |-> x, keys |-> <<x, MCShort[x]>> \o ips]
Bare(ip) == [label |-> ip, keys |-> <<ip>>]

Nodes ==
    {Named(x, <<"10.0.0.1">>) : x \in {"n1.a", "N1.a", "n1.b", "n1"}}
        \cup {Named("n1.a", <<>>), Named("n2", <<"10.0.0.2">>), Bare("10.0.0.1")}

Alike == {Named("n1.a", <<>>), Named("n1.b", <<"10.0.0.1">>), Named("n1", <<"10.0.0.1">>)}
Few == {<<>>} \cup {<<a, b>> : a \in Nodes, b \in Nodes}
              \cup {l \in [1 .. 3 -> Alike] : l[1] # l[2] /\ l[2] # l[3]}

(* The first Collect may read any of them, the later ones read one. *)
OneNode == {<<Named("n1.a", <<"10.0.0.1">>)>>}
MCFinds == <<Few, OneNode, OneNode>>
MCInventories == Few \cup OneNode

ThreeQueries == <<"cpu", "dt", "vdc">>

Fine == [recent |-> TRUE, readable |-> TRUE, host |-> "N1.a", labelled |-> TRUE]

API(code, text, flag) ==
    [api |-> TRUE, body |-> [code |-> code, description |-> text, retryable |-> flag]]

MCFailures ==
    {[api |-> FALSE, body |-> Unreadable], [api |-> TRUE, body |-> Unreadable],
     API(6401, TRUE, {FALSE}), API(6401, TRUE, {TRUE}), API(6401, TRUE, {}), API(2000, TRUE, {FALSE}),
     API(2000, TRUE, {}), API(0, TRUE, {}), API(0, FALSE, {TRUE})}

SomeRows == {Fine, [Fine EXCEPT !.recent = FALSE, !.host = "n1.b"]}
=============================================================================
