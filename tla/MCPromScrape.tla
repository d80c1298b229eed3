---------------------------- MODULE MCPromScrape ----------------------------
(* Instances of PromScrape for TLC: two clusters that share one custom     *)
(* key; own labels that clash with it, with an empty value too, or do not. *)
EXTENDS PromScrape

Label(k, v) == [key |-> k, value |-> v]
TwoValues == [a |-> <<Label("env", "p")>>, b |-> <<Label("env", "q")>>]
Alone == {<<>>, <<Label("op", "x")>>}
Clashing == {<<Label("env", "")>>, <<Label("env", "x")>>, <<Label("op", "bad")>>}

AllEntries == [cluster : DOMAIN TwoValues, name : Names, own : Alone \cup Clashing]

(* Snapshots list cluster a before cluster b: two samples of any names, or *)
(* three labelled samples of one name from both.                           *)
InOrder(s) == \A j, k \in DOMAIN s : s[j].cluster = "b" /\ s[k].cluster = "a" => k < j
Pairs == [1 .. 2 -> {e \in AllEntries : e.own \in Alone}]
Triples == [1 .. 3 -> {e \in AllEntries : e.own \in Clashing /\ e.name = "m"}]
FewSamples ==
    {s \in Pairs \cup {t \in Triples : t[1].cluster # t[3].cluster} : InOrder(s)}

NoBadValue(labels) == \A n \in DOMAIN labels : labels[n].value # "bad"
=============================================================================
