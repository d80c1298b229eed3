------------------------------- MODULE MCFleet -------------------------------
(* Fleet for TLC. Each file varies one thing at a time: the flags of two   *)
(* clusters, the custom labels, the credentials of one cluster, or nothing *)
(* but the appliance, "odd", which answers anything.                       *)
EXTENDS Fleet

MCKeyOrder == <<"__x", "9x", "cluster", "env", "node", "site">>
MCMalformed == {"9x"}
MCReserved == {"__x"}

Vars == {"PW", "OWNER"}
MCEnvironments == {e \in [Vars -> {Unset, Empty, "true"}] : e["OWNER"] # Empty}
DotEnv(x) == {[y \in Vars |-> x]}
MCDotEnvs == {<<{}, {}>>, <<{}, DotEnv("dir")>>, <<DotEnv(Empty), DotEnv("dir")>>}
MCMounts == [p \in {"full", "blank", "missing"} |->
                IF p = "full" THEN {"mounted"} ELSE IF p = "blank" THEN {Empty} ELSE {}]

Plain ==
    [name |-> "c", host |-> Literal("h"), username |-> Literal("u"), password |-> Literal("p"),
     passwordFile |-> Empty, insecureSkipVerify |-> Literal("false"), labels |-> <<>>,
     collectDT |-> FALSE, collectFlux |-> FALSE, collectMetering |-> TRUE, collectQuotas |-> TRUE]
Other == [Plain EXCEPT !.name = Empty, !.host = Literal("h2")]
File(labels, cls) == [interval |-> 0, labels |-> labels, clusters |-> cls]

FlagFiles ==
    {File([k \in {"env"} |-> Literal("x")],
          <<[Plain EXCEPT !.collectDT = a, !.collectFlux = b, !.collectMetering = c, !.collectQuotas = d],
            [Other EXCEPT !.collectDT = e, !.collectFlux = f]>>) :
        a \in BOOLEAN, b \in BOOLEAN, c \in BOOLEAN, d \in BOOLEAN, e \in BOOLEAN, f \in BOOLEAN}

Texts == {Literal("x"), Literal(Empty), Ref("OWNER"), RefOr("OWNER", Empty)}
KeySets == {{}, {"env", "site"}, {"cluster", "env", "node"}, {"env", "__x"}, {"env", "9x"}}
LabelFiles ==
    {File([k \in keys |-> IF k = "env" THEN t ELSE Literal("y")],
          <<Plain, [Other EXCEPT !.labels = own, !.collectFlux = TRUE]>>) :
        keys \in KeySets, t \in Texts,
        own \in {<<>>, [k \in {"site"} |-> Literal("z")], [k \in {"env"} |-> Ref("PW")]}}

Secrets == {Literal(Empty), Literal("p"), Ref("PW"), RefOr("PW", Empty), RefOr("PW", "d")}
SecretFiles ==
    {File(<<>>, <<[Plain EXCEPT !.host = h, !.password = s, !.passwordFile = p,
                                !.insecureSkipVerify = b]>>) :
        h \in {Literal("h"), Ref("OWNER")}, b \in {Literal("true"), RefOr("PW", Empty)},
        s \in Secrets, p \in {Empty, "full", "blank", "missing"}}

OddFile == File(<<>>, <<[Plain EXCEPT !.host = Literal("odd"), !.collectDT = TRUE]>>)
NoClusters == File(<<>>, <<>>)

MCFiles == FlagFiles \cup LabelFiles \cup SecretFiles \cup {OddFile, NoClusters}
MCEdits == {NoClusters, File(<<>>, <<[Plain EXCEPT !.password = Ref("PW")], Other>>)}

Lists == {Absent, {{}}, {{"n1"}}, {{"n1", "n2"}}}
Steady == [list |-> [underscore |-> {{"n1", "n2"}}, documented |-> Absent],
           series |-> <<[t |-> Number(1), v |-> Number(1)]>>, scalar |-> Number(1), flag |-> Flag(1),
           stat |-> {1}]
(* The readings of a series: in any order, each readable or not.           *)
Points(n) == [t : {Number(1), Number(2), Word}, v : {Number(n), Word}]
Readings(n) == {p \in [1 .. n -> UNION {Points(k) : k \in 1 .. n}] : \A k \in 1 .. n : p[k] \in Points(k)}
Odd ==
    {[Steady EXCEPT !.list = [underscore |-> u, documented |-> d]] : u \in Lists, d \in Lists}
    \cup {[Steady EXCEPT !.scalar = s, !.flag = f] :
             s \in {Number(-1), Number(0), Number(1), Word}, f \in {Flag(0), Flag(1), Number(0), Word}}
    \cup {[Steady EXCEPT !.stat = Absent]}
    \cup {[Steady EXCEPT !.series = p] : p \in UNION {Readings(n) : n \in 0 .. 3}}
MCAnswers == [h \in {"h", "h2", "true", "dir", "odd"} |-> IF h = "odd" THEN Odd ELSE {Steady}]
=============================================================================
