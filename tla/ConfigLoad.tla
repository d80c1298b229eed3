----------------------------- MODULE ConfigLoad -----------------------------
(***************************************************************************)
(* Loading the configuration file: .env files, ${VAR} references, the      *)
(* password file, defaults and the rules for custom labels                 *)
(* (internal/config/dotenv.go, config.go, envbool.go).                     *)
(*                                                                         *)
(* A field's text is a literal or one reference, with or without a         *)
(* fallback. What may fail yields a set: of its one result, or empty.      *)
(***************************************************************************)
EXTENDS Selection

CONSTANTS
    KeyOrder,      \* every label key in byte order, a sequence
    Malformed,     \* those labelKeyRE does not match
    Reserved       \* those that begin with two underscores

ASSUME KeysAssumption == KeyOrder \in Seq(STRING)

Unset == "(unset)"   \* a variable that is not in the environment
Empty == ""

Literal(v) == [var |-> Empty, fallback |-> {v}]
Ref(x) == [var |-> x, fallback |-> {}]
RefOr(x, v) == [var |-> x, fallback |-> {v}]
IsRef(text) == text.var # Empty

(* Fault: the file's values replace those of the environment.              *)
Overload(env, file) == [x \in DOMAIN env |-> IF x \in DOMAIN file THEN file[x] ELSE env[x]]

(* godotenv.Load: an exported variable keeps its value, be it empty.       *)
SetMissing(env, file) ==
    [x \in DOMAIN env |-> IF env[x] = Unset /\ x \in DOMAIN file THEN file[x] ELSE env[x]]

(* The .env files of the working directory and of the config file's; one   *)
(* that is missing or cannot be parsed is the empty set. The first wins.   *)
LoadDotEnv(env, files) ==
    LET Found(file) == file # {}
        found == SelectSeq(files, Found)
    IN  IF found = <<>> THEN env ELSE SetMissing(env, CHOOSE f \in found[1] : TRUE)

Interpolate(env, text) ==
    IF ~IsRef(text) THEN text.fallback
    ELSE IF env[text.var] \notin {Unset, Empty} THEN {env[text.var]}
    ELSE IF text.fallback # {} THEN text.fallback
    ELSE {Empty : missing \in {env[text.var] = Unset} \cap {FALSE}}

(* A reference must not resolve to nothing.                                *)
InterpolateSecret(env, text) ==
    {v \in Interpolate(env, text) : v = Empty => ~IsRef(text)}

(* The password file is read, and trimmed, if there is no password; a file *)
(* that cannot be read is the empty set.                                   *)
Password(env, mounts, cl) ==
    UNION {IF pw = Empty /\ cl.passwordFile # Empty THEN mounts[cl.passwordFile] ELSE {pw} :
              pw \in InterpolateSecret(env, cl.password)}

(* EnvBool: a native boolean, or text that must read as one; nothing is no *)
Resolve(env, text) ==
    {v = "true" : v \in Interpolate(env, text) \cap {"true", "false", Empty}}

InterpolateLabels(env, labels) ==
    IF \A k \in DOMAIN labels : Interpolate(env, labels[k]) # {}
    THEN {[k \in DOMAIN labels |-> CHOOSE v \in Interpolate(env, labels[k]) : TRUE]}
    ELSE {}

(* A cluster without a name is called after its host.                      *)
Resolved(cl, host, user, pw, skip, labels) ==
    [cl EXCEPT !.name = IF cl.name = Empty THEN host ELSE cl.name,
               !.host = host, !.username = user, !.password = pw,
               !.insecureSkipVerify = skip, !.labels = labels]

LoadCluster(env, mounts, cl) ==
    {Resolved(cl, host, user, pw, skip, labels) :
        host \in InterpolateSecret(env, cl.host),
        user \in InterpolateSecret(env, cl.username),
        pw \in Password(env, mounts, cl),
        skip \in Resolve(env, cl.insecureSkipVerify),
        labels \in InterpolateLabels(env, cl.labels)}

LoadClusters(env, mounts, cls) ==
    IF \A i \in DOMAIN cls : LoadCluster(env, mounts, cls[i]) # {}
    THEN {[i \in DOMAIN cls |-> CHOOSE cl \in LoadCluster(env, mounts, cls[i]) : TRUE]}
    ELSE {}

(* The keys are declared once, and no value is empty.                      *)
ValidLabels(cfg) ==
    /\ \A k \in DOMAIN cfg.labels :
          k \notin Malformed /\ k \notin Reserved /\ cfg.labels[k] # Empty
    /\ \A i \in DOMAIN cfg.clusters : \A k \in DOMAIN cfg.clusters[i].labels :
          k \in DOMAIN cfg.labels /\ cfg.clusters[i].labels[k] # Empty

(* Only an interval of zero gets the default; a negative one is kept.      *)
DefaultInterval == 300
OrDefault(interval) == IF interval = 0 THEN DefaultInterval ELSE interval

Load(env, mounts, file) ==
    {cfg \in {[interval |-> OrDefault(file.interval), labels |-> labels, clusters |-> cls] :
                 labels \in InterpolateLabels(env, file.labels),
                 cls \in LoadClusters(env, mounts, file.clusters)} :
        cfg.clusters # <<>> /\ ValidLabels(cfg)}

(* Fault: the labels are not sorted; a cluster's own come first.           *)
OverridesFirst(cfg, cl) ==
    LET Own(k) == k \in DOMAIN cl.labels
        Other(k) == k \in DOMAIN cfg.labels \ DOMAIN cl.labels
        Row(keys) == [n \in DOMAIN keys |->
            [key |-> keys[n],
             value |-> IF Own(keys[n]) THEN cl.labels[keys[n]] ELSE cfg.labels[keys[n]]]]
    IN  Row(SelectSeq(KeyOrder, Own)) \o Row(SelectSeq(KeyOrder, Other))

(* The declared labels with the cluster's values, sorted by key.           *)
EffectiveLabels(cfg, cl) ==
    LET keys == Select(KeyOrder, {n \in DOMAIN KeyOrder : KeyOrder[n] \in DOMAIN cfg.labels})
    IN  [n \in DOMAIN keys |->
            [key |-> keys[n],
             value |-> IF keys[n] \in DOMAIN cl.labels THEN cl.labels[keys[n]]
                       ELSE cfg.labels[keys[n]]]]

=============================================================================
