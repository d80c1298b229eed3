---------------------------- MODULE Fleet_proofs ----------------------------
(***************************************************************************)
(* For every environment, configuration file and answer: what the          *)
(* configuration in use holds, what a cycle makes of the answers, and that *)
(* the collectors agree on every name.                                     *)
(***************************************************************************)
EXTENDS Fleet, FiniteSetTheorems, FunctionTheorems, WellFoundedInduction, TLAPS

USE DEF Absent, Empty

-----------------------------------------------------------------------------
(* The configuration *)

(* A reference that is resolved as a secret is not empty, and is what the  *)
(* environment holds if that is not empty.                                 *)
LEMMA SecretFacts ==
    ASSUME NEW e, NEW text, IsRef(text), NEW v \in InterpolateSecret(e, text)
    PROVE  /\ v # Empty
           /\ e[text.var] \notin {Unset, Empty} => v = e[text.var]
<1>1. v \in Interpolate(e, text) /\ v # Empty
  BY DEF InterpolateSecret
<1>2. e[text.var] \notin {Unset, Empty} => Interpolate(e, text) = {e[text.var]}
  BY DEF Interpolate
<1>3. QED
  BY <1>1, <1>2

(* So is a password, for which the file is read only when it is empty.     *)
LEMMA PasswordFacts ==
    ASSUME NEW e, NEW cl, IsRef(cl.password), NEW v \in Password(e, Mounts, cl)
    PROVE  v \in InterpolateSecret(e, cl.password)
BY SecretFacts DEF Password

(* No .env file replaces what a variable was exported with.                *)
LEMMA ExportedStay ==
    ASSUME NEW g, NEW files, NEW x \in DOMAIN g
    PROVE  /\ x \in DOMAIN LoadDotEnv(g, files)
           /\ g[x] # Unset => LoadDotEnv(g, files)[x] = g[x]
BY DEF LoadDotEnv, SetMissing

(* Each cluster of a configuration is a text's, resolved.                  *)
LEMMA LoadFacts ==
    ASSUME NEW e, NEW f, NEW cfg \in Load(e, Mounts, f)
    PROVE  /\ DOMAIN cfg.clusters = DOMAIN f.clusters
           /\ \A i \in DOMAIN cfg.clusters :
                 cfg.clusters[i] \in LoadCluster(e, Mounts, f.clusters[i])
           /\ ValidLabels(cfg)
<1>1. cfg.clusters \in LoadClusters(e, Mounts, f.clusters) /\ ValidLabels(cfg)
  BY DEF Load
<1>2. \A i \in DOMAIN f.clusters : LoadCluster(e, Mounts, f.clusters[i]) # {}
  BY <1>1 DEF LoadClusters
<1>3. cfg.clusters = [i \in DOMAIN f.clusters |->
                         CHOOSE cl \in LoadCluster(e, Mounts, f.clusters[i]) : TRUE]
  BY <1>1, <1>2 DEF LoadClusters
<1>4. \A i \in DOMAIN f.clusters :
         (CHOOSE cl \in LoadCluster(e, Mounts, f.clusters[i]) : TRUE)
            \in LoadCluster(e, Mounts, f.clusters[i])
  BY <1>2
<1>5. QED
  BY <1>1, <1>3, <1>4

(* One text, one configuration. *)
LEMMA LoadsOne ==
    ASSUME NEW e, NEW f, NEW c \in Load(e, Mounts, f), NEW d \in Load(e, Mounts, f)
    PROVE  c = d
<1>1. \A l, m \in InterpolateLabels(e, f.labels) : l = m
  BY DEF InterpolateLabels
<1>2. \A l, m \in LoadClusters(e, Mounts, f.clusters) : l = m
  BY DEF LoadClusters
<1>3. QED
  BY <1>1, <1>2 DEF Load

(* The fields of a cluster that the properties are about. *)
LEMMA ClusterFacts ==
    ASSUME NEW e, NEW text, NEW cl \in LoadCluster(e, Mounts, text),
           {"name", "host", "username", "password", "insecureSkipVerify", "labels"}
              \subseteq DOMAIN text
    PROVE  /\ cl.host \in InterpolateSecret(e, text.host)
           /\ cl.username \in InterpolateSecret(e, text.username)
           /\ cl.password \in Password(e, Mounts, text)
           /\ cl.collectFlux = text.collectFlux /\ cl.collectDT = text.collectDT
           /\ cl.collectMetering = text.collectMetering /\ cl.collectQuotas = text.collectQuotas
<1>1. PICK host \in InterpolateSecret(e, text.host),
           user \in InterpolateSecret(e, text.username),
           pw \in Password(e, Mounts, text),
           skip \in Resolve(e, text.insecureSkipVerify),
           labels \in InterpolateLabels(e, text.labels) :
              cl = Resolved(text, host, user, pw, skip, labels)
  BY DEF LoadCluster
<1> USE DEF Resolved
<1>2. /\ cl.host = host /\ cl.username = user /\ cl.password = pw
  BY <1>1
<1>3. /\ cl.collectFlux = text.collectFlux /\ cl.collectDT = text.collectDT
      /\ cl.collectMetering = text.collectMetering /\ cl.collectQuotas = text.collectQuotas
  BY <1>1
<1>4. QED
  BY <1>2, <1>3

(* There is an n-th smallest for every n up to the size of a finite set of *)
(* numbers: counting those up to each one takes every value once.          *)
LEMMA NthIsIn ==
    ASSUME NEW S, S \subseteq Nat, IsFiniteSet(S), NEW n \in 1 .. Cardinality(S)
    PROVE  Nth(S, n) \in S
<1> DEFINE UpTo(x) == {y \in S : y <= x}
           size == Cardinality(S)
           f == [x \in S |-> Cardinality(UpTo(x))]
<1>1. \A x : UpTo(x) \in SUBSET S
  OBVIOUS
<1>2. size \in Nat /\ IsFiniteSet(1 .. size) /\ Cardinality(1 .. size) = size
  BY FS_CardinalityType, FS_Interval
<1>3. ASSUME NEW x \in S
      PROVE  IsFiniteSet(UpTo(x)) /\ Cardinality(UpTo(x)) \in 1 .. size
  <2>1. IsFiniteSet(UpTo(x)) /\ Cardinality(UpTo(x)) <= size
    BY <1>1, FS_Subset
  <2>2. UpTo(x) # {}
    OBVIOUS
  <2>3. Cardinality(UpTo(x)) \in Nat /\ Cardinality(UpTo(x)) # 0
    BY <2>1, <2>2, FS_CardinalityType, FS_EmptySet
  <2>4. QED
    BY <1>2, <2>1, <2>3
<1>4. ASSUME NEW x \in S, NEW y \in S, x < y
      PROVE  Cardinality(UpTo(x)) # Cardinality(UpTo(y))
  <2>1. x \in Nat /\ y \in Nat /\ \A z \in S : z \in Nat
    OBVIOUS
  <2>2. y \in UpTo(y) /\ y \notin UpTo(x)
    BY <1>4, <2>1
  <2>3. UpTo(x) \in SUBSET UpTo(y)
    <3>1. \A z \in S : z <= x => z <= y
      BY <1>4, <2>1
    <3>2. QED
      BY <3>1
  <2> HIDE DEF UpTo
  <2>4. QED
    BY <1>3, <2>2, <2>3, FS_Subset
<1> HIDE DEF UpTo, size
<1>5. f \in [S -> 1 .. size]
  BY <1>3
<1>6. \A x, y \in S : f[x] = f[y] => x = y
  BY <1>4
<1>7. f \in Injection(S, 1 .. size)
  BY <1>5, <1>6, Fun_IsInj
<1>8. f \in Surjection(S, 1 .. size)
  BY <1>2, <1>7, FS_Injection DEF size
<1>9. \E x \in S : Cardinality(UpTo(x)) = n
  <2>1. \A x \in S : f[x] = Cardinality(UpTo(x))
    OBVIOUS
  <2>2. n \in 1 .. size
    BY DEF size
  <2> HIDE DEF f
  <2>3. \A m \in 1 .. size : \E x \in S : f[x] = m
    BY <1>8, Fun_SurjectionProperties
  <2>4. QED
    BY <2>1, <2>2, <2>3
<1>10. \E x \in S : Cardinality({y \in S : y <= x}) = n
  BY <1>9 DEF UpTo
<1>11. QED
  BY <1>10 DEF Nth

(* Every label has a key that is declared, hence a value that is not empty. *)
LEMMA LabelsHaveValues ==
    ASSUME NEW cfg, ValidLabels(cfg), NEW i \in DOMAIN cfg.clusters,
           NEW n \in DOMAIN EffectiveLabels(cfg, cfg.clusters[i])
    PROVE  EffectiveLabels(cfg, cfg.clusters[i])[n].value # Empty
<1> DEFINE cl == cfg.clusters[i]
           S == {m \in DOMAIN KeyOrder : KeyOrder[m] \in DOMAIN cfg.labels}
           keys == Select(KeyOrder, S)
<1>1. S \subseteq Nat /\ IsFiniteSet(S)
  <2>1. DOMAIN KeyOrder = 1 .. Len(KeyOrder) /\ Len(KeyOrder) \in Nat
    BY KeysAssumption
  <2>2. IsFiniteSet(1 .. Len(KeyOrder))
    BY <2>1, FS_Interval
  <2> QED
    BY <2>1, <2>2, FS_Subset
<1>2. DOMAIN keys = 1 .. Cardinality(S) /\ DOMAIN EffectiveLabels(cfg, cl) = DOMAIN keys
  BY DEF Select, EffectiveLabels
<1>3. Nth(S, n) \in S /\ keys[n] = KeyOrder[Nth(S, n)]
  BY <1>1, <1>2, NthIsIn DEF Select
<1>4. keys[n] \in DOMAIN cfg.labels
  BY <1>3
<1>5. EffectiveLabels(cfg, cl)[n].value =
        IF keys[n] \in DOMAIN cl.labels THEN cl.labels[keys[n]] ELSE cfg.labels[keys[n]]
  BY <1>2 DEF EffectiveLabels
<1>6. QED
  BY <1>4, <1>5 DEF ValidLabels

-----------------------------------------------------------------------------
(* The invariant *)

(* The environment is the one .env left, and what is in use is what it     *)
(* makes of the file loaded last.                                          *)
ConfigInv ==
    /\ given \in Environments /\ dotenvs \in DotEnvs
    /\ {file, source} \subseteq Files \cup Edits
    /\ pc \in {"boot", "up", "exit"}
    /\ pc = "boot" => env = given /\ source = file
    /\ pc # "boot" => env = LoadDotEnv(given, dotenvs)
    /\ pc = "up" <=> running # {}
    /\ running # {} => running = Load(env, Mounts, source)

(* What is left of a cycle was made, from the answers, for a configuration *)
(* that was in use then.                                                   *)
CycleInv ==
    \/ snap = {} /\ DOMAIN heard = {} /\ warned = {}
    \/ \E f \in Files \cup Edits : \E cfg \in Load(LoadDotEnv(given, dotenvs), Mounts, f) :
          /\ DOMAIN heard = DOMAIN cfg.clusters
          /\ \A i \in DOMAIN heard : heard[i] \in Answers[cfg.clusters[i].host]
          /\ snap = CollectAll(cfg, heard)
          /\ warned = {i \in DOMAIN heard : WarnsHalShape(heard[i].list)}

LEMMA FleetInit == Init => ConfigInv /\ CycleInv
<1>1. DOMAIN <<>> = {}
  OBVIOUS
<1>2. QED
  BY <1>1 DEF Init, ConfigInv, CycleInv

(* Every step keeps the configuration what its file says. *)
LEMMA ConfigStep == ConfigInv /\ [Next]_vars => ConfigInv'
<1> SUFFICES ASSUME ConfigInv, [Next]_vars PROVE ConfigInv'
  OBVIOUS
<1> USE DEF ConfigInv
<1>1. CASE Boot
  <2>1. env = given /\ source = file
    BY <1>1 DEF Boot
  <2>2. running' = Load(env', Mounts, source') /\ env' = LoadDotEnv(given', dotenvs')
    <3>1. env' = LoadDotEnv(env, dotenvs) /\ running' = Load(env', Mounts, file)
          /\ given' = given /\ dotenvs' = dotenvs /\ source' = source
      BY <1>1 DEF Boot
    <3>2. QED
      BY <2>1, <3>1
  <2>3. pc' \in {"exit", "up"} /\ (pc' = "up" <=> running' # {})
    BY <1>1 DEF Boot
  <2>4. UNCHANGED <<given, dotenvs, file, source>>
    BY <1>1 DEF Boot
  <2> QED
    BY <2>2, <2>3, <2>4
<1>2. CASE Reload
  BY <1>2 DEF Reload
<1>3. CASE Cycle
  BY <1>3 DEF Cycle
<1>4. CASE UNCHANGED vars
  BY <1>4 DEF vars
<1>5. QED
  BY <1>1, <1>2, <1>3, <1>4 DEF Next

(* A cycle makes its samples for the configuration in use; no other step   *)
(* touches them.                                                           *)
LEMMA CycleStep == ConfigInv /\ CycleInv /\ [Next]_vars => CycleInv'
<1> SUFFICES ASSUME ConfigInv, CycleInv, [Next]_vars PROVE CycleInv'
  OBVIOUS
<1>1. CASE Boot \/ Reload \/ UNCHANGED vars
  BY <1>1 DEF Boot, Reload, vars, CycleInv
<1>2. CASE Cycle
  <2>1. PICK cfg \in running :
           /\ heard' \in {a \in [DOMAIN cfg.clusters ->
                                    UNION {Answers[cfg.clusters[i].host] : i \in DOMAIN cfg.clusters}] :
                             \A i \in DOMAIN a : a[i] \in Answers[cfg.clusters[i].host]}
           /\ snap' = CollectAll(cfg, heard')
           /\ warned' = {i \in DOMAIN heard' : WarnsHalShape(heard'[i].list)}
    BY <1>2 DEF Cycle
  <2>2. DOMAIN heard' = DOMAIN cfg.clusters
        /\ \A i \in DOMAIN heard' : heard'[i] \in Answers[cfg.clusters[i].host]
    BY <2>1
  <2>3. source \in Files \cup Edits /\ cfg \in Load(LoadDotEnv(given, dotenvs), Mounts, source)
    BY <1>2, <2>1 DEF Cycle, ConfigInv
  <2>4. given' = given /\ dotenvs' = dotenvs
    BY <1>2 DEF Cycle
  <2> QED
    BY <2>1, <2>2, <2>3, <2>4 DEF CycleInv
<1>3. QED
  BY <1>1, <1>2 DEF Next

(* Both hold in every state. *)
LEMMA FleetAlways == Spec => [](ConfigInv /\ CycleInv)
BY FleetInit, ConfigStep, CycleStep, PTL DEF Spec

(* At most one configuration is in use, exactly while the process is up,   *)
(* and the environment has the variables it was given.                     *)
THEOREM FleetTypeCorrect == Spec => []TypeOK
<1>1. ConfigInv /\ CycleInv => TypeOK
  <2> SUFFICES ASSUME ConfigInv, CycleInv PROVE TypeOK
    OBVIOUS
  <2>1. Cardinality(running) <= 1
    <3>1. running = {} \/ \E c : running = {c}
      BY LoadsOne DEF ConfigInv
    <3>2. Cardinality(running) = 0 \/ Cardinality(running) = 1
      BY <3>1, FS_EmptySet, FS_Singleton
    <3> QED
      BY <3>2
  <2>2. DOMAIN env = DOMAIN given
    BY DEF ConfigInv, LoadDotEnv, SetMissing
  <2>3. warned \subseteq DOMAIN heard
    BY DEF CycleInv
  <2> QED
    BY <2>1, <2>2, <2>3 DEF TypeOK, ConfigInv
<1>2. QED
  BY <1>1, FleetAlways, PTL

(* Whatever the environment, the .env files, the file and its edits, a     *)
(* credential that is written as a reference is never empty and is what    *)
(* the process was started with, and no label of a cluster is empty.       *)
THEOREM ConfigurationIsMeant == Spec => []ConfigIsMeant
<1>1. ConfigInv => ConfigIsMeant
  <2> SUFFICES ASSUME ConfigInv, NEW cfg \in running, NEW i \in DOMAIN cfg.clusters
               PROVE  LET cl == cfg.clusters[i]
                          text == source.clusters[i]
                          labels == EffectiveLabels(cfg, cl)
                      IN  /\ \A f \in {"host", "username", "password"} : IsRef(text[f]) =>
                                /\ cl[f] # Empty
                                /\ given[text[f].var] \notin {Unset, Empty} => cl[f] = given[text[f].var]
                          /\ \A n \in DOMAIN labels : labels[n].value # Empty
    BY DEF ConfigIsMeant
  <2> DEFINE cl == cfg.clusters[i]
             text == source.clusters[i]
  <2>1. cfg \in Load(env, Mounts, source) /\ source \in Files \cup Edits
        /\ env = LoadDotEnv(given, dotenvs) /\ given \in Environments
    BY DEF ConfigInv
  <2>2. i \in DOMAIN source.clusters /\ cl \in LoadCluster(env, Mounts, text) /\ ValidLabels(cfg)
    BY <2>1, LoadFacts
  <2>3. {"name", "host", "username", "password", "insecureSkipVerify", "labels"} \subseteq DOMAIN text
        /\ \A f \in {"host", "username", "password"} : IsRef(text[f]) => text[f].var \in DOMAIN given
    BY <2>1, <2>2, FilesAssumption
  <2> HIDE DEF cl, text
  <2>4. ASSUME NEW f \in {"host", "username", "password"}, IsRef(text[f])
        PROVE  /\ cl[f] # Empty
               /\ given[text[f].var] \notin {Unset, Empty} => cl[f] = given[text[f].var]
    <3>1. cl[f] \in InterpolateSecret(env, text[f])
      BY <2>2, <2>3, <2>4, ClusterFacts, PasswordFacts
    <3>2. given[text[f].var] # Unset => env[text[f].var] = given[text[f].var]
      BY <2>1, <2>3, <2>4, ExportedStay
    <3> QED
      BY <2>4, <3>1, <3>2, SecretFacts
  <2>5. \A n \in DOMAIN EffectiveLabels(cfg, cl) : EffectiveLabels(cfg, cl)[n].value # Empty
    BY <2>2, LabelsHaveValues DEF cl
  <2> QED
    BY <2>4, <2>5 DEF cl, text
<1>2. QED
  BY <1>1, FleetAlways, PTL

-----------------------------------------------------------------------------
(* The samples of a cycle *)

(* What runs for a cluster: its collectors, and the loop itself.           *)
Sources(cl) == Registry(cl) \cup {Runs("loop", CollectorUp), Runs("loop", Up)}

(* Each part is a source's, and each instance of a collector is a part.    *)
LEMMA PartFacts ==
    ASSUME NEW cl, NEW answer
    PROVE  /\ \A p \in Parts(cl, answer) :
                 /\ p[1] \in Sources(cl)
                 /\ p[1].collector # "loop" => p[2] \in InstancesIn(p[1].collector, answer)
           /\ \A r \in Registry(cl) : \A x \in InstancesIn(r.collector, answer) :
                 <<r, x>> \in Parts(cl, answer)
<1>1. ASSUME NEW p, NEW r
      PROVE  p \in PartsOf(r, answer) <=>
                \/ \E x \in InstancesIn(r.collector, answer) : p = <<r, x>>
                \/ p = <<Runs("loop", CollectorUp), r.collector>>
  BY DEF PartsOf
<1>2. ASSUME NEW p
      PROVE  p \in Parts(cl, answer) <=>
                \/ \E r \in Registry(cl) : p \in PartsOf(r, answer)
                \/ p = <<Runs("loop", Up), Whole>>
  BY DEF Parts
<1>4. Runs("loop", CollectorUp).collector = "loop" /\ Runs("loop", Up).collector = "loop"
  BY DEF Runs
<1>5. QED
  BY <1>1, <1>2, <1>4 DEF Sources

(* A sample is a reading of a family of one of the sources. *)
LEMMA SampleFacts ==
    ASSUME NEW at, NEW cl, NEW custom, NEW answer, NEW s
    PROVE  s \in CollectCluster(at, cl, custom, answer) <=>
              \E p \in Parts(cl, answer) : \E f \in p[1].families : \E v \in Reading(f.from, answer) :
                 s = Sample(at, p[1].collector, p[2], f, custom, v)
<1>1. ASSUME NEW r, NEW x
      PROVE  s \in Emit(at, custom, answer, r, x) <=>
                \E f \in r.families : \E v \in Reading(f.from, answer) :
                   s = Sample(at, r.collector, x, f, custom, v)
  BY DEF Emit
<1>2. s \in CollectCluster(at, cl, custom, answer) <=>
         \E p \in Parts(cl, answer) : s \in Emit(at, custom, answer, p[1], p[2])
  BY DEF CollectCluster
<1>3. QED
  BY <1>1, <1>2

(* The samples of a cycle, cluster by cluster.                             *)
LEMMA CycleSamples ==
    ASSUME NEW cfg, NEW answers, NEW s
    PROVE  s \in CollectAll(cfg, answers) <=>
             \E i \in DOMAIN cfg.clusters :
                s \in CollectCluster(i, cfg.clusters[i], CustomKeys(cfg, cfg.clusters[i]), answers[i])
BY DEF CollectAll

(* A cluster's samples are those its own collectors emit, and what was     *)
(* heard of it is what its appliance may answer.                           *)
LEMMA ClusterOfCycle ==
    ASSUME ConfigInv, CycleInv, NEW i \in DOMAIN heard
    PROVE  \E cl, custom :
              /\ \A s : s \in snap /\ s.at = i <=> s \in CollectCluster(i, cl, custom, heard[i])
              /\ \E h \in DOMAIN Answers : heard[i] \in Answers[h]
              /\ i \notin warned => ~WarnsHalShape(heard[i].list)
<1>1. PICK f \in Files \cup Edits : \E cfg \in Load(LoadDotEnv(given, dotenvs), Mounts, f) :
          /\ DOMAIN heard = DOMAIN cfg.clusters
          /\ \A j \in DOMAIN heard : heard[j] \in Answers[cfg.clusters[j].host]
          /\ snap = CollectAll(cfg, heard)
          /\ warned = {j \in DOMAIN heard : WarnsHalShape(heard[j].list)}
  BY DEF CycleInv
<1>2. PICK cfg \in Load(LoadDotEnv(given, dotenvs), Mounts, f) :
          /\ DOMAIN heard = DOMAIN cfg.clusters
          /\ \A j \in DOMAIN heard : heard[j] \in Answers[cfg.clusters[j].host]
          /\ snap = CollectAll(cfg, heard)
          /\ warned = {j \in DOMAIN heard : WarnsHalShape(heard[j].list)}
  BY <1>1
<1> DEFINE custom(j) == CustomKeys(cfg, cfg.clusters[j])
<1>3. \A j \in DOMAIN cfg.clusters : \A s \in CollectCluster(j, cfg.clusters[j], custom(j), heard[j]) :
         s.at = j
  <2>1. \A at, collector, of, f1, cs, v : Sample(at, collector, of, f1, cs, v).at = at
    BY DEF Sample
  <2> QED
    BY <2>1, SampleFacts
<1> HIDE DEF custom
<1>4. \A s : s \in snap <=>
         \E j \in DOMAIN cfg.clusters : s \in CollectCluster(j, cfg.clusters[j], custom(j), heard[j])
  BY <1>2, CycleSamples DEF custom
<1>5. \A s : s \in snap /\ s.at = i <=> s \in CollectCluster(i, cfg.clusters[i], custom(i), heard[i])
  BY <1>2, <1>3, <1>4
<1>6. cfg.clusters[i].host \in DOMAIN Answers /\ heard[i] \in Answers[cfg.clusters[i].host]
  BY <1>2, HostsAssumption DEF ConfigInv
<1>7. QED
  BY <1>2, <1>5, <1>6

-----------------------------------------------------------------------------
(* Lists *)

(* Every node of the list is given a sample whatever else is known of it,  *)
(* and the collector speaks of no other node.                              *)
LEMMA NodesOf ==
    ASSUME NEW at, NEW cl, NEW custom, NEW answer
    PROVE  {s.of : s \in {t \in CollectCluster(at, cl, custom, answer) : t.collector = "nodes"}}
              = UNION Instances(answer.list)
<1>1. InstancesIn("nodes", answer) = UNION Instances(answer.list)
  BY DEF InstancesIn
<1>2. \A c, of, f, v : /\ Sample(at, c, of, f, custom, v).of = of
                       /\ Sample(at, c, of, f, custom, v).collector = c
  BY DEF Sample
<1>3. ASSUME NEW s \in CollectCluster(at, cl, custom, answer), s.collector = "nodes"
      PROVE  s.of \in UNION Instances(answer.list)
  <2>1. PICK p \in Parts(cl, answer) : \E f \in p[1].families : \E v \in Reading(f.from, answer) :
           s = Sample(at, p[1].collector, p[2], f, custom, v)
    BY SampleFacts
  <2>2. s.of = p[2] /\ p[1].collector = "nodes"
    BY <1>2, <1>3, <2>1
  <2> QED
    BY <1>1, <2>2, PartFacts
<1>4. ASSUME NEW x \in UNION Instances(answer.list)
      PROVE  \E s \in CollectCluster(at, cl, custom, answer) : s.collector = "nodes" /\ s.of = x
  <2> DEFINE r == Runs("nodes", NodesFamilies(cl.collectFlux))
             healthy == [name |-> <<"ecs_node", "healthy">>, keys |-> <<"node">>,
                         from |-> "always", type |-> "gauge"]
  <2>1. r \in Registry(cl) /\ r.collector = "nodes" /\ r.families = NodesFamilies(cl.collectFlux)
    BY DEF Registry, Runs
  <2>2. healthy \in NodesFamilies(cl.collectFlux)
    BY DEF NodesFamilies, Always, Family
  <2>3. 1 \in Reading(healthy.from, answer)
    BY DEF Reading
  <2> HIDE DEF r, healthy
  <2>4. <<r, x>> \in Parts(cl, answer)
    BY <1>1, <2>1, PartFacts
  <2>5. Sample(at, "nodes", x, healthy, custom, 1) \in CollectCluster(at, cl, custom, answer)
    <3>1. <<r, x>>[1] = r /\ <<r, x>>[2] = x
      OBVIOUS
    <3> QED
      BY <2>1, <2>2, <2>3, <2>4, <3>1, SampleFacts
  <2> QED
    BY <1>2, <2>5
<1>5. QED
  BY <1>3, <1>4

(* Whatever the appliances answer: a node that one lists is in the         *)
(* snapshot unless the cycle warned about the list.                        *)
THEOREM NoListIsLost == Spec => []NoSilentLoss
<1>1. ConfigInv /\ CycleInv => NoSilentLoss
  <2> SUFFICES ASSUME ConfigInv, CycleInv, NEW i \in DOMAIN heard \ warned
               PROVE  LET hal == heard[i].list IN
                      /\ hal.underscore \cup hal.documented # Absent
                      /\ UNION (hal.underscore \cup hal.documented)
                            = {s.of : s \in {t \in snap : t.at = i /\ t.collector = "nodes"}}
    BY DEF NoSilentLoss
  <2>1. PICK cl, custom :
           /\ \A s : s \in snap /\ s.at = i <=> s \in CollectCluster(i, cl, custom, heard[i])
           /\ ~WarnsHalShape(heard[i].list)
    BY ClusterOfCycle
  <2>2. {t \in snap : t.at = i /\ t.collector = "nodes"}
           = {t \in CollectCluster(i, cl, custom, heard[i]) : t.collector = "nodes"}
    BY <2>1
  <2>3. {s.of : s \in {t \in snap : t.at = i /\ t.collector = "nodes"}}
           = UNION Instances(heard[i].list)
    BY <2>2, NodesOf
  <2>4. LET hal == heard[i].list IN
        /\ hal.underscore \cup hal.documented # Absent
        /\ hal.underscore \cup hal.documented = Instances(hal)
    BY <2>1 DEF WarnsHalShape, KeySeen, Conflict, Instances
  <2> QED
    BY <2>3, <2>4
<1>2. QED
  BY <1>1, FleetAlways, PTL

-----------------------------------------------------------------------------
(* Readings *)

(* A set of numbers that is not empty has a smallest element: what stands  *)
(* for induction below.                                                    *)
LEMMA Smallest ==
    ASSUME NEW T, T \subseteq Nat, T # {}
    PROVE  \E x \in T : \A y \in T : x <= y
<1> DEFINE Less == OpToRel(<, Nat)
<1>1. IsWellFoundedOn(Less, Nat)
  BY NatLessThanWellFounded, Zenon
<1>2. \A x, y \in Nat : <<y, x>> \in Less <=> y < x
  BY DEF OpToRel
<1> HIDE DEF Less
<1>3. PICK x \in T : \A y \in T : <<y, x>> \notin Less
  BY <1>1, WFMin, Zenon
<1>4. \A y \in T : y \in Nat /\ x \in Nat /\ ~(y < x)
  BY <1>2, <1>3
<1>5. \A y \in T : x <= y
  BY <1>4
<1>6. QED
  BY <1>5

(* The loop's recursion has a solution for every number of points.         *)
LEMMA NewestExists ==
    ASSUME NEW series, Len(series) \in Nat
    PROVE  \E f : f = [i \in 0 .. Len(series) |->
                        IF i = 0 THEN 0
                        ELSE IF f[i - 1] = 0
                                \/ TimeOf(series[i]) >= TimeOf(series[f[i - 1]])
                             THEN i ELSE f[i - 1]]
<1> DEFINE Step(g, i) == IF i = 0 THEN 0
                         ELSE IF g[i - 1] = 0
                                 \/ TimeOf(series[i]) >= TimeOf(series[g[i - 1]])
                              THEN i ELSE g[i - 1]
           Solved(m) == \E g : g = [i \in 0 .. m |-> Step(g, i)]
           T == {m \in 0 .. Len(series) : ~Solved(m)}
<1>1. \A g, h, i : i = 0 \/ g[i - 1] = h[i - 1] => Step(g, i) = Step(h, i)
  OBVIOUS
<1>0. \A g : Step(g, 0) = 0
  OBVIOUS
<1> HIDE DEF Step
<1>2. Solved(0)
  <2> DEFINE g == [i \in 0 .. 0 |-> 0]
  <2>1. \A i \in 0 .. 0 : Step(g, i) = 0
    BY <1>0
  <2>2. g = [i \in 0 .. 0 |-> Step(g, i)]
    BY <2>1
  <2> QED
    BY <2>2
<1>3. ASSUME NEW m \in Nat \ {0}, Solved(m - 1) PROVE Solved(m)
  <2>1. PICK g : g = [i \in 0 .. m - 1 |-> Step(g, i)]
    BY <1>3
  <2> DEFINE h == [i \in 0 .. m |-> IF i = m THEN Step(g, m) ELSE g[i]]
  <2>2. \A i \in 0 .. m - 1 : h[i] = g[i] /\ g[i] = Step(g, i)
    BY <2>1
  <2>3. h[m] = Step(g, m)
    OBVIOUS
  <2> HIDE DEF h
  <2>4. ASSUME NEW i \in 0 .. m PROVE h[i] = Step(h, i)
    <3>1. i = 0 \/ g[i - 1] = h[i - 1]
      BY <2>2
    <3>2. Step(g, i) = Step(h, i)
      BY <3>1, <1>1
    <3> QED
      BY <2>2, <2>3, <3>2
  <2>5. h = [i \in 0 .. m |-> h[i]]
    BY DEF h
  <2>6. h = [i \in 0 .. m |-> Step(h, i)]
    BY <2>4, <2>5
  <2> QED
    BY <2>6
<1>4. ASSUME T # {} PROVE FALSE
  <2>1. T \subseteq Nat
    OBVIOUS
  <2>2. PICK m \in T : \A y \in T : m <= y
    BY <1>4, <2>1, Smallest
  <2>3. m # 0 /\ m \in Nat /\ m - 1 \in 0 .. Len(series)
    BY <1>2, <2>2
  <2>4. m - 1 \notin T
    BY <2>2, <2>3
  <2>5. Solved(m - 1)
    BY <2>3, <2>4
  <2> QED
    BY <1>3, <2>2, <2>3, <2>5
<1>5. Solved(Len(series))
  BY <1>4
<1> QED
  BY <1>5 DEF Step

(* The loop keeps a point that no other is newer than, for any points: by  *)
(* the smallest prefix after which it does not.                            *)
LEMMA NewestIsNewest ==
    ASSUME NEW series, Len(series) \in Nat, Len(series) # 0,
           \A n \in 1 .. Len(series) : TimeOf(series[n]) \in Nat
    PROVE  /\ Newest(series) \in 1 .. Len(series)
           /\ \A m \in 1 .. Len(series) :
                 TimeOf(series[m]) <= TimeOf(series[Newest(series)])
<1> DEFINE Step(g, i) == IF i = 0 THEN 0
                         ELSE IF g[i - 1] = 0
                                 \/ TimeOf(series[i]) >= TimeOf(series[g[i - 1]])
                              THEN i ELSE g[i - 1]
           f == CHOOSE g : g = [i \in 0 .. Len(series) |-> Step(g, i)]
           time(n) == TimeOf(series[n])
           Bad == {i \in 1 .. Len(series) :
                      ~(f[i] \in 1 .. i /\ \A m \in 1 .. i : time(m) <= time(f[i]))}
<1>1. Newest(series) = f[Len(series)]
  BY DEF Newest
<1>2. f = [i \in 0 .. Len(series) |-> Step(f, i)]
  BY NewestExists
<1> HIDE DEF f, Step
<1>3. \A i \in 0 .. Len(series) : f[i] = Step(f, i)
  BY <1>2
<1>4. /\ f[0] = 0
      /\ \A i \in 1 .. Len(series) :
            f[i] = IF f[i - 1] = 0 \/ time(i) >= time(f[i - 1]) THEN i ELSE f[i - 1]
  BY <1>3 DEF Step
<1>5. \A n \in 1 .. Len(series) : time(n) \in Nat
  OBVIOUS
<1> HIDE DEF time
<1>6. ASSUME Bad # {} PROVE FALSE
  <2>1. Bad \subseteq Nat
    OBVIOUS
  <2>2. PICK i \in Bad : \A y \in Bad : i <= y
    BY <1>6, <2>1, Smallest
  <2>3. i \in 1 .. Len(series) /\ i \in Nat
    BY <2>2
  <2>4. CASE i = 1
    BY <1>4, <1>5, <2>2, <2>3, <2>4
  <2>5. CASE i # 1
    <3>1. i - 1 \in 1 .. Len(series) /\ i - 1 \notin Bad
      BY <2>2, <2>3, <2>5
    <3>2. f[i - 1] \in 1 .. i - 1 /\ \A m \in 1 .. i - 1 : time(m) <= time(f[i - 1])
      BY <3>1
    <3>3. /\ i - 1 \in Nat /\ f[i - 1] \in Nat /\ f[i - 1] # 0 /\ f[i - 1] \in 1 .. Len(series)
          /\ \A m \in 1 .. i - 1 : m \in 1 .. Len(series)
      BY <2>3, <3>2
    <3>4. time(i) \in Nat /\ time(f[i - 1]) \in Nat /\ \A m \in 1 .. i - 1 : time(m) \in Nat
      BY <1>5, <2>3, <3>3
    <3>6. f[i] = IF time(i) >= time(f[i - 1]) THEN i ELSE f[i - 1]
      BY <1>4, <2>3, <3>3
    <3>7. f[i] \in 1 .. i
      BY <2>3, <3>2, <3>6
    <3>8. time(i) <= time(f[i]) /\ \A m \in 1 .. i - 1 : time(m) <= time(f[i])
      BY <3>2, <3>4, <3>6
    <3>5. \A m \in 1 .. i : m = i \/ m \in 1 .. i - 1
      BY <2>3
    <3> QED
      BY <2>2, <2>3, <3>5, <3>7, <3>8
  <2> QED
    BY <2>4, <2>5
<1>7. Len(series) \notin Bad
  BY <1>6
<1> QED
  BY <1>1, <1>7 DEF time

(* A readable reading shown is of a point no dated point is newer than; a  *)
(* point newer than all others decides what is shown.                      *)
LEMMA LatestFacts ==
    ASSUME NEW pts, Len(pts) \in Nat, DOMAIN pts = 1 .. Len(pts),
           \A n \in DOMAIN pts : AnyToFloat(pts[n].t) # Absent => pts[n].t.n \in Nat \ {0}
    PROVE  LET Dated(n) == AnyToFloat(pts[n].t) # Absent IN
           /\ \A v \in Latest(pts) : \E n \in DOMAIN pts :
                 /\ AnyToFloat(pts[n].v) = {v}
                 /\ \A m \in DOMAIN pts : Dated(m) => Dated(n) /\ pts[m].t.n <= pts[n].t.n
           /\ \A n \in DOMAIN pts :
                 (/\ Dated(n)
                  /\ \A m \in DOMAIN pts \ {n} : Dated(m) => pts[m].t.n < pts[n].t.n)
                     => Latest(pts) = AnyToFloat(pts[n].v)
<1> DEFINE Dated(n) == AnyToFloat(pts[n].t) # Absent
           time(n) == TimeOf(pts[n])
           k == Newest(pts)
<1>1. \A n \in DOMAIN pts : /\ Dated(n) => time(n) = pts[n].t.n /\ time(n) \in Nat \ {0}
                            /\ ~Dated(n) => time(n) = 0
  BY DEF TimeOf
<1>2. pts = <<>> => DOMAIN pts = {}
  OBVIOUS
<1>3. ASSUME DOMAIN pts # {}
      PROVE  k \in DOMAIN pts /\ \A m \in DOMAIN pts : time(m) <= time(k)
  <2>1. Len(pts) # 0
    BY <1>3
  <2>2. \A n \in 1 .. Len(pts) : TimeOf(pts[n]) \in Nat
    BY <1>1
  <2> QED
    BY <2>1, <2>2, NewestIsNewest
<1>4. ASSUME DOMAIN pts # {} PROVE Latest(pts) = AnyToFloat(pts[k].v)
  BY <1>2, <1>4 DEF Latest
<1>5. ASSUME DOMAIN pts = {} PROVE Latest(pts) = {}
  <2>1. Len(pts) = 0
    BY <1>5
  <2>2. pts = <<>>
    BY <1>5, <2>1
  <2> QED
    BY <2>2 DEF Latest
<1> HIDE DEF Dated, time, k
<1>6. ASSUME NEW v \in Latest(pts)
      PROVE  \E n \in DOMAIN pts :
                /\ AnyToFloat(pts[n].v) = {v}
                /\ \A m \in DOMAIN pts : Dated(m) => Dated(n) /\ pts[m].t.n <= pts[n].t.n
  <2>1. k \in DOMAIN pts /\ Latest(pts) = AnyToFloat(pts[k].v)
    BY <1>3, <1>4, <1>5
  <2>2. AnyToFloat(pts[k].v) = {v}
    BY <2>1 DEF AnyToFloat
  <2>3. ASSUME NEW m \in DOMAIN pts, Dated(m)
        PROVE  Dated(k) /\ pts[m].t.n <= pts[k].t.n
    <3>1. time(m) <= time(k) /\ time(m) \in Nat \ {0} /\ time(m) = pts[m].t.n
      BY <1>1, <1>3, <2>1, <2>3
    <3>2. Dated(k)
      BY <1>1, <2>1, <3>1
    <3> QED
      BY <1>1, <2>1, <3>1, <3>2
  <2> QED
    BY <2>1, <2>2, <2>3
<1>7. ASSUME NEW n \in DOMAIN pts, Dated(n),
             \A m \in DOMAIN pts \ {n} : Dated(m) => pts[m].t.n < pts[n].t.n
      PROVE  Latest(pts) = AnyToFloat(pts[n].v)
  <2>1. k \in DOMAIN pts /\ time(n) <= time(k) /\ time(n) \in Nat \ {0} /\ time(n) = pts[n].t.n
    BY <1>1, <1>3, <1>7
  <2>2. Dated(k) /\ time(k) = pts[k].t.n /\ time(k) \in Nat
    BY <1>1, <2>1
  <2>3. k = n
    BY <1>7, <2>1, <2>2
  <2> QED
    BY <1>4, <2>3
<1>8. QED
  BY <1>6, <1>7 DEF Dated

(* The samples read from a series have the reading Latest chooses, and     *)
(* some collector of every cluster publishes it.                           *)
LEMMA SeriesShown ==
    ASSUME NEW at, NEW cl, NEW custom, NEW answer
    PROVE  {s.value : s \in {t \in CollectCluster(at, cl, custom, answer) : t.from = "series"}}
              = Latest(answer.series)
<1>1. Reading("series", answer) = Latest(answer.series)
  BY DEF Reading
<1>2. \A c, of, f, v : /\ Sample(at, c, of, f, custom, v).value = v
                       /\ Sample(at, c, of, f, custom, v).from = f.from
  BY DEF Sample
<1>3. ASSUME NEW s \in CollectCluster(at, cl, custom, answer), s.from = "series"
      PROVE  s.value \in Latest(answer.series)
  <2>1. PICK p \in Parts(cl, answer) : \E f \in p[1].families : \E v \in Reading(f.from, answer) :
           s = Sample(at, p[1].collector, p[2], f, custom, v)
    BY SampleFacts
  <2>2. PICK f \in p[1].families : \E v \in Reading(f.from, answer) :
           s = Sample(at, p[1].collector, p[2], f, custom, v)
    BY <2>1
  <2>3. PICK v \in Reading(f.from, answer) : s = Sample(at, p[1].collector, p[2], f, custom, v)
    BY <2>2
  <2>4. s.value = v /\ f.from = "series"
    BY <1>2, <1>3, <2>3
  <2> QED
    BY <1>1, <2>3, <2>4
<1>4. ASSUME NEW v \in Latest(answer.series)
      PROVE  \E s \in CollectCluster(at, cl, custom, answer) : s.from = "series" /\ s.value = v
  <2> DEFINE r == Runs("cluster", ClusterFamilies)
             rate == [name |-> <<"ecs_cluster", "recovery_rate">>, keys |-> <<>>,
                      from |-> "series", type |-> "gauge"]
  <2>1. r \in Registry(cl) /\ r.collector = "cluster" /\ r.families = ClusterFamilies
    BY DEF Registry, Runs
  <2>2. rate \in ClusterFamilies
    <3>1. rate \in RecoveryFields
      BY DEF RecoveryFields, Series, Family
    <3>2. QED
      BY <3>1 DEF ClusterFamilies
  <2>3. v \in Reading(rate.from, answer) /\ rate.from = "series"
    BY <1>1
  <2>4. InstancesIn("cluster", answer) = {Whole}
    BY DEF InstancesIn
  <2> HIDE DEF r, rate
  <2>5. <<r, Whole>> \in Parts(cl, answer) /\ <<r, Whole>>[1] = r /\ <<r, Whole>>[2] = Whole
    BY <2>1, <2>4, PartFacts
  <2>6. Sample(at, "cluster", Whole, rate, custom, v) \in CollectCluster(at, cl, custom, answer)
    BY <2>1, <2>2, <2>3, <2>5, SampleFacts
  <2> QED
    BY <1>2, <2>3, <2>6
<1>5. QED
  BY <1>3, <1>4

(* For any list of points in any order, each readable or not: a reading    *)
(* that is published is of a newest point, and the newest, if it can be    *)
(* read, is published.                                                     *)
THEOREM ReadingsAreFresh == Spec => []FreshOrAbsent
<1>1. ConfigInv /\ CycleInv => FreshOrAbsent
  <2> SUFFICES ASSUME ConfigInv, CycleInv, NEW i \in DOMAIN heard
               PROVE  LET pts == heard[i].series
                          Dated(n) == AnyToFloat(pts[n].t) # Absent
                          shown == {s.value : s \in {t \in snap : t.at = i /\ t.from = "series"}}
                      IN  /\ \A v \in shown : \E n \in DOMAIN pts :
                                /\ AnyToFloat(pts[n].v) = {v}
                                /\ \A m \in DOMAIN pts : Dated(m) => Dated(n) /\ pts[m].t.n <= pts[n].t.n
                          /\ \A n \in DOMAIN pts :
                                (/\ Dated(n)
                                 /\ \A m \in DOMAIN pts \ {n} : Dated(m) => pts[m].t.n < pts[n].t.n)
                                    => shown = AnyToFloat(pts[n].v)
    BY DEF FreshOrAbsent
  <2> DEFINE pts == heard[i].series
             shown == {s.value : s \in {t \in snap : t.at = i /\ t.from = "series"}}
  <2>1. PICK cl, custom :
           /\ \A s : s \in snap /\ s.at = i <=> s \in CollectCluster(i, cl, custom, heard[i])
           /\ \E h \in DOMAIN Answers : heard[i] \in Answers[h]
    BY ClusterOfCycle
  <2>2. {t \in snap : t.at = i /\ t.from = "series"}
           = {t \in CollectCluster(i, cl, custom, heard[i]) : t.from = "series"}
    BY <2>1
  <2>3. shown = Latest(pts)
    <3>1. {s.value : s \in {t \in CollectCluster(i, cl, custom, heard[i]) : t.from = "series"}}
             = Latest(heard[i].series)
      BY SeriesShown
    <3>2. QED
      BY <2>2, <3>1
  <2>4. /\ Len(pts) \in Nat
        /\ DOMAIN pts = 1 .. Len(pts)
        /\ \A n \in DOMAIN pts : AnyToFloat(pts[n].t) # Absent => pts[n].t.n \in Nat \ {0}
    BY <2>1, ReadingsAssumption
  <2> HIDE DEF pts, shown
  <2> DEFINE Dated(n) == AnyToFloat(pts[n].t) # Absent
  <2>5. /\ \A v \in shown : \E n \in DOMAIN pts :
              /\ AnyToFloat(pts[n].v) = {v}
              /\ \A m \in DOMAIN pts : Dated(m) => Dated(n) /\ pts[m].t.n <= pts[n].t.n
        /\ \A n \in DOMAIN pts :
              (/\ Dated(n)
               /\ \A m \in DOMAIN pts \ {n} : Dated(m) => pts[m].t.n < pts[n].t.n)
                  => shown = AnyToFloat(pts[n].v)
    BY <2>3, <2>4, LatestFacts
  <2> QED
    BY <2>5 DEF pts, shown
<1>2. QED
  BY <1>1, FleetAlways, PTL

-----------------------------------------------------------------------------
(* Names *)

(* A family's members by the parameters of Family.                         *)
LEMMA FamilyFacts ==
    ASSUME NEW object, NEW metrics, NEW keys, NEW from, NEW type,
           NEW f \in Family(object, metrics, keys, from, type)
    PROVE  \E m \in metrics : /\ f.name = <<object, m>> /\ f.name[1] = object /\ f.name[2] = m
                              /\ Len(f.name) = 2 /\ f.keys = keys /\ f.type = type
BY DEF Family

(* Two names have a suffix. *)
LEMMA BucketFacts ==
    ASSUME NEW f \in Buckets
    PROVE  /\ Len(f.name) = 3 /\ f.name[1] = "ecs_node" /\ f.name[2] = Latency[2]
           /\ \/ f.name[3] = "bucket" /\ f.keys = <<"node", "op", "le">>
              \/ f.name[3] = "count" /\ f.keys = <<"node", "op">>
           /\ f.type = "counter"
BY DEF Buckets, Latency

(* The label keys and the type that go with a name, whoever emits it: the  *)
(* tables of the collectors read as one.                                   *)
TransactionMetrics == {"transaction_latency_milliseconds", "transaction_bandwidth_mb_per_second",
                       "transactions_per_second"}

ClusterKeys(m) ==
    IF m = "nodes" THEN <<"state">>
    ELSE IF m = "disks" THEN <<>> \o <<"state">>
    ELSE IF m = "alerts_unacknowledged" THEN <<"severity">>
    ELSE IF m \in {"disk_space_bytes", "disk_space_allocated_component_bytes"} THEN <<"type">>
    ELSE IF m \in TransactionMetrics THEN <<>> \o <<"op">>
    ELSE IF m \in {"transactions_total", "requests_per_second"} THEN <<"outcome">>
    ELSE IF m = "transaction_errors" THEN <<"code", "protocol", "category">>
    ELSE IF m = "replication_traffic" THEN <<"direction">>
    ELSE IF m = "gc_bytes" THEN <<"scope", "state">>
    ELSE IF m \in {"gc_reclaimed_bytes_total", "gc_detected_bytes_total", "gc_enabled"} THEN <<"scope">>
    ELSE IF m = "info" THEN <<"version">>
    ELSE IF m = "request_bytes_per_second" THEN <<"op">>
    ELSE <<>>

NodeOp == <<"node">> \o <<"op">>

NodeKeys(m) ==
    IF m = "health_state" THEN <<"node", "state">>
    ELSE IF m = "disks" THEN <<"node">> \o <<"state">>
    ELSE IF m = "disk_space_bytes" THEN <<"node", "type">>
    ELSE IF m = "nic_bandwidth" THEN <<"node", "direction">>
    ELSE IF m \in TransactionMetrics THEN NodeOp
    ELSE IF m = "scrape_up" THEN <<"node", "endpoint">>
    ELSE IF m = "network_bytes_total" THEN <<"node", "interface", "direction">>
    ELSE IF m = "requests_total" THEN <<"node", "outcome">>
    ELSE IF m = "request_bytes_total" THEN <<"node", "op">>
    ELSE <<"node">>

ReplicationKeys(m) ==
    IF m = "traffic" THEN <<"rg", "direction">>
    ELSE IF m = "chunks_pending_bytes" THEN <<"rg", "type">>
    ELSE <<"rg">>

KeysOf(n) ==
    IF Len(n) = 3 THEN IF n[3] = "bucket" THEN <<"node", "op", "le">> ELSE <<"node", "op">>
    ELSE IF n[1] = "ecs_cluster" THEN ClusterKeys(n[2])
    ELSE IF n[1] = "ecs_node" THEN NodeKeys(n[2])
    ELSE IF n[1] = "ecs_replication_group" THEN ReplicationKeys(n[2])
    ELSE IF n[1] = "ecs_namespace" THEN <<"namespace">>
    ELSE IF n[1] = "ecs_collector" THEN <<"collector">>
    ELSE <<>>

TypeOf(n) ==
    IF \/ Len(n) = 3
       \/ n[1] = "ecs_node" /\ n[2] \in {"network_bytes_total", "requests_total", "request_bytes_total"}
    THEN "counter" ELSE "gauge"

AllFamilies ==
    ClusterFamilies \cup ReplicationFamilies \cup NodesFamilies(FALSE) \cup InfoFamilies
    \cup MeteringFamilies \cup QuotasFamilies \cup DTFamilies \cup FluxFamilies(FALSE)
    \cup CollectorUp \cup Up

(* The fields of a transaction take one more key than their parameter. *)
LEMMA TransactionFacts ==
    ASSUME NEW prefix, NEW keys, NEW f \in TransactionFields(prefix, keys)
    PROVE  \E m \in TransactionMetrics :
              /\ f.name[1] = prefix /\ f.name[2] = m /\ Len(f.name) = 2
              /\ f.keys = keys \o <<"op">> /\ f.type = "gauge"
BY DEF Family, TransactionFields, Series, TransactionMetrics

(* A name has one list of keys and one type in all the tables.             *)
LEMMA ShapeOfName ==
    \A f \in AllFamilies : f.keys = KeysOf(f.name) /\ f.type = TypeOf(f.name)
<1> DEFINE Shaped(F) == \A f \in F : f.keys = KeysOf(f.name) /\ f.type = TypeOf(f.name)
<1> USE FamilyFacts DEF Series, Nums, Bools, Quota, Always, Counters
<1>1. Shaped(ClusterFamilies)
  <2> USE DEF KeysOf, ClusterKeys, TypeOf, TransactionMetrics
  <2>1. Shaped(GCFields)
    BY DEF GCFields
  <2>2. Shaped(RecoveryFields)
    BY DEF RecoveryFields
  <2>3. Shaped(ErasureCodingFields)
    BY DEF ErasureCodingFields
  <2>4. Shaped(AllocationComponentFields)
    BY DEF AllocationComponentFields
  <2>5. Shaped(TransactionFields("ecs_cluster", <<>>))
    BY TransactionFacts
  <2>6. Shaped(DiskCountFields("ecs_cluster", <<>>))
    BY DEF DiskCountFields
  <2>7. QED
    BY <2>1, <2>2, <2>3, <2>4, <2>5, <2>6 DEF ClusterFamilies
<1>2. Shaped(ReplicationFamilies)
  BY DEF ReplicationFamilies, KeysOf, ReplicationKeys, TypeOf
<1>3. Shaped(NodesFamilies(FALSE))
  <2> USE DEF KeysOf, NodeKeys, TypeOf, TransactionMetrics
  <2>1. Shaped(TransactionFields("ecs_node", <<"node">>))
    <3>1. \A f \in TransactionFields("ecs_node", <<"node">>) :
             \E m \in TransactionMetrics :
                /\ f.name[1] = "ecs_node" /\ f.name[2] = m /\ Len(f.name) = 2
                /\ f.keys = NodeOp /\ f.type = "gauge"
      BY TransactionFacts DEF NodeOp
    <3>2. QED
      BY <3>1
  <2>2. Shaped(DiskCountFields("ecs_node", <<"node">>))
    BY DEF DiskCountFields
  <2>3. ASSUME NEW f \in NodesFamilies(FALSE)
        PROVE  f.keys = KeysOf(f.name) /\ f.type = TypeOf(f.name)
    <3>1. \/ f \in TransactionFields("ecs_node", <<"node">>)
          \/ f \in DiskCountFields("ecs_node", <<"node">>)
          \/ /\ f.keys = NodeKeys(f.name[2]) /\ f.name[1] = "ecs_node" /\ Len(f.name) = 2
             /\ f.type = "gauge"
             /\ f.name[2] \notin {"network_bytes_total", "requests_total", "request_bytes_total"}
      BY <2>3 DEF NodesFamilies
    <3>2. CASE \/ f \in TransactionFields("ecs_node", <<"node">>)
               \/ f \in DiskCountFields("ecs_node", <<"node">>)
      BY <2>1, <2>2, <3>2
    <3> HIDE DEF NodeKeys
    <3>3. QED
      BY <3>1, <3>2
  <2>4. QED
    BY <2>3
<1>4. Shaped(InfoFamilies) /\ Shaped(MeteringFamilies) /\ Shaped(QuotasFamilies)
      /\ Shaped(CollectorUp) /\ Shaped(Up)
  BY DEF InfoFamilies, MeteringFamilies, QuotasFamilies, CollectorUp, Up, KeysOf, ClusterKeys, TypeOf,
         TransactionMetrics
<1>5. Shaped(DTFamilies)
  BY DEF DTFamilies, KeysOf, NodeKeys, TypeOf, TransactionMetrics
<1>6. Shaped(FluxFamilies(FALSE))
  <2>1. Shaped(Buckets)
    BY BucketFacts DEF KeysOf, TypeOf
  <2>2. ASSUME NEW f \in FluxTable \ Buckets
        PROVE  f.keys = KeysOf(f.name) /\ f.type = TypeOf(f.name)
    <3>1. \/ f \in Always("ecs_node", {"cpu_utilization_percent", "memory_utilization_percent",
                                      "memory_used_bytes"}, <<"node">>)
          \/ f \in Counters("ecs_node", {"network_bytes_total"}, <<"node", "interface", "direction">>)
          \/ f \in Counters("ecs_node", {"requests_total"}, <<"node", "outcome">>)
          \/ f \in Counters("ecs_node", {"request_bytes_total"}, <<"node", "op">>)
          \/ /\ f.name[1] = "ecs_cluster" /\ Len(f.name) = 2 /\ f.type = "gauge"
             /\ f.keys = ClusterKeys(f.name[2])
      BY <2>2 DEF FluxTable, ClusterKeys, TransactionMetrics
    <3>2. QED
      BY <3>1 DEF KeysOf, NodeKeys, TypeOf, TransactionMetrics
  <2>3. Shaped(NodeDT) /\ Shaped(UnmappedNodes)
    BY DEF NodeDT, UnmappedNodes, KeysOf, NodeKeys, TypeOf, TransactionMetrics
  <2>4. QED
    BY <2>1, <2>2, <2>3 DEF FluxFamilies
<1>7. QED
  BY <1>1, <1>2, <1>3, <1>4, <1>5, <1>6 DEF AllFamilies

(* Who emits a name in a cluster with these flags.                         *)
NodeOwner(m, flux, dt) ==
    IF m \in {"scrape_up", "dt_unready", "dt_unknown", "active_connections", "maintenance_mode"}
    THEN "dt"
    ELSE IF m = "dt_total" THEN IF dt THEN "dt" ELSE "flux"
    ELSE IF m \in {"network_bytes_total", "requests_total", "request_bytes_total"} THEN "flux"
    ELSE IF m \in {"cpu_utilization_percent", "memory_utilization_percent", "memory_used_bytes"}
    THEN IF flux THEN "flux" ELSE "nodes"
    ELSE "nodes"

ClusterOwner(m) ==
    IF m = "info" THEN "info"
    ELSE IF m \in {"dt_total", "dt_unready", "dt_unknown", "requests_per_second",
                   "request_bytes_per_second"} THEN "flux"
    ELSE "cluster"

OwnerOf(n, flux, dt) ==
    IF Len(n) = 3 THEN "flux"
    ELSE IF n[1] = "ecs_cluster" THEN ClusterOwner(n[2])
    ELSE IF n[1] = "ecs_node" THEN NodeOwner(n[2], flux, dt)
    ELSE IF n[1] = "ecs_replication_group" THEN "replication"
    ELSE IF n[1] = "ecs_namespace"
    THEN IF n[2] \in {"quota_hard_bytes", "quota_soft_bytes"} THEN "quotas" ELSE "metering"
    ELSE IF n[1] = "ecs_collector"
    THEN IF n[2] = "unmapped_nodes" THEN "flux" ELSE "loop"
    ELSE "loop"

(* A name has one source, however the flags are set.                       *)
LEMMA OwnerOfName ==
    ASSUME NEW cl, {cl.collectFlux, cl.collectDT} \subseteq BOOLEAN,
           NEW r \in Sources(cl), NEW f \in r.families
    PROVE  r.collector = OwnerOf(f.name, cl.collectFlux, cl.collectDT)
<1> DEFINE Owns(c, F) == \A g \in F : OwnerOf(g.name, cl.collectFlux, cl.collectDT) = c
<1> USE FamilyFacts DEF Series, Nums, Bools, Quota, Always, Counters
<1>1. Owns("cluster", ClusterFamilies)
  <2> USE DEF OwnerOf, ClusterOwner
  <2>1. Owns("cluster", GCFields)
    BY DEF GCFields
  <2>2. Owns("cluster", RecoveryFields)
    BY DEF RecoveryFields
  <2>3. Owns("cluster", ErasureCodingFields)
    <3>1. \A g \in ErasureCodingFields :
             g.name[1] = "ecs_cluster" /\ Len(g.name) = 2 /\ ClusterOwner(g.name[2]) = "cluster"
      BY DEF ErasureCodingFields
    <3>2. QED
      BY <3>1
  <2>4. Owns("cluster", AllocationComponentFields)
    BY DEF AllocationComponentFields
  <2>5. Owns("cluster", TransactionFields("ecs_cluster", <<>>))
    BY DEF TransactionFields
  <2>6. Owns("cluster", DiskCountFields("ecs_cluster", <<>>))
    BY DEF DiskCountFields
  <2>7. QED
    BY <2>1, <2>2, <2>3, <2>4, <2>5, <2>6 DEF ClusterFamilies
<1>2. Owns("replication", ReplicationFamilies)
  BY DEF ReplicationFamilies, OwnerOf
<1>3. Owns("nodes", NodesFamilies(cl.collectFlux))
  <2>1. Owns("nodes", TransactionFields("ecs_node", <<"node">>))
    <3>1. \A g \in TransactionFields("ecs_node", <<"node">>) :
             \E m \in TransactionMetrics : g.name[1] = "ecs_node" /\ g.name[2] = m /\ Len(g.name) = 2
      BY TransactionFacts
    <3>2. QED
      BY <3>1 DEF OwnerOf, NodeOwner, TransactionMetrics
  <2>2. Owns("nodes", DiskCountFields("ecs_node", <<"node">>))
    BY DEF DiskCountFields, OwnerOf, NodeOwner
  <2>3. ASSUME NEW g \in NodesFamilies(cl.collectFlux)
        PROVE  OwnerOf(g.name, cl.collectFlux, cl.collectDT) = "nodes"
    <3>1. \/ g \in TransactionFields("ecs_node", <<"node">>)
          \/ g \in DiskCountFields("ecs_node", <<"node">>)
          \/ g.name[1] = "ecs_node" /\ Len(g.name) = 2
             /\ NodeOwner(g.name[2], cl.collectFlux, cl.collectDT) = "nodes"
      BY <2>3 DEF NodesFamilies, NodeOwner
    <3>2. CASE \/ g \in TransactionFields("ecs_node", <<"node">>)
               \/ g \in DiskCountFields("ecs_node", <<"node">>)
      BY <2>1, <2>2, <3>2
    <3>3. QED
      BY <3>1, <3>2 DEF OwnerOf
  <2>4. QED
    BY <2>3
<1>4. Owns("info", InfoFamilies) /\ Owns("metering", MeteringFamilies) /\ Owns("quotas", QuotasFamilies)
      /\ Owns("loop", CollectorUp) /\ Owns("loop", Up)
  BY DEF InfoFamilies, MeteringFamilies, QuotasFamilies, CollectorUp, Up, OwnerOf, ClusterOwner
<1>5. cl.collectDT => Owns("dt", DTFamilies)
  BY DEF DTFamilies, OwnerOf, NodeOwner
<1>6. cl.collectFlux => Owns("flux", FluxFamilies(cl.collectDT))
  <2> SUFFICES ASSUME cl.collectFlux PROVE Owns("flux", FluxFamilies(cl.collectDT))
    OBVIOUS
  <2>1. Owns("flux", Buckets)
    BY BucketFacts DEF OwnerOf
  <2>2. ASSUME NEW g \in FluxTable \ Buckets
        PROVE  OwnerOf(g.name, cl.collectFlux, cl.collectDT) = "flux"
    <3>1. /\ Len(g.name) = 2
          /\ \/ g.name[1] = "ecs_cluster" /\ ClusterOwner(g.name[2]) = "flux"
             \/ g.name[1] = "ecs_node" /\ NodeOwner(g.name[2], cl.collectFlux, cl.collectDT) = "flux"
      BY <2>2 DEF FluxTable, ClusterOwner, NodeOwner
    <3>2. QED
      BY <3>1 DEF OwnerOf
  <2>3. ~cl.collectDT => Owns("flux", NodeDT)
    BY DEF NodeDT, OwnerOf, NodeOwner
  <2>4. Owns("flux", UnmappedNodes)
    <3>1. \A g \in UnmappedNodes :
             g.name[1] = "ecs_collector" /\ g.name[2] = "unmapped_nodes" /\ Len(g.name) = 2
      BY DEF UnmappedNodes
    <3>2. QED
      BY <3>1 DEF OwnerOf
  <2>5. QED
    BY <2>1, <2>2, <2>3, <2>4 DEF FluxFamilies
<1>7. QED
  <2> HIDE FamilyFacts DEF Owns, Series, Nums, Bools, Quota, Always, Counters
  <2>1. Owns(r.collector, r.families)
    BY <1>1, <1>2, <1>3, <1>4, <1>5, <1>6 DEF Sources, Registry, Runs
  <2>2. QED
    BY <2>1 DEF Owns

(* Whoever runs for a cluster emits families of the tables. *)
LEMMA SourcesInTables ==
    ASSUME NEW cl, {cl.collectFlux, cl.collectDT} \subseteq BOOLEAN, NEW r \in Sources(cl)
    PROVE  r.families \subseteq AllFamilies
<1>1. NodesFamilies(cl.collectFlux) \subseteq NodesFamilies(FALSE)
  BY DEF NodesFamilies
<1>2. FluxFamilies(cl.collectDT) \subseteq FluxFamilies(FALSE)
  BY DEF FluxFamilies
<1>3. /\ ClusterFamilies \subseteq AllFamilies /\ ReplicationFamilies \subseteq AllFamilies
      /\ InfoFamilies \subseteq AllFamilies /\ MeteringFamilies \subseteq AllFamilies
      /\ QuotasFamilies \subseteq AllFamilies /\ DTFamilies \subseteq AllFamilies
      /\ NodesFamilies(FALSE) \subseteq AllFamilies /\ FluxFamilies(FALSE) \subseteq AllFamilies
      /\ CollectorUp \subseteq AllFamilies /\ Up \subseteq AllFamilies
  BY DEF AllFamilies
<1>4. \/ r.families \in {ClusterFamilies, ReplicationFamilies, InfoFamilies, MeteringFamilies}
      \/ r.families \in {QuotasFamilies, DTFamilies, CollectorUp, Up}
      \/ r.families = NodesFamilies(cl.collectFlux)
      \/ r.families = FluxFamilies(cl.collectDT)
  BY DEF Sources, Registry, Runs
<1>5. QED
  BY <1>1, <1>2, <1>3, <1>4

(* The tables have finitely many families, with names of two parts but for *)
(* a histogram's.                                                          *)
LEMMA TableFacts ==
    /\ IsFiniteSet(AllFamilies)
    /\ \A f \in AllFamilies : f \in Buckets \/ \E o, m : f.name = <<o, m>>
<1> DEFINE Few(S) == IsFiniteSet(S)
           F(S) == IsFiniteSet(S) /\ \A f \in S : f \in Buckets \/ \E o, m : f.name = <<o, m>>
<1>1. \A S, T : F(S) /\ F(T) => F(S \cup T)
  BY FS_Union
<1>2. /\ \A a : Few({a})
      /\ \A a, b : Few({a, b})
      /\ \A a, b, c : Few({a, b, c})
      /\ \A a, b, c, d : Few({a, b, c, d})
  <2> SUFFICES ASSUME NEW a, NEW b, NEW c, NEW d
               PROVE  Few({a}) /\ Few({a, b}) /\ Few({a, b, c}) /\ Few({a, b, c, d})
    OBVIOUS
  <2>1. Few({a}) /\ Few({b}) /\ Few({c}) /\ Few({d})
    BY FS_Singleton
  <2>2. /\ {a, b} = {a} \cup {b}
        /\ {a, b, c} = ({a} \cup {b}) \cup {c}
        /\ {a, b, c, d} = (({a} \cup {b}) \cup {c}) \cup {d}
    OBVIOUS
  <2>3. \A S, T : Few(S) /\ Few(T) => Few(S \cup T)
    BY FS_Union
  <2> HIDE DEF Few
  <2>4. Few({a} \cup {b}) /\ Few(({a} \cup {b}) \cup {c}) /\ Few((({a} \cup {b}) \cup {c}) \cup {d})
    BY <2>1, <2>3
  <2>5. QED
    BY <2>1, <2>2, <2>4, Zenon
<1>3. \A object, metrics, keys, from, type : Few(metrics) => F(Family(object, metrics, keys, from, type))
  <2> SUFFICES ASSUME NEW object, NEW metrics, NEW keys, NEW from, NEW type, Few(metrics)
               PROVE  F(Family(object, metrics, keys, from, type))
    OBVIOUS
  <2> DEFINE T == Family(object, metrics, keys, from, type)
             g == [m \in metrics |-> [name |-> <<object, m>>, keys |-> keys, from |-> from, type |-> type]]
  <2>1. g \in Surjection(metrics, T)
    BY Fun_IsSurj DEF Family
  <2>2. \A f \in T : \E o, m : f.name = <<o, m>>
    BY DEF Family
  <2>3. QED
    BY <2>1, <2>2, FS_Surjection
<1>4. \A object, metrics, keys : Few(metrics) =>
          /\ F(Series(object, metrics, keys)) /\ F(Nums(object, metrics, keys))
          /\ F(Bools(object, metrics, keys)) /\ F(Quota(object, metrics, keys))
          /\ F(Always(object, metrics, keys)) /\ F(Counters(object, metrics, keys))
  BY <1>3 DEF Series, Nums, Bools, Quota, Always, Counters
<1> HIDE DEF F, Few
<1> USE <1>1, <1>2, <1>3, <1>4
<1>5. F(ClusterFamilies)
  <2>1. F(GCFields) /\ F(RecoveryFields) /\ F(ErasureCodingFields) /\ F(AllocationComponentFields)
    BY DEF GCFields, RecoveryFields, ErasureCodingFields, AllocationComponentFields
  <2>2. F(TransactionFields("ecs_cluster", <<>>)) /\ F(DiskCountFields("ecs_cluster", <<>>))
    BY DEF TransactionFields, DiskCountFields
  <2> DEFINE counts == Nums("ecs_cluster", {"nodes_installed"}, <<>>)
                       \cup Nums("ecs_cluster", {"nodes"}, <<"state">>)
                       \cup DiskCountFields("ecs_cluster", <<>>)
                       \cup Series("ecs_cluster", {"alerts_unacknowledged"}, <<"severity">>)
             space == Series("ecs_cluster", {"disk_space_total_bytes", "disk_space_offline_total_bytes"}, <<>>)
                      \cup Series("ecs_cluster", {"disk_space_bytes"}, <<"type">>)
             traffic == Nums("ecs_cluster", {"transactions_total"}, <<"outcome">>)
                        \cup Nums("ecs_cluster", {"transaction_errors"}, <<"code", "protocol", "category">>)
                        \cup Series("ecs_cluster", {"replication_traffic"}, <<"direction">>)
                        \cup Nums("ecs_cluster", {"replication_rpo_lag_seconds",
                                                  "replication_rpo_timestamp_seconds"}, <<>>)
  <2>3. F(counts)
    BY <2>2
  <2>4. F(space)
    OBVIOUS
  <2>5. F(traffic)
    OBVIOUS
  <2>6. ClusterFamilies = counts \cup space \cup TransactionFields("ecs_cluster", <<>>) \cup traffic
                          \cup GCFields \cup RecoveryFields \cup ErasureCodingFields
                          \cup AllocationComponentFields
    BY DEF ClusterFamilies
  <2> HIDE DEF counts, space, traffic
  <2> HIDE <1>2, <1>3, <1>4
  <2>7. QED
    BY <2>1, <2>2, <2>3, <2>4, <2>5, <2>6
<1>6. F(ReplicationFamilies) /\ F(InfoFamilies) /\ F(MeteringFamilies) /\ F(QuotasFamilies)
      /\ F(DTFamilies) /\ F(CollectorUp) /\ F(Up)
  BY DEF ReplicationFamilies, InfoFamilies, MeteringFamilies, QuotasFamilies, DTFamilies, CollectorUp, Up
<1>7. F(NodesFamilies(FALSE))
  <2>1. F(TransactionFields("ecs_node", <<"node">>)) /\ F(DiskCountFields("ecs_node", <<"node">>))
    BY DEF TransactionFields, DiskCountFields
  <2>2. QED
    BY <2>1 DEF NodesFamilies
<1>8. F(FluxFamilies(FALSE))
  <2>1. F(Buckets)
    BY DEF F, Few, Buckets
  <2>2. QED
    BY <2>1 DEF FluxFamilies, FluxTable, NodeDT, UnmappedNodes
<1>9. F(AllFamilies)
  BY <1>5, <1>6, <1>7, <1>8 DEF AllFamilies
<1>10. QED
  BY <1>9 DEF F

(* So names taken from the tables are finitely many. *)
LEMMA FiniteNames ==
    ASSUME NEW S, \A s \in S : \E f \in AllFamilies : s.name = f.name
    PROVE  IsFiniteSet({s.name : s \in S})
<1> DEFINE T == {f.name : f \in AllFamilies}
           g == [f \in AllFamilies |-> f.name]
<1>1. g \in Surjection(AllFamilies, T)
  BY Fun_IsSurj
<1>2. IsFiniteSet(T)
  BY <1>1, TableFacts, FS_Surjection
<1>3. {s.name : s \in S} \in SUBSET T
  OBVIOUS
<1>4. QED
  BY <1>2, <1>3, FS_Subset

(* Suffixes make a name longer.                                            *)
LEMMA Suffixed ==
    ASSUME NEW o, NEW m
    PROVE  LET s == Append(<<o, m>>, "bucket") IN Len(s) = 3 /\ s[1] = o /\ s[2] = m
<1>1. <<o, m>> \in Seq({o, m, "bucket"})
  OBVIOUS
<1>2. QED
  BY <1>1

LEMMA TwoSuffixes ==
    ASSUME NEW x \in {"bucket", "count"}, NEW y \in {"bucket", "count"}
    PROVE  Len(Append(Append(Latency, x), y)) = 4
BY DEF Latency

(* A name with a suffix is the latency's, and its gauge is not emitted     *)
(* where Flux runs, nor its histogram where it does not.                   *)
LEMMA NoGaugeUnderHistogram ==
    ASSUME NEW cl, {cl.collectFlux, cl.collectDT} \subseteq BOOLEAN,
           NEW r \in Sources(cl), NEW f \in r.families,
           NEW q \in Sources(cl), NEW h \in q.families
    PROVE  h.name # Append(f.name, "bucket")
<1> SUFFICES ASSUME h.name = Append(f.name, "bucket") PROVE FALSE
  OBVIOUS
<1>1. f \in AllFamilies /\ h \in AllFamilies
  BY SourcesInTables
<1>2. h \in Buckets \/ \E o, m : h.name = <<o, m>>
  BY <1>1, TableFacts
<1>3. ASSUME f \in Buckets PROVE FALSE
  <2>1. PICK x \in {"bucket", "count"} : f.name = Append(Latency, x)
    BY <1>3 DEF Buckets
  <2>2. Len(h.name) = 4
    <3>1. Len(Append(Append(Latency, x), "bucket")) = 4
      BY TwoSuffixes
    <3>2. QED
      BY <2>1, <3>1
  <2>3. QED
    BY <1>2, <2>2, BucketFacts
<1>4. PICK o, m : f.name = <<o, m>>
  BY <1>1, <1>3, TableFacts
<1>5. Len(h.name) = 3 /\ h.name[1] = o /\ h.name[2] = m
  BY <1>4, Suffixed
<1>6. f.name = Latency
  <2>1. h.name[1] = "ecs_node" /\ h.name[2] = "transaction_latency_milliseconds"
    BY <1>2, <1>5, BucketFacts DEF Latency
  <2>2. QED
    BY <1>4, <1>5, <2>1 DEF Latency
<1>7. q.collector = "flux"
  BY <1>5, OwnerOfName DEF OwnerOf
<1>8. cl.collectFlux
  BY <1>7 DEF Sources, Registry, Runs
<1>9. r.collector = "nodes"
  BY <1>6, OwnerOfName DEF OwnerOf, NodeOwner, Latency
<1>10. r.families = NodesFamilies(TRUE)
  <2>1. r.families = NodesFamilies(cl.collectFlux)
    BY <1>9 DEF Sources, Registry, Runs
  <2>2. QED
    BY <1>8, <2>1
<1>11. \A g \in NodesFamilies(TRUE) : g.name # Latency
  BY DEF NodesFamilies, DiskCountFields, Always, Nums, Series, Family, Latency
<1>12. QED
  BY <1>6, <1>10, <1>11

-----------------------------------------------------------------------------
(* One shape and one source for every name *)

(* The custom keys are those the file declares, whichever the cluster.     *)
LEMMA OneSetOfKeys ==
    ASSUME NEW cfg, NEW cl, NEW other
    PROVE  CustomKeys(cfg, cl) = CustomKeys(cfg, other)
<1> DEFINE keys == Select(KeyOrder, {n \in DOMAIN KeyOrder : KeyOrder[n] \in DOMAIN cfg.labels})
<1> HIDE DEF keys
<1>1. \A c : CustomKeys(cfg, c) = [n \in DOMAIN keys |-> keys[n]]
  BY DEF CustomKeys, EffectiveLabels, keys
<1>2. QED
  BY <1>1

(* A sample is of a family of one of its cluster's sources.                *)
MadeBy(s, cls, custom) ==
    /\ s.at \in DOMAIN cls
    /\ \E r \in Sources(cls[s.at]) : \E f \in r.families :
          /\ s.collector = r.collector /\ s.name = f.name
          /\ s.keys = Stamped(custom, f.keys) /\ s.type = f.type

LEMMA FamiliesOfCycle ==
    ASSUME ConfigInv, CycleInv, snap # {}
    PROVE  \E cls, custom :
              /\ IsFiniteSet(DOMAIN cls)
              /\ \A i \in DOMAIN cls : {cls[i].collectFlux, cls[i].collectDT} \subseteq BOOLEAN
              /\ \A s \in snap : MadeBy(s, cls, custom)
<1>1. PICK f \in Files \cup Edits : \E cfg \in Load(LoadDotEnv(given, dotenvs), Mounts, f) :
          snap = CollectAll(cfg, heard)
  BY DEF CycleInv
<1>2. PICK cfg \in Load(LoadDotEnv(given, dotenvs), Mounts, f) : snap = CollectAll(cfg, heard)
  BY <1>1
<1> DEFINE cls == cfg.clusters
           custom == CustomKeys(cfg, cls[1])
<1>3. DOMAIN cls = DOMAIN f.clusters /\ \A i \in DOMAIN cls :
         cls[i] \in LoadCluster(LoadDotEnv(given, dotenvs), Mounts, f.clusters[i])
  BY <1>2, LoadFacts
<1>4. IsFiniteSet(DOMAIN cls)
  <2>1. IsFiniteSet(1 .. Len(f.clusters)) /\ DOMAIN cls = 1 .. Len(f.clusters)
    BY <1>3, FilesAssumption, FS_Interval
  <2>2. QED
    BY <2>1
<1>5. ASSUME NEW i \in DOMAIN cls
      PROVE  {cls[i].collectFlux, cls[i].collectDT} \subseteq BOOLEAN
  <2> DEFINE text == f.clusters[i]
  <2>1. /\ {"name", "host", "username", "password", "insecureSkipVerify", "labels"} \subseteq DOMAIN text
        /\ {text.collectFlux, text.collectDT} \subseteq BOOLEAN
    BY <1>3, FilesAssumption
  <2>2. cls[i] \in LoadCluster(LoadDotEnv(given, dotenvs), Mounts, text)
    BY <1>3
  <2> HIDE DEF cls, text
  <2>3. cls[i].collectFlux = text.collectFlux /\ cls[i].collectDT = text.collectDT
    BY <2>1, <2>2, ClusterFacts
  <2>4. QED
    BY <2>1, <2>3
<1>6. ASSUME NEW s \in snap
      PROVE  MadeBy(s, cls, custom)
  <2>1. PICK i \in DOMAIN cls : s \in CollectCluster(i, cls[i], custom, heard[i])
    BY <1>2, <1>6, CycleSamples, OneSetOfKeys
  <2>2. PICK p \in Parts(cls[i], heard[i]) : \E g \in p[1].families : \E v \in Reading(g.from, heard[i]) :
           s = Sample(i, p[1].collector, p[2], g, custom, v)
    BY <2>1, SampleFacts
  <2>3. PICK g \in p[1].families : \E v \in Reading(g.from, heard[i]) :
           s = Sample(i, p[1].collector, p[2], g, custom, v)
    BY <2>2
  <2>4. PICK v : s = Sample(i, p[1].collector, p[2], g, custom, v)
    BY <2>3
  <2>5. /\ s.at = i /\ s.collector = p[1].collector /\ s.name = g.name
        /\ s.keys = Stamped(custom, g.keys) /\ s.type = g.type
    BY <2>4 DEF Sample
  <2>6. p[1] \in Sources(cls[i])
    BY PartFacts
  <2>7. QED
    BY <2>5, <2>6 DEF MadeBy
<1> HIDE DEF cls, custom
<1>7. QED
  BY <1>4, <1>5, <1>6

(* A set of tuples that the first of their parts tell apart is as large as *)
(* the set of those.                                                       *)
LEMMA ToldApart ==
    ASSUME NEW A, NEW B, IsFiniteSet(B), NEW g \in [A -> B],
           \A x, y \in A : g[x] = g[y] => x = y,
           \A b \in B : \E x \in A : g[x] = b
    PROVE  Cardinality(A) = Cardinality(B)
<1>1. g \in Injection(A, B) /\ g \in Surjection(A, B)
  BY Fun_IsInj, Fun_IsSurj
<1>2. QED
  BY <1>1, FS_Injection

(* Whatever the flags of the clusters and the labels of the file: one name *)
(* has one list of keys and one type over the whole snapshot.              *)
THEOREM ShapesAgree == Spec => []OneShape
<1>1. ConfigInv /\ CycleInv => OneShape
  <2> SUFFICES ASSUME ConfigInv, CycleInv PROVE OneShape
    OBVIOUS
  <2> DEFINE A == {<<s.name, s.keys, s.type>> : s \in snap}
             B == {s.name : s \in snap}
             g == [t \in A |-> t[1]]
  <2>1. CASE snap = {}
    <3>1. A = {} /\ B = {}
      BY <2>1
    <3>2. QED
      BY <3>1 DEF OneShape
  <2>2. CASE snap # {}
    <3>1. PICK cls, custom :
             /\ \A i \in DOMAIN cls : {cls[i].collectFlux, cls[i].collectDT} \subseteq BOOLEAN
             /\ \A s \in snap : MadeBy(s, cls, custom)
      BY <2>2, FamiliesOfCycle
    <3>2. \A s \in snap : \E f \in AllFamilies :
             s.name = f.name /\ s.keys = Stamped(custom, f.keys) /\ s.type = f.type
      BY <3>1, SourcesInTables DEF MadeBy
    <3>3. \A s \in snap : s.keys = Stamped(custom, KeysOf(s.name)) /\ s.type = TypeOf(s.name)
      BY <3>2, ShapeOfName
    <3>4. IsFiniteSet(B)
      BY <3>2, FiniteNames
    <3>5. g \in [A -> B]
      OBVIOUS
    <3>6. \A x, y \in A : g[x] = g[y] => x = y
      BY <3>3
    <3>7. \A b \in B : \E x \in A : g[x] = b
      <4>1. \A s \in snap : <<s.name, s.keys, s.type>> \in A /\ g[<<s.name, s.keys, s.type>>] = s.name
        OBVIOUS
      <4>2. QED
        BY <4>1
    <3> HIDE DEF A, B, g
    <3>8. Cardinality(A) = Cardinality(B)
      BY <3>4, <3>5, <3>6, <3>7, ToldApart
    <3>9. QED
      BY <3>8 DEF OneShape, A, B
  <2>3. QED
    BY <2>1, <2>2
<1>2. QED
  BY <1>1, FleetAlways, PTL

(* Whatever the flags of the clusters: within one of them each name is one *)
(* collector's, and no name is both a gauge's and a histogram's.           *)
THEOREM SourcesAgree == Spec => []OneSource
<1>1. ConfigInv /\ CycleInv => OneSource
  <2> SUFFICES ASSUME ConfigInv, CycleInv PROVE OneSource
    OBVIOUS
  <2> DEFINE A == {<<s.at, s.name, s.collector>> : s \in snap}
             B == {<<s.at, s.name>> : s \in snap}
             g == [t \in A |-> <<t[1], t[2]>>]
  <2>1. CASE snap = {}
    <3>1. A = {} /\ B = {}
      BY <2>1
    <3>2. QED
      BY <3>1 DEF OneSource
  <2>2. CASE snap # {}
    <3>1. PICK cls, custom :
             /\ IsFiniteSet(DOMAIN cls)
             /\ \A i \in DOMAIN cls : {cls[i].collectFlux, cls[i].collectDT} \subseteq BOOLEAN
             /\ \A s \in snap : MadeBy(s, cls, custom)
      BY <2>2, FamiliesOfCycle
    <3> DEFINE owner(i, n) == OwnerOf(n, cls[i].collectFlux, cls[i].collectDT)
    <3>2. \A s \in snap : s.collector = owner(s.at, s.name)
      BY <3>1, OwnerOfName DEF MadeBy
    <3>3. \A s \in snap : \E f \in AllFamilies : s.name = f.name
      BY <3>1, SourcesInTables DEF MadeBy
    <3>4. IsFiniteSet(B)
      <4>1. IsFiniteSet({s.name : s \in snap})
        BY <3>3, FiniteNames
      <4>2. IsFiniteSet((DOMAIN cls) \X {s.name : s \in snap})
        BY <3>1, <4>1, FS_Product
      <4>3. B \in SUBSET ((DOMAIN cls) \X {s.name : s \in snap})
        BY <3>1 DEF MadeBy
      <4>4. QED
        BY <4>2, <4>3, FS_Subset
    <3>5. g \in [A -> B]
      OBVIOUS
    <3> HIDE DEF owner
    <3>6. \A x, y \in A : g[x] = g[y] => x = y
      BY <3>2
    <3>7. \A b \in B : \E x \in A : g[x] = b
      <4>1. \A s \in snap : /\ <<s.at, s.name, s.collector>> \in A
                            /\ g[<<s.at, s.name, s.collector>>] = <<s.at, s.name>>
        OBVIOUS
      <4>2. QED
        BY <4>1
    <3>8. ASSUME NEW s \in snap, NEW t \in snap, s.at = t.at, t.name = Append(s.name, "bucket")
          PROVE  FALSE
      <4>1. PICK rs \in Sources(cls[s.at]) : \E f \in rs.families :
               s.collector = rs.collector /\ s.name = f.name
        BY <3>1 DEF MadeBy
      <4>2. PICK rt \in Sources(cls[s.at]) : \E f \in rt.families :
               t.collector = rt.collector /\ t.name = f.name
        BY <3>1, <3>8 DEF MadeBy
      <4>3. {cls[s.at].collectFlux, cls[s.at].collectDT} \subseteq BOOLEAN
        BY <3>1 DEF MadeBy
      <4>4. QED
        BY <3>8, <4>1, <4>2, <4>3, NoGaugeUnderHistogram
    <3> HIDE DEF A, B, g
    <3>9. Cardinality(A) = Cardinality(B)
      BY <3>4, <3>5, <3>6, <3>7, ToldApart
    <3>10. \A n \in B : <<n[1], Append(n[2], "bucket")>> \notin B
      BY <3>8 DEF B
    <3>11. QED
      BY <3>9, <3>10 DEF OneSource, A, B
  <2>3. QED
    BY <2>1, <2>2
<1>2. QED
  BY <1>1, FleetAlways, PTL

=============================================================================
