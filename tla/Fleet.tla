-------------------------------- MODULE Fleet --------------------------------
(***************************************************************************)
(* From the configuration file to the samples of a cycle: the process      *)
(* loads .env and the file, builds each cluster's collectors, collects,    *)
(* and loads the file again when it changes. Composes ConfigLoad with      *)
(* Collectors. When loads and cycles happen is Exporter's matter, which    *)
(* collectors fail CollectCycle's; here all answer.                        *)
(***************************************************************************)
EXTENDS ConfigLoad, Collectors

CONSTANTS
    Environments,  \* the environments the process may be started in
    DotEnvs,       \* the pairs of .env files it may find
    Mounts,        \* path of a password file to the set of its content
    Files,         \* the configuration files it may be started with
    Edits,         \* what the file may be changed to
    Answers,       \* by host, what the appliance there may answer
    MaxCycles      \* bound: cycles, after which the file rests as well; a cycle
                   \* replaces all that the last one left

(* A file is a list of clusters with their fields; it refers to variables  *)
(* there may be, and every host it leads to answers something.             *)
ASSUME FilesAssumption ==
    \A f \in Files \cup Edits :
        /\ Len(f.clusters) \in Nat
        /\ DOMAIN f.clusters = 1 .. Len(f.clusters)
        /\ \A i \in DOMAIN f.clusters :
              LET cl == f.clusters[i] IN
              /\ {"name", "host", "username", "password", "insecureSkipVerify", "labels"}
                    \subseteq DOMAIN cl
              /\ {cl.collectFlux, cl.collectDT, cl.collectMetering, cl.collectQuotas}
                    \subseteq BOOLEAN
              /\ \A t \in {"host", "username", "password"} :
                    IsRef(cl[t]) => \A e \in Environments : cl[t].var \in DOMAIN e
ASSUME HostsAssumption ==
    \A e \in Environments, d \in DotEnvs, f \in Files \cup Edits :
        \A cfg \in Load(LoadDotEnv(e, d), Mounts, f) :
            \A i \in DOMAIN cfg.clusters : cfg.clusters[i].host \in DOMAIN Answers

(* Readings are lists of points, dated after time zero, which is what an   *)
(* unreadable time counts as.                                              *)
ASSUME ReadingsAssumption ==
    \A h \in DOMAIN Answers : \A a \in Answers[h] :
        /\ Len(a.series) \in Nat
        /\ DOMAIN a.series = 1 .. Len(a.series)
        /\ \A n \in DOMAIN a.series :
              AnyToFloat(a.series[n].t) # Absent => a.series[n].t.n \in Nat \ {0}

VARIABLES
    given,     \* the environment the process was started in
    env,       \* its environment now
    dotenvs,   \* the .env files
    file,      \* the configuration file
    pc,        \* "boot", "up" or "exit"
    running,   \* the set of the configuration in use, or empty
    source,    \* history: the file it was loaded from
    snap,      \* the samples of the last cycle
    heard,     \* history: what that cycle's clusters answered
    warned,    \* clusters whose list that cycle warned about
    cycles     \* cycles so far

vars == <<given, env, dotenvs, file, pc, running, source, snap, heard, warned, cycles>>

Init ==
    /\ given \in Environments
    /\ env = given
    /\ dotenvs \in DotEnvs
    /\ file \in Files
    /\ pc = "boot"
    /\ running = {}
    /\ source = file
    /\ snap = {}
    /\ heard = <<>>
    /\ warned = {}
    /\ cycles = 0

(* run(): .env first, then the file, which must load.                      *)
Boot ==
    /\ pc = "boot"
    /\ env' = LoadDotEnv(env, dotenvs)
    /\ running' = Load(env', Mounts, file)
    /\ pc' = IF running' = {} THEN "exit" ELSE "up"
    /\ UNCHANGED <<given, dotenvs, file, source, snap, heard, warned, cycles>>

(* The file changes and is loaded again; .env is not. A refused file       *)
(* leaves the configuration in use.                                        *)
Reload ==
    /\ pc = "up"
    /\ cycles < MaxCycles
    /\ file' \in Edits \ {file}
    /\ LET loaded == Load(env, Mounts, file') IN
          /\ running' = IF loaded = {} THEN running ELSE loaded
          /\ source' = IF loaded = {} THEN source ELSE file'
    /\ UNCHANGED <<given, env, dotenvs, pc, snap, heard, warned, cycles>>

CustomKeys(cfg, cl) ==
    LET labels == EffectiveLabels(cfg, cl) IN [n \in DOMAIN labels |-> labels[n].key]

CollectAll(cfg, answers) ==
    UNION {CollectCluster(i, cfg.clusters[i], CustomKeys(cfg, cfg.clusters[i]), answers[i]) :
              i \in DOMAIN cfg.clusters}

(* One cycle: each appliance answers, and the snapshot is replaced.        *)
Cycle ==
    /\ pc = "up"
    /\ cycles < MaxCycles
    /\ cycles' = cycles + 1
    /\ \E cfg \in running :
          /\ heard' \in {a \in [DOMAIN cfg.clusters ->
                                   UNION {Answers[cfg.clusters[i].host] : i \in DOMAIN cfg.clusters}] :
                            \A i \in DOMAIN a : a[i] \in Answers[cfg.clusters[i].host]}
          /\ snap' = CollectAll(cfg, heard')
          /\ warned' = {i \in DOMAIN heard' : WarnsHalShape(heard'[i].list)}
    /\ UNCHANGED <<given, env, dotenvs, file, pc, running, source>>

Next == Boot \/ Reload \/ Cycle

Spec == Init /\ [][Next]_vars

-----------------------------------------------------------------------------
(* Properties *)

TypeOK ==
    /\ pc \in {"boot", "up", "exit"}
    /\ given \in Environments
    /\ DOMAIN env = DOMAIN given
    /\ file \in Files \cup Edits
    /\ Cardinality(running) <= 1
    /\ pc = "up" <=> running # {}
    /\ warned \subseteq DOMAIN heard

(* resource.go:25-28 and 42-44, docs/adr/0011 "Exactly one source may emit *)
(* a given name per cycle": whatever a cluster's flags, no two of its      *)
(* collectors emit one name, and none emits a gauge under the name of a    *)
(* histogram (nodes.go:101-105).                                           *)
OneSource ==
    LET names == {<<s.at, s.name>> : s \in snap} IN
    /\ Cardinality({<<s.at, s.name, s.collector>> : s \in snap}) = Cardinality(names)
    /\ \A n \in names : <<n[1], Append(n[2], "bucket")>> \notin names

(* docs/adr/0006, "a metric name carries exactly one ordered label-key set *)
(* across all its series", and one type: over all clusters of a fleet in   *)
(* which some have Flux or DT and others do not, whichever source a name   *)
(* comes from and whatever custom labels are configured or clash.          *)
OneShape ==
    Cardinality({<<s.name, s.keys, s.type>> : s \in snap}) = Cardinality({s.name : s \in snap})

(* points.go:23-28: a published reading is of a point no dated point is    *)
(* newer than, and a reading that can be read and is newer than all others *)
(* is published.                                                           *)
FreshOrAbsent ==
    \A i \in DOMAIN heard :
        LET pts == heard[i].series
            Dated(n) == AnyToFloat(pts[n].t) # Absent
            shown == {s.value : s \in {t \in snap : t.at = i /\ t.from = "series"}}
        IN  /\ \A v \in shown : \E n \in DOMAIN pts :
                  /\ AnyToFloat(pts[n].v) = {v}
                  /\ \A m \in DOMAIN pts : Dated(m) => Dated(n) /\ pts[m].t.n <= pts[n].t.n
            /\ \A n \in DOMAIN pts :
                  (/\ Dated(n)
                   /\ \A m \in DOMAIN pts \ {n} : Dated(m) => pts[m].t.n < pts[n].t.n)
                      => shown = AnyToFloat(pts[n].v)

(* hal.go:38-44: a node that the appliance lists, under either key, is in  *)
(* the snapshot, or the cycle has warned about the cluster's list; and an  *)
(* appliance that lists nothing under both keys is not passed over.        *)
NoSilentLoss ==
    \A i \in DOMAIN heard \ warned :
        LET hal == heard[i].list IN
        /\ hal.underscore \cup hal.documented # Absent
        /\ UNION (hal.underscore \cup hal.documented)
              = {s.of : s \in {t \in snap : t.at = i /\ t.collector = "nodes"}}

(* config.go:147-154 and dotenv.go:17-19: in the configuration in use, a   *)
(* credential written as a reference is not empty, and is what the process *)
(* was started with if that was not empty; docs/adr/0014 "no value is ever *)
(* empty": nor is a custom label of any cluster.                           *)
ConfigIsMeant ==
    \A cfg \in running : \A i \in DOMAIN cfg.clusters :
        LET cl == cfg.clusters[i]
            text == source.clusters[i]
            labels == EffectiveLabels(cfg, cl)
        IN  /\ \A f \in {"host", "username", "password"} : IsRef(text[f]) =>
                  /\ cl[f] # Empty
                  /\ given[text[f].var] \notin {Unset, Empty} => cl[f] = given[text[f].var]
            /\ \A n \in DOMAIN labels : labels[n].value # Empty

-----------------------------------------------------------------------------
(* What texts say and the model contradicts (README, section 6).           *)

(* configuration.md:61, the password file is read "when `password`         *)
(* resolves empty": a reference that resolves to nothing is refused first, *)
(* so a cluster is rejected that would load had its password been left out.*)
PasswordFileServes ==
    pc = "exit" => \A i \in DOMAIN file.clusters :
        LET cl == file.clusters[i] IN
        (/\ Interpolate(env, cl.password) = {Empty}
         /\ cl.passwordFile # Empty
         /\ LoadCluster(env, Mounts, cl) = {})
            => LoadCluster(env, Mounts, [cl EXCEPT !.password = Literal(Empty)]) = {}

(* nodes.go:101-105, "the gauge and the histogram cannot both hold it":    *)
(* they do when one cluster has Flux and another has not.                  *)
GaugeOrHistogram ==
    LET names == {s.name : s \in snap} IN \A n \in names : Append(n, "bucket") \notin names

(* docs/adr/0007 and reading.md:103-106, a metric whose value the          *)
(* appliance does not report is absent, never zero.                        *)
AbsentNeverZero ==
    \A i \in DOMAIN heard :
        heard[i].stat = Absent => \A s \in snap : s.at = i => s.from # "stat"

=============================================================================
