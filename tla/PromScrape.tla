----------------------------- MODULE PromScrape -----------------------------
(***************************************************************************)
(* A scrape of /metrics (PromCollector.Collect,                            *)
(* internal/ecs/prometheus.go) over a snapshot whose samples carry their   *)
(* identity labels (WithIdentity, internal/ecs/sample.go), while the       *)
(* collection loop keeps publishing snapshots.                             *)
(*                                                                         *)
(* A snapshot is one sequence, the clusters in their order: each entry is  *)
(* a sample as its collector returned it, with the cluster it came from.   *)
(* A label is a key with a value.  Numbers and help texts are left out.    *)
(***************************************************************************)
EXTENDS Selection

CONSTANTS
    Names,       \* metric names
    Entries,     \* [cluster, name, own] records, own the collector's labels
    Snapshots,   \* the sequences of entries the loop may publish
    Custom,      \* per cluster, the operator's labels, sorted by key
    ClusterKey,  \* the reserved key, "cluster"
    LabelKeys,   \* keys of labels
    LabelValues, \* their values
    IsFit(_)     \* client_golang takes these labels: valid UTF-8, no key twice

Labels == [key : LabelKeys, value : LabelValues]

(* The keys of a list of labels, in their order. *)
KeyList(labels) == [n \in DOMAIN labels |-> labels[n].key]

ASSUME EntriesAssumption ==
    /\ ClusterKey \in LabelKeys
    /\ \A e \in Entries : /\ e.name \in Names
                          /\ e.cluster \in LabelValues
                          /\ e.own \in Seq(Labels)
                          /\ Custom[e.cluster] \in Seq(Labels)
ASSUME SnapshotsAssumption == Snapshots \subseteq Seq(Entries)

(* EffectiveLabels gives every cluster the keys of the global labels block. *)
ASSUME CustomAssumption ==
    \A d, e \in Entries : KeyList(Custom[d.cluster]) = KeyList(Custom[e.cluster])

VARIABLES
    store,    \* the snapshot in the SnapshotStore
    pc,       \* "idle" or "walk": whether a scrape is under way
    view,     \* the snapshot it loaded
    i,        \* how many samples of it were visited
    schema,   \* for each name the set of its first key list, or none
    seen,     \* identities sent
    out       \* metrics sent, in order

vars == <<store, pc, view, i, schema, seen, out>>

Keys(s) == KeyList(s.labels)
Values(s) == [n \in DOMAIN s.labels |-> s.labels[n].value]

(* Fault: the name is not part of the identity. *)
Nameless(s) == <<Values(s)>>

Identity(s) == <<s.name, Values(s)>>

(* Whether a collector's labels have the key, whatever its value. *)
HasLabel(own, key) == \E n \in DOMAIN own : own[n].key = key

(* The cluster's name, the custom labels that clash with nothing, and the  *)
(* collector's own labels, in this order.                                  *)
Unclashing(e) ==
    {n \in DOMAIN Custom[e.cluster] :
        LET key == Custom[e.cluster][n].key IN
        key # ClusterKey /\ ~HasLabel(e.own, key)}

IdentityLabels(e) ==
    <<[key |-> ClusterKey, value |-> e.cluster]>>
        \o Select(Custom[e.cluster], Unclashing(e)) \o e.own

WithIdentity(e) == [name |-> e.name, labels |-> IdentityLabels(e)]

Init ==
    /\ store = <<>>
    /\ pc = "idle"
    /\ view = <<>>
    /\ i = 0
    /\ schema = [n \in Names |-> {}]
    /\ seen = {}
    /\ out = <<>>

(* A collection cycle ends: the pointer is swapped. *)
Store ==
    /\ store' \in Snapshots
    /\ UNCHANGED <<pc, view, i, schema, seen, out>>

Load ==
    /\ pc = "idle"
    /\ pc' = "walk"
    /\ view' = store
    /\ i' = 0
    /\ schema' = [n \in Names |-> {}]
    /\ seen' = {}
    /\ out' = <<>>
    /\ UNCHANGED store

Current == WithIdentity(view[i + 1])

(* Fault: the last key list seen is the schema. *)
LearnLast(s) == schema' = [schema EXCEPT ![s.name] = {Keys(s)}]

(* The first key list seen for a name is its schema. *)
Learn(s) == schema' = [schema EXCEPT ![s.name] = IF @ = {} THEN {Keys(s)} ELSE @]

(* Faults: the label keys are not compared, a series is not looked up. *)
NeverDrifts(s) == FALSE
NeverRepeats(s) == FALSE

Drifts(s) == schema[s.name] # {} /\ schema[s.name] # {Keys(s)}
Repeats(s) == Identity(s) \in seen

Visit ==
    /\ pc = "walk"
    /\ i < Len(view)
    /\ i' = i + 1
    /\ Learn(Current)
    /\ UNCHANGED <<store, pc, view>>

Skip ==
    /\ Visit
    /\ Drifts(Current) \/ Repeats(Current)
    /\ UNCHANGED <<seen, out>>

(* Labels client_golang refuses are passed over in silence. *)
Emit ==
    /\ Visit
    /\ ~Drifts(Current)
    /\ ~Repeats(Current)
    /\ seen' = seen \cup {Identity(Current)}
    /\ out' = IF IsFit(Current.labels) THEN Append(out, Current) ELSE out

Finish ==
    /\ pc = "walk"
    /\ i = Len(view)
    /\ pc' = "idle"
    /\ UNCHANGED <<store, view, i, schema, seen, out>>

Next == Store \/ Load \/ Skip \/ Emit \/ Finish

Spec == Init /\ [][Next]_vars

-----------------------------------------------------------------------------
(* Properties *)

(* Types of the variables; the label lists are sequences by construction. *)
TypeOK ==
    /\ store \in Seq(Entries)
    /\ view \in Seq(Entries)
    /\ pc \in {"idle", "walk"}
    /\ i \in 0 .. Len(view)
    /\ DOMAIN schema = Names
    /\ out \in Seq({WithIdentity(e) : e \in Entries})

(* prometheus.go:24-27, ADR-0006: within a scrape one name has one ordered *)
(* list of label keys.                                                     *)
OneSchema ==
    \A j, k \in 1 .. Len(out) : out[j].name = out[k].name => Keys(out[j]) = Keys(out[k])

(* prometheus.go:29-37: no series is sent twice; one repeated series would *)
(* fail the scrape for every cluster.                                      *)
SeriesUnique ==
    \A j, k \in 1 .. Len(out) : Identity(out[j]) = Identity(out[k]) => j = k

(* What makes the two inductive: the schema of a name that was sent is the *)
(* key list it was sent with, and what was sent was seen.                  *)
SentInv ==
    \A k \in 1 .. Len(out) :
        /\ schema[out[k].name] = {Keys(out[k])}
        /\ Identity(out[k]) \in seen

Stamped(j) == WithIdentity(view[j])

(* The first sample of a snapshot that has the name of its j-th.           *)
IsFirst(v, k, j) ==
    /\ v[k].name = v[j].name
    /\ \A m \in 1 .. k - 1 : v[m].name # v[j].name

FirstOf(v, j) == CHOOSE k \in 1 .. j : IsFirst(v, k, j)

Agrees(j) == Keys(Stamped(j)) = Keys(Stamped(FirstOf(view, j)))

(* What has been sent is, of the one snapshot the scrape loaded, every     *)
(* sample that has its name's first key list: a cycle that ends meanwhile  *)
(* changes nothing, and nothing else is lost.                              *)
ExposesFirst ==
    {out[k] : k \in 1 .. Len(out)} =
        {Stamped(j) : j \in {n \in 1 .. i : IsFit(Stamped(n).labels) /\ Agrees(n)}}

(* What makes ExposesFirst inductive: a name's schema is empty or the key  *)
(* list of its first sample among those visited, and what agrees with it   *)
(* was seen.                                                               *)
FirstInv ==
    /\ \A n \in Names : schema[n] = {} <=> \A j \in 1 .. i : view[j].name # n
    /\ \A j \in 1 .. i :
          /\ FirstOf(view, j) \in 1 .. j /\ IsFirst(view, FirstOf(view, j), j)
          /\ schema[view[j].name] = {Keys(Stamped(FirstOf(view, j)))}
    /\ seen = {Identity(Stamped(j)) : j \in {n \in 1 .. i : Agrees(n)}}

Uniform ==
    \A j, k \in 1 .. Len(view) : view[j].name = view[k].name =>
        KeyList(view[j].own) = KeyList(view[k].own)

(* sample.go:57-58, ADR-0014 "it never produces mixed series schemas": as  *)
(* long as each name has one list of own keys, the operator's labels cost  *)
(* no cluster a series, those that clash with a collector's included.      *)
NothingHidden ==
    Uniform => \A j \in 1 .. i :
        IsFit(Stamped(j).labels) => \E k \in 1 .. Len(out) : out[k] = Stamped(j)

=============================================================================
