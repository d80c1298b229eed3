---------------------------- MODULE FluxBuckets ----------------------------
(***************************************************************************)
(* bucketSamples (internal/ecs/flux.go): from the rows of the one Flux     *)
(* measurement whose fields are histogram bounds to the histograms that    *)
(* are published.  Each bound of a (host, id) is a series of its own: it   *)
(* may be stale, unreadable or missing on its own, and the rows come in    *)
(* any order.                                                              *)
(*                                                                         *)
(* Absent stands for a cell that holds nothing readable, a host tag no     *)
(* node answers to, an id without an op label.  Emission order, kept "for  *)
(* readability" only, is left out.                                         *)
(***************************************************************************)
EXTENDS Integers

CONSTANTS
    BucketRows,  \* rows the store may answer with: host, id, field, value, recent
    Hosts,       \* host tags
    Ids,         \* id tags
    Bounds,      \* field names
    Inf,         \* the field "+Inf"
    NodeOf,      \* mapper.lookup: host tag to node label
    OpOf,        \* idLabels: id tag to op label
    Absent,
    MaxRows      \* bound: rows of a response

ASSUME RowsAssumption ==
    /\ Absent \notin Hosts \cup Ids \cup Bounds
    /\ \A r \in BucketRows : /\ r.host \in Hosts \cup {Absent}
                             /\ r.id \in Ids \cup {Absent}
                             /\ r.field \in Bounds \cup {Absent}
ASSUME InfAssumption == Inf \in Bounds /\ MaxRows \in Nat

Groups == Hosts \X Ids

VARIABLES
    phase,      \* "read" or "done"
    seen,       \* rows read so far
    count,      \* how many
    bad,        \* groups that lost a row
    vals,       \* per group and bound the value read last
    homeless,   \* rows lost to an unresolvable host
    stale,      \* rows lost to their age
    badID,      \* rows lost to an id without op label
    histograms  \* the samples returned

tallies == <<homeless, stale, badID>>
bucketVars == <<phase, seen, count, bad, vals, tallies, histograms>>

Group(r) == <<r.host, r.id>>
Keyed(r) == r.host # Absent /\ r.id # Absent
Readable(r) == r.field # Absent /\ r.value # Absent
Mapped(r) == NodeOf[r.host] # Absent
Named(r) == OpOf[r.id] # Absent
Good(r) == r.recent /\ Readable(r) /\ Mapped(r) /\ Named(r)

BucketInit ==
    /\ phase = "read"
    /\ seen = {}
    /\ count = 0
    /\ bad = {}
    /\ vals = [g \in Groups |-> [f \in Bounds |-> Absent]]
    /\ homeless = 0 /\ stale = 0 /\ badID = 0
    /\ histograms = {}

-----------------------------------------------------------------------------

ReadRow(r) ==
    /\ phase = "read"
    /\ count < MaxRows
    /\ count' = count + 1
    /\ seen' = seen \cup {r}
    /\ UNCHANGED <<phase, histograms>>

(* Nothing to key a group on: the row is lost and leaves no mark. *)
ReadUnkeyed(r) ==
    /\ ~Keyed(r)
    /\ ReadRow(r)
    /\ UNCHANGED <<bad, vals, tallies>>

(* Fault: a stale row is only counted. *)
StaleIsHarmless(r) == IF r.recent THEN {Group(r)} ELSE {}

Condemned(r) == {Group(r)}

(* A lost row condemns its group.  The first reason found is counted. *)
ReadLost(r) ==
    /\ Keyed(r) /\ ~Good(r)
    /\ ReadRow(r)
    /\ bad' = bad \cup Condemned(r)
    /\ stale' = stale + (IF ~r.recent THEN 1 ELSE 0)
    /\ homeless' = homeless + (IF r.recent /\ Readable(r) /\ ~Mapped(r) THEN 1 ELSE 0)
    /\ badID' = badID + (IF r.recent /\ Readable(r) /\ Mapped(r) THEN 1 ELSE 0)
    /\ UNCHANGED vals

(* Fault: a good row redeems its group. *)
Redeems(r) == bad \ {Group(r)}

BadAfterGood(r) == bad

ReadGood(r) ==
    /\ Keyed(r) /\ Good(r)
    /\ ReadRow(r)
    /\ bad' = BadAfterGood(r)
    /\ vals' = [vals EXCEPT ![Group(r)][r.field] = r.value]
    /\ UNCHANGED tallies

Have(g) == {f \in Bounds : vals[g][f] # Absent}
UnionBounds == UNION {Have(g) : g \in Groups}

(* len(g.vals) = len(unionBounds) in the code: a group's bounds are among  *)
(* the response's, so equal in number is equal.                            *)
Whole(g) ==
    /\ g \notin bad
    /\ Inf \in Have(g)
    /\ Have(g) = UnionBounds

Sample(series, g, f, v) ==
    [series |-> series, node |-> NodeOf[g[1]], op |-> OpOf[g[2]], le |-> f, value |-> v]

(* Fault: the total is taken from a finite bucket. *)
TotalOfAnother(g) == vals[g][CHOOSE f \in Have(g) : f # Inf \/ Have(g) = {Inf}]

Total(g) == vals[g][Inf]

Histogram(g) ==
    {Sample("bucket", g, f, vals[g][f]) : f \in Have(g)}
    \cup {Sample("count", g, Absent, Total(g))}

Assemble ==
    /\ phase = "read"
    /\ phase' = "done"
    /\ histograms' = UNION {Histogram(g) : g \in {x \in Groups : Whole(x)}}
    /\ UNCHANGED <<seen, count, bad, vals, tallies>>

BucketNext ==
    \/ \E r \in BucketRows : ReadUnkeyed(r) \/ ReadLost(r) \/ ReadGood(r)
    \/ Assemble

BucketSpec == BucketInit /\ [][BucketNext]_bucketVars

-----------------------------------------------------------------------------
(* Properties *)

(* Types of the variables. *)
BucketTypeOK ==
    /\ phase \in {"read", "done"}
    /\ seen \subseteq BucketRows
    /\ count \in 0 .. MaxRows
    /\ bad \subseteq Groups
    /\ vals \in [Groups -> [Bounds -> {r.value : r \in BucketRows} \cup {Absent}]]
    /\ homeless + stale + badID <= count
    /\ homeless \in Nat /\ stale \in Nat /\ badID \in Nat

(* The loop's bookkeeping in terms of the rows read: what makes the        *)
(* properties of the result provable.                                      *)
GroupRows(g) == {r \in seen : Keyed(r) /\ Group(r) = g}

GroupInv ==
    \A g \in Groups :
        /\ g \in bad <=> \E r \in GroupRows(g) : ~Good(r)
        /\ \A f \in Bounds :
              IF \E r \in GroupRows(g) : Good(r) /\ r.field = f
              THEN \E r \in GroupRows(g) : Good(r) /\ r.field = f /\ vals[g][f] = r.value
              ELSE vals[g][f] = Absent

(* The bounds the response carries at all, and the groups that carry each  *)
(* of them and lost no row.                                                *)
AllBounds == {r.field : r \in {x \in seen : Keyed(x) /\ Good(x)}}

Complete(g) ==
    /\ \A r \in GroupRows(g) : Good(r)
    /\ {r.field : r \in GroupRows(g)} = AllBounds
    /\ Inf \in AllBounds

(* flux.go:544-569, "emitted in full or not at all": a published series    *)
(* belongs to a group that lost no row and carries every bound any group   *)
(* of the response carries, +Inf included; and all of that group is there. *)
AllOrNothing ==
    phase = "done" =>
        /\ \A s \in histograms : \E g \in Groups :
              Complete(g) /\ s.node = NodeOf[g[1]] /\ s.op = OpOf[g[2]]
        /\ \A g \in Groups : Complete(g) => \A f \in AllBounds :
              \E r \in GroupRows(g) : r.field = f /\ Sample("bucket", g, f, r.value) \in histograms

(* flux.go:683 "_count is the +Inf bucket": a histogram_quantile over what *)
(* is published always finds its total among the buckets.                  *)
CountIsInf ==
    phase = "done" => \A s \in histograms : s.series = "count" =>
        [series |-> "bucket", node |-> s.node, op |-> s.op, le |-> Inf, value |-> s.value] \in histograms

(* The outcome is a matter of the rows, not of their order: no two rows    *)
(* that give one bound different values, one possible result.              *)
Unambiguous ==
    \A r, s \in seen : Keyed(r) /\ Keyed(s) /\ Group(r) = Group(s) /\ r.field = s.field =>
        r.value = s.value

OrderIndependent ==
    phase = "done" /\ Unambiguous =>
        histograms = UNION {{Sample("bucket", Group(r), r.field, r.value)} \cup
                            (IF r.field = Inf THEN {Sample("count", Group(r), Absent, r.value)} ELSE {}) :
                               r \in {x \in seen : Keyed(x) /\ Complete(Group(x))}}

=============================================================================
