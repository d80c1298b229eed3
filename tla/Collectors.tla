----------------------------- MODULE Collectors -----------------------------
(***************************************************************************)
(* What one cluster's collectors emit: the registry with its arbitration   *)
(* between sources (internal/ecs/resource.go), and for each collector the  *)
(* families of samples its Collect maps an answer to.                      *)
(*                                                                         *)
(* A family is a metric name with its ordered label keys, its type and the *)
(* kind of reading its value is taken from. A name is a sequence of parts: *)
(* a prefix, the rest, and the suffix of a histogram's series. Values of   *)
(* labels and units are left out.                                          *)
(***************************************************************************)
EXTENDS Payload

Family(object, metrics, keys, from, type) ==
    {[name |-> <<object, m>>, keys |-> keys, from |-> from, type |-> type] : m \in metrics}

(* Kinds of readings: appendSeries, appendNum (and a text that may be      *)
(* missing), appendBool, a quota, a maintenance mode, the DT counts, and   *)
(* values that are there whenever the request was answered.                *)
Series(object, metrics, keys) == Family(object, metrics, keys, "series", "gauge")
Nums(object, metrics, keys) == Family(object, metrics, keys, "num", "gauge")
Bools(object, metrics, keys) == Family(object, metrics, keys, "bool", "gauge")
Quota(object, metrics, keys) == Family(object, metrics, keys, "quota", "gauge")
Always(object, metrics, keys) == Family(object, metrics, keys, "always", "gauge")
Counters(object, metrics, keys) == Family(object, metrics, keys, "always", "counter")

TransactionFields(prefix, keys) ==
    Series(prefix, {"transaction_latency_milliseconds", "transaction_bandwidth_mb_per_second",
                    "transactions_per_second"}, keys \o <<"op">>)

DiskCountFields(prefix, keys) ==
    Nums(prefix, {"disks_installed"}, keys) \cup Nums(prefix, {"disks"}, keys \o <<"state">>)

GCFields ==
    Series("ecs_cluster", {"gc_bytes"}, <<"scope", "state">>)
    \cup Series("ecs_cluster", {"gc_reclaimed_bytes_total", "gc_detected_bytes_total"}, <<"scope">>)
    \cup Bools("ecs_cluster", {"gc_enabled"}, <<"scope">>)

RecoveryFields ==
    Series("ecs_cluster", {"recovery_bad_chunks_bytes", "recovery_rate"}, <<>>)
    \cup Nums("ecs_cluster", {"recovery_complete_time_estimate"}, <<>>)

ErasureCodingFields ==
    Series("ecs_cluster", {"ec_applicable_bytes", "ec_coded_bytes", "ec_coded_ratio_percent",
                           "ec_rate"}, <<>>)
    \cup Nums("ecs_cluster", {"ec_complete_time_estimate"}, <<>>)

AllocationComponentFields ==
    Series("ecs_cluster", {"disk_space_allocated_component_bytes"}, <<"type">>)

ClusterFamilies ==
    Nums("ecs_cluster", {"nodes_installed"}, <<>>)
    \cup Nums("ecs_cluster", {"nodes"}, <<"state">>)
    \cup DiskCountFields("ecs_cluster", <<>>)
    \cup Series("ecs_cluster", {"alerts_unacknowledged"}, <<"severity">>)
    \cup Series("ecs_cluster", {"disk_space_total_bytes", "disk_space_offline_total_bytes"}, <<>>)
    \cup Series("ecs_cluster", {"disk_space_bytes"}, <<"type">>)
    \cup TransactionFields("ecs_cluster", <<>>)
    \cup Nums("ecs_cluster", {"transactions_total"}, <<"outcome">>)
    \cup Nums("ecs_cluster", {"transaction_errors"}, <<"code", "protocol", "category">>)
    \cup Series("ecs_cluster", {"replication_traffic"}, <<"direction">>)
    \cup Nums("ecs_cluster", {"replication_rpo_lag_seconds", "replication_rpo_timestamp_seconds"}, <<>>)
    \cup GCFields \cup RecoveryFields \cup ErasureCodingFields \cup AllocationComponentFields

ReplicationFamilies ==
    Series("ecs_replication_group", {"traffic"}, <<"rg", "direction">>)
    \cup Nums("ecs_replication_group", {"chunks_pending_bytes"}, <<"rg", "type">>)
    \cup Nums("ecs_replication_group", {"rpo_timestamp_seconds", "rpo_lag_seconds", "zones"}, <<"rg">>)

Latency == <<"ecs_node", "transaction_latency_milliseconds">>

(* The four names Flux takes over are left out where it runs.              *)
NodesFamilies(fluxOwnsPerf) ==
    LET perf == Series("ecs_node", {"cpu_utilization_percent", "memory_utilization_percent",
                                    "memory_used_bytes"}, <<"node">>)
        tx == TransactionFields("ecs_node", <<"node">>)
    IN  Always("ecs_node", {"healthy"}, <<"node">>)
        \cup Nums("ecs_node", {"health_state"}, <<"node", "state">>)
        \cup DiskCountFields("ecs_node", <<"node">>)
        \cup Series("ecs_node", {"disk_space_total_bytes", "nic_utilization_percent"}, <<"node">>)
        \cup Series("ecs_node", {"disk_space_bytes"}, <<"node", "type">>)
        \cup Series("ecs_node", {"nic_bandwidth"}, <<"node", "direction">>)
        \cup (IF fluxOwnsPerf THEN {f \in tx : f.name # Latency} ELSE perf \cup tx)

InfoFamilies == Always("ecs_cluster", {"info"}, <<"version">>)

MeteringFamilies ==
    Nums("ecs_namespace", {"used_bytes", "objects", "mpu_used_bytes", "mpu_parts"}, <<"namespace">>)

QuotasFamilies ==
    Quota("ecs_namespace", {"quota_hard_bytes", "quota_soft_bytes"}, <<"namespace">>)

DTFamilies ==
    Always("ecs_node", {"scrape_up"}, <<"node", "endpoint">>)
    \cup Family("ecs_node", {"dt_total", "dt_unready", "dt_unknown"}, <<"node">>, "stat", "gauge")
    \cup Nums("ecs_node", {"active_connections"}, <<"node">>)
    \cup Family("ecs_node", {"maintenance_mode"}, <<"node">>, "mode", "gauge")

NodeDT == Always("ecs_node", {"dt_total"}, <<"node">>)

Buckets ==
    {[name |-> Append(Latency, "bucket"), keys |-> <<"node", "op", "le">>, from |-> "always",
      type |-> "counter"],
     [name |-> Append(Latency, "count"), keys |-> <<"node", "op">>, from |-> "always",
      type |-> "counter"]}

FluxTable ==
    Always("ecs_node", {"cpu_utilization_percent", "memory_utilization_percent",
                        "memory_used_bytes"}, <<"node">>)
    \cup Counters("ecs_node", {"network_bytes_total"}, <<"node", "interface", "direction">>)
    \cup Always("ecs_cluster", {"dt_total", "dt_unready", "dt_unknown"}, <<>>)
    \cup Counters("ecs_node", {"requests_total"}, <<"node", "outcome">>)
    \cup Counters("ecs_node", {"request_bytes_total"}, <<"node", "op">>)
    \cup Always("ecs_cluster", {"requests_per_second"}, <<"outcome">>)
    \cup Always("ecs_cluster", {"request_bytes_per_second"}, <<"op">>)
    \cup Buckets

UnmappedNodes == Always("ecs_collector", {"unmapped_nodes"}, <<"collector">>)

(* Fault: the query for DTs by node is issued whoever owns the name.       *)
FluxAlways(dtOwnedByDT) == FluxTable \cup NodeDT \cup UnmappedNodes

FluxFamilies(dtOwnedByDT) ==
    FluxTable \cup (IF dtOwnedByDT THEN {} ELSE NodeDT) \cup UnmappedNodes

Runs(collector, families) == [collector |-> collector, families |-> families]

(* The collectors of a cluster by its flags; who owns a contested name is  *)
(* settled here, before any request.                                       *)
Registry(cl) ==
    {Runs("cluster", ClusterFamilies), Runs("replication", ReplicationFamilies),
     Runs("nodes", NodesFamilies(cl.collectFlux)), Runs("info", InfoFamilies)}
    \cup {Runs("metering", MeteringFamilies) : on \in {cl.collectMetering} \cap {TRUE}}
    \cup {Runs("quotas", QuotasFamilies) :
             on \in {cl.collectMetering /\ cl.collectQuotas} \cap {TRUE}}
    \cup {Runs("dt", DTFamilies) : on \in {cl.collectDT} \cap {TRUE}}
    \cup {Runs("flux", FluxFamilies(cl.collectDT)) : on \in {cl.collectFlux} \cap {TRUE}}

(* The values a family's reading comes to: one, or none where the answer   *)
(* does not carry it. A mode that is neither on nor off is none, and a     *)
(* quota below zero means that none is set. The DT counts are decoded into *)
(* plain floats, which a missing element leaves at zero.                   *)
Reading(from, answer) ==
    CASE from = "always" -> {1}
      [] from = "series" -> Latest(answer.series)
      [] from = "num"    -> AnyToFloat(answer.scalar)
      [] from = "bool"   -> AnyToBool(answer.flag)
      [] from = "mode"   -> {v \in {answer.flag.n} : answer.flag.kind = "flag"}
      [] from = "quota"  -> {v \in AnyToFloat(answer.scalar) : v >= 0}
      [] from = "stat"   -> IF answer.stat = Absent THEN {0} ELSE answer.stat

(* Nodes and Replication map a HAL list; one instance, the cluster, stands *)
(* for those of the others.                                                *)
Whole == "whole"
InstancesIn(collector, answer) ==
    IF collector \in {"nodes", "replication"}
    THEN UNION Instances(answer.list) ELSE {Whole}

(* Label keys as WithIdentity stamps them: the cluster, then the custom    *)
(* keys that clash with nothing, then the collector's own.                 *)
ClusterKey == "cluster"
Stamped(custom, own) ==
    LET Kept(k) == k # ClusterKey /\ \A n \in DOMAIN own : own[n] # k
    IN  <<ClusterKey>> \o SelectSeq(custom, Kept) \o own

CollectorUp == Always("ecs_collector", {"up"}, <<"collector">>)
Up == Always("ecs", {"up"}, <<>>)

Sample(at, collector, of, f, custom, v) ==
    [at |-> at, collector |-> collector, of |-> of, name |-> f.name,
     keys |-> Stamped(custom, f.keys), type |-> f.type, from |-> f.from, value |-> v]

(* What one collector, or the loop, emits about an instance.               *)
Emit(at, custom, answer, r, of) ==
    UNION {{Sample(at, r.collector, of, f, custom, v) : v \in Reading(f.from, answer)} :
              f \in r.families}

(* Who emits about what: each collector about its instances, the loop      *)
(* about each collector and about the cluster.                             *)
PartsOf(r, answer) ==
    {<<r, x>> : x \in InstancesIn(r.collector, answer)}
    \cup {<<Runs("loop", CollectorUp), r.collector>>}

Parts(cl, answer) ==
    (UNION {PartsOf(r, answer) : r \in Registry(cl)}) \cup {<<Runs("loop", Up), Whole>>}

(* One cluster's part of a cycle in which every collector answered.        *)
CollectCluster(at, cl, custom, answer) ==
    UNION {Emit(at, custom, answer, p[1], p[2]) : p \in Parts(cl, answer)}

=============================================================================
