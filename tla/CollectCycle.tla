---------------------------- MODULE CollectCycle ----------------------------
(***************************************************************************)
(* One collection cycle (collectAll and collectCluster,                    *)
(* internal/ecs/collector.go): a goroutine per cluster, the collectors of  *)
(* a cluster one after the other under that cluster's own deadline, and    *)
(* one snapshot when all goroutines are through.                           *)
(*                                                                         *)
(* A collector's answer is reduced to what the verdict on its cluster      *)
(* looks at: an error, or how many samples it returned, the housekeeping   *)
(* sample of the Flux collector counted apart.  Every collector of this    *)
(* repository that returns an error returns no sample with it.             *)
(***************************************************************************)
EXTENDS Integers, Sequences, FiniteSets

CONSTANTS
    Clusters,     \* the configured clusters
    Collectors,   \* how many collectors each of them has
    Faulty,       \* clusters that may fail, hang or outlast their deadline
    Clashing,     \* clusters with a custom label named "collector"
    MaxCycles,    \* bound: cycles run
    MaxReloads    \* bound: rebuilds of the Collector

ASSUME ClustersAssumption == 
    /\ IsFiniteSet(Clusters)
    /\ Collectors \in [Clusters -> Nat \ {0}]   \* Registry has four that are always on
    /\ Faulty \subseteq Clusters
    /\ Clashing \subseteq Clusters

ASSUME BoundsAssumption == MaxCycles \in Nat /\ MaxReloads \in Nat

VARIABLES
    running,   \* collectAll is waiting for its goroutines
    cycles,    \* cycles begun
    ctxDone,   \* the loop's context is cancelled
    groupDone, \* the errgroup's context is cancelled
    late,      \* clusters whose deadline has passed
    at,        \* what each goroutine is doing
    ups,       \* up value of each collector that has returned, in order
    failures,  \* collectors that failed
    domain,    \* domainSamples, the count the verdict looks at
    samples,   \* cs.Samples: the collectors whose domain samples are in it
    results,   \* results[i] of collectAll, once written
    snap,      \* the published snapshot
    warned,    \* c.warned: clusters whose label clash was logged
    lines,     \* log lines written about the clash of each cluster
    reloads    \* Collectors built after the first

cycleVars == <<running, cycles, groupDone, late, at, ups, failures, domain, samples, results, snap>>
warnVars == <<warned, lines, reloads>>
vars == <<cycleVars, ctxDone, warnVars>>

NoResult == [cycle |-> 0, ok |-> FALSE, up |-> <<>>, samples |-> {}]

(* What a goroutine's current Collect will come to, or that it has none. *)
Calls == {"answer", "error", "hang"}

Init ==
    /\ running = FALSE
    /\ cycles = 0
    /\ ctxDone = FALSE
    /\ groupDone = FALSE
    /\ late = {}
    /\ at = [c \in Clusters |-> "done"]
    /\ ups = [c \in Clusters |-> <<>>]
    /\ failures = [c \in Clusters |-> 0]
    /\ domain = [c \in Clusters |-> 0]
    /\ samples = [c \in Clusters |-> {}]
    /\ results = [c \in Clusters |-> NoResult]
    /\ snap = [c \in Clusters |-> NoResult]
    /\ warned = {}
    /\ lines = [c \in Clusters |-> 0]
    /\ reloads = 0

Goto(c, there) == at' = [at EXCEPT ![c] = there]

(* Fault: the deadline does not reach the requests. *)
NoDeadline(c) == ctxDone \/ groupDone

(* The context of a cluster: derived from the group's, with a deadline. *)
Over(c) == ctxDone \/ groupDone \/ c \in late

-----------------------------------------------------------------------------

Start ==
    /\ ~running
    /\ cycles < MaxCycles
    /\ running' = TRUE
    /\ cycles' = cycles + 1
    /\ groupDone' = FALSE
    /\ late' = {}
    /\ at' = [c \in Clusters |-> "next"]
    /\ ups' = [c \in Clusters |-> <<>>]
    /\ failures' = [c \in Clusters |-> 0]
    /\ domain' = [c \in Clusters |-> 0]
    /\ samples' = [c \in Clusters |-> {}]
    /\ results' = [c \in Clusters |-> NoResult]
    /\ UNCHANGED <<snap, ctxDone, warnVars>>

(* The next rc.Collect.  Its first request fails under a context that is   *)
(* over; a cluster that hangs lets none through until it is.               *)
Call(c) ==
    /\ at[c] = "next"
    /\ Len(ups[c]) < Collectors[c]
    /\ \E how \in Calls :
          /\ how \in {"error", "hang"} => c \in Faulty \/ Over(c)
          /\ Over(c) => how = "error"
          /\ Goto(c, how)
    /\ UNCHANGED <<running, cycles, groupDone, late, ups, failures, domain, samples, results, snap,
                   ctxDone, warnVars>>

(* warnCollision: under warnMu, once per Collector and cluster. *)
Warn(c) ==
    IF c \in Clashing \ warned
    THEN /\ warned' = warned \cup {c}
         /\ lines' = [lines EXCEPT ![c] = @ + 1]
         /\ UNCHANGED reloads
    ELSE UNCHANGED warnVars

(* Fault: the housekeeping sample counts as data. *)
CountsAll(n, house) == n + house

(* Collect returned n domain samples and `house' housekeeping samples; the *)
(* latter are published and not counted.                                   *)
Counted(n, house) == n

Returned(c) ==
    /\ at[c] = "answer"
    /\ \E n, house \in 0 .. 1 :
          /\ domain' = [domain EXCEPT ![c] = @ + Counted(n, house)]
          /\ samples' = [samples EXCEPT ![c] = IF n = 0 THEN @ ELSE @ \cup {Len(ups[c]) + 1}]
    /\ ups' = [ups EXCEPT ![c] = Append(@, 1)]
    /\ Goto(c, "next")
    /\ Warn(c)
    /\ UNCHANGED <<running, cycles, groupDone, late, failures, results, snap, ctxDone>>

(* Collect failed: the cluster refused, or a request under way ended with  *)
(* its context.                                                            *)
Failed(c) ==
    /\ at[c] \in Calls
    /\ at[c] # "error" => Over(c)
    /\ failures' = [failures EXCEPT ![c] = @ + 1]
    /\ ups' = [ups EXCEPT ![c] = Append(@, 0)]
    /\ Goto(c, "next")
    /\ Warn(c)
    /\ UNCHANGED <<running, cycles, groupDone, late, domain, samples, results, snap, ctxDone>>

(* The switch at the end of collectCluster. *)
Verdict(c) ==
    /\ ~(Collectors[c] > 0 /\ failures[c] = Collectors[c])
    /\ ~(Collectors[c] > 0 /\ domain[c] = 0)

(* Fault: the goroutine of a cluster that is down returns an error. *)
CancelsSiblings(c) == groupDone \/ ~Verdict(c)

GroupAfter(c) == groupDone

(* The goroutine stores its result and returns nil, failed or not, so that *)
(* the errgroup never cancels the others.                                  *)
Finish(c) ==
    /\ at[c] = "next"
    /\ Len(ups[c]) = Collectors[c]
    /\ results' = [results EXCEPT ![c] =
                      [cycle |-> cycles, ok |-> Verdict(c), up |-> ups[c], samples |-> samples[c]]]
    /\ Goto(c, "done")
    /\ groupDone' = GroupAfter(c)
    /\ UNCHANGED <<running, cycles, late, ups, failures, domain, samples, snap, ctxDone, warnVars>>

(* Fault: the first result ends the wait. *)
FirstDone == \E c \in Clusters : at[c] = "done"

AllDone == \A c \in Clusters : at[c] = "done"

(* g.Wait returned: the snapshot is stored. *)
Publish ==
    /\ running
    /\ AllDone
    /\ snap' = results
    /\ running' = FALSE
    /\ groupDone' = TRUE
    /\ UNCHANGED <<cycles, late, at, ups, failures, domain, samples, results, ctxDone, warnVars>>

Deadline(c) ==
    /\ c \in Faulty \ late
    /\ at[c] # "done"
    /\ late' = late \cup {c}
    /\ UNCHANGED <<running, cycles, groupDone, at, ups, failures, domain, samples, results, snap,
                   ctxDone, warnVars>>

Cancel ==
    /\ ~ctxDone
    /\ ctxDone' = TRUE
    /\ UNCHANGED <<cycleVars, warnVars>>

(* A config reload builds a new Collector after the old loop has ended. *)
Rebuild ==
    /\ ~running
    /\ reloads < MaxReloads
    /\ reloads' = reloads + 1
    /\ warned' = {}
    /\ UNCHANGED <<cycleVars, ctxDone, lines>>

-----------------------------------------------------------------------------

ClusterStep(c) == Call(c) \/ Returned(c) \/ Failed(c) \/ Finish(c)

Next ==
    \/ Start \/ Publish \/ Cancel \/ Rebuild
    \/ \E c \in Clusters : ClusterStep(c) \/ Deadline(c)

(* Goroutines run and timers fire; a ticker or a signal is never owed. *)
Fairness ==
    /\ WF_vars(Publish)
    /\ \A c \in Clusters : WF_vars(ClusterStep(c)) /\ WF_vars(Deadline(c))

Spec == Init /\ [][Next]_vars
FairSpec == Spec /\ Fairness

-----------------------------------------------------------------------------
(* Properties *)

Result == [cycle : 0 .. MaxCycles, ok : BOOLEAN, up : Seq({0, 1}), samples : SUBSET Nat]

(* Types of the variables. *)
TypeOK ==
    /\ running \in BOOLEAN /\ ctxDone \in BOOLEAN /\ groupDone \in BOOLEAN
    /\ cycles \in 0 .. MaxCycles
    /\ late \subseteq Clusters
    /\ at \in [Clusters -> Calls \cup {"next", "done"}]
    /\ ups \in [Clusters -> Seq({0, 1})]
    /\ failures \in [Clusters -> Nat]
    /\ domain \in [Clusters -> Nat]
    /\ samples \in [Clusters -> SUBSET Nat]
    /\ results \in [Clusters -> Result]
    /\ snap \in [Clusters -> Result]
    /\ warned \subseteq Clusters
    /\ lines \in [Clusters -> Nat]
    /\ reloads \in 0 .. MaxReloads

Published(c) == snap[c].cycle > 0

(* snapshot.go "true if at least one collector returned domain samples",   *)
(* ADR-0009: a published cluster is up exactly when a collector that did   *)
(* not fail returned a domain sample.                                      *)
UpMeansData ==
    \A c \in Clusters : Published(c) =>
        (snap[c].ok <=> \E i \in snap[c].samples : snap[c].up[i] = 1)

(* ADR-0009 "emits ecs_collector_up per domain": a snapshot has every      *)
(* cluster's result, all of one cycle, with an up value per collector.     *)
WholeCycle ==
    \A c, d \in Clusters :
        /\ snap[c].cycle = snap[d].cycle
        /\ Published(c) => Len(snap[c].up) = Collectors[c]

(* collector.go: "One cluster's failure never blocks others": as long as   *)
(* nobody cancels the loop, a healthy cluster is published with all its    *)
(* collectors up, whatever its neighbours do.                              *)
HealthyStayUp ==
    ctxDone \/ \A c \in Clusters \ Faulty : \A i \in 1 .. Len(snap[c].up) : snap[c].up[i] = 1

(* What makes the three inductive.  The counts of a cluster's goroutine:   *)
(* samples come from collectors that answered, so none has any when all    *)
(* that returned so far failed.                                            *)
Counts(c) ==
    /\ failures[c] <= Len(ups[c])
    /\ Len(ups[c]) <= Collectors[c]
    /\ at[c] \in Calls => Len(ups[c]) < Collectors[c]
    /\ failures[c] = Len(ups[c]) => samples[c] = {}
    /\ domain[c] = 0 <=> samples[c] = {}
    /\ \A i \in samples[c] : i \in 1 .. Len(ups[c]) /\ ups[c][i] = 1

CountInv == \A c \in Clusters : Counts(c)

Sound(c, r) ==
    /\ r.ok <=> \E i \in r.samples : r.up[i] = 1
    /\ Len(r.up) = Collectors[c]

(* A goroutine that is through has left its result, of this cycle; between *)
(* cycles all are through.                                                 *)
Stored(c) ==
    /\ running /\ at[c] = "done" => results[c].cycle = cycles /\ Sound(c, results[c])
    /\ ~running => at[c] = "done"
    /\ Published(c) => Sound(c, snap[c])

ResultInv ==
    /\ \A c \in Clusters : Stored(c)
    /\ \A c, d \in Clusters : snap[c].cycle = snap[d].cycle

AllUp(up) == \A i \in 1 .. Len(up) : up[i] = 1

Healthy(c) ==
    /\ at[c] \notin {"error", "hang"}
    /\ AllUp(ups[c])
    /\ AllUp(results[c].up)
    /\ AllUp(snap[c].up)

(* Until the loop is cancelled, nothing reaches the context of a healthy   *)
(* cluster during a cycle: neither a deadline nor its siblings' group.     *)
CalmInv ==
    /\ late \subseteq Faulty
    /\ running => ~groupDone
    /\ ctxDone \/ \A c \in Clusters \ Faulty : Healthy(c)

(* A cluster that hangs costs its deadline, not the cycle. *)
CycleEnds == running ~> ~running

(* collector.go:35-37: the clash of a custom label is logged with "one     *)
(* line per cluster and key for the process's lifetime".                   *)
WarnedOnce == \A c \in Clusters : lines[c] <= 1

=============================================================================
