----------------------------- MODULE OtlpExport -----------------------------
(***************************************************************************)
(* The OTLP path (internal/ecs/otlp.go) beside the snapshot store          *)
(* (snapshot.go) and the collection cycles that feed both                  *)
(* (Collector.CollectOnce): a cycle stores its snapshot and then registers *)
(* an instrument for each new metric name; a periodic reader runs every    *)
(* instrument's callback, and each callback loads the store for itself.    *)
(* Two cycles may run at once: the startup apply's and a reload's.         *)
(***************************************************************************)
EXTENDS Integers, Sequences, FiniteSets

CONSTANTS
    Names,       \* metric names, 1 .. n in sorted order
    Cycles,      \* threads that run collection cycles
    MaxStores,   \* bound: snapshots published
    MaxPushes    \* bound: pushes begun before the shutdown

ASSUME BoundsAssumption ==
    /\ Names \in SUBSET Nat
    /\ MaxStores \in Nat /\ MaxPushes \in Nat

VARIABLES
    store,        \* the current snapshot: its number and its metric names
    cycle,        \* cycle[c]: "collect", "ensure", "register"
    view,         \* view[c]: the snapshot EnsureInstruments loaded
    mu,           \* who holds OTLPExporter.mu
    registered,   \* OTLPExporter.registered
    instruments,  \* instruments[x]: callbacks the meter has for x
    pushing,      \* instruments of the push under way not yet run
    observed,     \* <<name, snapshot number>> observed in this push
    pushes,       \* pushes begun
    first,        \* history: the store as the push began
    settled,      \* history: no cycle was past its store as it began
    down          \* the provider is shut down

vars == <<store, cycle, view, mu, registered, instruments, pushing, observed, pushes, first,
          settled, down>>

Nobody == "nobody"

ASSUME CyclesAssumption == Nobody \notin Cycles

Empty == [number |-> 0, names |-> {}]

Init ==
    /\ store = Empty
    /\ cycle = [c \in Cycles |-> "collect"]
    /\ view = [c \in Cycles |-> Empty]
    /\ mu = Nobody
    /\ registered = {}
    /\ instruments = [x \in Names |-> 0]
    /\ pushing = {}
    /\ observed = {}
    /\ pushes = 0
    /\ first = Empty
    /\ settled = TRUE
    /\ down = FALSE

Settled == \A c \in Cycles : cycle[c] = "collect"

(* CollectOnce: a cycle ends with any names and stores its snapshot.       *)
Store(c) ==
    /\ cycle[c] = "collect"
    /\ store.number < MaxStores
    /\ \E names \in SUBSET Names : store' = [number |-> store.number + 1, names |-> names]
    /\ cycle' = [cycle EXCEPT ![c] = "load"]
    /\ UNCHANGED <<view, mu, registered, instruments, pushing, observed, pushes, first, settled,
                   down>>

(* Fault: only the first snapshot is looked at. *)
LoadOnce(c) == IF view[c] = Empty THEN store ELSE view[c]

Loaded(c) == store

(* EnsureInstruments, run by PostCycle: load, and then lock.               *)
EnsureLoad(c) ==
    /\ cycle[c] = "load"
    /\ view' = [view EXCEPT ![c] = Loaded(c)]
    /\ cycle' = [cycle EXCEPT ![c] = "lock"]
    /\ UNCHANGED <<store, mu, registered, instruments, pushing, observed, pushes, first, settled,
                   down>>

EnsureLock(c) ==
    /\ cycle[c] = "lock"
    /\ mu = Nobody
    /\ mu' = c
    /\ cycle' = [cycle EXCEPT ![c] = "register"]
    /\ UNCHANGED <<store, view, registered, instruments, pushing, observed, pushes, first, settled,
                   down>>

Missing(c) == view[c].names \ registered

(* Fault: an instrument is registered and not written down. *)
NotRecorded(x) == registered

Recorded(x) == registered \cup {x}

(* The next name, in sorted order, that has no instrument yet.             *)
Register(c) ==
    /\ cycle[c] = "register"
    /\ \E x \in Missing(c) :
          /\ \A y \in Missing(c) : x <= y
          /\ instruments' = [instruments EXCEPT ![x] = @ + 1]
          /\ registered' = Recorded(x)
    /\ UNCHANGED <<store, cycle, view, mu, pushing, observed, pushes, first, settled,
                   down>>

EnsureUnlock(c) ==
    /\ cycle[c] = "register"
    /\ Missing(c) = {}
    /\ mu' = Nobody
    /\ cycle' = [cycle EXCEPT ![c] = "collect"]
    /\ UNCHANGED <<store, view, registered, instruments, pushing, observed, pushes, first, settled,
                   down>>

(* The SDK's reader, which runs the callbacks one after another.           *)
BeginPush ==
    /\ pushing = {}
    /\ ~down
    /\ pushing' = {x \in Names : instruments[x] > 0}
    /\ observed' = {}
    /\ first' = store
    /\ settled' = Settled
    /\ UNCHANGED <<store, cycle, view, mu, registered, instruments>>

Push ==
    /\ BeginPush
    /\ pushes < MaxPushes
    /\ pushes' = pushes + 1
    /\ UNCHANGED down

(* run()'s deferred Shutdown, after its runner.stop(): the reader pushes   *)
(* once more and never again. A reload's cycle may still be running.       *)
Shutdown ==
    /\ BeginPush
    /\ pushes' = pushes + 1
    /\ down' = TRUE

(* One callback: the samples of its name in the store it loads now.        *)
Observe(x) ==
    /\ x \in pushing
    /\ pushing' = pushing \ {x}
    /\ observed' = IF x \in store.names THEN observed \cup {<<x, store.number>>} ELSE observed
    /\ UNCHANGED <<store, cycle, view, mu, registered, instruments, pushes, first, settled,
                   down>>

Ensure(c) == EnsureLoad(c) \/ EnsureLock(c) \/ Register(c) \/ EnsureUnlock(c)

Next ==
    \/ \E c \in Cycles : Store(c) \/ Ensure(c)
    \/ Push \/ Shutdown
    \/ \E x \in Names : Observe(x)

Spec == Init /\ [][Next]_vars

-----------------------------------------------------------------------------
(* Properties *)

(* Types of the variables, and who may hold the mutex.                     *)
TypeOK ==
    /\ store \in [number : 0 .. MaxStores, names : SUBSET Names]
    /\ cycle \in [Cycles -> {"collect", "load", "lock", "register"}]
    /\ view \in [Cycles -> [number : 0 .. MaxStores, names : SUBSET Names]]
    /\ \A c \in Cycles : cycle[c] = "register" <=> mu = c
    /\ registered \subseteq Names /\ instruments \in [Names -> Nat]
    /\ pushing \subseteq Names
    /\ observed \subseteq Names \X (0 .. MaxStores)
    /\ pushes \in 0 .. MaxPushes + 1 /\ (~down => pushes <= MaxPushes)
    /\ first \in [number : 0 .. MaxStores, names : SUBSET Names]
    /\ settled \in BOOLEAN /\ down \in BOOLEAN

(* otlp.go:69-71, "for every metric name in the current snapshot that does *)
(* not already have one. Idempotent": two callbacks for one name would     *)
(* count every sample of it twice, so there is never a second, and once    *)
(* the cycles are through every name of the store has its one.             *)
OneInstrumentPerName ==
    /\ \A x \in Names : instruments[x] <= 1
    /\ Settled => \A x \in store.names : instruments[x] = 1

(* ADR-0002, "Both export paths read the latest snapshot": a push that     *)
(* began with the cycles at rest, and saw no other snapshot stored, has    *)
(* sent exactly the names /metrics serves, none missing and none stale.    *)
QuietPushIsTheSnapshot ==
    (pushes > 0 /\ pushing = {} /\ settled /\ store = first)
        => observed = {<<x, first.number>> : x \in first.names}

(* What makes the two inductive.  A name of the store has its instrument,  *)
(* or a cycle that will see to it is on its way: one that will load this   *)
(* store, or one that has loaded a snapshot with the name.                 *)
Awaited(x) ==
    \E c \in Cycles :
        \/ cycle[c] = "load"
        \/ cycle[c] \in {"lock", "register"} /\ x \in view[c].names

InstrumentInv ==
    /\ \A x \in Names : instruments[x] = IF x \in registered THEN 1 ELSE 0
    /\ \A x \in store.names : x \in registered \/ Awaited(x)

(* A quiet push has observed some of the names of the store it began with, *)
(* and still has the callbacks of the others to run.                       *)
PushInv ==
    /\ first.number <= store.number
    /\ (pushes > 0 /\ settled /\ store = first) =>
          /\ observed \subseteq {<<x, first.number>> : x \in first.names}
          /\ \A x \in first.names : x \in pushing \/ <<x, first.number>> \in observed

(* README.md:15-16, "an optional OTLP gRPC push reads the same snapshot",  *)
(* and snapshot.go:18, "an immutable, point-in-time view across all        *)
(* clusters": all that one push sends comes from one snapshot.             *)
PushIsOneSnapshot == \A a, b \in observed : a[2] = b[2]

=============================================================================
