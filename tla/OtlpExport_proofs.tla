------------------------- MODULE OtlpExport_proofs -------------------------
(***************************************************************************)
(* The OTLP path, for any metric names, any number of collection cycles at *)
(* once and any pushes among them: no name ever has two callbacks, none is *)
(* left without one, and a push nothing disturbs sends what /metrics would *)
(* serve.                                                                  *)
(***************************************************************************)
EXTENDS OtlpExport, TLAPS

USE DEF Loaded, Recorded

-----------------------------------------------------------------------------
(* Types *)

Snapshots == [number : 0 .. MaxStores, names : SUBSET Names]

(* The fields of a snapshot. *)
LEMMA SnapshotFacts ==
    /\ Empty \in Snapshots /\ Empty.names = {} /\ Empty.number = 0
    /\ \A s \in Snapshots : s.number \in 0 .. MaxStores /\ s.number \in Int /\ s.names \subseteq Names
BY BoundsAssumption DEF Snapshots, Empty

(* The type invariant holds initially. *)
LEMMA TypeInit == Init => TypeOK
<1> SUFFICES ASSUME Init PROVE TypeOK
  OBVIOUS
<1>1. store \in Snapshots /\ first \in Snapshots /\ view \in [Cycles -> Snapshots]
  BY SnapshotFacts DEF Init
<1>2. \A c \in Cycles : cycle[c] = "register" <=> mu = c
  BY CyclesAssumption DEF Init
<1>3. instruments \in [Names -> Nat] /\ cycle \in [Cycles -> {"collect", "load", "lock", "register"}]
  BY DEF Init
<1>4. pushes \in 0 .. MaxPushes + 1 /\ pushes <= MaxPushes
  BY BoundsAssumption DEF Init
<1>5. /\ registered \subseteq Names /\ pushing \subseteq Names
      /\ observed \subseteq Names \X (0 .. MaxStores)
      /\ settled \in BOOLEAN /\ down \in BOOLEAN
  BY DEF Init
<1> QED
  BY <1>1, <1>2, <1>3, <1>4, <1>5 DEF TypeOK, Snapshots

(* A step of one cycle that leaves the mutex alone keeps who holds it. *)
LEMMA SameHolder ==
    ASSUME TypeOK, NEW c \in Cycles, cycle[c] # "register", NEW there \in {"load", "lock"},
           cycle' = [cycle EXCEPT ![c] = there], mu' = mu
    PROVE  \A d \in Cycles : cycle'[d] = "register" <=> mu' = d
BY DEF TypeOK

(* Every step keeps the type invariant. *)
LEMMA TypeStep == TypeOK /\ [Next]_vars => TypeOK'
<1> SUFFICES ASSUME TypeOK, [Next]_vars PROVE TypeOK'
  OBVIOUS
<1> USE DEF TypeOK
<1>a. store \in Snapshots /\ view \in [Cycles -> Snapshots] /\ first \in Snapshots
  BY DEF Snapshots
<1>1. ASSUME NEW c \in Cycles, Store(c) PROVE TypeOK'
  <2>1. PICK names \in SUBSET Names : store' = [number |-> store.number + 1, names |-> names]
    BY <1>1 DEF Store
  <2>2. store' \in Snapshots
    BY <1>1, <1>a, <2>1, SnapshotFacts, BoundsAssumption DEF Store, Snapshots
  <2>3. \A d \in Cycles : cycle'[d] = "register" <=> mu' = d
    BY <1>1, SameHolder DEF Store
  <2> QED
    BY <1>1, <2>2, <2>3 DEF Store, Snapshots
<1>2. ASSUME NEW c \in Cycles, EnsureLoad(c) PROVE TypeOK'
  <2>1. view' \in [Cycles -> Snapshots]
    BY <1>2, <1>a DEF EnsureLoad
  <2>2. \A d \in Cycles : cycle'[d] = "register" <=> mu' = d
    BY <1>2, SameHolder DEF EnsureLoad
  <2> QED
    BY <1>2, <2>1, <2>2 DEF EnsureLoad, Snapshots
<1>3. ASSUME NEW c \in Cycles, EnsureLock(c) PROVE TypeOK'
  <2>1. \A d \in Cycles : cycle'[d] = "register" <=> mu' = d
    BY <1>3, CyclesAssumption DEF EnsureLock
  <2> QED
    BY <1>3, <2>1 DEF EnsureLock
<1>4. ASSUME NEW c \in Cycles, Register(c) PROVE TypeOK'
  <2>1. PICK x \in Missing(c) :
          instruments' = [instruments EXCEPT ![x] = @ + 1] /\ registered' = registered \cup {x}
    BY <1>4 DEF Register
  <2>2. x \in Names
    BY <1>a, SnapshotFacts DEF Missing
  <2>3. registered' \subseteq Names /\ instruments' \in [Names -> Nat]
    BY <2>1, <2>2
  <2> QED
    BY <1>4, <2>3 DEF Register
<1>5. ASSUME NEW c \in Cycles, EnsureUnlock(c) PROVE TypeOK'
  <2>1. \A d \in Cycles : cycle'[d] = "register" <=> mu' = d
    BY <1>5, CyclesAssumption DEF EnsureUnlock
  <2> QED
    BY <1>5, <2>1 DEF EnsureUnlock
<1>6. CASE Push
  BY <1>6, BoundsAssumption DEF Push, BeginPush, Settled
<1>7. CASE Shutdown
  BY <1>7, BoundsAssumption DEF Shutdown, BeginPush, Settled
<1>8. ASSUME NEW x \in Names, Observe(x) PROVE TypeOK'
  <2>1. observed' \subseteq Names \X (0 .. MaxStores)
    BY <1>8, <1>a, SnapshotFacts DEF Observe
  <2> QED
    BY <1>8, <2>1 DEF Observe
<1>9. CASE UNCHANGED vars
  BY <1>9 DEF vars
<1> QED
  BY <1>1, <1>2, <1>3, <1>4, <1>5, <1>6, <1>7, <1>8, <1>9 DEF Next, Ensure

(* The types of the exporter's variables, and the mutex: at most one cycle *)
(* registers at a time.                                                    *)
THEOREM OtlpTypeCorrect == Spec => []TypeOK
BY TypeInit, TypeStep, PTL DEF Spec

-----------------------------------------------------------------------------
(* Instruments *)

(* At first the store names nothing and nothing is registered. *)
LEMMA InstrumentInit == Init => InstrumentInv
BY SnapshotFacts DEF Init, InstrumentInv

(* A step that leaves the store and the cycles alone keeps the rest. *)
LEMMA SameInstruments ==
    ASSUME InstrumentInv, UNCHANGED <<store, cycle, view, registered, instruments>>
    PROVE  InstrumentInv'
BY DEF InstrumentInv, Awaited

(* Every step keeps one instrument to a registered name, and a cycle on    *)
(* its way for each name of the store that has none.                       *)
LEMMA InstrumentStep == TypeOK /\ InstrumentInv /\ [Next]_vars => InstrumentInv'
<1> SUFFICES ASSUME TypeOK, InstrumentInv, [Next]_vars PROVE InstrumentInv'
  OBVIOUS
<1>1. ASSUME NEW c \in Cycles, Store(c) PROVE InstrumentInv'
  <2>1. cycle'[c] = "load" /\ UNCHANGED <<registered, instruments>>
    BY <1>1 DEF Store, TypeOK
  <2> QED
    BY <2>1 DEF InstrumentInv, Awaited
<1>2. ASSUME NEW c \in Cycles, EnsureLoad(c) PROVE InstrumentInv'
  <2>1. /\ view'[c] = store /\ cycle'[c] = "lock" /\ UNCHANGED <<store, registered, instruments>>
    BY <1>2 DEF EnsureLoad, TypeOK
  <2>2. \A x \in store.names : Awaited(x)'
    BY <2>1 DEF Awaited
  <2> QED
    BY <2>1, <2>2 DEF InstrumentInv
<1>3. ASSUME NEW c \in Cycles, EnsureLock(c) PROVE InstrumentInv'
  <2>1. \A x : Awaited(x) => Awaited(x)'
    BY <1>3 DEF EnsureLock, Awaited, TypeOK
  <2> QED
    BY <1>3, <2>1 DEF EnsureLock, InstrumentInv
<1>4. ASSUME NEW c \in Cycles, Register(c) PROVE InstrumentInv'
  <2>1. PICK x \in Missing(c) :
          instruments' = [instruments EXCEPT ![x] = @ + 1] /\ registered' = registered \cup {x}
    BY <1>4 DEF Register
  <2>2. x \in Names /\ x \notin registered
    BY SnapshotFacts DEF Missing, TypeOK, Snapshots
  <2>3. \A y \in Names : instruments'[y] = IF y \in registered' THEN 1 ELSE 0
    BY <2>1, <2>2 DEF InstrumentInv, TypeOK
  <2>4. \A y : Awaited(y) => Awaited(y)'
    BY <1>4 DEF Register, Awaited
  <2> QED
    BY <1>4, <2>1, <2>3, <2>4 DEF Register, InstrumentInv
<1>5. ASSUME NEW c \in Cycles, EnsureUnlock(c) PROVE InstrumentInv'
  <2>1. /\ cycle' = [cycle EXCEPT ![c] = "collect"] /\ cycle[c] = "register"
        /\ view[c].names \subseteq registered
        /\ UNCHANGED <<store, view, registered, instruments>>
    BY <1>5 DEF EnsureUnlock, Missing
  <2>2. \A x : Awaited(x) => x \in registered \/ Awaited(x)'
    BY <2>1 DEF Awaited, TypeOK
  <2> QED
    BY <2>1, <2>2 DEF InstrumentInv
<1>6. CASE Push \/ Shutdown
  BY <1>6, SameInstruments DEF Push, Shutdown, BeginPush
<1>7. ASSUME NEW x \in Names, Observe(x) PROVE InstrumentInv'
  BY <1>7, SameInstruments DEF Observe
<1>8. CASE UNCHANGED vars
  BY <1>8, SameInstruments DEF vars
<1> QED
  BY <1>1, <1>2, <1>3, <1>4, <1>5, <1>6, <1>7, <1>8 DEF Next, Ensure

(* What the instruments are, for all constants. *)
LEMMA InstrumentAlways == Spec => []InstrumentInv
BY OtlpTypeCorrect, InstrumentInit, InstrumentStep, PTL DEF Spec

(* However many cycles register at once, a name never has two callbacks,   *)
(* and once they are through each name of the store has its one.           *)
THEOREM OneInstrumentEach == Spec => []OneInstrumentPerName
<1>1. TypeOK /\ InstrumentInv => OneInstrumentPerName
  <2> SUFFICES ASSUME TypeOK, InstrumentInv PROVE OneInstrumentPerName
    OBVIOUS
  <2>1. \A x \in Names : instruments[x] <= 1
    BY DEF InstrumentInv
  <2>2. store.names \subseteq Names
    BY SnapshotFacts DEF TypeOK, Snapshots
  <2>3. Settled => \A x \in store.names : ~Awaited(x)
    BY DEF Settled, Awaited
  <2> QED
    BY <2>1, <2>2, <2>3 DEF InstrumentInv, OneInstrumentPerName
<1> QED
  BY <1>1, OtlpTypeCorrect, InstrumentAlways, PTL

-----------------------------------------------------------------------------
(* Pushes *)

(* Nothing is pushed at first. *)
LEMMA PushInit == Init => PushInv
BY SnapshotFacts DEF Init, PushInv

(* A step outside the reader that stores nothing keeps the push's account. *)
LEMMA SamePush ==
    ASSUME PushInv, UNCHANGED <<store, pushing, observed, pushes, first, settled>>
    PROVE  PushInv'
BY DEF PushInv

(* Every step keeps the account of a quiet push. *)
LEMMA PushStep == TypeOK /\ InstrumentInv /\ PushInv /\ [Next]_vars => PushInv'
<1> SUFFICES ASSUME TypeOK, InstrumentInv, PushInv, [Next]_vars PROVE PushInv'
  OBVIOUS
<1>a. store \in Snapshots /\ first \in Snapshots
  BY DEF TypeOK, Snapshots
<1>1. ASSUME NEW c \in Cycles, Store(c) PROVE PushInv'
  <2>1. PICK names \in SUBSET Names : store' = [number |-> store.number + 1, names |-> names]
    BY <1>1 DEF Store
  <2>2. store'.number = store.number + 1 /\ first' = first
    BY <1>1, <2>1 DEF Store
  <2>3. first'.number < store'.number
    BY <1>a, <2>2, SnapshotFacts DEF PushInv
  <2>4. first' # store'
    BY <1>a, <2>2, <2>3, SnapshotFacts
  <2> QED
    BY <1>a, <2>2, <2>3, <2>4, SnapshotFacts DEF PushInv
<1>2. ASSUME NEW c \in Cycles, Ensure(c) PROVE PushInv'
  BY <1>2, SamePush DEF Ensure, EnsureLoad, EnsureLock, Register, EnsureUnlock
<1>3. CASE Push \/ Shutdown
  <2>1. /\ BeginPush /\ first' = store /\ store' = store /\ observed' = {}
        /\ pushing' = {x \in Names : instruments[x] > 0}
        /\ settled' = Settled
    BY <1>3 DEF Push, Shutdown, BeginPush
  <2>2. first'.number <= store'.number
    BY <1>a, <2>1, SnapshotFacts
  <2>3. Settled => \A x \in store.names : x \in pushing'
    <3>1. Settled => \A x \in store.names : ~Awaited(x)
      BY DEF Settled, Awaited
    <3>2. store.names \subseteq Names
      BY <1>a, SnapshotFacts
    <3> QED
      BY <2>1, <3>1, <3>2 DEF InstrumentInv
  <2> QED
    BY <2>1, <2>2, <2>3 DEF PushInv
<1>4. ASSUME NEW x \in Names, Observe(x) PROVE PushInv'
  <2>1. /\ pushing' = pushing \ {x}
        /\ observed' = IF x \in store.names THEN observed \cup {<<x, store.number>>} ELSE observed
        /\ UNCHANGED <<store, pushes, first, settled>>
    BY <1>4 DEF Observe
  <2> QED
    BY <2>1 DEF PushInv
<1>5. CASE UNCHANGED vars
  BY <1>5, SamePush DEF vars
<1> QED
  BY <1>1, <1>2, <1>3, <1>4, <1>5 DEF Next

(* A push that began with the cycles at rest, and during which nothing was *)
(* stored, sends exactly the names of the store, each from it.             *)
THEOREM QuietPushIsExact == Spec => []QuietPushIsTheSnapshot
<1>1. PushInv => QuietPushIsTheSnapshot
  BY DEF PushInv, QuietPushIsTheSnapshot
<1>2. Spec => []PushInv
  BY OtlpTypeCorrect, InstrumentAlways, PushInit, PushStep, PTL DEF Spec
<1> QED
  BY <1>1, <1>2, PTL

=============================================================================
