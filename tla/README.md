# A TLA+ model of obs_exporter

`obs_exporter` is one Go process that polls Dell ECS / ObjectScale clusters over their management API, publishes
what it read as one in-memory snapshot, and serves that snapshot at `/metrics` and, optionally, over OTLP. This
directory holds TLA+ modules for the parts of it that keep state or run concurrently, the TLC configurations that
check them, and TLAPS proofs of the properties that matter most. Paths below are relative to `src/`.

Contents: [the system](#1-the-system) · [modules](#2-modules) · [runs](#3-runs) · [fairness](#4-fairness) ·
[proofs](#5-proofs) · [where code and text disagree](#6-where-code-and-text-disagree) ·
[not modelled](#7-not-modelled) · [plan](#8-plan) · [running it](#9-running-it)

## 1. The system

```
             SIGHUP / file event                                   SIGINT, SIGTERM, ListenAndServe error
                    v                                                              v
  config.Watcher --updates (cap 1)--> consumer goroutine --apply()--+--- run() --stop()--+
                                                                    v                    v
                                                              collectorRunner (r.mu, r.cancel, r.targets, r.wg)
                                                                    | builds a generation: clients + Collector
                                                                    v
                     Collector.Run: CollectOnce per tick -> a goroutine per cluster -> its collectors in order
                        |                                            |  (DT, Quotas fan out again; Flux queries)
                        |                                            v
                        |                              ecsclient.ClusterClient (token, loginMu) -> appliance
                        v
                  SnapshotStore (one pointer) --> PromCollector.Collect (/metrics), /health
                                              --> OTLPExporter: EnsureInstruments after each cycle, SDK callbacks
```

| Component | State | Operations | What makes it correct | What is hard about it |
|---|---|---|---|---|
| Client (`internal/ecsclient`) | `token`, `loginMu`, per call: the re-login it may still use, retries | `call` (`Get`, `Post`), `ensureToken`, `do`, `clearToken`, `Close` | logins are single-flighted, no session is leaked, an expiry costs no call, `Close` releases everything, every call returns | several goroutines per cluster, 401s that arrive late, retried logins, `Close` beside a cancelled cycle |
| Runner (`main.go`) | `cancel`, `targets`, `wg`, one loop goroutine per generation | `apply`, `shutdownCurrent`, `stop` | one generation polls, no generation is forgotten with its sessions, the store never goes back to an older one, callers return | a wait group shared by all generations, a first cycle outside any loop, `apply` and `stop` from different goroutines |
| Process (`main.go`) | where `run()` and the consumer stand, the deferred calls | startup, reload, end | the end logs out, a reload ends, the last edit is the one that runs | the watcher starts before the startup apply; the deferred `stop` may meet a reload |
| Watcher (`internal/config/watcher.go`) | a channel of one config | event, `reload`, non-blocking send | an edit is not lost | the send drops the newer config |
| Cycle (`internal/ecs/collector.go`) | results by cluster, the warned clashes | `collectAll`, `collectCluster`, `CollectOnce` | a snapshot is whole, a failing cluster harms no other, `up` means data | deadlines, cancellation in mid-cycle, an errgroup that must not cancel |
| Exposition (`internal/ecs/prometheus.go`, `sample.go`) | per scrape: key list per name, identities sent | `Collect`, `WithIdentity` | one schema per name, no series twice, nothing else lost | cycles publish during the scrape; custom labels clash with some samples only |
| Node index (`internal/ecs/flux.go`) | identifier to label, or blank | `newNodeMapper`, `lookup` | a row joins the node it belongs to or none | identifiers two or three nodes share, in any order |
| Flux collector (`internal/ecs/flux.go`) | samples and counters of one Collect; the silence set across cycles | `Collect`, `samples` | one bad measurement does not hide the others; one warning per silence; the unmapped counter tells | refusals, fatal errors and silences mixed over several cycles |
| Histograms (`internal/ecs/flux.go`) | groups condemned, values by group and bound | `bucketSamples` | a histogram is published in full or not at all | rows lost one by one, in any order |
| DT, Quotas (`internal/ecs/dt.go`, `quotas.go`) | a shared slice; a slot per item; a bounded pool | list, fan out, merge | failures stay local, each item once, inventory order, Collect returns | concurrent appends, a full pool, the deadline in the middle |
| OTLP (`internal/ecs/otlp.go`) | `registered`, one instrument per name | `EnsureInstruments`, callbacks, `Shutdown` | one instrument per name; a push is the snapshot | a snapshot loaded before the lock; callbacks that each load the store |
| Config loader (`internal/config/config.go`, `dotenv.go`, `envbool.go`) | the process environment | `LoadDotEnv`, `Load`, `EffectiveLabels` | credentials are the ones meant and not empty, no label is empty, labels are sorted | unset, empty and missing are three things; a reload sees the environment of the start |
| Registry (`internal/ecs/resource.go`) | none | `Registry` | one source per name and cluster | two flags decide, in two collectors each |
| Payload collectors (`cluster*.go`, `replication.go`, `nodes.go`, `info.go`, `metering.go`, `fields_shared.go`) | none | one `Collect` each | a name has one ordered key list and type over all clusters and sources | clusters with different flags and labels share one `/metrics` |
| Decoding (`points.go`, `hal.go`, `apierror.go`) | none | `Latest`, `UnmarshalJSON`, `parseAPIError` | a reading is current or absent, no list is lost in silence, a passing error is not taken for a permanent one | what may be missing, null, text or twice there |

Interactions. The runner owns clients and loops and is called by two goroutines, the consumer and `run()`. A cycle
calls the clients from as many goroutines as a cluster's collectors fan out to. The store is the only state shared
between the collecting and the serving side, an atomic pointer swap. `PROJECT.json` lists every hazard of this code
that is hard to test, with its line and the property that watches it.

## 2. Modules

One module per component; a module that says "composes" builds on another's actions.

| Module | Models | Correspondence |
|---|---|---|
| `TokenCell` | the promise in the comment above `ensureToken` | abstract: the cache is empty, being filled by one login, or holds the newest token granted |
| `EcsClient` | `client.go`, `auth.go` and the appliance's session table | `pc[c]` is a goroutine's place in `call`/`ensureToken`/`do`; `FastCheck`, `LockLogin`, `Recheck`, `Login*`, `StoreToken`, `UnlockLogin` are `ensureToken` statement by statement; `Prepare`, `Answered`, `Unauthorized`, `SendFails`, `ClearToken` are `do` and the loop in `call`; `BeginClose` to `CloseClear` are `Close`; `Expire` is the appliance |
| `CollectorRunner` | `collectorRunner` and the loops it starts | `Take`, `CancelHeld`, `WaitLoops`, `CloseHeld` are `shutdownCurrent`; then `Install` and `Spawn` finish `apply`; `Tick`, `LoopExit`, `TickerPanic` are `Collector.Run`; `Poll` to `Publish` one `CollectOnce`. A generation is the clients and loop of one `apply` |
| `SerialRunner` | the calling contract in the comment at `main.go:189-192` | composes `CollectorRunner`: any goroutines, applies one at a time, `stop` at any moment |
| `Exporter` | `run()`, the consumer goroutine and the watcher | composes `CollectorRunner` with `Actors = {main, consumer}`; shown to implement `SerialRunner` |
| `CollectCycle` | `collectAll`, `collectCluster`, `warnCollision` | a goroutine's `at[c]` walks over the collectors; `Call` chooses what the next Collect comes to |
| `PromScrape` | `PromCollector.Collect` over `WithIdentity` | `Load`, one step per sample (`Skip`, `Emit`), `Finish`; `Store` is a cycle that ends meanwhile |
| `NodeMapper` | `newNodeMapper`, `lookup` | one step per identifier (`Claim`, `Contest`) |
| `ApiError` | `parseAPIError`, `Permanent` | operators on error bodies |
| `FluxCollect` | `Flux.Collect`, `fluxFatal` and `samples` over many cycles | composes `NodeMapper` and `ApiError`; one step per measurement |
| `FluxBuckets` | `bucketSamples` | one step per row, then `Assemble` |
| `Selection` | the loops that keep some of a list | `Select` by position, for `PromScrape` and `ConfigLoad`, a form the provers can reason about |
| `FanOut` | the pools in `DT.Collect` and `Quotas.Collect` | one module because the two are the same errgroup with a different merge; `kind` says which. `Go`, `Ask`, `AppendSamples`, `FillSlot` are the goroutines, `Concat` is `slices.Concat`, a slot per step. Its names (`PoolInit`, `PoolNext`, `PoolSpec`) stay clear of `CollectCycle`'s, one of whose Collects it is |
| `OtlpExport` | `EnsureInstruments`, the callbacks, the SDK's reader, `Shutdown` with its last push | the startup cycle and a reload's cycle may run at once |
| `Payload` | `Num`, `Bool`, `Series.Latest`, `halList` | operators on raw scalars, lists of points and lists under two keys |
| `Collectors` | `Registry`, every collector's mapping, the Flux query table, `WithIdentity` | a collector is a set of families (name, ordered keys, type, kind of reading); `Reading` says what a kind comes to on an answer, `CollectCluster` what a cluster emits when all answer |
| `ConfigLoad` | `LoadDotEnv`, `Load`, `EffectiveLabels`, `EnvBool` | operators; what may fail yields a set, empty or of its one result |
| `Fleet` | from `.env` and the file to the samples of a cycle | composes `ConfigLoad` and `Collectors`: `Boot`, `Reload`, `Cycle` |
| `MC*` | | small instances for TLC; constants only |
| `*_proofs` | | theorems, see [section 5](#5-proofs). `CollectCycle_proofs` is also about `FanOut`, `FluxCollect_proofs` about `NodeMapper` and `FluxBuckets`, whose names (`BucketInit`, `BucketNext`, ...) therefore stay clear of `FluxCollect`'s; `Fleet_proofs` about `ConfigLoad`, `Payload` and `Collectors` |

Conventions. An operator preceded by "Fault:" is a plausible bug in the definition that follows it (a guard dropped, a
step skipped). No specification uses it; it exists to show that a property notices: with the definition replaced by
its fault, TLC finds the property violated. `PROJECT.json` lists one fault per property and run. "History" variables
are read by properties only and restrict no behaviour. A constant whose comment says "bound" caps a counter.

Abstractions. Tokens are numbers in the order of grants, 0 for the empty string. An HTTP exchange is one step, at the
moment the appliance decides the answer; acting on the answer is the next step of the caller and may come arbitrarily
late. In `CollectorRunner` a client is reduced to whether its generation has sessions, and appliances answer: what fails
a cycle there is cancellation; failures are `EcsClient`'s and `CollectCycle`'s business. A collector's answer is an error
or a number of samples in `CollectCycle`; a Flux row is what decides its fate. `time.Now` is a flag `recent` on a row. In
`Fleet` the values of dimension labels are left out, numbers are small integers, and one answer of an appliance gives
every collector its list, its series, its scalar and its flag.

## 3. Runs

Every passing run checks its invariants and temporal properties exhaustively on the instance its `.cfg` describes. All
configurations say `CHECK_DEADLOCK FALSE` except `scrape`: the others end when a bound is used up or the process exits.

| Run | Instance | What it asks and shows |
|---|---|---|
| `client` | 2 callers, 2 calls, 3 logins, 1 expiry, 1 lost exchange | `SingleFlight`; `NoOrphan` and `CloseReleasesAll` under orderly timing, for every session but the lost; `ExpiryCostsNoCall` for one goroutine; the refinement `ImplementsCell`; `CallReturns` |
| `exporter` | 2 configs, one of which makes the ticker panic, an invalid file, 2 edits, 3 applies; a signal or a server failure at any moment | edits come after the startup apply: `KeepsContract` (the process implements `SerialRunner`), `OnlyNewestPolls`, `SnapshotNeverOlder`, `NoForgottenSession` and `ShutdownLogsOut` unless an end overlapped a reload, `CutIsReplaced`, `ReloadReturns`, `LeavingExits` |
| `cycle` | 2 clusters, one of them faulty and with a clashing label, 2 collectors each, 2 cycles, 1 reload | `UpMeansData`, `WholeCycle`, `HealthyStayUp`, `CycleEnds` |
| `scrape` | 2 clusters, 2 names, snapshots of 2 or 3 samples, label lists that clash, drift, repeat and are unfit | `OneSchema`, `SeriesUnique`, `ExposesFirst`, `NothingHidden` |
| `rows` | up to 6 rows of 11, 3 hosts, 2 ids, 2 bounds | `AllOrNothing`, `CountIsInf`, `OrderIndependent` |
| `flux` | 3 Collects and a reload; first any of 62 inventories; 3 measurements; 2 rows; 9 errors | `IndexInv`, `JoinIsSound`, `OthersSurvive`, `OneWarningPerSilence`, `UnmappedTells` |
| `fanout` | 3 items, pool of 2, every subset of endpoints down, a deadline at any moment | `FailuresStayLocal`, `EachOnce` (each item once, and in inventory order for Quotas), `CollectReturns` |
| `otlp` | 2 names, 2 cycles at once, 3 snapshots, 2 pushes and the shutdown's | `OneInstrumentPerName`, `QuietPushIsTheSnapshot` |
| `fleet` | about 3500 starts: two clusters under all combinations of six flags, label sets with clashing, malformed and empty labels, one cluster's credentials over all environments and `.env` files, and an appliance that answers anything; one edit; one cycle | `OneSource`, `OneShape`, `FreshOrAbsent`, `NoSilentLoss`, `ConfigIsMeant` |
| `leak`, `stuck`, `lastedit` | | violations, see [section 6](#6-where-code-and-text-disagree) |

Why the bounds are enough for the questions asked:

- Two callers suffice for a race on the cache, the lock and `clearToken`; three logins let a session be replaced twice;
  one expiry makes one 401 or two; one lost exchange makes the retried login that leaks. Retries keep the code's count, 2.
- Two generations show every relation between an old loop and a new one; the `exporter` run has three, the startup's
  and two reloads', so that a reload meets the loop of a reload. Two actors are the number the process has.
- Two clusters are a healthy one and a faulty neighbour, which is all isolation speaks of; two collectors allow "one of
  two failed", the case between up and all down; two cycles show a mixed snapshot.
- Three nodes are needed for the index: the third claimant of a contested key is the case a two-node test misses.
  Inventories contain two domains with one bare name, upper case, a shared address and a node known by address only.
- Six rows are two whole groups with two more rows on top; the loop looks at one row at a time and keeps one value per
  group and bound.
- Three items over two places make `Go` block; two would not.
- A name's shape is a matter of two clusters that differ; flags, labels and credentials do not interact, so each file
  varies one of them. A list of three points has a newest, an older and one more of equal time or without one. A cycle
  replaces all that the one before left, so that one after an edit is as good as many (`MaxCycles`).
- Two names and three snapshots let a push find the store changed between two callbacks.

Liveness and action properties are among those above: `CallReturns`, `CutIsReplaced`,
`ReloadReturns`, `LeavingExits`, `CycleEnds`, `CollectReturns`, `LastEditRuns`; `SnapshotNeverOlder`.

`TypeOK` operators and the inductive invariants (`FlightInv`, `RenewInv`, `AccountInv` of the client; `SerialInv`, `KeptInv`;
`DutyInv`, `LeaveInv` of the process; `CountInv`, `ResultInv`, `CalmInv` of the cycle; `ItemInv`, `OutInv` of the pools;
`SentInv`, `FirstInv` of the scrape; `ConfigInv`, `CycleInv` of the fleet; `GroupInv`; `StageInv`, `SilenceInv` of the Flux collector; `InstrumentInv`, `PushInv`)
are not in the configurations. TLC has checked them on the same instances; the proofs are what keeps them.

## 4. Fairness

Weak fairness stands for "the Go scheduler runs a goroutine that can run, and what it waits for ends":

- inside a call, the requests end because the collection context has a deadline (`collector.go:86`), and resty has a
  finite number of retries;
- a cycle ends because each of its goroutines does; `CycleEnds` shows this from deadlines that fire;
- `WF_vars(MainStep)`, `ConsumerStep`, `WatcherStep`, `RunStep` are goroutines in straight-line code or in a `select`.

Strong fairness is used twice. `LockLogin`: other goroutines may take `loginMu` in between, but a `sync.Mutex` hands
itself to a waiter it has starved for a millisecond. `LoopExit` / `LoopEnds`: when a tick and `ctx.Done` are both ready,
`select` picks at random, so an exit that is possible again and again is taken in the end.

Never owed: a tick, a call, an edit, a signal, a server failure, an expiry, a push.

One assumption is about the environment and not the code: that a logout is answered. `Close` builds its request
without a context (`auth.go:62`) and the HTTP client has no timeout, so an appliance that accepts the connection and
stays silent holds up `shutdownCurrent`, and with it a reload or the end of the process. Every liveness property of the
runner and of the process rests on it.

## 5. Proofs

TLAPS checks the following for all values of the constants (any number of callers, actors, generations, clusters,
samples, rows, nodes, measurements, items, environments, configuration files, points of a reading). Every safety and
action property of the passing runs has a theorem.

| Module | Theorems | Argument |
|---|---|---|
| `EcsClient_proofs` | `TypeCorrect`, `LoginIsSingleFlighted`, `ClientImplementsCell`, `NoSessionLeaks`, `CloseLeavesNothing`, `OneExpiryIsFree` | `SingleFlight` alone is not inductive: the step into "login" needs that no other caller is inside. `FlightInv` adds that `loginMu` is held exactly by the caller in the locked part, that the cache stays empty while one logs in, and that the token about to be stored is the last granted. With it each step of the client is a step of `TokenCell` under `Phase`, or a stutter. The account of sessions needs `Books`, conditional on `Orderly` and counting the sessions of lost exchanges apart: a request carries the cached token, so that a 401 clears the token it refused and that token is dead; before an expiry nobody sends without a live token; `Close` works on the token it checked. `RenewInv` is why one expiry is free: a single goroutine that has used up its re-login carries a token granted after the expiry |
| `SerialRunner_proofs` | `RunnerTypeCorrect`, `NewestPolls`, `StoreNeverOlder`, `NoSessionForgotten` | `SerialInv`: one apply at a time, `wg` counts the one loop there can be, and from its join to its return an apply is the only one to start polling. `StoreNeverOlder` follows because the publisher is the newest generation. `Kept`, conditional on `alone`: a generation that polls is current or in the hands of an actor that has not closed it yet |
| `Exporter_proofs` | `ExporterTypeCorrect`, `ContractKept`, `ExporterNewestPolls`, `ExporterNoSessionForgotten`, `ExporterStoreNeverOlder`, `LogsOutOnShutdown` | `DutyInv` ties the job of each actor to where its goroutine stands; while edits are not early, no reload is on its way before the startup apply has returned, so an apply never meets an apply, and each step of the process is a step of `SerialRunner` or a stutter. The three properties of the runner then follow from the theorems of `SerialRunner_proofs`, taken through `INSTANCE`. `LeaveInv`: a `stop` that met no apply and is followed by none has taken the last generation or is about to; with `Kept` nothing is open at the exit |
| `CollectCycle_proofs`, on `CollectCycle` | `CycleTypeCorrect`, `UpExactlyWithData`, `SnapshotsAreWhole`, `NeighboursDoNotMatter` | `CountInv` relates `ups`, `failures`, `domain` and the samples of a goroutine, so that the verdict on the counters says what the samples say; `ResultInv` that a goroutine that is through has left a result of this cycle, and that between cycles all are through; `CalmInv` that until the loop is cancelled nothing reaches a healthy cluster's context |
| `CollectCycle_proofs`, on `FanOut` | `PoolKeepsItsLimit`, `AFailureCostsItsItem`, `ItemsComeOutOnce` | `ItemInv`: an item is untouched, under way with as many answers as requests made, or through with an answer per port and handed in; the three exclude one another by `pc` and `next`. `OutInv`: what is in the result is each item once and, for Quotas, exactly the filled slots below the one at hand, in order |
| `PromScrape_proofs` | `ScrapeTypeCorrect`, `OneKeyListPerName`, `NoSeriesTwice`, `ScrapeExposesFirst`, `LabelsHideNothing` | `SentInv`: the schema of a sent name is the key list it was sent with, and the identity of what was sent is among those seen. `FirstInv` gives `schema` and `seen` as functions of the samples visited so far. `LabelsHideNothing` needs in addition what `WithIdentity` does to a list of labels: lemmas on the selection by position (`Nth`, `Select`) show that the keys of an identity depend only on the own keys and the custom keys, and that two samples with one identity are one sample |
| `NodeMapper`, in `FluxCollect_proofs` | `IndexCorrect`, `JoinCorrect` | `IndexInv` (a key holds its one claimant among the identifiers read, or blank from the second on) is inductive as stated; a step adds one reading, and the claimants of every other key stay. At the end, `ReadAll`, the claimants are those of the whole inventory |
| `FluxCollect_proofs` | `FluxTypeCorrect`, `OneWarningEach`, `NoMeasurementSinksOthers`, `UnmappedIsTrue` | `StageInv`: before measurement `at` the samples, the count and the counter are those of the answers to the measurements before it. `SilenceInv`: a measurement is in the silence set exactly when its last answer had no rows |
| `FluxBuckets`, in `FluxCollect_proofs` | `BucketTypeCorrect`, `HistogramsAreWhole`, `TotalIsInfBucket`, `OrderDoesNotMatter` | `GroupInv` says what `bad` and `vals` hold in terms of the rows read: a group is condemned exactly if it lost a row, and a bound has a value exactly if a good row gave it one. `Assemble` then publishes exactly the complete groups, and what it publishes is a function of the set of rows (`RowsDecide`) |
| `Fleet_proofs`, the configuration | `FleetTypeCorrect`, `ConfigurationIsMeant` | `ConfigInv`: the environment is the one `.env` left, and what is in use is what it makes of the file loaded last; without the first half a reload could resolve a credential differently. The lemmas before it say what each step of `Load` returns (`SecretFacts`, `PasswordFacts`, `ExportedStay`, `ClusterFacts`), and `LabelsHaveValues` that each position of a cluster's labels holds a declared key, which needs that a finite set of numbers has an n-th element (`NthIsIn`) |
| `Fleet_proofs`, the samples | `NoListIsLost`, `ReadingsAreFresh` | `CycleInv`: what is left of a cycle was made, from the answers kept in `heard`, for a configuration that some file gives. `running` may have been replaced since, so the invariant cannot be about it. `SampleFacts` and `PartFacts` take a sample back to its family and its source; `NodesOf` gives the nodes a cluster speaks of; `LatestFacts` says which point `Latest` chooses |
| `Fleet_proofs`, the names | `ShapesAgree`, `SourcesAgree` | `KeysOf`, `TypeOf` and `OwnerOf` give keys, type and source as functions of a name and the flags; `ShapeOfName` and `OwnerOfName` check every table of every collector against them. `OneSetOfKeys`: the custom keys are those the file declares, whichever the cluster. The two sets of each property are then of one size because the names are finitely many (`TableFacts`) and the projection is a bijection |
| `OtlpExport_proofs` | `OtlpTypeCorrect`, `OneInstrumentEach`, `QuietPushIsExact` | `InstrumentInv`: one instrument per registered name, and a name of the store is registered or awaits a cycle that is on its way to register it. `PushInv`: a quiet push has observed some names of the store it began with and has the callbacks of the rest to run |

Assumptions used are the named `ASSUME`s of the modules, which TLC evaluates in the runs above, and one hypothesis written
into theorems. Those that say something about the program:

- `~EarlyEdits` (hypothesis of the five theorems of `Exporter_proofs` after the first): edits come after the startup apply. The code does not ensure
  it; without it the contract is broken, as the run `stuck` shows, so it is part of what those theorems say.
- `CustomAssumption` of `PromScrape`: the custom labels of all clusters have the same keys. `EffectiveLabels` and
  `validateLabels` see to it (`config.go:184-228`): a cluster's label must be declared globally, and gets the global value if
  it has none of its own. For the labels `Fleet` loads this is the lemma `OneSetOfKeys`.
- `NamesAssumption` of `NodeMapper`: lower-casing and `shortHost` are idempotent and commute; a node's label is one of
  its identifiers, and with an identifier its short form is one (`flux.go`, `newNodeMapper`).
- `QueriesAssumption` of `FluxCollect`: the measurements of the query table are distinct and not all are per-node ones DT owns.
- `ClustersAssumption` of `CollectCycle`: a cluster has at least one collector; `Registry` has four that are always on.
- `KeysAssumption`, `FilesAssumption`, `HostsAssumption` of `ConfigLoad` and `Fleet`: a file is a list of clusters with the
  fields of `ClusterConfig`, the environment has an entry (be it "unset") for each variable a credential refers to, and
  every host a file leads to answers something.
- `ReadingsAssumption` of `Fleet`: a time that can be read is above zero. The code counts an unreadable one as zero
  (`points.go:33`), so a point dated at or before zero could lose to an undated one; the appliance dates its points with
  the time of day.

Left to TLC:

- liveness and everything under fairness (`CallReturns`, `CutIsReplaced`, `ReloadReturns`, `LeavingExits`, `CycleEnds`,
  `CollectReturns`), which the prover does not do;
- that the three violations are reachable, which is a matter of a counterexample.

Sequences are built a step at a time by the actions, and their invariants are proved along the steps. The one recursion
is the loop of `Series.Latest`, which `Payload` writes as a recursive function. The library's induction theorems cannot
be instantiated by the provers at hand; `NewestExists` (the recursion has a solution) and `NewestIsNewest` (its value at
`i` is a position up to `i` with a greatest time) argue by the smallest counterexample instead, from the lemma
`Smallest`: a set of numbers that is not empty has a least element, as `<` on them is well founded.

## 6. Where code and text disagree

Three disagreements have a run whose expected outcome is a violation:

- `leak` (`HoldsOneToken`; ADR-0004:58 "The exporter holds exactly one token per cluster at steady state"). Two goroutines
  are refused the same expired token. The first clears it and logs in again; the second then clears the new token
  (`client.go:151` drops whatever is cached) and logs in once more. The middle session stays alive until the appliance
  ends it, and no `Close` can log it out.
- `stuck` (`ReloadReturns`; `main.go:190-191` and `230-231`). The consumer is started before the startup apply. A reload
  that reaches it then takes nothing, goes on to wait on the wait group, and is caught there by the loop the startup
  apply starts, which nobody cancels. No configuration is applied from then on. `EarlyEdits = TRUE` admits such an edit.
- `lastedit` (`LastEditRuns`; configuration.md:126). While one configuration is unread in the channel, a newer one is
  dropped (`watcher.go:87`): the exporter ends up running the older.

Further texts the model contradicts have a definition and no run of their own; each is violated within a few steps if
added to the configuration named:

| Definition | Text | What happens | Configuration |
|---|---|---|---|
| `ApplyIsSerialized` | `main.go:190-191` | the state before `stuck` | `MCExporter_stuck` |
| `NoMetricsGap` | ADR-0005 "no metrics gap", docker.md | a reload cancels a running cycle, whose cut snapshot replaces the full one until the new generation's first cycle ends; that it is replaced is `CutIsReplaced` | `MCExporter_calm` |
| `ReloadNeverCrashes` | configuration.md "an invalid file is logged and ignored" | a negative interval passes `Load` and panics in `time.NewTicker` | `MCExporter_calm` |
| `WarnedOnce` | `collector.go:35-37` "for the process's lifetime" | the memory is the Collector's, a reload makes a new one | `MCCollectCycle_cycle` |
| `PushIsOneSnapshot` | README.md:15-16, snapshot.go:18 | each callback loads the store; a cycle that ends in mid-push mixes two | `MCOtlpExport_otlp` |
| `ExpiryCostsNoCall` without `OneCaller` | ADR-0004:59 | a second goroutine clears the token the first has just obtained; the first one's retry is refused and final | `MCEcsClient_leak` |
| `ShutdownLogsOut` without `alone /\ ~late`, `LeavingExits` without its exception | docs/index.md | a `stop` that overlaps a reload's `apply` finds nothing to take, and the process ends with sessions open, or waits for a loop that a server failure does not cancel | `MCExporter_calm` |
| `AbsentNeverZero` | docs/metrics/reading.md:103-106, ADR-0007 | the DT counts are plain floats (`dt.go:22-26`): an answer without one of the elements is published as 0 | `MCFleet_fleet` |
| `PasswordFileServes` | configuration.md:61 "read and trimmed when `password` resolves empty" | a `${VAR:-}` that resolves to nothing is refused before the file is looked at | `MCFleet_fleet` |
| `GaugeOrHistogram` | `nodes.go:101-105` "the gauge and the histogram cannot both hold it" | true of each cluster (`OneSource`), not of a fleet: one with Flux exports the histogram, one without the gauge of that name | `MCFleet_fleet` |

Also configuration.md:121-122 says that `${OBS1_PASSWORD:-}` "would silently turn a missing password into an empty one";
the code refuses it, as `ConfigIsMeant` asks.

These are why several properties carry a condition: `Orderly` and `lost` in the client, `alone` in the runner, `late` and
`EarlyEdits` in the process. All but the last are history variables: behaviours outside them are explored too, and the
unconditional properties of those modules hold there as well. `EarlyEdits` is a constant, which admits edits before the
startup apply returned; the run `stuck` shows what they do.

## 7. Not modelled

- Configuration: YAML syntax, several references in one text, ports, the server and OTLP sections, `BaseURL`.
- Payload collectors: the values of dimension labels, units and scaling; which request a field comes from.
- Flux: the text of scripts, CSV-like decoding of tables, the parsing of times; a row is what decides its fate.
- Errors: their text; and which failure is retried, where `EcsClient` allows either.
- `/health`, `/livez`, `/readyz`: formatting of one loaded snapshot, and constants. `--once`: one cycle and a close.
- An OTLP instrument the SDK refuses (no name of this exporter is), and a shutdown that runs into its 5 seconds.
- Numbers, units, help texts, logging (except the warnings that are counted), TLS, and the HTTP transport.
- The capture tool, the mock appliance, the test client, charts and dashboards.

## 8. Plan

Done: all modules of section 2, their runs, and the proofs of section 5, which cover every safety and action property of
the passing runs.

Next, modules: `--once` in `Exporter`; dimension values in `Collectors`, so that `SeriesUnique` can be asked of what the
collectors emit.

Next, proofs: that the snapshots of `Fleet` are ones `PromScrape` and `OtlpExport` start from, as a refinement, in place
of `CustomAssumption` and its like; liveness of the process if a prover for it is at hand.

## 9. Running it

In this directory: `tlc -workers 2 -config MCEcsClient_client.cfg MCEcsClient` for a run (module and configuration as
`PROJECT.json` lists them), `tlapm EcsClient_proofs.tla` for a proof. The longest runs, `client`, `cycle` and `exporter`, have
244 000, 299 000 and 132 000 states and take one to two minutes each; the longest proofs take one to three minutes.
