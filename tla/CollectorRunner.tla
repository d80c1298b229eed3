-------------------------- MODULE CollectorRunner --------------------------
(***************************************************************************)
(* collectorRunner (main.go) and the Collector loops it starts             *)
(* (internal/ecs/collector.go).  Each apply() makes a new generation:      *)
(* its clients, its loop context and, in the end, its background loop.     *)
(* The goroutines that call apply() and stop() are the Actors.             *)
(*                                                                         *)
(* A cycle is one CollectOnce.  Its clients' logins are kept only as far   *)
(* as shutdown needs them: whether the generation has sessions open at the *)
(* appliances.  The appliances answer; what fails a cycle here is the      *)
(* cancellation of its context.                                            *)
(***************************************************************************)
EXTENDS Integers, FiniteSets

CONSTANTS
    Actors,       \* goroutines that call apply() or stop()
    Configs,      \* configurations apply() may be given
    NoConfig,     \* no configuration
    BadInterval,  \* those whose collection.interval is below zero
    MaxGens       \* bound: calls of apply()

ASSUME ActorsAssumption == IsFiniteSet(Actors)
ASSUME ConfigsAssumption == 
    /\ NoConfig \notin Configs
    /\ BadInterval \subseteq Configs
    /\ MaxGens \in Nat

NoGen == 0
Gens == 1 .. MaxGens

VARIABLES
    apc,        \* where each actor stands in apply() or shutdownCurrent()
    job,        \* "apply" or "stop": what the actor is executing
    arg,        \* the config given to the actor's apply()
    held,       \* generation an actor took out of the runner to shut down
    mine,       \* generation the actor's apply() built
    current,    \* r.targets and r.cancel, always set together
    gens,       \* generations built so far
    cfgOf,      \* config a generation was built from
    cancelled,  \* generations whose loop context was cancelled
    ctxDone,    \* the parent context: SIGINT or SIGTERM arrived
    loop,       \* background goroutine of each generation
    wg,         \* r.wg
    cycle,      \* where a generation's running CollectOnce stands
    sessions,   \* generations with sessions open at the appliances
    snap,       \* the published snapshot: who built it, and whether in full
    crashed,    \* the process died of a panic
    alone       \* history: no stop() has overlapped an apply() so far

actorVars == <<apc, job, arg, held, mine>>
runVars == <<current, gens, cfgOf>>
loopVars == <<loop, wg>>
cycleVars == <<cycle, sessions, snap>>
rVars == <<actorVars, runVars, cancelled, ctxDone, loopVars, cycleVars, crashed, alone>>

ActorPc == {"idle", "take", "cancel", "wait", "blocked", "close", "install", "cycle"}
LoopPc == {"none", "run", "exited"}
CyclePc == {"none", "poll", "answered", "query", "full", "cut"}
Snapshots == [gen : Gens \cup {NoGen}, full : BOOLEAN]

(* Fault: the loop's context does not descend from the signal's. *)
DoneByCancel(g) == g \in cancelled

Done(g) == ctxDone \/ g \in cancelled

RunnerInit ==
    /\ apc = [p \in Actors |-> "idle"]
    /\ job = [p \in Actors |-> "stop"]
    /\ arg = [p \in Actors |-> NoConfig]
    /\ held = [p \in Actors |-> NoGen]
    /\ mine = [p \in Actors |-> NoGen]
    /\ current = NoGen
    /\ gens = 0
    /\ cfgOf = [g \in Gens |-> NoConfig]
    /\ cancelled = {}
    /\ ctxDone = FALSE
    /\ loop = [g \in Gens |-> "none"]
    /\ wg = 0
    /\ cycle = [g \in Gens |-> "none"]
    /\ sessions = {}
    /\ snap = [gen |-> NoGen, full |-> FALSE]
    /\ crashed = FALSE
    /\ alone = TRUE

-----------------------------------------------------------------------------
(* apply() and stop() *)

At(p, there) == apc' = [apc EXCEPT ![p] = there]

Applying(p) == job[p] = "apply" /\ apc[p] # "idle"
Stopping(p) == job[p] = "stop" /\ apc[p] # "idle"

(* Applies that have begun and will still build a generation. *)
ToInstall ==
    {p \in Actors : job[p] = "apply" /\ apc[p] \notin {"idle", "cycle"}}

BeginApply(p, c) ==
    /\ apc[p] = "idle"
    /\ gens + Cardinality(ToInstall) < MaxGens
    /\ At(p, "take")
    /\ job' = [job EXCEPT ![p] = "apply"]
    /\ arg' = [arg EXCEPT ![p] = c]
    /\ alone' = (alone /\ \A q \in Actors : ~Stopping(q))
    /\ UNCHANGED <<held, mine, runVars, cancelled, ctxDone, loopVars, cycleVars, crashed>>

BeginStop(p) ==
    /\ apc[p] = "idle"
    /\ At(p, "take")
    /\ job' = [job EXCEPT ![p] = "stop"]
    /\ alone' = (alone /\ \A q \in Actors : ~Applying(q))
    /\ UNCHANGED <<arg, held, mine, runVars, cancelled, ctxDone, loopVars, cycleVars, crashed>>

(* shutdownCurrent: targets and cancel leave the runner under r.mu. *)
Take(p) ==
    /\ apc[p] = "take"
    /\ held' = [held EXCEPT ![p] = current]
    /\ current' = NoGen
    /\ At(p, "cancel")
    /\ UNCHANGED <<job, arg, mine, gens, cfgOf, cancelled, ctxDone, loopVars, cycleVars, crashed, alone>>

(* Fault: cancel is not called. *)
CancelsNone(p) == {}

Cancels(p) == {held[p]} \ {NoGen}

CancelHeld(p) ==
    /\ apc[p] = "cancel"
    /\ cancelled' = cancelled \cup Cancels(p)
    /\ At(p, "wait")
    /\ UNCHANGED <<job, arg, held, mine, runVars, ctxDone, loopVars, cycleVars, crashed, alone>>

(* Fault: no Wait. *)
NeverWaits == TRUE

Joined == wg = 0

(* r.wg.Wait(): joins the loops, not a first cycle that apply() runs       *)
(* itself.  A waiter that blocks is released by the loop that brings the   *)
(* counter to zero, see LoopExit.                                          *)
WaitLoops(p) ==
    /\ apc[p] = "wait"
    /\ At(p, IF Joined THEN "close" ELSE "blocked")
    /\ UNCHANGED <<job, arg, held, mine, runVars, cancelled, ctxDone, loopVars, cycleVars, crashed, alone>>

(* Fault: the old clients are dropped, not closed. *)
DropsHeld(p) == {}

LogsOut(p) == {held[p]}

(* closeTargets: every client of the taken generation is logged out. *)
CloseHeld(p) ==
    /\ apc[p] = "close"
    /\ sessions' = sessions \ LogsOut(p)
    /\ held' = [held EXCEPT ![p] = NoGen]
    /\ At(p, IF job[p] = "apply" THEN "install" ELSE "idle")
    /\ UNCHANGED <<job, arg, mine, runVars, cancelled, ctxDone, loopVars, cycle, snap, crashed, alone>>

(* buildTargets, NewCollector and the swap under r.mu; CollectOnce begins. *)
Install(p) ==
    /\ apc[p] = "install"
    /\ gens < MaxGens
    /\ LET g == gens + 1 IN
          /\ gens' = g
          /\ cfgOf' = [cfgOf EXCEPT ![g] = arg[p]]
          /\ current' = g
          /\ mine' = [mine EXCEPT ![p] = g]
          /\ cycle' = [cycle EXCEPT ![g] = "poll"]
    /\ At(p, "cycle")
    /\ UNCHANGED <<job, arg, held, cancelled, ctxDone, loopVars, sessions, snap, crashed, alone>>

(* Fault: wg.Add is left to a goroutine that has not run yet. *)
AddLater == wg

Added == wg + 1

(* The first cycle is published: wg.Add and the background loop. *)
Spawn(p) ==
    /\ apc[p] = "cycle"
    /\ cycle[mine[p]] = "none"
    /\ wg' = Added
    /\ loop' = [loop EXCEPT ![mine[p]] = "run"]
    /\ At(p, "idle")
    /\ UNCHANGED <<job, arg, held, mine, runVars, cancelled, ctxDone, cycleVars, crashed, alone>>

-----------------------------------------------------------------------------
(* Collector.Run and CollectOnce of one generation *)

InLoop(g) == loop[g] = "run" /\ cycle[g] = "none"

(* When the tick and ctx.Done are both ready, select takes either. *)
Tick(g) ==
    /\ InLoop(g)
    /\ cfgOf[g] \notin BadInterval
    /\ cycle' = [cycle EXCEPT ![g] = "poll"]
    /\ UNCHANGED <<actorVars, runVars, cancelled, ctxDone, loopVars, sessions, snap, crashed, alone>>

LoopExit(g) ==
    /\ InLoop(g)
    /\ cfgOf[g] \notin BadInterval
    /\ Done(g)
    /\ loop' = [loop EXCEPT ![g] = "exited"]
    /\ wg' = wg - 1
    /\ apc' = [p \in Actors |-> IF apc[p] = "blocked" /\ wg' = 0 THEN "close" ELSE apc[p]]
    /\ UNCHANGED <<job, arg, held, mine, runVars, cancelled, ctxDone, cycleVars, crashed, alone>>

(* time.NewTicker panics on an interval that is not positive. *)
TickerPanic(g) ==
    /\ InLoop(g)
    /\ cfgOf[g] \in BadInterval
    /\ crashed' = TRUE
    /\ UNCHANGED <<actorVars, runVars, cancelled, ctxDone, loopVars, cycleVars, alone>>

(* Polling starts: a client with a session uses it, another one logs in,   *)
(* and under a cancelled context no request succeeds.                      *)
Poll(g) ==
    /\ cycle[g] = "poll"
    /\ cycle' = [cycle EXCEPT ![g] =
                    IF Done(g) THEN "cut"
                    ELSE IF g \in sessions THEN "query" ELSE "answered"]
    /\ UNCHANGED <<actorVars, runVars, cancelled, ctxDone, loopVars, sessions, snap, crashed, alone>>

(* The login was answered before any cancellation; its token is stored in  *)
(* the client now, perhaps after one.                                      *)
LoggedIn(g) ==
    /\ cycle[g] = "answered"
    /\ sessions' = sessions \cup {g}
    /\ cycle' = [cycle EXCEPT ![g] = "query"]
    /\ UNCHANGED <<actorVars, runVars, cancelled, ctxDone, loopVars, snap, crashed, alone>>

(* Fault: a new loop's context descends from a cancelled one. *)
InheritsCancel(g) == IF cancelled # {} THEN "cut" ELSE "full"

(* Queries cut off by the cancellation fail: their cluster is down.        *)
Outcome(g) == IF Done(g) THEN "cut" ELSE "full"

Collected(g) ==
    /\ cycle[g] = "query"
    /\ cycle' = [cycle EXCEPT ![g] = Outcome(g)]
    /\ UNCHANGED <<actorVars, runVars, cancelled, ctxDone, loopVars, sessions, snap, crashed, alone>>

(* store.Store: whatever collectAll returned is published. *)
Publish(g) ==
    /\ cycle[g] \in {"full", "cut"}
    /\ snap' = [gen |-> g, full |-> cycle[g] = "full"]
    /\ cycle' = [cycle EXCEPT ![g] = "none"]
    /\ UNCHANGED <<actorVars, runVars, cancelled, ctxDone, loopVars, sessions, crashed, alone>>

ActorStep(p) ==
    \/ Take(p) \/ CancelHeld(p) \/ WaitLoops(p) \/ CloseHeld(p)
    \/ Install(p) \/ Spawn(p)

CycleStep(g) == Poll(g) \/ LoggedIn(g) \/ Collected(g) \/ Publish(g)

LoopStep(g) == Tick(g) \/ LoopExit(g) \/ TickerPanic(g)

(* Properties of the runner's state, stated here once for the modules that *)
(* call it.                                                                *)

(* Types of the variables. *)
RunnerTypeOK ==
    /\ apc \in [Actors -> ActorPc]
    /\ job \in [Actors -> {"apply", "stop"}]
    /\ arg \in [Actors -> Configs \cup {NoConfig}]
    /\ held \in [Actors -> Gens \cup {NoGen}]
    /\ mine \in [Actors -> Gens \cup {NoGen}]
    /\ current \in Gens \cup {NoGen}
    /\ gens \in 0 .. MaxGens
    /\ cfgOf \in [Gens -> Configs \cup {NoConfig}]
    /\ cancelled \subseteq Gens
    /\ ctxDone \in BOOLEAN
    /\ loop \in [Gens -> LoopPc]
    /\ wg \in Int
    /\ cycle \in [Gens -> CyclePc]
    /\ sessions \subseteq Gens
    /\ snap \in Snapshots
    /\ crashed \in BOOLEAN /\ alone \in BOOLEAN

(* main.go:207-209, ADR-0005 "rebuild-and-swap": an apply joins the old    *)
(* loop before it builds, so that only the newest generation polls; two    *)
(* loops never poll the same clusters.                                     *)
OnlyNewestPolls ==
    \A g \in Gens : loop[g] = "run" \/ cycle[g] # "none" => g = gens

(* The shared SnapshotStore never goes back to a snapshot that a replaced  *)
(* configuration collected.                                                *)
SnapshotNeverOlder == [][snap'.gen >= snap.gen]_snap

(* Every generation with sessions is the current one or in the hands of a  *)
(* shutdownCurrent that will close it.                                     *)
SessionsKept == \A g \in sessions : g = current \/ \E p \in Actors : held[p] = g

(* main.go:289-290: as long as no stop() overlapped an apply() no client   *)
(* is dropped while it holds a session.                                    *)
NoForgottenSession == alone => SessionsKept

=============================================================================
