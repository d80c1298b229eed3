------------------------------ MODULE Exporter ------------------------------
(***************************************************************************)
(* The exporter process: run() in main.go with its goroutines, and the     *)
(* config watcher (internal/config/watcher.go), on top of CollectorRunner. *)
(*                                                                         *)
(*   Main      applies the startup config, waits for the end, stops        *)
(*   Consumer  receives from Updates() and applies                         *)
(*   watcher   turns a file event or SIGHUP into Load and a send           *)
(*                                                                         *)
(* The operator edits the file, sends SIGHUP and SIGTERM; the HTTP server  *)
(* may fail.  EarlyEdits restricts when edits come, not what the code does. *)
(***************************************************************************)
EXTENDS CollectorRunner

CONSTANTS
    Main, Consumer,   \* the two actors
    Startup,          \* the config the process is started with
    Invalid,          \* a file content that Load refuses
    MaxEvents,        \* bound: edits and SIGHUPs
    EarlyEdits,       \* TRUE: the file may change before the first apply returned
    Endings           \* what may end the process: subset of {"signal", "server"}

ASSUME ExporterAssumption ==
    /\ Main # Consumer
    /\ Actors = {Main, Consumer}
    /\ Startup \in Configs \ BadInterval
    /\ Invalid \notin Configs \cup {NoConfig}
    /\ MaxEvents \in Nat
    /\ EarlyEdits \in BOOLEAN
    /\ Endings \subseteq {"signal", "server"}

VARIABLES
    mpc,       \* where run() stands
    cpc,       \* where the consumer goroutine stands
    wpc,       \* where the watcher's loop stands
    file,      \* content of the config file
    events,    \* edits and SIGHUPs so far
    pending,   \* events the watcher's loop has not received
    loaded,    \* config reload() is about to send
    updates,   \* the Updates() channel, capacity one
    srvDown,   \* ListenAndServe returned an error
    late       \* history: the consumer began an apply() after run() returned

procVars == <<mpc, cpc, srvDown, late>>
watchVars == <<wpc, file, events, pending, loaded, updates>>
vars == <<rVars, procVars, watchVars>>

Init ==
    /\ RunnerInit
    /\ mpc = "boot" /\ cpc = "recv" /\ wpc = "select"
    /\ file = Startup
    /\ events = 0 /\ pending = 0
    /\ loaded = NoConfig /\ updates = NoConfig
    /\ srvDown = FALSE /\ late = FALSE

Leaving == ctxDone \/ srvDown

-----------------------------------------------------------------------------
(* The operator *)

MayEdit ==
    /\ events < MaxEvents
    /\ ~Leaving
    /\ EarlyEdits \/ mpc \notin {"boot", "apply"}

Edit ==
    /\ MayEdit
    /\ file' \in Configs \cup {Invalid}
    /\ events' = events + 1
    /\ pending' = pending + 1
    /\ UNCHANGED <<rVars, procVars, wpc, loaded, updates>>

Signal ==
    /\ ~Leaving /\ "signal" \in Endings
    /\ ctxDone' = TRUE
    /\ UNCHANGED <<actorVars, runVars, cancelled, loopVars, cycleVars, crashed, alone,
                   procVars, watchVars>>

ServerFails ==
    /\ ~Leaving /\ "server" \in Endings
    /\ srvDown' = TRUE
    /\ UNCHANGED <<rVars, mpc, cpc, late, watchVars>>

-----------------------------------------------------------------------------
(* The watcher *)

(* loop() receives an event and reload() loads the file; an invalid one is *)
(* logged and that is all.                                                 *)
Reload ==
    /\ wpc = "select"
    /\ pending > 0
    /\ pending' = pending - 1
    /\ IF file = Invalid
       THEN UNCHANGED <<wpc, loaded>>
       ELSE wpc' = "send" /\ loaded' = file
    /\ UNCHANGED <<rVars, procVars, file, events, updates>>

(* The send does not block: a config nobody has received yet stays, and    *)
(* the one just loaded is dropped.                                         *)
Send ==
    /\ wpc = "send"
    /\ updates' = IF updates = NoConfig THEN loaded ELSE updates
    /\ loaded' = NoConfig
    /\ wpc' = "select"
    /\ UNCHANGED <<rVars, procVars, file, events, pending>>

(* After w.Close() select may still take an event that was ready before.   *)
WatcherQuits ==
    /\ wpc = "select"
    /\ mpc = "stop"
    /\ wpc' = "gone"
    /\ UNCHANGED <<rVars, procVars, file, events, pending, loaded, updates>>

-----------------------------------------------------------------------------
(* The consumer goroutine *)

Receive ==
    /\ cpc = "recv"
    /\ updates # NoConfig
    /\ BeginApply(Consumer, updates)
    /\ updates' = NoConfig
    /\ cpc' = "apply"
    /\ late' = (late \/ mpc = "stop")
    /\ UNCHANGED <<mpc, srvDown, wpc, file, events, pending, loaded>>

Applied ==
    /\ cpc = "apply"
    /\ apc[Consumer] = "idle"
    /\ cpc' = "recv"
    /\ UNCHANGED <<rVars, mpc, srvDown, late, watchVars>>

ConsumerQuits ==
    /\ cpc = "recv"
    /\ ctxDone
    /\ cpc' = "gone"
    /\ UNCHANGED <<rVars, mpc, srvDown, late, watchVars>>

-----------------------------------------------------------------------------
(* run() *)

FirstApply ==
    /\ mpc = "boot"
    /\ BeginApply(Main, Startup)
    /\ mpc' = "apply"
    /\ UNCHANGED <<cpc, srvDown, late, watchVars>>

(* Fault: the startup config is applied by a goroutine. *)
NotAwaited == TRUE

FirstApplied == apc[Main] = "idle"

(* The initial apply returned: run() selects on the server and the signal. *)
Serving ==
    /\ mpc = "apply"
    /\ FirstApplied
    /\ mpc' = "select"
    /\ UNCHANGED <<rVars, cpc, srvDown, late, watchVars>>

(* Fault: run() does not look at the server's error. *)
SeesSignalOnly == ctxDone

SeesEnd == ctxDone \/ srvDown

(* run() returns; its deferred calls begin: w.Close, then runner.stop. *)
Leave ==
    /\ mpc = "select"
    /\ SeesEnd
    /\ BeginStop(Main)
    /\ mpc' = "stop"
    /\ UNCHANGED <<cpc, srvDown, late, watchVars>>

(* Fault: the process does not wait for stop(). *)
Hasty == TRUE

Stopped == apc[Main] = "idle"

(* The process ends, whatever its other goroutines are doing. *)
Exit ==
    /\ mpc = "stop"
    /\ Stopped
    /\ mpc' = "exit"
    /\ UNCHANGED <<rVars, cpc, srvDown, late, watchVars>>

-----------------------------------------------------------------------------

Up == ~crashed /\ mpc # "exit"

MainStep == Up /\ (FirstApply \/ Serving \/ Leave \/ Exit)
ConsumerStep == Up /\ (Receive \/ Applied \/ ConsumerQuits)
WatcherStep == Up /\ (Reload \/ Send \/ WatcherQuits)
RunStep(p) == Up /\ ActorStep(p) /\ UNCHANGED <<procVars, watchVars>>
PollStep(g) == Up /\ CycleStep(g) /\ UNCHANGED <<procVars, watchVars>>
LoopEnds(g) == Up /\ LoopExit(g) /\ UNCHANGED <<procVars, watchVars>>
Panics(g) == Up /\ TickerPanic(g) /\ UNCHANGED <<procVars, watchVars>>
Ticks(g) == Up /\ Tick(g) /\ UNCHANGED <<procVars, watchVars>>
Operator == Up /\ (Edit \/ Signal \/ ServerFails)

Next ==
    \/ MainStep \/ ConsumerStep \/ WatcherStep \/ Operator
    \/ \E p \in Actors : RunStep(p)
    \/ \E g \in Gens : PollStep(g) \/ LoopEnds(g) \/ Panics(g) \/ Ticks(g)

(* Goroutines that can run do run; a cycle ends within collection.timeout; *)
(* a logout is answered; select, which picks among ready cases at random,  *)
(* does not pass over ctx.Done for ever.  Ticks, edits, signals and server *)
(* failures are never owed.                                                *)
Fairness ==
    /\ WF_vars(MainStep) /\ WF_vars(ConsumerStep) /\ WF_vars(WatcherStep)
    /\ \A p \in Actors : WF_vars(RunStep(p))
    /\ \A g \in Gens : WF_vars(PollStep(g)) /\ WF_vars(Panics(g)) /\ SF_vars(LoopEnds(g))

Spec == Init /\ [][Next]_vars
FairSpec == Spec /\ Fairness

-----------------------------------------------------------------------------
(* Properties *)

(* Types of the process's own variables. *)
TypeOK ==
    /\ RunnerTypeOK
    /\ mpc \in {"boot", "apply", "select", "stop", "exit"}
    /\ cpc \in {"recv", "apply", "gone"}
    /\ wpc \in {"select", "send", "gone"}
    /\ file \in Configs \cup {Invalid}
    /\ events \in 0 .. MaxEvents /\ pending \in 0 .. MaxEvents
    /\ loaded \in Configs \cup {NoConfig}
    /\ updates \in Configs \cup {NoConfig}
    /\ srvDown \in BOOLEAN /\ late \in BOOLEAN

(* main.go:190-191: "apply() is serialized by the single watcher goroutine *)
(* (plus the one startup call), so it needs no caller-side locking".       *)
ApplyIsSerialized == ~(Applying(Main) /\ Applying(Consumer))

(* The process keeps the contract SerialRunner puts on the runner's        *)
(* callers, hence everything shown there, as long as no edit meets the     *)
(* startup apply.                                                          *)
Serial == INSTANCE SerialRunner

KeepsContract == Serial!Spec

(* No reload has begun: nothing is on its way from the file to an apply(). *)
NoReload == pending = 0 /\ wpc # "send" /\ updates = NoConfig /\ cpc # "apply"

(* What makes KeepsContract inductive: each actor's work goes with where   *)
(* its goroutine stands, and the consumer has none before the startup      *)
(* apply has returned.                                                     *)
DutyInv ==
    /\ pending <= events
    /\ ~EarlyEdits /\ mpc \in {"boot", "apply"} => NoReload
    /\ mpc \in {"boot", "select", "exit"} => apc[Main] = "idle"
    /\ mpc = "apply" => job[Main] = "apply"
    /\ mpc = "stop" => job[Main] = "stop"
    /\ cpc # "apply" => apc[Consumer] = "idle"
    /\ apc[Consumer] # "idle" => job[Consumer] = "apply"

(* What makes ShutdownLogsOut inductive: a stop() that met no apply() and  *)
(* is followed by none has taken the last generation, or is about to.      *)
LeaveInv ==
    mpc \in {"stop", "exit"} /\ alone /\ ~late =>
        /\ apc[Consumer] = "idle"
        /\ apc[Main] = "take" \/ current = NoGen

(* docs/index.md: "the exporter logs out of every cluster on shutdown": it *)
(* does unless the stop() of run() met an apply(), or one began after it.  *)
ShutdownLogsOut == mpc = "exit" /\ alone /\ ~late => sessions = {}

(* ADR-0005 "no metrics gap", docs/deployment/docker.md "/metrics keeps    *)
(* serving the last snapshot throughout": while the exporter is up, a full *)
(* snapshot is not replaced by one whose cycle was cut short.              *)
NoMetricsGap == [][(snap.full /\ ~Leaving) => snap'.full]_snap

(* A snapshot cut short by a reload is not the last word: the generation   *)
(* that replaces it publishes a full one, unless it is shut down in turn.  *)
CutIsReplaced ==
    (current # NoGen /\ snap.gen # NoGen /\ ~snap.full) ~>
        (snap.full \/ Leaving \/ current = NoGen \/ ~Up)

(* docs/getting-started/configuration.md: "an invalid file is logged and   *)
(* ignored, keeping the running config": no content of the file brings the *)
(* process down.                                                           *)
ReloadNeverCrashes == ~crashed

(* A reload that began comes to its end, so the next one can be applied,   *)
(* for as long as the process is up and no stop() has met an apply().      *)
ReloadReturns == cpc = "apply" ~> (cpc = "recv" \/ ~Up \/ ~alone)

(* docs/getting-started/configuration.md: "The exporter reloads the config *)
(* ... when the file changes on disk": when the edits are over the running *)
(* generation is the file's, unless the exporter is told to leave.         *)
LastEditRuns ==
    <>Leaving \/ <>[](file # Invalid => current # NoGen /\ cfgOf[current] = file)

(* Told to leave the process does exit, whatever reload its stop() meets   *)
(* if a signal ended it; after the failure of the server, which cancels no *)
(* context, if its stop() met none.                                        *)
LeavingExits == Leaving ~> (~Up \/ (srvDown /\ ~alone))

=============================================================================
