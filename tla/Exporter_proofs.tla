--------------------------- MODULE Exporter_proofs ---------------------------
(***************************************************************************)
(* Proofs about Exporter: the process keeps the contract SerialRunner puts *)
(* on the runner's callers, so that what SerialRunner_proofs shows of any  *)
(* callers holds of it, and it logs out when it is shut down; for any      *)
(* configurations, events and reloads.                                     *)
(***************************************************************************)
EXTENDS Exporter, TLAPS

(* The proofs about the runner under any callers that keep the contract. *)
Runner == INSTANCE SerialRunner_proofs

USE DEF FirstApplied, SeesEnd, Stopped

-----------------------------------------------------------------------------
(* The runner's definitions, which Exporter has by EXTENDS, are those the  *)
(* two instances name.                                                     *)

(* What an actor does in apply() and stop(). *)
LEMMA SameActorStep ==
    ASSUME NEW p
    PROVE  /\ Serial!ActorStep(p) <=> ActorStep(p)
           /\ Runner!ActorStep(p) <=> ActorStep(p)
<1>1. /\ Serial!Take(p) <=> Take(p)
      /\ Runner!Take(p) <=> Take(p)
  BY DEF Take, Serial!Take, Runner!Take, At, Serial!At, Runner!At,
         NoGen, Serial!NoGen, Runner!NoGen, loopVars, Serial!loopVars, Runner!loopVars,
         cycleVars, Serial!cycleVars, Runner!cycleVars
<1>2. /\ Serial!CancelHeld(p) <=> CancelHeld(p)
      /\ Runner!CancelHeld(p) <=> CancelHeld(p)
  BY DEF CancelHeld, Serial!CancelHeld, Runner!CancelHeld, At, Serial!At, Runner!At,
         Cancels, Serial!Cancels, Runner!Cancels, NoGen, Serial!NoGen, Runner!NoGen,
         runVars, Serial!runVars, Runner!runVars, loopVars, Serial!loopVars,
         Runner!loopVars, cycleVars, Serial!cycleVars, Runner!cycleVars
<1>3. /\ Serial!WaitLoops(p) <=> WaitLoops(p)
      /\ Runner!WaitLoops(p) <=> WaitLoops(p)
  BY DEF WaitLoops, Serial!WaitLoops, Runner!WaitLoops, At, Serial!At, Runner!At,
         Joined, Serial!Joined, Runner!Joined, runVars, Serial!runVars, Runner!runVars,
         loopVars, Serial!loopVars, Runner!loopVars, cycleVars, Serial!cycleVars,
         Runner!cycleVars
<1>4. /\ Serial!CloseHeld(p) <=> CloseHeld(p)
      /\ Runner!CloseHeld(p) <=> CloseHeld(p)
  BY DEF CloseHeld, Serial!CloseHeld, Runner!CloseHeld, At, Serial!At, Runner!At,
         LogsOut, Serial!LogsOut, Runner!LogsOut, NoGen, Serial!NoGen, Runner!NoGen,
         runVars, Serial!runVars, Runner!runVars, loopVars, Serial!loopVars, Runner!loopVars
<1>5. /\ Serial!Install(p) <=> Install(p)
      /\ Runner!Install(p) <=> Install(p)
  BY DEF Install, Serial!Install, Runner!Install, At, Serial!At, Runner!At,
         loopVars, Serial!loopVars, Runner!loopVars
<1>6. /\ Serial!Spawn(p) <=> Spawn(p)
      /\ Runner!Spawn(p) <=> Spawn(p)
  BY DEF Spawn, Serial!Spawn, Runner!Spawn, At, Serial!At, Runner!At,
         Added, Serial!Added, Runner!Added, runVars, Serial!runVars, Runner!runVars,
         cycleVars, Serial!cycleVars, Runner!cycleVars
<1>7. QED
  BY <1>1, <1>2, <1>3, <1>4, <1>5, <1>6
     DEF ActorStep, Serial!ActorStep, Runner!ActorStep

(* What a collection cycle does. *)
LEMMA SameCycleStep ==
    ASSUME NEW g
    PROVE  /\ Serial!CycleStep(g) <=> CycleStep(g)
           /\ Runner!CycleStep(g) <=> CycleStep(g)
<1> USE DEF actorVars, Serial!actorVars, Runner!actorVars, runVars, Serial!runVars,
            Runner!runVars, loopVars, Serial!loopVars, Runner!loopVars,
            Done, Serial!Done, Runner!Done
<1>1. /\ Serial!Poll(g) <=> Poll(g)
      /\ Runner!Poll(g) <=> Poll(g)
  BY DEF Poll, Serial!Poll, Runner!Poll
<1>2. /\ Serial!LoggedIn(g) <=> LoggedIn(g)
      /\ Runner!LoggedIn(g) <=> LoggedIn(g)
  BY DEF LoggedIn, Serial!LoggedIn, Runner!LoggedIn
<1>3. /\ Serial!Collected(g) <=> Collected(g)
      /\ Runner!Collected(g) <=> Collected(g)
  BY DEF Collected, Serial!Collected, Runner!Collected, Outcome, Serial!Outcome,
         Runner!Outcome
<1>4. /\ Serial!Publish(g) <=> Publish(g)
      /\ Runner!Publish(g) <=> Publish(g)
  BY DEF Publish, Serial!Publish, Runner!Publish
<1>5. QED
  BY <1>1, <1>2, <1>3, <1>4 DEF CycleStep, Serial!CycleStep, Runner!CycleStep

(* What a background loop does. *)
LEMMA SameLoopStep ==
    ASSUME NEW g
    PROVE  /\ Serial!LoopStep(g) <=> LoopStep(g)
           /\ Runner!LoopStep(g) <=> LoopStep(g)
<1> USE DEF actorVars, Serial!actorVars, Runner!actorVars, runVars, Serial!runVars,
            Runner!runVars, loopVars, Serial!loopVars, Runner!loopVars,
            cycleVars, Serial!cycleVars, Runner!cycleVars,
            InLoop, Serial!InLoop, Runner!InLoop, Done, Serial!Done, Runner!Done
<1>1. /\ Serial!Tick(g) <=> Tick(g)
      /\ Runner!Tick(g) <=> Tick(g)
  BY DEF Tick, Serial!Tick, Runner!Tick
<1>2. /\ Serial!LoopExit(g) <=> LoopExit(g)
      /\ Runner!LoopExit(g) <=> LoopExit(g)
  BY DEF LoopExit, Serial!LoopExit, Runner!LoopExit
<1>3. /\ Serial!TickerPanic(g) <=> TickerPanic(g)
      /\ Runner!TickerPanic(g) <=> TickerPanic(g)
  BY DEF TickerPanic, Serial!TickerPanic, Runner!TickerPanic
<1>4. QED
  BY <1>1, <1>2, <1>3 DEF LoopStep, Serial!LoopStep, Runner!LoopStep

(* How an apply() and a stop() begin. *)
LEMMA SameBegin ==
    ASSUME NEW p
    PROVE  /\ \A k : Serial!BeginApply(p, k) <=> BeginApply(p, k)
           /\ \A k : Runner!BeginApply(p, k) <=> BeginApply(p, k)
           /\ Serial!BeginStop(p) <=> BeginStop(p)
           /\ Runner!BeginStop(p) <=> BeginStop(p)
<1> USE DEF At, Serial!At, Runner!At, Applying, Serial!Applying, Runner!Applying,
            Stopping, Serial!Stopping, Runner!Stopping, runVars, Serial!runVars,
            Runner!runVars, loopVars, Serial!loopVars, Runner!loopVars,
            cycleVars, Serial!cycleVars, Runner!cycleVars
<1>1. /\ Serial!BeginStop(p) <=> BeginStop(p)
      /\ Runner!BeginStop(p) <=> BeginStop(p)
  BY DEF BeginStop, Serial!BeginStop, Runner!BeginStop
<1>2. /\ Serial!Cardinality(Serial!ToInstall) = Cardinality(ToInstall)
      /\ Runner!Cardinality(Runner!ToInstall) = Cardinality(ToInstall)
  BY DEF ToInstall, Serial!ToInstall, Runner!ToInstall, Cardinality,
         Serial!Cardinality, Runner!Cardinality
<1>3. ASSUME NEW k
      PROVE  /\ Serial!BeginApply(p, k) <=> BeginApply(p, k)
             /\ Runner!BeginApply(p, k) <=> BeginApply(p, k)
  BY <1>2 DEF BeginApply, Serial!BeginApply, Runner!BeginApply
<1>4. QED
  BY <1>1, <1>3

(* One apply() at a time. *)
LEMMA SameSerialApply ==
    ASSUME NEW p, NEW k
    PROVE  /\ Serial!SerialApply(p, k) <=>
                (\A q \in Actors : ~Applying(q)) /\ BeginApply(p, k)
           /\ Runner!SerialApply(p, k) <=>
                (\A q \in Actors : ~Applying(q)) /\ BeginApply(p, k)
BY SameBegin
   DEF Serial!SerialApply, Runner!SerialApply, Applying, Serial!Applying, Runner!Applying

(* The two instances are one specification. *)
LEMMA SameSpec == Serial!Spec <=> Runner!Spec
<1>1. Serial!RunnerInit <=> Runner!RunnerInit
  BY DEF Serial!RunnerInit, Runner!RunnerInit, Serial!NoGen, Runner!NoGen,
         Serial!Gens, Runner!Gens
<1>2. Serial!ParentCancel <=> Runner!ParentCancel
  BY DEF Serial!ParentCancel, Runner!ParentCancel, Serial!actorVars, Runner!actorVars,
         Serial!runVars, Runner!runVars, Serial!loopVars, Runner!loopVars,
         Serial!cycleVars, Runner!cycleVars
<1>3. Serial!Gens = Runner!Gens
  BY DEF Serial!Gens, Runner!Gens
<1>4. Serial!Next <=> Runner!Next
  BY <1>2, <1>3, SameActorStep, SameCycleStep, SameLoopStep, SameBegin, SameSerialApply
     DEF Serial!Next, Runner!Next
<1>5. [Serial!Next]_Serial!rVars <=> [Runner!Next]_Runner!rVars
  BY <1>4 DEF Serial!rVars, Runner!rVars, Serial!actorVars, Runner!actorVars,
              Serial!runVars, Runner!runVars, Serial!loopVars, Runner!loopVars,
              Serial!cycleVars, Runner!cycleVars
<1>6. QED
  BY <1>1, <1>5, PTL DEF Serial!Spec, Runner!Spec

(* The instance's assumptions are the runner's. *)
LEMMA RunnerAssumptions == Runner!ActorsAssumption /\ Runner!ConfigsAssumption
BY ActorsAssumption, ConfigsAssumption
   DEF Runner!ActorsAssumption, Runner!ConfigsAssumption, Runner!IsFiniteSet, IsFiniteSet

-----------------------------------------------------------------------------
(* Every step of the process, seen from the runner *)

(* What a step does to the runner: an actor begins, goes on, a generation  *)
(* polls, the signal arrives, or nothing.                                  *)
LEMMA RunnerSteps ==
    ASSUME [Next]_vars
    PROVE  \/ ~crashed /\ FirstApply
           \/ ~crashed /\ Receive
           \/ ~crashed /\ Leave
           \/ ~crashed /\ Signal
           \/ \E p \in Actors : ~crashed /\ ActorStep(p)
           \/ \E g \in Gens : ~crashed /\ (CycleStep(g) \/ LoopStep(g))
           \/ UNCHANGED rVars
<1>1. CASE MainStep
  BY <1>1 DEF MainStep, Up, Serving, Exit
<1>2. CASE ConsumerStep
  BY <1>2 DEF ConsumerStep, Up, Applied, ConsumerQuits
<1>3. CASE WatcherStep
  BY <1>3 DEF WatcherStep, Reload, Send, WatcherQuits
<1>4. CASE Operator
  BY <1>4 DEF Operator, Up, Edit, ServerFails
<1>5. CASE \E p \in Actors : RunStep(p)
  BY <1>5 DEF RunStep, Up
<1>6. CASE \E g \in Gens : PollStep(g) \/ LoopEnds(g) \/ Panics(g) \/ Ticks(g)
  BY <1>6 DEF PollStep, LoopEnds, Panics, Ticks, Up, LoopStep
<1>7. CASE UNCHANGED vars
  BY <1>7 DEF vars
<1>8. QED
  BY <1>1, <1>2, <1>3, <1>4, <1>5, <1>6, <1>7 DEF Next

(* Neither an actor nor a generation starts an actor that is idle. *)
LEMMA IdleStays ==
    ASSUME RunnerTypeOK,
           \/ \E p \in Actors : ActorStep(p)
           \/ \E g \in Gens : CycleStep(g) \/ LoopStep(g)
    PROVE  /\ job' = job
           /\ \A q \in Actors : apc[q] = "idle" => apc'[q] = "idle"
<1> USE DEF RunnerTypeOK
<1>1. ASSUME NEW p \in Actors, ActorStep(p)
      PROVE  job' = job /\ \A q \in Actors : apc[q] = "idle" => apc'[q] = "idle"
  BY <1>1 DEF ActorStep, Take, CancelHeld, WaitLoops, CloseHeld, Install, Spawn, At
<1>2. ASSUME NEW g \in Gens, CycleStep(g)
      PROVE  job' = job /\ \A q \in Actors : apc[q] = "idle" => apc'[q] = "idle"
  BY <1>2 DEF CycleStep, Poll, LoggedIn, Collected, Publish, actorVars
<1>3. ASSUME NEW g \in Gens, LoopStep(g)
      PROVE  job' = job /\ \A q \in Actors : apc[q] = "idle" => apc'[q] = "idle"
  BY <1>3 DEF LoopStep, Tick, LoopExit, TickerPanic, actorVars
<1>4. QED
  BY <1>1, <1>2, <1>3

-----------------------------------------------------------------------------
(* Types, and each actor's work *)

(* What is proved together: the types, and who is at what. *)
ProcInv == TypeOK /\ DutyInv

(* The runner's type invariant is the instance's. *)
LEMMA SameTypes == RunnerTypeOK <=> Runner!RunnerTypeOK
BY DEF RunnerTypeOK, Runner!RunnerTypeOK, ActorPc, Runner!ActorPc, LoopPc, Runner!LoopPc,
       CyclePc, Runner!CyclePc, Snapshots, Runner!Snapshots, Gens, Runner!Gens,
       NoGen, Runner!NoGen

(* Its initial states too. *)
LEMMA SameInit == RunnerInit <=> Runner!RunnerInit
BY DEF RunnerInit, Runner!RunnerInit, Gens, Runner!Gens, NoGen, Runner!NoGen

(* The actors are the two goroutines. *)
LEMMA TwoActors == Actors = {Main, Consumer} /\ Main # Consumer
BY ExporterAssumption

(* The process starts in a state of the right types, with nobody at work. *)
LEMMA ProcInit == Init => ProcInv
<1> SUFFICES ASSUME Init PROVE ProcInv
  OBVIOUS
<1>1. RunnerTypeOK
  <2>1. Runner!RunnerInit
    BY SameInit DEF Init
  <2>2. Runner!RunnerTypeOK
    BY <2>1, Runner!TypeInit, RunnerAssumptions
  <2>3. QED
    BY <2>2, SameTypes
<1>2. DutyInv
  BY TwoActors, ExporterAssumption DEF Init, RunnerInit, DutyInv, NoReload
<1>3. events \in 0 .. MaxEvents /\ pending \in 0 .. MaxEvents
  BY ExporterAssumption DEF Init
<1>4. file \in Configs \cup {Invalid}
  BY ExporterAssumption DEF Init
<1>5. TypeOK
  BY <1>1, <1>3, <1>4 DEF Init, TypeOK
<1>6. QED
  BY <1>2, <1>5 DEF ProcInv

(* Beginning an apply() keeps the runner's types. *)
LEMMA BeginTypes ==
    ASSUME RunnerTypeOK, NEW p \in Actors, NEW k \in Configs, BeginApply(p, k)
    PROVE  RunnerTypeOK'
<1>1. /\ apc' \in [Actors -> ActorPc]
      /\ job' \in [Actors -> {"apply", "stop"}]
      /\ arg' \in [Actors -> Configs \cup {NoConfig}]
  BY DEF RunnerTypeOK, BeginApply, At, ActorPc
<1>2. alone' \in BOOLEAN
  BY DEF RunnerTypeOK, BeginApply
<1>3. QED
  BY <1>1, <1>2 DEF RunnerTypeOK, BeginApply, runVars, loopVars, cycleVars

(* A step that is one of the contract's keeps the runner's types. *)
LEMMA SerialTypes ==
    ASSUME RunnerTypeOK, [Runner!Next]_Runner!rVars
    PROVE  RunnerTypeOK'
<1>1. Runner!RunnerTypeOK
  BY SameTypes
<1>2. Runner!RunnerTypeOK'
  BY <1>1, Runner!TypeStep, RunnerAssumptions
<1>3. RunnerTypeOK' <=> Runner!RunnerTypeOK'
  BY DEF RunnerTypeOK, Runner!RunnerTypeOK, ActorPc, Runner!ActorPc, LoopPc, Runner!LoopPc,
         CyclePc, Runner!CyclePc, Snapshots, Runner!Snapshots, Gens, Runner!Gens,
         NoGen, Runner!NoGen
<1>4. QED
  BY <1>2, <1>3

(* Every step of the process keeps the runner's types. *)
LEMMA RunnerTypesStep ==
    ASSUME TypeOK, [Next]_vars
    PROVE  RunnerTypeOK'
<1>1. RunnerTypeOK
  BY DEF TypeOK
<1>2. CASE FirstApply
  BY <1>1, <1>2, BeginTypes, TwoActors, ExporterAssumption DEF FirstApply
<1>3. CASE Receive
  BY <1>1, <1>3, BeginTypes, TwoActors DEF Receive, TypeOK
<1>4. CASE ~crashed /\ Leave
  <2>1. Runner!Next
    BY <1>4, SameBegin, TwoActors DEF Leave, Runner!Next
  <2>2. QED
    BY <1>1, <2>1, SerialTypes
<1>5. CASE ~crashed /\ Signal
  <2>1. Runner!ParentCancel
    BY <1>5 DEF Signal, Leaving, Runner!ParentCancel, actorVars, Runner!actorVars,
         runVars, Runner!runVars, loopVars, Runner!loopVars, cycleVars, Runner!cycleVars
  <2>2. Runner!Next
    BY <1>5, <2>1 DEF Runner!Next
  <2>3. QED
    BY <1>1, <2>2, SerialTypes
<1>6. CASE \E p \in Actors : ~crashed /\ ActorStep(p)
  <2>1. Runner!Next
    BY <1>6, SameActorStep DEF Runner!Next
  <2>2. QED
    BY <1>1, <2>1, SerialTypes
<1>7. CASE \E g \in Gens : ~crashed /\ (CycleStep(g) \/ LoopStep(g))
  <2>1. Runner!Next
    BY <1>7, SameCycleStep, SameLoopStep DEF Runner!Next, Gens, Runner!Gens
  <2>2. QED
    BY <1>1, <2>1, SerialTypes
<1>8. CASE UNCHANGED rVars
  <2>1. UNCHANGED Runner!rVars
    BY <1>8 DEF rVars, Runner!rVars, actorVars, Runner!actorVars, runVars, Runner!runVars,
           loopVars, Runner!loopVars, cycleVars, Runner!cycleVars
  <2>2. QED
    BY <1>1, <2>1, SerialTypes
<1>9. QED
  BY <1>2, <1>3, <1>4, <1>5, <1>6, <1>7, <1>8, RunnerSteps

(* Every step of the process keeps its own variables' types. *)
LEMMA OwnTypesStep ==
    ASSUME TypeOK, DutyInv, [Next]_vars
    PROVE  /\ mpc' \in {"boot", "apply", "select", "stop", "exit"}
           /\ cpc' \in {"recv", "apply", "gone"}
           /\ wpc' \in {"select", "send", "gone"}
           /\ file' \in Configs \cup {Invalid}
           /\ events' \in 0 .. MaxEvents /\ pending' \in 0 .. MaxEvents
           /\ pending' <= events'
           /\ loaded' \in Configs \cup {NoConfig}
           /\ updates' \in Configs \cup {NoConfig}
           /\ srvDown' \in BOOLEAN /\ late' \in BOOLEAN
<1> USE ExporterAssumption DEF TypeOK, DutyInv, procVars, watchVars
<1>1. CASE MainStep
  BY <1>1 DEF MainStep, FirstApply, Serving, Leave, Exit
<1>2. CASE ConsumerStep
  BY <1>2 DEF ConsumerStep, Receive, Applied, ConsumerQuits
<1>3. CASE WatcherStep
  <2>1. CASE Reload
    BY <2>1 DEF Reload
  <2>2. CASE Send
    BY <2>2 DEF Send
  <2>3. CASE WatcherQuits
    BY <2>3 DEF WatcherQuits
  <2>4. QED
    BY <1>3, <2>1, <2>2, <2>3 DEF WatcherStep
<1>4. CASE Operator
  <2>1. CASE Edit
    <3>1. events' \in 0 .. MaxEvents /\ pending' \in 0 .. MaxEvents /\ pending' <= events'
      BY <2>1 DEF Edit, MayEdit
    <3>2. QED
      BY <2>1, <3>1 DEF Edit
  <2>2. CASE Signal \/ ServerFails
    BY <2>2 DEF Signal, ServerFails
  <2>3. QED
    BY <1>4, <2>1, <2>2 DEF Operator
<1>5. CASE UNCHANGED <<procVars, watchVars>>
  BY <1>5
<1>6. QED
  BY <1>1, <1>2, <1>3, <1>4, <1>5
     DEF Next, vars, RunStep, PollStep, LoopEnds, Panics, Ticks

(* Every step keeps each actor at its goroutine's work. *)
LEMMA DutyStep ==
    ASSUME TypeOK, DutyInv, [Next]_vars
    PROVE  DutyInv'
<1>0. pending' <= events'
  BY OwnTypesStep
<1> USE TwoActors DEF TypeOK, RunnerTypeOK, DutyInv, NoReload, procVars, watchVars
<1>1. CASE Up /\ FirstApply
  BY <1>0, <1>1 DEF FirstApply, BeginApply, At
<1>2. CASE Up /\ Serving
  BY <1>0, <1>2 DEF Serving, rVars, actorVars
<1>3. CASE Up /\ Leave
  BY <1>0, <1>3 DEF Leave, BeginStop, At
<1>4. CASE Up /\ Exit
  BY <1>0, <1>4 DEF Exit, rVars, actorVars
<1>5. CASE Receive
  BY <1>0, <1>5 DEF Receive, BeginApply, At
<1>6. CASE Applied \/ ConsumerQuits
  BY <1>0, <1>6 DEF Applied, ConsumerQuits, rVars, actorVars
<1>7. CASE Reload
  BY <1>0, <1>7 DEF Reload, rVars, actorVars
<1>8. CASE Send \/ WatcherQuits
  BY <1>0, <1>8 DEF Send, WatcherQuits, rVars, actorVars
<1>9. CASE Operator
  BY <1>0, <1>9 DEF Operator, Edit, MayEdit, Signal, ServerFails, rVars, actorVars
<1>10. CASE /\ \/ \E p \in Actors : ActorStep(p)
               \/ \E g \in Gens : CycleStep(g) \/ LoopStep(g)
            /\ UNCHANGED <<procVars, watchVars>>
  <2>1. job' = job /\ \A q \in Actors : apc[q] = "idle" => apc'[q] = "idle"
    BY <1>10, IdleStays
  <2>2. QED
    BY <1>0, <1>10, <2>1
<1>11. CASE UNCHANGED vars
  BY <1>0, <1>11 DEF vars, rVars, actorVars
<1>12. QED
  BY <1>1, <1>2, <1>3, <1>4, <1>5, <1>6, <1>7, <1>8, <1>9, <1>10, <1>11
     DEF Next, MainStep, ConsumerStep, WatcherStep, RunStep, PollStep, LoopEnds,
         Panics, Ticks, LoopStep

(* Every step keeps the types and the actors' work. *)
LEMMA ProcStep == ProcInv /\ [Next]_vars => ProcInv'
<1> SUFFICES ASSUME TypeOK, DutyInv, [Next]_vars PROVE TypeOK' /\ DutyInv'
  BY DEF ProcInv
<1>1. TypeOK'
  BY RunnerTypesStep, OwnTypesStep DEF TypeOK
<1>2. QED
  BY <1>1, DutyStep

(* The process's variables and the runner's keep their types, with each    *)
(* actor at its own work, whenever the edits come.                         *)
LEMMA ProcCorrect == Spec => []ProcInv
BY ProcInit, ProcStep, PTL DEF Spec

(* The process's variables and the runner's keep their types. *)
THEOREM ExporterTypeCorrect == Spec => []TypeOK
BY ProcCorrect, PTL DEF ProcInv

-----------------------------------------------------------------------------
(* The contract *)

(* As long as no edit meets the startup apply, every step is one of the    *)
(* contract's, or leaves the runner alone.                                 *)
LEMMA ContractStep ==
    ASSUME ~EarlyEdits, ProcInv, [Next]_vars
    PROVE  [Serial!Next]_Serial!rVars
<1> USE TwoActors
<1>1. CASE ~crashed /\ FirstApply
  <2>1. \A q \in Actors : ~Applying(q)
    BY <1>1 DEF FirstApply, ProcInv, DutyInv, NoReload, Applying
  <2>2. Serial!SerialApply(Main, Startup)
    BY <1>1, <2>1, SameSerialApply DEF FirstApply
  <2>3. QED
    BY <1>1, <2>2, ExporterAssumption DEF Serial!Next
<1>2. CASE ~crashed /\ Receive
  <2>1. \A q \in Actors : ~Applying(q)
    BY <1>2 DEF Receive, BeginApply, ProcInv, TypeOK, DutyInv, NoReload, Applying
  <2>2. updates \in Configs
    BY <1>2 DEF Receive, ProcInv, TypeOK
  <2>3. Serial!SerialApply(Consumer, updates)
    BY <1>2, <2>1, SameSerialApply DEF Receive
  <2>4. QED
    BY <1>2, <2>2, <2>3 DEF Serial!Next
<1>3. CASE ~crashed /\ Leave
  BY <1>3, SameBegin DEF Leave, Serial!Next
<1>4. CASE ~crashed /\ Signal
  <2>1. Serial!ParentCancel
    BY <1>4 DEF Signal, Leaving, Serial!ParentCancel, actorVars, Serial!actorVars,
         runVars, Serial!runVars, loopVars, Serial!loopVars, cycleVars, Serial!cycleVars
  <2>2. QED
    BY <1>4, <2>1 DEF Serial!Next
<1>5. CASE \E p \in Actors : ~crashed /\ ActorStep(p)
  BY <1>5, SameActorStep DEF Serial!Next
<1>6. CASE \E g \in Gens : ~crashed /\ (CycleStep(g) \/ LoopStep(g))
  BY <1>6, SameCycleStep, SameLoopStep DEF Serial!Next, Gens, Serial!Gens
<1>7. CASE UNCHANGED rVars
  BY <1>7 DEF rVars, Serial!rVars, actorVars, Serial!actorVars, runVars, Serial!runVars,
         loopVars, Serial!loopVars, cycleVars, Serial!cycleVars
<1>8. QED
  BY <1>1, <1>2, <1>3, <1>4, <1>5, <1>6, <1>7, RunnerSteps

(* The process starts as the contract does. *)
LEMMA ContractInit == Init => Serial!RunnerInit
BY DEF Init, RunnerInit, Serial!RunnerInit, Gens, Serial!Gens, NoGen, Serial!NoGen

(* main.go:190-191: "apply() is serialized by the single watcher goroutine *)
(* (plus the one startup call)": run(), its consumer goroutine and its     *)
(* watcher keep the contract of the runner's callers, as long as no edit   *)
(* meets the startup apply.                                                *)
THEOREM ContractKept == ASSUME ~EarlyEdits PROVE Spec => KeepsContract
<1>1. ProcInv /\ [Next]_vars => [Serial!Next]_Serial!rVars
  BY ContractStep
<1>2. QED
  BY <1>1, ContractInit, ProcCorrect, PTL DEF Spec, KeepsContract, Serial!Spec

(* What the proofs about any callers show, of this process. *)
LEMMA RunnerShown ==
    ASSUME ~EarlyEdits
    PROVE  Spec => /\ []Runner!OnlyNewestPolls
                   /\ []Runner!NoForgottenSession
                   /\ []Runner!SerialInv
                   /\ []Runner!KeptInv
                   /\ Runner!SnapshotNeverOlder
<1>1. Spec => Runner!Spec
  BY ContractKept, SameSpec DEF KeepsContract
<1>2. Runner!Spec => []Runner!OnlyNewestPolls
  BY Runner!NewestPolls, RunnerAssumptions
<1>3. Runner!Spec => []Runner!NoForgottenSession
  BY Runner!NoSessionForgotten, RunnerAssumptions
<1>4. Runner!Spec => [](Runner!SerialInv /\ Runner!KeptInv)
  BY Runner!KeptCorrect, RunnerAssumptions
<1>5. Runner!Spec => Runner!SnapshotNeverOlder
  BY Runner!StoreNeverOlder, RunnerAssumptions
<1>6. QED
  BY <1>1, <1>2, <1>3, <1>4, <1>5, PTL

(* The instance's invariants are the ones Exporter has by EXTENDS. *)
LEMMA SameProperties ==
    /\ Runner!OnlyNewestPolls <=> OnlyNewestPolls
    /\ Runner!NoForgottenSession <=> NoForgottenSession
BY DEF Runner!OnlyNewestPolls, OnlyNewestPolls, Runner!NoForgottenSession,
       NoForgottenSession, Runner!SessionsKept, SessionsKept, Runner!Gens, Gens

(* main.go:207-209: of all the generations the process builds only the     *)
(* newest polls the appliances.                                            *)
THEOREM ExporterNewestPolls == ASSUME ~EarlyEdits PROVE Spec => []OnlyNewestPolls
BY RunnerShown, SameProperties, PTL

(* main.go:289-290: as long as no stop() overlapped an apply() the process *)
(* drops no client while it holds a session.                               *)
THEOREM ExporterNoSessionForgotten == ASSUME ~EarlyEdits PROVE Spec => []NoForgottenSession
BY RunnerShown, SameProperties, PTL

(* A reload never brings back what a replaced configuration collected.     *)
THEOREM ExporterStoreNeverOlder == ASSUME ~EarlyEdits PROVE Spec => SnapshotNeverOlder
<1>1. Runner!SnapshotNeverOlder => SnapshotNeverOlder
  BY DEF Runner!SnapshotNeverOlder, SnapshotNeverOlder
<1>2. QED
  BY <1>1, RunnerShown, PTL

-----------------------------------------------------------------------------
(* Logging out on shutdown *)

(* Nothing has been left initially. *)
LEMMA LeaveInit == Init => LeaveInv
BY DEF Init, LeaveInv

(* A stop() that met no apply() stays alone with the runner. *)
LEMMA LeaveStep ==
    ASSUME ProcInv, Runner!SerialInv, LeaveInv, [Next]_vars
    PROVE  LeaveInv'
<1> USE TwoActors DEF ProcInv, TypeOK, RunnerTypeOK, DutyInv, LeaveInv
<1>1. CASE Up /\ FirstApply
  BY <1>1 DEF FirstApply
<1>2. CASE Up /\ Serving
  BY <1>2 DEF Serving
<1>3. CASE Up /\ Leave
  BY <1>3 DEF Leave, BeginStop, At, Applying
<1>4. CASE Up /\ Exit
  BY <1>4 DEF Exit, rVars, actorVars, runVars
<1>5. CASE Up /\ Receive
  BY <1>5 DEF Receive, BeginApply, Up
<1>6. CASE Applied \/ ConsumerQuits \/ WatcherStep \/ Operator
  BY <1>6 DEF Applied, ConsumerQuits, WatcherStep, Reload, Send, WatcherQuits,
              Operator, Edit, Signal, ServerFails, rVars, actorVars, runVars, procVars
<1>7. ASSUME NEW p \in Actors, RunStep(p) PROVE LeaveInv'
  <2>1. SUFFICES ASSUME mpc \in {"stop", "exit"}, alone, ~late
                 PROVE  apc'[Consumer] = "idle" /\ (apc'[Main] = "take" \/ current' = NoGen)
    BY <1>7 DEF RunStep, ActorStep, Take, CancelHeld, WaitLoops, CloseHeld, Install,
                Spawn, procVars
  <2>2. apc'[Consumer] = "idle" /\ p = Main /\ job[p] # "apply"
    BY <1>7, <2>1, IdleStays
       DEF RunStep, Up, ActorStep, Take, CancelHeld, WaitLoops, CloseHeld, Install, Spawn
  <2>3. ~Install(p) /\ ~Spawn(p)
    BY <2>2 DEF Install, Spawn, Runner!SerialInv
  <2>4. current' = NoGen
    BY <1>7, <2>1, <2>2, <2>3
       DEF RunStep, ActorStep, Take, CancelHeld, WaitLoops, CloseHeld, runVars
  <2>5. QED
    BY <2>2, <2>4
<1>8. ASSUME NEW g \in Gens, PollStep(g) \/ LoopEnds(g) \/ Panics(g) \/ Ticks(g)
      PROVE  LeaveInv'
  BY <1>8
     DEF PollStep, LoopEnds, Panics, Ticks, CycleStep, Poll, LoggedIn, Collected,
         Publish, LoopExit, TickerPanic, Tick, actorVars, runVars, procVars
<1>9. CASE UNCHANGED vars
  BY <1>9 DEF vars, rVars, actorVars, runVars, procVars
<1>10. QED
  BY <1>1, <1>2, <1>3, <1>4, <1>5, <1>6, <1>7, <1>8, <1>9
     DEF Next, MainStep, ConsumerStep

(* Nobody is at work when the process has left, the runner holds no        *)
(* generation, and so no session is left.                                  *)
LEMMA LeaveImplies ==
    ASSUME ProcInv, Runner!KeptInv, LeaveInv
    PROVE  ShutdownLogsOut
<1> SUFFICES ASSUME mpc = "exit", alone, ~late, NEW g \in sessions PROVE FALSE
  BY DEF ShutdownLogsOut
<1>1. apc[Main] = "idle" /\ apc[Consumer] = "idle" /\ current = NoGen
  BY DEF ProcInv, DutyInv, LeaveInv
<1>2. \A p \in Actors : held[p] = NoGen
  BY <1>1, TwoActors DEF Runner!KeptInv, Runner!Kept, NoGen, Runner!NoGen
<1>3. g = current \/ \E p \in Actors : held[p] = g
  BY DEF Runner!KeptInv, Runner!Kept, Runner!SessionsKept
<1>4. g # NoGen
  BY ConfigsAssumption DEF ProcInv, TypeOK, RunnerTypeOK, Gens, NoGen
<1>5. QED
  BY <1>1, <1>2, <1>3, <1>4

(* docs/index.md: "the exporter logs out of every cluster on shutdown": it *)
(* does, if no edit met the startup apply and the stop() of run() neither  *)
(* met an apply() nor was followed by one.                                 *)
THEOREM LogsOutOnShutdown == ASSUME ~EarlyEdits PROVE Spec => []ShutdownLogsOut
<1>1. ProcInv /\ Runner!SerialInv /\ LeaveInv /\ [Next]_vars => LeaveInv'
  BY LeaveStep
<1>2. ProcInv /\ Runner!KeptInv /\ LeaveInv => ShutdownLogsOut
  BY LeaveImplies
<1>3. QED
  BY <1>1, <1>2, LeaveInit, ProcCorrect, RunnerShown, PTL DEF Spec
=============================================================================
