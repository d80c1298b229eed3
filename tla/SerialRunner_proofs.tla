------------------------- MODULE SerialRunner_proofs -------------------------
(***************************************************************************)
(* Proofs about SerialRunner: for any set of goroutines that call apply()  *)
(* and stop(), any configurations and any number of reloads.               *)
(***************************************************************************)
EXTENDS SerialRunner, TLAPS

USE DEF Cancels, Joined, LogsOut, Added, Outcome

(* Every action, as a disjunction the case splits below can use. *)
LEMMA StepCases ==
    ASSUME Next
    PROVE  \/ \E p \in Actors :
                \/ \E k \in Configs : SerialApply(p, k)
                \/ BeginStop(p) \/ Take(p) \/ CancelHeld(p) \/ WaitLoops(p)
                \/ CloseHeld(p) \/ Install(p) \/ Spawn(p)
           \/ \E g \in Gens :
                \/ Tick(g) \/ LoopExit(g) \/ TickerPanic(g) \/ Poll(g)
                \/ LoggedIn(g) \/ Collected(g) \/ Publish(g)
           \/ ParentCancel
BY DEF Next, ActorStep, CycleStep, LoopStep

(* Generations are numbers, and none of them is NoGen. *)
LEMMA GensFacts == Gens \subseteq Nat /\ NoGen \notin Gens /\ MaxGens \in Nat
BY ConfigsAssumption DEF Gens, NoGen

-----------------------------------------------------------------------------
(* Types *)

(* The type invariant holds initially. *)
LEMMA TypeInit == RunnerInit => RunnerTypeOK
<1> SUFFICES ASSUME RunnerInit PROVE RunnerTypeOK
  OBVIOUS
<1>1. snap \in Snapshots
  BY DEF RunnerInit, Snapshots
<1>2. "idle" \in ActorPc /\ "none" \in LoopPc /\ "none" \in CyclePc
  BY DEF ActorPc, LoopPc, CyclePc
<1>3. gens \in 0 .. MaxGens /\ wg \in Int
  BY GensFacts DEF RunnerInit
<1>4. /\ apc \in [Actors -> ActorPc]
      /\ job \in [Actors -> {"apply", "stop"}]
      /\ arg \in [Actors -> Configs \cup {NoConfig}]
      /\ held \in [Actors -> Gens \cup {NoGen}]
      /\ mine \in [Actors -> Gens \cup {NoGen}]
  BY <1>2 DEF RunnerInit
<1>5. /\ cfgOf \in [Gens -> Configs \cup {NoConfig}]
      /\ loop \in [Gens -> LoopPc]
      /\ cycle \in [Gens -> CyclePc]
  BY <1>2 DEF RunnerInit
<1>6. QED
  BY <1>1, <1>3, <1>4, <1>5 DEF RunnerInit, RunnerTypeOK

(* Every step keeps the type invariant. *)
LEMMA TypeStep == RunnerTypeOK /\ [Next]_rVars => RunnerTypeOK'
<1> SUFFICES ASSUME RunnerTypeOK, [Next]_rVars PROVE RunnerTypeOK'
  OBVIOUS
<1> USE GensFacts DEF RunnerTypeOK, ActorPc
<1>1. ASSUME NEW p \in Actors, NEW k \in Configs, SerialApply(p, k) PROVE RunnerTypeOK'
  BY <1>1 DEF SerialApply, BeginApply, At, actorVars, runVars, loopVars, cycleVars
<1>2. ASSUME NEW p \in Actors, BeginStop(p) PROVE RunnerTypeOK'
  BY <1>2 DEF BeginStop, At, actorVars, runVars, loopVars, cycleVars
<1>3. ASSUME NEW p \in Actors, Take(p) PROVE RunnerTypeOK'
  BY <1>3 DEF Take, At, actorVars, runVars, loopVars, cycleVars
<1>4. ASSUME NEW p \in Actors, CancelHeld(p) PROVE RunnerTypeOK'
  BY <1>4 DEF CancelHeld, At, actorVars, runVars, loopVars, cycleVars
<1>5. ASSUME NEW p \in Actors, WaitLoops(p) PROVE RunnerTypeOK'
  BY <1>5 DEF WaitLoops, At, actorVars, runVars, loopVars, cycleVars
<1>6. ASSUME NEW p \in Actors, CloseHeld(p) PROVE RunnerTypeOK'
  BY <1>6 DEF CloseHeld, At, actorVars, runVars, loopVars, cycleVars
<1>7. ASSUME NEW p \in Actors, Install(p) PROVE RunnerTypeOK'
  <2>1. gens + 1 \in Gens /\ gens' = gens + 1 /\ gens' \in 0 .. MaxGens
    BY <1>7 DEF Install, Gens
  <2>2. apc' \in [Actors -> ActorPc] /\ mine' \in [Actors -> Gens \cup {NoGen}]
    BY <1>7, <2>1 DEF Install, At
  <2>3. cycle' \in [Gens -> CyclePc]
    BY <1>7 DEF Install, CyclePc
  <2>4. cfgOf' \in [Gens -> Configs \cup {NoConfig}]
    BY <1>7 DEF Install
  <2>5. QED
    BY <1>7, <2>1, <2>2, <2>3, <2>4 DEF Install, loopVars
<1>8. ASSUME NEW p \in Actors, Spawn(p) PROVE RunnerTypeOK'
  <2>1. loop' \in [Gens -> LoopPc]
    BY <1>8 DEF Spawn, LoopPc
  <2>2. apc' \in [Actors -> ActorPc] /\ wg' \in Int
    BY <1>8 DEF Spawn, At
  <2>3. QED
    BY <1>8, <2>1, <2>2 DEF Spawn, runVars, cycleVars
<1>9. ASSUME NEW g \in Gens, Tick(g) PROVE RunnerTypeOK'
  BY <1>9 DEF Tick, InLoop, actorVars, runVars, loopVars, cycleVars, LoopPc, CyclePc, Snapshots
<1>10. ASSUME NEW g \in Gens, LoopExit(g) PROVE RunnerTypeOK'
  BY <1>10 DEF LoopExit, InLoop, actorVars, runVars, loopVars, cycleVars, LoopPc, CyclePc, Snapshots
<1>11. ASSUME NEW g \in Gens, TickerPanic(g) PROVE RunnerTypeOK'
  BY <1>11 DEF TickerPanic, InLoop, actorVars, runVars, loopVars, cycleVars, LoopPc, CyclePc, Snapshots
<1>12. ASSUME NEW g \in Gens, Poll(g) PROVE RunnerTypeOK'
  BY <1>12 DEF Poll, InLoop, actorVars, runVars, loopVars, cycleVars, LoopPc, CyclePc, Snapshots
<1>13. ASSUME NEW g \in Gens, LoggedIn(g) PROVE RunnerTypeOK'
  BY <1>13 DEF LoggedIn, InLoop, actorVars, runVars, loopVars, cycleVars, LoopPc, CyclePc, Snapshots
<1>14. ASSUME NEW g \in Gens, Collected(g) PROVE RunnerTypeOK'
  BY <1>14 DEF Collected, InLoop, actorVars, runVars, loopVars, cycleVars, LoopPc, CyclePc, Snapshots
<1>15. ASSUME NEW g \in Gens, Publish(g) PROVE RunnerTypeOK'
  BY <1>15 DEF Publish, InLoop, actorVars, runVars, loopVars, cycleVars, LoopPc, CyclePc, Snapshots
<1>16. CASE ParentCancel
  BY <1>16 DEF ParentCancel, actorVars, runVars, loopVars, cycleVars, LoopPc, CyclePc, Snapshots
<1>17. CASE UNCHANGED rVars
  BY <1>17 DEF rVars, actorVars, runVars, loopVars, cycleVars, LoopPc, CyclePc, Snapshots
<1>18. QED
  BY <1>1, <1>2, <1>3, <1>4, <1>5, <1>6, <1>7, <1>8, <1>9, <1>10, <1>11, <1>12, <1>13, <1>14, <1>15, <1>16, <1>17, StepCases

(* The runner's variables keep their types. *)
THEOREM RunnerTypeCorrect == Spec => []RunnerTypeOK
BY TypeInit, TypeStep, PTL DEF Spec

(* The publisher of the snapshot is a number. *)
LEMMA SnapGenFact == RunnerTypeOK => snap.gen \in Nat
<1>1. SUFFICES ASSUME snap \in Snapshots PROVE snap.gen \in Nat
  BY DEF RunnerTypeOK
<1>2. snap.gen \in Gens \cup {NoGen}
  BY <1>1 DEF Snapshots
<1>3. NoGen \in Nat
  BY DEF NoGen
<1>4. QED
  BY <1>2, <1>3, GensFacts

-----------------------------------------------------------------------------
(* Only the newest generation polls *)

(* No loop and no apply initially. *)
LEMMA SerialInit == RunnerInit => SerialInv
BY DEF RunnerInit, SerialInv, Applying, NoGen

(* Every step keeps applies apart and the counter on the one loop. *)
LEMMA SerialStep == RunnerTypeOK /\ SerialInv /\ [Next]_rVars => SerialInv'
<1> SUFFICES ASSUME RunnerTypeOK, SerialInv, [Next]_rVars PROVE SerialInv'
  OBVIOUS
<1> USE GensFacts DEF RunnerTypeOK, SerialInv, Applying
<1>1. ASSUME NEW p \in Actors, NEW k \in Configs, SerialApply(p, k) PROVE SerialInv'
  BY <1>1 DEF SerialApply, BeginApply, At, actorVars, runVars, loopVars, cycleVars
<1>2. ASSUME NEW p \in Actors, BeginStop(p) PROVE SerialInv'
  BY <1>2 DEF BeginStop, At, actorVars, runVars, loopVars, cycleVars
<1>3. ASSUME NEW p \in Actors, Take(p) PROVE SerialInv'
  BY <1>3 DEF Take, At, actorVars, runVars, loopVars, cycleVars
<1>4. ASSUME NEW p \in Actors, CancelHeld(p) PROVE SerialInv'
  BY <1>4 DEF CancelHeld, At, actorVars, runVars, loopVars, cycleVars
<1>5. ASSUME NEW p \in Actors, WaitLoops(p) PROVE SerialInv'
  BY <1>5 DEF WaitLoops, At, actorVars, runVars, loopVars, cycleVars
<1>6. ASSUME NEW p \in Actors, CloseHeld(p) PROVE SerialInv'
  BY <1>6 DEF CloseHeld, At, actorVars, runVars, loopVars, cycleVars
<1>7. ASSUME NEW p \in Actors, Install(p) PROVE SerialInv'
  <2>1. Applying(p) /\ \A q \in Actors : Applying(q) => q = p
    BY <1>7 DEF Install
  <2>2. wg = 0 /\ \A h \in Gens : loop[h] # "run" /\ cycle[h] = "none"
    BY <1>7, <2>1 DEF Install
  <2>3. gens' = gens + 1 /\ gens' \in Gens /\ gens \in Nat
    BY <1>7 DEF Install, Gens
  <2>4. apc' = [apc EXCEPT ![p] = "cycle"] /\ mine' = [mine EXCEPT ![p] = gens']
    BY <1>7, <2>3 DEF Install, At
  <2>5. cycle' = [cycle EXCEPT ![gens'] = "poll"]
    BY <1>7, <2>3 DEF Install
  <2>6. UNCHANGED <<job, loop, wg, snap>>
    BY <1>7 DEF Install, loopVars
  <2>7. \A q \in Actors : apc'[q] = "cycle" => q = p
    BY <2>1, <2>4
  <2>8. \A h \in Gens : cycle'[h] # "none" => h = gens' /\ apc'[p] = "cycle"
    BY <2>2, <2>4, <2>5
  <2>9. snap'.gen <= gens'
    <3>1. snap.gen \in Nat /\ snap.gen <= gens
      BY SnapGenFact
    <3>2. snap' = snap
      BY <2>6
    <3>3. QED
      BY <2>3, <3>1, <3>2
  <2>10. ASSUME NEW q \in Actors
         PROVE  /\ apc'[q] \in {"install", "cycle"} => job'[q] = "apply"
                /\ apc'[q] = "cycle" => mine'[q] = gens'
                /\ job'[q] = "apply" /\ apc'[q] \in {"close", "install", "cycle"} => wg' = 0
    BY <2>1, <2>2, <2>4, <2>6, <2>7
  <2>11. \A q, r \in Actors : Applying(q)' /\ Applying(r)' => q = r
    BY <2>1, <2>4, <2>6
  <2>12. QED
    BY <2>2, <2>6, <2>8, <2>9, <2>10, <2>11
<1>8. ASSUME NEW p \in Actors, Spawn(p) PROVE SerialInv'
  BY <1>8 DEF Spawn, At, actorVars, runVars, loopVars, cycleVars
<1>9. ASSUME NEW g \in Gens, Tick(g) PROVE SerialInv'
  BY <1>9 DEF Tick, InLoop, actorVars, runVars, loopVars, cycleVars, Snapshots
<1>10. ASSUME NEW g \in Gens, LoopExit(g) PROVE SerialInv'
  BY <1>10 DEF LoopExit, InLoop, actorVars, runVars, loopVars, cycleVars, Snapshots
<1>11. ASSUME NEW g \in Gens, TickerPanic(g) PROVE SerialInv'
  BY <1>11 DEF TickerPanic, InLoop, actorVars, runVars, loopVars, cycleVars, Snapshots
<1>12. ASSUME NEW g \in Gens, Poll(g) PROVE SerialInv'
  BY <1>12 DEF Poll, InLoop, actorVars, runVars, loopVars, cycleVars, Snapshots
<1>13. ASSUME NEW g \in Gens, LoggedIn(g) PROVE SerialInv'
  BY <1>13 DEF LoggedIn, InLoop, actorVars, runVars, loopVars, cycleVars, Snapshots
<1>14. ASSUME NEW g \in Gens, Collected(g) PROVE SerialInv'
  BY <1>14 DEF Collected, InLoop, actorVars, runVars, loopVars, cycleVars, Snapshots
<1>15. ASSUME NEW g \in Gens, Publish(g) PROVE SerialInv'
  BY <1>15 DEF Publish, InLoop, actorVars, runVars, loopVars, cycleVars, Snapshots
<1>16. CASE ParentCancel
  BY <1>16 DEF ParentCancel, actorVars, runVars, loopVars, cycleVars, Snapshots
<1>17. CASE UNCHANGED rVars
  BY <1>17 DEF rVars, actorVars, runVars, loopVars, cycleVars, Snapshots
<1>18. QED
  BY <1>1, <1>2, <1>3, <1>4, <1>5, <1>6, <1>7, <1>8, <1>9, <1>10, <1>11, <1>12, <1>13, <1>14, <1>15, <1>16, <1>17, StepCases

(* Types and serial applies, always. *)
LEMMA SerialCorrect == Spec => [](RunnerTypeOK /\ SerialInv)
BY TypeInit, TypeStep, SerialInit, SerialStep, PTL DEF Spec

(* Only the newest generation has a loop or a cycle. *)
LEMMA SerialImplies == SerialInv => OnlyNewestPolls
BY DEF SerialInv, OnlyNewestPolls

(* main.go:207-228: with apply() calls that do not overlap, and stop() at  *)
(* any moment, no two loops poll: only the newest generation does.         *)
THEOREM NewestPolls == Spec => []OnlyNewestPolls
BY SerialCorrect, SerialImplies, PTL

(* Only Publish stores a snapshot, and only the newest generation publishes. *)
LEMMA NotOlderStep ==
    RunnerTypeOK /\ SerialInv /\ [Next]_rVars => [snap'.gen >= snap.gen]_snap
<1> SUFFICES ASSUME RunnerTypeOK, SerialInv, [Next]_rVars
             PROVE  snap'.gen >= snap.gen \/ snap' = snap
  OBVIOUS
<1>1. CASE \E g \in Gens : Publish(g)
  BY <1>1, GensFacts DEF Publish, SerialInv, RunnerTypeOK, Snapshots
<1>2. CASE ~ \E g \in Gens : Publish(g)
  BY <1>2, StepCases
     DEF rVars, actorVars, runVars, loopVars, cycleVars, SerialApply,
         BeginApply, BeginStop, Take, CancelHeld, WaitLoops, CloseHeld, Install,
         Spawn, Tick, LoopExit, TickerPanic, Poll, LoggedIn, Collected, ParentCancel
<1>3. QED
  BY <1>1, <1>2

(* The shared store never goes back to a replaced configuration's data. *)
THEOREM StoreNeverOlder == Spec => SnapshotNeverOlder
BY SerialCorrect, NotOlderStep, PTL DEF Spec, SnapshotNeverOlder

-----------------------------------------------------------------------------
(* No client is dropped with a session *)

(* No session initially. *)
LEMMA KeptInit == RunnerInit => KeptInv
BY DEF RunnerInit, KeptInv, Kept, SessionsKept, Applying, Stopping, NoGen

(* Once a stop() has overlapped an apply(), it has. *)
LEMMA AloneBack == [Next]_rVars /\ alone' => alone
<1> SUFFICES ASSUME [Next]_rVars, alone' PROVE alone
  OBVIOUS
<1>1. CASE UNCHANGED rVars
  BY <1>1 DEF rVars
<1>2. CASE Next
  <2>1. ASSUME NEW p \in Actors, NEW k \in Configs, SerialApply(p, k) PROVE alone
    BY <2>1 DEF SerialApply, BeginApply
  <2>2. ASSUME NEW p \in Actors, BeginStop(p) PROVE alone
    BY <2>2 DEF BeginStop
  <2>3. ASSUME NEW p \in Actors,
               \/ Take(p) \/ CancelHeld(p) \/ WaitLoops(p)
               \/ CloseHeld(p) \/ Install(p) \/ Spawn(p)
        PROVE  alone
    BY <2>3 DEF Take, CancelHeld, WaitLoops, CloseHeld, Install, Spawn
  <2>4. ASSUME NEW g \in Gens,
               \/ Tick(g) \/ LoopExit(g) \/ TickerPanic(g) \/ Poll(g)
               \/ LoggedIn(g) \/ Collected(g) \/ Publish(g)
        PROVE  alone
    BY <2>4 DEF Tick, LoopExit, TickerPanic, Poll, LoggedIn, Collected, Publish
  <2>5. CASE ParentCancel
    BY <2>5 DEF ParentCancel
  <2>6. QED
    BY <1>2, <2>1, <2>2, <2>3, <2>4, <2>5, StepCases
<1>3. QED
  BY <1>1, <1>2

(* As long as stop() comes alone, every step keeps the sessions in hand. *)
LEMMA KeptStep ==
    RunnerTypeOK /\ SerialInv /\ Kept /\ alone' /\ [Next]_rVars => Kept'
<1> SUFFICES ASSUME RunnerTypeOK, SerialInv, Kept, alone', [Next]_rVars
             PROVE  Kept'
  OBVIOUS
<1> USE GensFacts DEF RunnerTypeOK, SerialInv, Kept, SessionsKept, Applying, Stopping
<1>1. ASSUME NEW p \in Actors, NEW k \in Configs, SerialApply(p, k) PROVE Kept'
  <2>1. \A q \in Actors : ~Stopping(q)
    BY <1>1, Zenon DEF SerialApply, BeginApply
  <2>2. QED
    BY <1>1, <2>1 DEF SerialApply, BeginApply, At, actorVars, runVars, loopVars, cycleVars
<1>2. ASSUME NEW p \in Actors, BeginStop(p) PROVE Kept'
  <2>1. \A q \in Actors : ~Applying(q)
    BY <1>2, Zenon DEF BeginStop
  <2>2. QED
    BY <1>2, <2>1 DEF BeginStop, At, actorVars, runVars, loopVars, cycleVars
<1>3. ASSUME NEW p \in Actors, Take(p) PROVE Kept'
  BY <1>3 DEF Take, At, actorVars, runVars, loopVars, cycleVars
<1>4. ASSUME NEW p \in Actors, CancelHeld(p) PROVE Kept'
  BY <1>4 DEF CancelHeld, At, actorVars, runVars, loopVars, cycleVars
<1>5. ASSUME NEW p \in Actors, WaitLoops(p) PROVE Kept'
  BY <1>5 DEF WaitLoops, At, actorVars, runVars, loopVars, cycleVars
<1>6. ASSUME NEW p \in Actors, CloseHeld(p) PROVE Kept'
  BY <1>6 DEF CloseHeld, At, actorVars, runVars, loopVars, cycleVars
<1>7. ASSUME NEW p \in Actors, Install(p) PROVE Kept'
  BY <1>7 DEF Install, At, actorVars, runVars, loopVars, cycleVars
<1>8. ASSUME NEW p \in Actors, Spawn(p) PROVE Kept'
  BY <1>8 DEF Spawn, At, actorVars, runVars, loopVars, cycleVars
<1>9. ASSUME NEW g \in Gens, Tick(g) PROVE Kept'
  BY <1>9 DEF Tick, InLoop, actorVars, runVars, loopVars, cycleVars
<1>10. ASSUME NEW g \in Gens, LoopExit(g) PROVE Kept'
  BY <1>10 DEF LoopExit, InLoop, actorVars, runVars, loopVars, cycleVars
<1>11. ASSUME NEW g \in Gens, TickerPanic(g) PROVE Kept'
  BY <1>11 DEF TickerPanic, InLoop, actorVars, runVars, loopVars, cycleVars
<1>12. ASSUME NEW g \in Gens, Poll(g) PROVE Kept'
  BY <1>12 DEF Poll, InLoop, actorVars, runVars, loopVars, cycleVars
<1>13. ASSUME NEW g \in Gens, LoggedIn(g) PROVE Kept'
  BY <1>13 DEF LoggedIn, InLoop, actorVars, runVars, loopVars, cycleVars
<1>14. ASSUME NEW g \in Gens, Collected(g) PROVE Kept'
  BY <1>14 DEF Collected, InLoop, actorVars, runVars, loopVars, cycleVars
<1>15. ASSUME NEW g \in Gens, Publish(g) PROVE Kept'
  BY <1>15 DEF Publish, InLoop, actorVars, runVars, loopVars, cycleVars
<1>16. CASE ParentCancel
  BY <1>16 DEF ParentCancel, actorVars, runVars, loopVars, cycleVars
<1>17. CASE UNCHANGED rVars
  BY <1>17 DEF rVars, actorVars, runVars, loopVars, cycleVars
<1>18. QED
  BY <1>1, <1>2, <1>3, <1>4, <1>5, <1>6, <1>7, <1>8, <1>9, <1>10, <1>11, <1>12, <1>13, <1>14, <1>15, <1>16, <1>17, StepCases

(* The same for the conditional invariant. *)
LEMMA KeptInvStep ==
    RunnerTypeOK /\ SerialInv /\ KeptInv /\ [Next]_rVars => KeptInv'
<1> SUFFICES ASSUME RunnerTypeOK, SerialInv, KeptInv, [Next]_rVars, alone' PROVE Kept'
  BY DEF KeptInv
<1>1. Kept
  BY AloneBack DEF KeptInv
<1>2. QED
  BY <1>1, KeptStep

(* The sessions are kept in hand, always. *)
LEMMA KeptCorrect == Spec => [](SerialInv /\ KeptInv)
BY TypeInit, TypeStep, SerialInit, SerialStep, KeptInit, KeptInvStep, PTL DEF Spec

(* Kept sessions are not forgotten. *)
LEMMA KeptImplies == KeptInv => NoForgottenSession
BY DEF KeptInv, Kept, NoForgottenSession

(* main.go:289-290: as long as no stop() overlaps an apply(), every        *)
(* session belongs to the current generation or to one about to be closed. *)
THEOREM NoSessionForgotten == Spec => []NoForgottenSession
BY KeptCorrect, KeptImplies, PTL

=============================================================================
