---------------------------- MODULE SerialRunner ----------------------------
(***************************************************************************)
(* The contract the comment above collectorRunner (main.go:189-192) puts   *)
(* on its callers: apply() calls do not overlap, while stop() may come at  *)
(* any time.  Any number of goroutines call.                               *)
(***************************************************************************)
EXTENDS CollectorRunner

SerialApply(p, c) ==
    /\ \A q \in Actors : ~Applying(q)
    /\ BeginApply(p, c)

ParentCancel ==
    /\ ~ctxDone
    /\ ctxDone' = TRUE
    /\ UNCHANGED <<actorVars, runVars, cancelled, loopVars, cycleVars, crashed, alone>>

Next ==
    \/ \E p \in Actors :
          \/ ~crashed /\ \E c \in Configs : SerialApply(p, c)
          \/ ~crashed /\ BeginStop(p)
          \/ ~crashed /\ ActorStep(p)
    \/ \E g \in Gens : ~crashed /\ (CycleStep(g) \/ LoopStep(g))
    \/ ~crashed /\ ParentCancel

Spec == RunnerInit /\ [][Next]_rVars

-----------------------------------------------------------------------------
(* Properties *)

(* What makes OnlyNewestPolls and SnapshotNeverOlder inductive: one apply  *)
(* at a time; wg counts the one loop there can be; from the join to its    *)
(* return an apply runs alone, and only its first cycle polls outside a    *)
(* loop.                                                                   *)
SerialInv ==
    /\ \A p, q \in Actors : Applying(p) /\ Applying(q) => p = q
    /\ \A p \in Actors :
          /\ apc[p] \in {"install", "cycle"} => job[p] = "apply"
          /\ apc[p] = "cycle" => mine[p] = gens
          /\ job[p] = "apply" /\ apc[p] \in {"close", "install", "cycle"} => wg = 0
    /\ wg = 0 \/ wg = 1
    /\ wg = 0 => \A g \in Gens : loop[g] # "run"
    /\ \A g \in Gens :
          /\ loop[g] = "run" => g = gens
          /\ cycle[g] # "none" => /\ g = gens
                                  /\ loop[g] = "run" \/ \E p \in Actors : apc[p] = "cycle"
    /\ snap.gen <= gens

(* What makes NoForgottenSession inductive: as long as stop() comes alone, *)
(* a generation that still polls has not been closed.                      *)
Kept ==
    /\ SessionsKept
    /\ \A p, q \in Actors : Applying(p) => ~Stopping(q)
    /\ (gens # NoGen /\ (cycle[gens] # "none" \/ loop[gens] = "run")) =>
          \/ current = gens
          \/ \E p \in Actors : held[p] = gens /\ apc[p] \in {"cancel", "wait", "blocked"}
    /\ \A p \in Actors :
          /\ apc[p] = "cycle" => current = gens
          /\ held[p] # NoGen => apc[p] \in {"cancel", "wait", "blocked", "close"}
          /\ Applying(p) /\ apc[p] \notin {"take", "cycle"} => current = NoGen

KeptInv == alone => Kept

=============================================================================
