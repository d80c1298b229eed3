------------------------------- MODULE FanOut -------------------------------
(***************************************************************************)
(* The two collectors that fan out inside one Collect: DT asks each node   *)
(* for its directory tables and then its object port (internal/ecs/dt.go), *)
(* Quotas asks for each namespace's quota (internal/ecs/quotas.go). Both   *)
(* list first, keep at most Limit requests going under an errgroup, let a  *)
(* failure cost its own item alone, and return when all have reported: DT  *)
(* by appending under a mutex, Quotas by filling a slot per item.          *)
(* It is itself one Collect of CollectCycle, whose names it keeps clear of.*)
(***************************************************************************)
EXTENDS Integers, Sequences, FiniteSets

CONSTANTS
    Size,      \* bound: items the listing returns, in inventory order
    Limit      \* SetLimit

ASSUME PoolAssumption ==
    Size \in Nat /\ Limit \in Nat \ {0}

Items == 1 .. Size

VARIABLES
    kind,       \* the collector: "dt" or "quotas"
    pc,         \* "list", "spawn", "wait", "concat", "done" or "failed"
    next,       \* the item to start next, or whose slot is concatenated next
    stage,      \* requests an item's goroutine has made; Idle when not running
    answers,    \* what they came to: TRUE for an answer that was read
    out,        \* the samples to return, item by item: DT's shared slice, or
                \* what Quotas concatenates
    slot,       \* Quotas' slots, in inventory order: the item whose result is there
    expired,    \* the cluster's timeout has passed, or it was cancelled
    alive       \* what each endpoint would answer in this cycle

poolVars == <<kind, pc, next, stage, answers, out, slot, expired, alive>>

(* DT fetches the tables of a node and then its object port; Quotas makes  *)
(* one request per namespace and gives each its slot.                      *)
Ports == IF kind = "dt" THEN 2 ELSE 1
Slotted == kind = "quotas"

Idle == -1
Empty == 0
Working == {i \in Items : stage[i] # Idle}

PoolInit ==
    /\ kind \in {"dt", "quotas"}
    /\ pc = "list"
    /\ next = 1
    /\ stage = [i \in Items |-> Idle]
    /\ answers = [i \in Items |-> <<>>]
    /\ out = <<>>
    /\ slot = [i \in Items |-> Empty]
    /\ expired = FALSE
    /\ alive \in [Items -> [1 .. Ports -> BOOLEAN]]

(* The listing: without it there is nothing to report.                     *)
List ==
    /\ pc = "list"
    /\ ~expired
    /\ pc' = "spawn"
    /\ UNCHANGED <<next, stage, answers, out, slot, expired, alive, kind>>

ListFails ==
    /\ pc = "list"
    /\ pc' = "failed"
    /\ UNCHANGED <<next, stage, answers, out, slot, expired, alive, kind>>

(* Fault: a goroutine that met a failure does not give its place back. *)
PlacesLost ==
    Limit - Cardinality(Working)
          - Cardinality({i \in Items \ Working : \E p \in DOMAIN answers[i] : ~answers[i][p]})

Places == Limit - Cardinality(Working)

(* g.Go: blocks while Limit goroutines run.                                *)
Go ==
    /\ pc = "spawn"
    /\ next <= Size
    /\ Places > 0
    /\ stage' = [stage EXCEPT ![next] = 0]
    /\ next' = next + 1
    /\ UNCHANGED <<pc, answers, out, slot, expired, alive, kind>>

AllStarted ==
    /\ pc = "spawn"
    /\ next > Size
    /\ pc' = "wait"
    /\ UNCHANGED <<next, stage, answers, out, slot, expired, alive, kind>>

(* Fault: a failure is returned to the errgroup, which cancels the others. *)
HeardIfNoneFailed(i) ==
    /\ alive[i][stage[i] + 1]
    /\ \A j \in Items : \A p \in DOMAIN answers[j] : answers[j][p]

Heard(i) == alive[i][stage[i] + 1]

(* One request. A failure is logged and the next request is made all the   *)
(* same; after the deadline every request fails.                           *)
Ask(i) ==
    /\ stage[i] \in 0 .. Ports - 1
    /\ \E ok \in BOOLEAN :
          /\ ok <=> Heard(i) /\ ~expired
          /\ answers' = [answers EXCEPT ![i] = Append(@, ok)]
    /\ stage' = [stage EXCEPT ![i] = @ + 1]
    /\ UNCHANGED <<pc, next, out, slot, expired, alive, kind>>

Asked(i) == stage[i] = Ports

(* Fault: no lock: an append that meets another one is lost. *)
RacyAppend(i) ==
    IF Working = {i} \/ out = <<>> THEN Append(out, i) ELSE [out EXCEPT ![Len(out)] = i]

Appended(i) == Append(out, i)

(* DT: mu.Lock, append, mu.Unlock, and the goroutine returns nil.          *)
AppendSamples(i) ==
    /\ ~Slotted
    /\ Asked(i)
    /\ out' = Appended(i)
    /\ stage' = [stage EXCEPT ![i] = Idle]
    /\ UNCHANGED <<pc, next, answers, slot, expired, alive, kind>>

(* Quotas: the goroutine owns its slot, and leaves it empty on a failure.  *)
FillSlot(i) ==
    /\ Slotted
    /\ Asked(i)
    /\ slot' = IF \A p \in DOMAIN answers[i] : answers[i][p]
               THEN [slot EXCEPT ![i] = i] ELSE slot
    /\ stage' = [stage EXCEPT ![i] = Idle]
    /\ UNCHANGED <<pc, next, answers, out, expired, alive, kind>>

(* g.Wait returns: DT has its slice, Quotas concatenates its slots.        *)
Wait ==
    /\ pc = "wait"
    /\ Working = {}
    /\ pc' = IF Slotted THEN "concat" ELSE "done"
    /\ next' = 1
    /\ UNCHANGED <<stage, answers, out, slot, expired, alive, kind>>

Concat ==
    /\ pc = "concat"
    /\ next <= Size
    /\ out' = IF slot[next] # Empty THEN Append(out, slot[next]) ELSE out
    /\ next' = next + 1
    /\ UNCHANGED <<pc, stage, answers, slot, expired, alive, kind>>

Concatenated ==
    /\ pc = "concat"
    /\ next > Size
    /\ pc' = "done"
    /\ UNCHANGED <<next, stage, answers, out, slot, expired, alive, kind>>

(* collection.timeout, a sibling's cancellation or a shutdown.             *)
Expire ==
    /\ pc \notin {"done", "failed"}
    /\ ~expired
    /\ expired' = TRUE
    /\ UNCHANGED <<pc, next, stage, answers, out, slot, alive, kind>>

Worker(i) == Ask(i) \/ AppendSamples(i) \/ FillSlot(i)
Caller == List \/ ListFails \/ Go \/ AllStarted \/ Wait \/ Concat \/ Concatenated

PoolNext == Caller \/ Expire \/ \E i \in Items : Worker(i)

PoolSpec == PoolInit /\ [][PoolNext]_poolVars

(* The Go scheduler runs every goroutine, and every request ends, at the   *)
(* latest with the context of its cluster, which has a deadline.           *)
FairPoolSpec == PoolSpec /\ WF_poolVars(Caller) /\ \A i \in Items : WF_poolVars(Worker(i))

-----------------------------------------------------------------------------
(* Properties *)

(* Types of the variables, and the errgroup's limit.                       *)
PoolTypeOK ==
    /\ kind \in {"dt", "quotas"}
    /\ pc \in {"list", "spawn", "wait", "concat", "done", "failed"}
    /\ next \in 1 .. Size + 1
    /\ stage \in [Items -> {Idle} \cup 0 .. Ports]
    /\ answers \in [Items -> Seq(BOOLEAN)]
    /\ out \in Seq(Items)
    /\ slot \in [Items -> Items \cup {Empty}]
    /\ expired \in BOOLEAN
    /\ alive \in [Items -> [1 .. Ports -> BOOLEAN]]
    /\ Cardinality(Working) <= Limit

(* dt.go:103-105, "A node failure degrades to ecs_node_scrape_up=0 for     *)
(* that node only", and quotas.go:53-54, "one namespace's permissions must *)
(* not blank the other thousand": short of the deadline, each item comes   *)
(* out exactly as its own endpoints answer, whatever the others do.        *)
FailuresStayLocal ==
    (pc = "done" /\ ~expired) => \A i \in Items : answers[i] = alive[i]

(* No item is lost to a concurrent append or reported twice: DT returns    *)
(* every node, each with one outcome per port (dt.go:142-147), and Quotas  *)
(* every namespace whose request was answered, "the emitted order stays    *)
(* the inventory order regardless of completion order" (quotas.go:63-64).  *)
EachOnce ==
    pc = "done" =>
        /\ \A j, k \in DOMAIN out : out[j] = out[k] => j = k
        /\ Slotted => \A j, k \in DOMAIN out : j < k => out[j] < out[k]
        /\ \A i \in Items :
              /\ Len(answers[i]) = Ports
              /\ (\E k \in DOMAIN out : out[k] = i)
                    <=> (Slotted => \A p \in 1 .. Ports : answers[i][p])

(* What makes the two inductive.  An item that was not started has nothing *)
(* to show, one under way has its answers so far, and one that is through  *)
(* has an answer per port and has handed in what they came to.             *)
Started(i) == pc \in {"wait", "concat", "done"} \/ (pc = "spawn" /\ i < next)

Fresh(i) == stage[i] = Idle /\ Len(answers[i]) = 0

UnderWay(i) == stage[i] \in 0 .. Ports /\ Len(answers[i]) = stage[i]

Through(i) == stage[i] = Idle /\ Len(answers[i]) = Ports

Handed(i) == IF Slotted THEN slot[i] = i ELSE \E k \in DOMAIN out : out[k] = i

Yields(i) == Slotted => \A p \in 1 .. Ports : answers[i][p]

ItemInv ==
    \A i \in Items :
        /\ \/ ~Started(i) /\ Fresh(i) /\ ~Handed(i)
           \/ Started(i) /\ pc \in {"spawn", "wait"} /\ UnderWay(i) /\ ~Handed(i)
           \/ Started(i) /\ Through(i) /\ (Handed(i) <=> Yields(i))
        /\ slot[i] \in {Empty, i}
        /\ ~expired => \A p \in 1 .. Len(answers[i]) : answers[i][p] = alive[i][p]

(* What is in the result: each item once, for Quotas the filled slots up   *)
(* to the one at hand, in order.                                           *)
OutInv ==
    /\ pc = "list" => next = 1
    /\ \A j, k \in DOMAIN out : out[j] = out[k] => j = k
    /\ Slotted =>
          /\ \A j, k \in DOMAIN out : j < k => out[j] < out[k]
          /\ pc \in {"concat", "done"} \/ Len(out) = 0
          /\ pc = "concat" => \A i \in Items :
                (\E k \in DOMAIN out : out[k] = i) <=> slot[i] = i /\ i < next
          /\ pc = "done" => \A i \in Items :
                (\E k \in DOMAIN out : out[k] = i) <=> slot[i] = i
    /\ pc = "concat" => Slotted

(* A Collect always comes back, the deadline passed or not: the pool never *)
(* waits on itself.                                                        *)
CollectReturns == <>(pc \in {"done", "failed"})

=============================================================================
