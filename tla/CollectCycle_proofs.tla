------------------------ MODULE CollectCycle_proofs ------------------------
(***************************************************************************)
(* What a published snapshot says, for any clusters, any number of         *)
(* collectors for each, any of them faulty and any number of cycles: it is *)
(* one cycle's, whole, a cluster is up in it exactly when it has data, and *)
(* a healthy cluster does not suffer from its neighbours.  And of the      *)
(* pools that DT and Quotas run inside a Collect: an item's failure is its *)
(* own, and none is lost or reported twice.                                *)
(***************************************************************************)
EXTENDS CollectCycle, FanOut, FiniteSetTheorems, TLAPS

USE DEF Counted, GroupAfter, AllDone

(* Collectors of a cluster: at least one. *)
LEMMA CollectorsFact == \A c \in Clusters : Collectors[c] \in Nat /\ Collectors[c] > 0
BY ClustersAssumption

-----------------------------------------------------------------------------
(* Types *)

(* The placeholder of a result has the type of one. *)
LEMMA NoResultType == NoResult \in Result
BY BoundsAssumption DEF NoResult, Result

(* The type invariant holds initially. *)
LEMMA TypeInit == Init => TypeOK
<1> SUFFICES ASSUME Init PROVE TypeOK
  OBVIOUS
<1>1. ups \in [Clusters -> Seq({0, 1})]
  BY DEF Init
<1>2. samples \in [Clusters -> SUBSET Nat] /\ late \subseteq Clusters /\ warned \subseteq Clusters
  BY DEF Init
<1>3. /\ at \in [Clusters -> Calls \cup {"next", "done"}]
      /\ failures \in [Clusters -> Nat]
      /\ domain \in [Clusters -> Nat]
      /\ lines \in [Clusters -> Nat]
  BY DEF Init
<1>4. results \in [Clusters -> Result] /\ snap \in [Clusters -> Result]
  BY NoResultType DEF Init
<1>5. cycles \in 0 .. MaxCycles /\ reloads \in 0 .. MaxReloads
  BY BoundsAssumption DEF Init
<1> QED
  BY <1>1, <1>2, <1>3, <1>4, <1>5 DEF Init, TypeOK

(* warnCollision keeps the types of what it writes. *)
LEMMA WarnTypes ==
    ASSUME TypeOK, NEW c \in Clusters, Warn(c)
    PROVE  warned' \subseteq Clusters /\ lines' \in [Clusters -> Nat] /\ reloads' \in 0 .. MaxReloads
<1>1. CASE c \in Clashing \ warned
  <2>1. /\ warned' = warned \cup {c}
        /\ lines' = [lines EXCEPT ![c] = @ + 1]
        /\ reloads' = reloads
    BY <1>1 DEF Warn
  <2>2. lines' \in [Clusters -> Nat]
    BY <2>1 DEF TypeOK
  <2> QED
    BY <2>1, <2>2 DEF TypeOK
<1>2. CASE c \notin Clashing \ warned
  BY <1>2 DEF TypeOK, Warn, warnVars
<1> QED
  BY <1>1, <1>2

(* Every step keeps the type invariant. *)
LEMMA TypeStep == TypeOK /\ [Next]_vars => TypeOK'
<1> SUFFICES ASSUME TypeOK, [Next]_vars PROVE TypeOK'
  OBVIOUS
<1> USE BoundsAssumption DEF TypeOK, warnVars, cycleVars, Calls
<1>1. CASE Start
  <2>1. ups' \in [Clusters -> Seq({0, 1})]
    BY <1>1 DEF Start
  <2>2. samples' \in [Clusters -> SUBSET Nat] /\ late' \subseteq Clusters
    BY <1>1 DEF Start
  <2>3. results' \in [Clusters -> Result]
    BY <1>1, NoResultType DEF Start
  <2>4. cycles' \in 0 .. MaxCycles
    BY <1>1 DEF Start
  <2> QED
    BY <1>1, <2>1, <2>2, <2>3, <2>4 DEF Start
<1>2. CASE Publish
  BY <1>2 DEF Publish
<1>3. CASE Cancel
  BY <1>3 DEF Cancel
<1>4. CASE Rebuild
  BY <1>4 DEF Rebuild
<1>5. ASSUME NEW c \in Clusters, Call(c) PROVE TypeOK'
  BY <1>5 DEF Call, Goto
<1>6. ASSUME NEW c \in Clusters, Returned(c) PROVE TypeOK'
  <2>1. /\ domain' \in [Clusters -> Nat]
        /\ samples' \in [Clusters -> SUBSET Nat]
    BY <1>6 DEF Returned
  <2>2. at' \in [Clusters -> Calls \cup {"next", "done"}]
    BY <1>6 DEF Returned, Goto
  <2>3. ups' \in [Clusters -> Seq({0, 1})]
    BY <1>6 DEF Returned
  <2>4. warned' \subseteq Clusters /\ lines' \in [Clusters -> Nat] /\ reloads' \in 0 .. MaxReloads
    BY <1>6, WarnTypes DEF Returned
  <2> QED
    BY <1>6, <2>1, <2>2, <2>3, <2>4 DEF Returned
<1>7. ASSUME NEW c \in Clusters, Failed(c) PROVE TypeOK'
  <2>1. failures' \in [Clusters -> Nat]
    BY <1>7 DEF Failed
  <2>2. at' \in [Clusters -> Calls \cup {"next", "done"}]
    BY <1>7 DEF Failed, Goto
  <2>3. ups' \in [Clusters -> Seq({0, 1})]
    BY <1>7 DEF Failed
  <2>4. warned' \subseteq Clusters /\ lines' \in [Clusters -> Nat] /\ reloads' \in 0 .. MaxReloads
    BY <1>7, WarnTypes DEF Failed
  <2> QED
    BY <1>7, <2>1, <2>2, <2>3, <2>4 DEF Failed
<1>8. ASSUME NEW c \in Clusters, Finish(c) PROVE TypeOK'
  <2>1. Verdict(c) \in BOOLEAN
    BY DEF Verdict
  <2>2. [cycle |-> cycles, ok |-> Verdict(c), up |-> ups[c], samples |-> samples[c]] \in Result
    BY <2>1 DEF Result
  <2>3. results' \in [Clusters -> Result]
    BY <1>8, <2>2 DEF Finish
  <2> QED
    BY <1>8, <2>3 DEF Finish, Goto
<1>9. ASSUME NEW c \in Clusters, Deadline(c) PROVE TypeOK'
  BY <1>9 DEF Deadline
<1>10. CASE UNCHANGED vars
  BY <1>10 DEF vars
<1> QED
  BY <1>1, <1>2, <1>3, <1>4, <1>5, <1>6, <1>7, <1>8, <1>9, <1>10 DEF Next, ClusterStep

(* The types of a cycle's variables hold for all constants. *)
THEOREM CycleTypeCorrect == Spec => []TypeOK
BY TypeInit, TypeStep, PTL DEF Spec

-----------------------------------------------------------------------------
(* What a goroutine counts *)

(* Nothing is counted at first. *)
LEMMA CountInit == Init => CountInv
BY CollectorsFact DEF Init, CountInv, Counts, Calls

(* A step that leaves the counts alone and begins no call keeps them. *)
LEMMA SameCounts ==
    ASSUME CountInv, UNCHANGED <<at, ups, failures, domain, samples>>
    PROVE  CountInv'
BY DEF CountInv, Counts

(* Every step of a goroutine keeps the counts of every cluster. *)
LEMMA CountStep == TypeOK /\ CountInv /\ [Next]_vars => CountInv'
<1> SUFFICES ASSUME TypeOK, CountInv, [Next]_vars PROVE CountInv'
  OBVIOUS
<1> USE DEF warnVars, cycleVars
<1>1. CASE Start
  BY <1>1, CollectorsFact DEF Start, CountInv, Counts, Calls
<1>2. CASE Publish
  BY <1>2, SameCounts DEF Publish
<1>3. CASE Cancel
  BY <1>3, SameCounts DEF Cancel
<1>4. CASE Rebuild
  BY <1>4, SameCounts DEF Rebuild
<1>5. ASSUME NEW c \in Clusters, Call(c) PROVE CountInv'
  BY <1>5 DEF Call, Goto, TypeOK, CountInv, Counts
<1>6. ASSUME NEW c \in Clusters, Returned(c) PROVE CountInv'
  <2> SUFFICES ASSUME NEW d \in Clusters PROVE Counts(d)'
    BY DEF CountInv
  <2>1. CASE d # c
    BY <1>6, <2>1 DEF Returned, Goto, TypeOK, CountInv, Counts
  <2>2. CASE d = c
    <3> DEFINE n == Len(ups[c])
    <3>1. PICK m \in 0 .. 1 :
            /\ domain'[c] = domain[c] + m
            /\ samples'[c] = IF m = 0 THEN samples[c] ELSE samples[c] \cup {n + 1}
      BY <1>6 DEF Returned, TypeOK
    <3>2. /\ n \in Nat /\ n < Collectors[c]
          /\ Counts(c)
      BY <1>6 DEF Returned, TypeOK, CountInv, Counts, Calls
    <3>3. ups'[c] = Append(ups[c], 1) /\ at'[c] = "next" /\ failures' = failures
      BY <1>6 DEF Returned, Goto, TypeOK
    <3>4. /\ Len(ups'[c]) = n + 1 /\ ups'[c][n + 1] = 1
          /\ \A i \in 1 .. n : ups'[c][i] = ups[c][i]
      BY <3>3 DEF TypeOK
    <3>5. failures[c] \in Nat /\ domain[c] \in Nat /\ Collectors[c] \in Nat
      BY CollectorsFact DEF TypeOK
    <3>6. /\ failures[c] <= n + 1 /\ failures[c] # n + 1
          /\ n + 1 <= Collectors[c]
      BY <3>2, <3>5 DEF Counts
    <3>7. domain'[c] = 0 <=> samples'[c] = {}
      <4>1. CASE m = 0
        BY <3>1, <3>2, <3>5, <4>1 DEF Counts
      <4>2. CASE m = 1
        <5>1. domain'[c] # 0 /\ n + 1 \in samples'[c]
          BY <3>1, <3>5, <4>2
        <5> QED
          BY <5>1
      <4>3. m = 0 \/ m = 1
        OBVIOUS
      <4> QED
        BY <4>1, <4>2, <4>3
    <3>8. \A i \in samples'[c] : i \in 1 .. n + 1 /\ ups'[c][i] = 1
      BY <3>1, <3>2, <3>4 DEF Counts
    <3> QED
      BY <2>2, <3>3, <3>4, <3>6, <3>7, <3>8 DEF Counts, Calls
  <2> QED
    BY <2>1, <2>2
<1>7. ASSUME NEW c \in Clusters, Failed(c) PROVE CountInv'
  <2> SUFFICES ASSUME NEW d \in Clusters PROVE Counts(d)'
    BY DEF CountInv
  <2>1. CASE d # c
    BY <1>7, <2>1 DEF Failed, Goto, TypeOK, CountInv, Counts
  <2>2. CASE d = c
    <3> DEFINE n == Len(ups[c])
    <3>1. /\ n \in Nat /\ n < Collectors[c]
          /\ Counts(c)
      BY <1>7 DEF Failed, TypeOK, CountInv, Counts
    <3>2. /\ ups'[c] = Append(ups[c], 0) /\ at'[c] = "next"
          /\ failures'[c] = failures[c] + 1
          /\ domain' = domain /\ samples' = samples
      BY <1>7 DEF Failed, Goto, TypeOK
    <3>3. /\ Len(ups'[c]) = n + 1
          /\ \A i \in 1 .. n : ups'[c][i] = ups[c][i]
      BY <3>2 DEF TypeOK
    <3>4. failures[c] \in Nat /\ Collectors[c] \in Nat
      BY CollectorsFact DEF TypeOK
    <3> QED
      BY <2>2, <3>1, <3>2, <3>3, <3>4 DEF Counts, Calls
  <2> QED
    BY <2>1, <2>2
<1>8. ASSUME NEW c \in Clusters, Finish(c) PROVE CountInv'
  BY <1>8 DEF Finish, Goto, TypeOK, CountInv, Counts, Calls
<1>9. ASSUME NEW c \in Clusters, Deadline(c) PROVE CountInv'
  BY <1>9, SameCounts DEF Deadline
<1>10. CASE UNCHANGED vars
  BY <1>10, SameCounts DEF vars
<1> QED
  BY <1>1, <1>2, <1>3, <1>4, <1>5, <1>6, <1>7, <1>8, <1>9, <1>10 DEF Next, ClusterStep

-----------------------------------------------------------------------------
(* What is stored and published *)

(* The verdict on a cluster whose goroutine is at its end. *)
LEMMA VerdictSound ==
    ASSUME TypeOK, CountInv, NEW c \in Clusters, Len(ups[c]) = Collectors[c]
    PROVE  Verdict(c) <=> \E i \in samples[c] : ups[c][i] = 1
<1>1. /\ Counts(c)
      /\ Collectors[c] > 0
  BY CollectorsFact DEF CountInv
<1>2. (\E i \in samples[c] : ups[c][i] = 1) <=> samples[c] # {}
  BY <1>1 DEF Counts
<1>3. Verdict(c) <=> samples[c] # {}
  BY <1>1 DEF Counts, Verdict
<1> QED
  BY <1>2, <1>3

(* Nothing is stored at first. *)
LEMMA ResultInit == Init => ResultInv
BY DEF Init, ResultInv, Stored, Published, NoResult

(* A step that ends no goroutine and publishes nothing keeps the rest. *)
LEMMA SameResults ==
    ASSUME ResultInv, UNCHANGED <<running, cycles, results, snap>>,
           \A c \in Clusters : at'[c] = "done" <=> at[c] = "done"
    PROVE  ResultInv'
BY DEF ResultInv, Stored, Published, Sound

(* Every step keeps what is stored and published sound. *)
LEMMA ResultStep == TypeOK /\ CountInv /\ ResultInv /\ [Next]_vars => ResultInv'
<1> SUFFICES ASSUME TypeOK, CountInv, ResultInv, [Next]_vars PROVE ResultInv'
  OBVIOUS
<1> USE DEF warnVars, cycleVars
<1>1. CASE Start
  BY <1>1 DEF Start, ResultInv, Stored, Published, Sound
<1>2. CASE Publish
  <2>1. /\ snap' = results
        /\ ~running' /\ at' = at
        /\ \A c \in Clusters : at[c] = "done" /\ results[c].cycle = cycles /\ Sound(c, results[c])
    BY <1>2 DEF Publish, ResultInv, Stored
  <2> QED
    BY <2>1 DEF ResultInv, Stored, Published, Sound
<1>3. CASE Cancel
  BY <1>3, SameResults DEF Cancel
<1>4. CASE Rebuild
  BY <1>4, SameResults DEF Rebuild
<1>5. ASSUME NEW c \in Clusters, Call(c) PROVE ResultInv'
  <2>1. \A d \in Clusters : at'[d] = "done" <=> at[d] = "done"
    BY <1>5 DEF Call, Goto, TypeOK, Calls
  <2> QED
    BY <1>5, <2>1, SameResults DEF Call
<1>6. ASSUME NEW c \in Clusters, Returned(c) PROVE ResultInv'
  <2>1. \A d \in Clusters : at'[d] = "done" <=> at[d] = "done"
    BY <1>6 DEF Returned, Goto, TypeOK
  <2> QED
    BY <1>6, <2>1, SameResults DEF Returned
<1>7. ASSUME NEW c \in Clusters, Failed(c) PROVE ResultInv'
  <2>1. \A d \in Clusters : at'[d] = "done" <=> at[d] = "done"
    BY <1>7 DEF Failed, Goto, TypeOK, Calls
  <2> QED
    BY <1>7, <2>1, SameResults DEF Failed
<1>8. ASSUME NEW c \in Clusters, Finish(c) PROVE ResultInv'
  <2> DEFINE r == [cycle |-> cycles, ok |-> Verdict(c), up |-> ups[c], samples |-> samples[c]]
  <2>1. /\ results' = [results EXCEPT ![c] = r]
        /\ at' = [at EXCEPT ![c] = "done"]
        /\ UNCHANGED <<running, cycles, snap>>
        /\ at[c] = "next" /\ Len(ups[c]) = Collectors[c]
    BY <1>8 DEF Finish, Goto
  <2>2. r.cycle = cycles /\ Sound(c, r)
    BY <2>1, VerdictSound DEF Sound
  <2> HIDE DEF r
  <2>3. /\ results'[c] = r /\ at'[c] = "done"
        /\ \A d \in Clusters \ {c} : results'[d] = results[d] /\ at'[d] = at[d]
    BY <2>1 DEF TypeOK
  <2>4. running
    BY <2>1 DEF ResultInv, Stored
  <2>5. \A d \in Clusters : Stored(d)'
    BY <2>1, <2>2, <2>3, <2>4 DEF ResultInv, Stored, Published, Sound
  <2> QED
    BY <2>1, <2>5 DEF ResultInv
<1>9. ASSUME NEW c \in Clusters, Deadline(c) PROVE ResultInv'
  BY <1>9, SameResults DEF Deadline
<1>10. CASE UNCHANGED vars
  BY <1>10, SameResults DEF vars
<1> QED
  BY <1>1, <1>2, <1>3, <1>4, <1>5, <1>6, <1>7, <1>8, <1>9, <1>10 DEF Next, ClusterStep

(* The invariant of the verdict, for all constants. *)
LEMMA ResultAlways == Spec => []ResultInv
<1>1. Spec => []TypeOK
  BY CycleTypeCorrect
<1>2. Spec => []CountInv
  BY <1>1, CountInit, CountStep, PTL DEF Spec
<1> QED
  BY <1>1, <1>2, ResultInit, ResultStep, PTL DEF Spec

(* A published cluster is up exactly when a collector that did not fail    *)
(* returned data of it: a cluster that answers nothing, or nothing but     *)
(* housekeeping, is never reported up, and one with data never down.       *)
THEOREM UpExactlyWithData == Spec => []UpMeansData
<1>1. ResultInv => UpMeansData
  BY DEF ResultInv, Stored, Sound, UpMeansData
<1> QED
  BY <1>1, ResultAlways, PTL

(* No snapshot mixes the results of two cycles or lacks a cluster or one   *)
(* of its collectors, in whatever order the goroutines end.                *)
THEOREM SnapshotsAreWhole == Spec => []WholeCycle
<1>1. ResultInv => WholeCycle
  BY DEF ResultInv, Stored, Sound, WholeCycle
<1> QED
  BY <1>1, ResultAlways, PTL

-----------------------------------------------------------------------------
(* Healthy clusters *)

(* All are healthy at first. *)
LEMMA CalmInit == Init => CalmInv
BY DEF Init, CalmInv, Healthy, AllUp, NoResult

(* A step that touches one cluster's goroutine leaves the others healthy. *)
LEMMA OthersHealthy ==
    ASSUME CalmInv, UNCHANGED <<running, groupDone, late, ctxDone, snap>>, NEW c \in Clusters,
           \A d \in Clusters \ {c} :
               at'[d] = at[d] /\ ups'[d] = ups[d] /\ results'[d] = results[d],
           ~ctxDone /\ c \notin Faulty => Healthy(c)'
    PROVE  CalmInv'
BY DEF CalmInv, Healthy

(* Every step keeps healthy clusters so until the loop is cancelled. *)
LEMMA CalmStep == TypeOK /\ ResultInv /\ CalmInv /\ [Next]_vars => CalmInv'
<1> SUFFICES ASSUME TypeOK, ResultInv, CalmInv, [Next]_vars PROVE CalmInv'
  OBVIOUS
<1> USE DEF warnVars, cycleVars
<1>a. ASSUME NEW c \in Clusters, ~ctxDone, at[c] # "done", c \notin Faulty
      PROVE  ~Over(c) /\ Healthy(c)
  BY <1>a DEF CalmInv, ResultInv, Stored, Over
<1>1. CASE Start
  BY <1>1 DEF Start, CalmInv, Healthy, AllUp, NoResult
<1>2. CASE Publish
  BY <1>2 DEF Publish, CalmInv, Healthy
<1>3. CASE Cancel
  BY <1>3 DEF Cancel, CalmInv, Healthy
<1>4. CASE Rebuild
  BY <1>4 DEF Rebuild, CalmInv, Healthy
<1>5. ASSUME NEW c \in Clusters, Call(c) PROVE CalmInv'
  <2>1. ~ctxDone /\ c \notin Faulty => Healthy(c)'
    BY <1>5, <1>a DEF Call, Goto, TypeOK, Healthy
  <2> QED
    BY <1>5, <2>1, OthersHealthy DEF Call, Goto, TypeOK
<1>6. ASSUME NEW c \in Clusters, Returned(c) PROVE CalmInv'
  <2>1. at'[c] = "next" /\ ups'[c] = Append(ups[c], 1) /\ at[c] # "done"
    BY <1>6 DEF Returned, Goto, TypeOK
  <2>2. AllUp(ups[c]) => AllUp(ups'[c])
    BY <2>1 DEF TypeOK, AllUp
  <2>3. ~ctxDone /\ c \notin Faulty => Healthy(c)'
    BY <1>6, <1>a, <2>1, <2>2 DEF Returned, Healthy
  <2> QED
    BY <1>6, <2>3, OthersHealthy DEF Returned, Goto, TypeOK
<1>7. ASSUME NEW c \in Clusters, Failed(c) PROVE CalmInv'
  <2>1. ctxDone \/ c \in Faulty
    BY <1>7, <1>a DEF Failed, Healthy, Calls
  <2> QED
    BY <1>7, <2>1, OthersHealthy DEF Failed, Goto, TypeOK
<1>8. ASSUME NEW c \in Clusters, Finish(c) PROVE CalmInv'
  <2>1. /\ at'[c] = "done" /\ ups' = ups /\ snap' = snap /\ at[c] # "done"
        /\ results'[c].up = ups[c]
        /\ groupDone' = groupDone
    BY <1>8 DEF Finish, Goto, TypeOK
  <2>2. ~ctxDone /\ c \notin Faulty => Healthy(c)'
    BY <1>a, <2>1 DEF Healthy
  <2> QED
    BY <1>8, <2>1, <2>2, OthersHealthy DEF Finish, Goto, TypeOK
<1>9. ASSUME NEW c \in Clusters, Deadline(c) PROVE CalmInv'
  BY <1>9 DEF Deadline, CalmInv, Healthy
<1>10. CASE UNCHANGED vars
  BY <1>10 DEF vars, CalmInv, Healthy
<1> QED
  BY <1>1, <1>2, <1>3, <1>4, <1>5, <1>6, <1>7, <1>8, <1>9, <1>10 DEF Next, ClusterStep

(* Unless the loop itself is cancelled, every snapshot has a healthy       *)
(* cluster with all its collectors up, however many of its neighbours      *)
(* fail, hang or run into their deadlines.                                 *)
THEOREM NeighboursDoNotMatter == Spec => []HealthyStayUp
<1>1. Spec => []TypeOK
  BY CycleTypeCorrect
<1>2. Spec => []CalmInv
  BY <1>1, ResultAlways, CalmInit, CalmStep, PTL DEF Spec
<1>3. CalmInv => HealthyStayUp
  BY DEF CalmInv, Healthy, AllUp, HealthyStayUp
<1> QED
  BY <1>2, <1>3, PTL

-----------------------------------------------------------------------------
(* The pools of DT and Quotas, two of the Collects a cycle makes.          *)

USE DEF Places, Heard, Appended

(* What an append leaves in place and what it adds. *)
LEMMA AppendFacts ==
    ASSUME NEW S, NEW s \in Seq(S), NEW x \in S
    PROVE  /\ Append(s, x)[Len(s) + 1] = x
           /\ Len(s) + 1 \in DOMAIN Append(s, x)
           /\ \A k \in DOMAIN s : k \in DOMAIN Append(s, x) /\ Append(s, x)[k] = s[k]
           /\ \A k \in DOMAIN Append(s, x) : k \in DOMAIN s \/ k = Len(s) + 1
<1>1. /\ DOMAIN s = 1 .. Len(s) /\ DOMAIN Append(s, x) = 1 .. Len(s) + 1 /\ Len(s) \in Nat
      /\ \A k \in 1 .. Len(s) : Append(s, x)[k] = s[k]
      /\ Append(s, x)[Len(s) + 1] = x
  OBVIOUS
<1> QED
  BY <1>1

(* Functions that agree everywhere are one. *)
LEMMA SameFunction ==
    ASSUME NEW S, NEW T, NEW f \in [S -> T], NEW g \in [S -> T],
           \A x \in S : f[x] = g[x]
    PROVE  f = g
OBVIOUS

(* The collectors, their ports and what is no item. *)
LEMMA PoolFacts ==
    /\ Size \in Nat /\ Limit \in Nat /\ Limit > 0
    /\ Ports \in {1, 2} /\ Empty \notin Items
    /\ \A i \in Items : i \in Nat /\ i >= 1 /\ i <= Size
BY PoolAssumption DEF Ports, Empty, Items

(* The items at work are finitely many. *)
LEMMA WorkingFinite == IsFiniteSet(Working) /\ Cardinality(Working) \in Nat
<1>1. IsFiniteSet(Items)
  BY PoolAssumption, FS_Interval DEF Items
<1>2. Working \in SUBSET Items
  BY DEF Working
<1>3. QED
  BY <1>1, <1>2, FS_Subset, FS_CardinalityType

(* The inductive invariant of a pool. *)
PoolInv == PoolTypeOK /\ ItemInv /\ OutInv

(* Nothing was started. *)
LEMMA PoolInvInit == PoolInit => PoolInv
<1> SUFFICES ASSUME PoolInit PROVE PoolInv
  OBVIOUS
<1>1. Working = {} /\ Cardinality({}) = 0
  BY FS_EmptySet DEF PoolInit, Working
<1>2. PoolTypeOK
  <2>2. stage \in [Items -> {Idle} \cup 0 .. Ports] /\ slot \in [Items -> Items \cup {Empty}]
    BY DEF PoolInit
  <2>3. answers \in [Items -> Seq(BOOLEAN)] /\ out \in Seq(Items)
    BY DEF PoolInit
  <2>4. Cardinality(Working) <= Limit /\ next \in 1 .. Size + 1
    BY <1>1, PoolFacts DEF PoolInit
  <2>5. QED
    BY <2>2, <2>3, <2>4 DEF PoolInit, PoolTypeOK
<1>3. ItemInv
  BY PoolFacts DEF PoolInit, ItemInv, Started, Fresh, Handed, Items
<1>4. OutInv
  BY DEF PoolInit, OutInv
<1>5. QED
  BY <1>2, <1>3, <1>4 DEF PoolInv

(* A step leaves the collector and its appliance as they are. *)
LEMMA SamePool ==
    ASSUME [PoolNext]_poolVars
    PROVE  kind' = kind /\ alive' = alive /\ Ports' = Ports /\ (Slotted' <=> Slotted)
<1>1. kind' = kind /\ alive' = alive
  BY DEF PoolNext, poolVars, Caller, Worker, List, ListFails, Go,
         AllStarted, Wait, Concat,
         Concatenated, Expire, Ask, AppendSamples, FillSlot
<1>2. QED
  BY <1>1 DEF Ports, Slotted

(* Every step keeps the types, and never are more than Limit at work. *)
LEMMA PoolTypes ==
    ASSUME PoolTypeOK, [PoolNext]_poolVars
    PROVE  PoolTypeOK'
<1> USE PoolFacts DEF PoolTypeOK
<1>1. Ports' = Ports /\ kind' = kind /\ alive' = alive
  BY SamePool
<1>2. CASE /\ UNCHANGED <<stage, answers, out, slot>>
           /\ next' \in 1 .. Size + 1 /\ expired' \in BOOLEAN
           /\ pc' \in {"list", "spawn", "wait", "concat", "done", "failed"}
  BY <1>1, <1>2 DEF Working
<1>3. CASE List \/ ListFails \/ AllStarted \/ Wait \/ Concatenated \/ Expire
  <2>1. /\ UNCHANGED <<stage, answers, out, slot>>
        /\ next' = next \/ next' = 1
        /\ expired' \in BOOLEAN
        /\ pc' \in {"list", "spawn", "wait", "concat", "done", "failed"}
    BY <1>3 DEF List, ListFails, AllStarted, Wait, Concatenated,
           Expire
  <2>2. QED
    BY <1>2, <2>1
<1>4. CASE Go
  <2>1. /\ next \in Items /\ next' \in 1 .. Size + 1
        /\ stage' = [stage EXCEPT ![next] = 0]
        /\ UNCHANGED <<pc, answers, out, slot, expired>>
        /\ Limit - Cardinality(Working) > 0
    BY <1>4 DEF Go, Items
  <2>2. stage' \in [Items -> {Idle} \cup 0 .. Ports]
    BY <2>1
  <2>3. Working' = Working \cup {next}
    BY <2>1 DEF Working, Idle
  <2>8. Cardinality(Working \cup {next})
          = IF next \in Working THEN Cardinality(Working) ELSE Cardinality(Working) + 1
    BY WorkingFinite, FS_AddElement
  <2>4. Cardinality(Working') <= Cardinality(Working) + 1
    BY <2>3, <2>8, WorkingFinite
  <2>5. Cardinality(Working') \in Nat
    BY <2>3, WorkingFinite, FS_AddElement, FS_CardinalityType
  <2>6. Cardinality(Working') <= Limit
    BY <2>1, <2>4, <2>5, WorkingFinite
  <2>7. QED
    BY <1>1, <2>1, <2>2, <2>6
<1>5. ASSUME NEW i \in Items, Ask(i) PROVE PoolTypeOK'
  <2>1. PICK ok \in BOOLEAN : answers' = [answers EXCEPT ![i] = Append(@, ok)]
    BY <1>5 DEF Ask
  <2>2. answers' \in [Items -> Seq(BOOLEAN)]
    BY <2>1
  <2>3. /\ stage[i] \in 0 .. Ports - 1 /\ stage' = [stage EXCEPT ![i] = @ + 1]
        /\ UNCHANGED <<pc, next, out, slot, expired>>
    BY <1>5 DEF Ask
  <2>4. stage[i] + 1 \in 0 .. Ports
    BY <2>3
  <2>5. stage' \in [Items -> {Idle} \cup 0 .. Ports]
    BY <2>3, <2>4
  <2>6. Working' = Working
    BY <2>3, <2>4 DEF Working, Idle
  <2>7. QED
    BY <1>1, <2>2, <2>3, <2>5, <2>6
<1>6. ASSUME NEW i \in Items, AppendSamples(i) \/ FillSlot(i) PROVE PoolTypeOK'
  <2>1. stage' = [stage EXCEPT ![i] = Idle] /\ UNCHANGED <<pc, next, answers, expired>>
    BY <1>6 DEF AppendSamples, FillSlot
  <2>2. stage' \in [Items -> {Idle} \cup 0 .. Ports]
    BY <2>1
  <2>3. out' \in Seq(Items) /\ slot' \in [Items -> Items \cup {Empty}]
    <3>1. CASE AppendSamples(i)
      <4>1. out' = Append(out, i) /\ slot' = slot
        BY <3>1 DEF AppendSamples
      <4>2. QED
        BY <4>1
    <3>2. CASE FillSlot(i)
      <4>1. out' = out /\ (slot' = slot \/ slot' = [slot EXCEPT ![i] = i])
        BY <3>2 DEF FillSlot
      <4>2. QED
        BY <4>1
    <3>3. QED
      BY <1>6, <3>1, <3>2
  <2>4. Working' \in SUBSET Working
    BY <2>1 DEF Working
  <2>5. Cardinality(Working') <= Cardinality(Working) /\ Cardinality(Working') \in Nat
    BY <2>4, WorkingFinite, FS_Subset, FS_CardinalityType
  <2>6. Cardinality(Working') <= Limit
    BY <2>5, WorkingFinite
  <2>7. QED
    BY <1>1, <2>1, <2>2, <2>3, <2>6
<1>7. CASE Concat
  <2>1. /\ next \in Items /\ next' \in 1 .. Size + 1
        /\ UNCHANGED <<pc, stage, answers, slot, expired>>
    BY <1>7 DEF Concat, Items
  <2>2. slot[next] \in Items \cup {Empty}
    BY <2>1
  <2>3. out' \in Seq(Items)
    BY <1>7, <2>2 DEF Concat
  <2>4. Working' = Working
    BY <2>1 DEF Working
  <2>5. QED
    BY <1>1, <2>1, <2>3, <2>4
<1>8. CASE UNCHANGED poolVars
  BY <1>2, <1>8 DEF poolVars
<1>9. QED
  BY <1>3, <1>4, <1>5, <1>6, <1>7, <1>8 DEF PoolNext, Caller, Worker

(* One item's part of ItemInv. *)
OneItem(i) ==
    /\ \/ ~Started(i) /\ Fresh(i) /\ ~Handed(i)
       \/ Started(i) /\ pc \in {"spawn", "wait"} /\ UnderWay(i) /\ ~Handed(i)
       \/ Started(i) /\ Through(i) /\ (Handed(i) <=> Yields(i))
    /\ slot[i] \in {Empty, i}
    /\ ~expired => \A p \in 1 .. Len(answers[i]) : answers[i][p] = alive[i][p]

(* Every step keeps each item's part. *)
LEMMA ItemStep ==
    ASSUME PoolTypeOK, ItemInv, OutInv, [PoolNext]_poolVars, NEW i \in Items
    PROVE  OneItem(i)'
<1>1. OneItem(i)
  BY DEF ItemInv, OneItem
<1>2. kind' = kind /\ alive' = alive /\ Ports' = Ports /\ (Slotted' <=> Slotted)
  BY SamePool
<1> USE PoolFacts DEF PoolTypeOK
<1>3. CASE ListFails \/ List
  BY <1>1, <1>2, <1>3 DEF ListFails, List, OneItem, Started, Fresh,
         UnderWay, Through, Handed, Yields, OutInv
<1>4. CASE AllStarted
  BY <1>1, <1>2, <1>4 DEF AllStarted, OneItem, Started, Fresh, UnderWay,
         Through, Handed, Yields
<1>5. CASE Wait
  <2>1. stage[i] = Idle
    BY <1>5 DEF Wait, Working
  <2>2. QED
    BY <1>1, <1>2, <1>5, <2>1 DEF Wait, OneItem, Started, Fresh,
           UnderWay, Through, Handed, Yields, Idle
<1>6. CASE Concat \/ Concatenated
  BY <1>1, <1>2, <1>6 DEF Concat, Concatenated, OneItem, Started, Fresh,
         UnderWay, Through, Handed, Yields, OutInv
<1>7. CASE Expire \/ UNCHANGED poolVars
  BY <1>1, <1>2, <1>7 DEF Expire, poolVars, OneItem, Started, Fresh,
         UnderWay, Through, Handed, Yields
<1>8. CASE Go
  <2>1. CASE i = next
    BY <1>1, <1>2, <1>8, <2>1 DEF Go, OneItem, Started, Fresh, UnderWay,
           Through, Handed, Yields, Idle
  <2>2. CASE i # next
    BY <1>1, <1>2, <1>8, <2>2 DEF Go, OneItem, Started, Fresh, UnderWay,
           Through, Handed, Yields
  <2>3. QED
    BY <2>1, <2>2
<1>9. ASSUME NEW j \in Items, Ask(j) PROVE OneItem(i)'
  <2>1. CASE i # j
    <3>1. PICK ok \in BOOLEAN : answers' = [answers EXCEPT ![j] = Append(@, ok)]
      BY <1>9 DEF Ask
    <3>2. /\ answers'[i] = answers[i] /\ stage'[i] = stage[i]
          /\ UNCHANGED <<pc, next, out, slot, expired>>
      BY <1>9, <2>1, <3>1 DEF Ask
    <3>3. /\ (Started(i)' <=> Started(i)) /\ (Handed(i)' <=> Handed(i))
          /\ (Yields(i)' <=> Yields(i))
      BY <1>2, <3>2 DEF Started, Handed, Yields
    <3>4. /\ (Fresh(i)' <=> Fresh(i)) /\ (UnderWay(i)' <=> UnderWay(i))
          /\ (Through(i)' <=> Through(i))
      BY <1>2, <3>2 DEF Fresh, UnderWay, Through
    <3>5. QED
      BY <1>1, <1>2, <3>2, <3>3, <3>4 DEF OneItem
  <2>2. CASE i = j
    <3>1. PICK ok \in BOOLEAN : /\ ok <=> alive[i][stage[i] + 1] /\ ~expired
                                /\ answers' = [answers EXCEPT ![i] = Append(@, ok)]
      BY <1>9, <2>2 DEF Ask
    <3>2. /\ stage[i] \in 0 .. Ports - 1 /\ stage' = [stage EXCEPT ![i] = @ + 1]
          /\ UNCHANGED <<pc, next, out, slot, expired>>
      BY <1>9, <2>2 DEF Ask
    <3>3. UnderWay(i) /\ Started(i) /\ pc \in {"spawn", "wait"} /\ ~Handed(i)
      BY <1>1, <3>2 DEF OneItem, Fresh, Through, Idle
    <3>4. answers[i] \in Seq(BOOLEAN) /\ Len(answers[i]) = stage[i]
      BY <3>3 DEF UnderWay
    <3>5. /\ answers'[i] = Append(answers[i], ok)
          /\ Len(answers'[i]) = stage[i] + 1
          /\ answers'[i][stage[i] + 1] = ok
          /\ \A p \in 1 .. stage[i] : answers'[i][p] = answers[i][p]
      BY <3>1, <3>4
    <3>6. UnderWay(i)'
      BY <1>2, <3>2, <3>5 DEF UnderWay
    <3>7. Started(i)' /\ pc' \in {"spawn", "wait"} /\ ~Handed(i)'
      BY <1>2, <3>2, <3>3 DEF Started, Handed
    <3>8. ~expired' => \A p \in 1 .. Len(answers'[i]) : answers'[i][p] = alive'[i][p]
      <4>1. SUFFICES ASSUME ~expired, NEW p \in 1 .. stage[i] + 1
                     PROVE  answers'[i][p] = alive[i][p]
        BY <1>2, <3>2, <3>5
      <4>2. CASE p \in 1 .. stage[i]
        BY <1>1, <3>4, <3>5, <4>1, <4>2 DEF OneItem
      <4>3. CASE p = stage[i] + 1
        <5>1. alive[i][p] \in BOOLEAN
          BY <3>2, <4>3
        <5>2. ok <=> alive[i][p]
          BY <3>1, <4>1, <4>3
        <5>3. QED
          BY <3>5, <4>3, <5>1, <5>2
      <4>4. QED
        BY <3>2, <4>2, <4>3
    <3>9. slot'[i] \in {Empty, i}
      BY <1>1, <3>2 DEF OneItem
    <3>10. QED
      BY <3>6, <3>7, <3>8, <3>9 DEF OneItem
  <2>3. QED
    BY <2>1, <2>2
<1>10. ASSUME NEW j \in Items, AppendSamples(j) PROVE OneItem(i)'
  <2>1. /\ ~Slotted /\ stage[j] = Ports /\ out' = Append(out, j)
        /\ stage' = [stage EXCEPT ![j] = Idle]
        /\ UNCHANGED <<pc, next, answers, slot, expired>>
    BY <1>10 DEF AppendSamples, Asked
  <2>2. /\ out'[Len(out) + 1] = j
        /\ Len(out) + 1 \in DOMAIN out' /\ \A k \in DOMAIN out : k \in DOMAIN out'
        /\ \A k \in DOMAIN out : out'[k] = out[k]
    BY <2>1, AppendFacts
  <2>3. \E k \in DOMAIN out' : out'[k] = j
    BY <2>2
  <2>8. \A k \in DOMAIN out' : k \in DOMAIN out \/ k = Len(out) + 1
    BY <2>1, AppendFacts
  <2>4. ASSUME i # j
        PROVE  (\E k \in DOMAIN out' : out'[k] = i) <=> (\E k \in DOMAIN out : out[k] = i)
    BY <2>2, <2>4, <2>8
  <2>5. CASE i # j
    BY <1>1, <1>2, <2>1, <2>4, <2>5 DEF OneItem, Started, Fresh, UnderWay,
           Through, Handed, Yields
  <2>6. CASE i = j
    <3>1. UnderWay(i) /\ Started(i)
      BY <1>1, <2>1, <2>6 DEF OneItem, Fresh, Through, Idle
    <3>2. Through(i)' /\ Started(i)'
      BY <1>2, <2>1, <2>6, <3>1 DEF Through, UnderWay, Started
    <3>3. Handed(i)' /\ Yields(i)'
      BY <1>2, <2>1, <2>3, <2>6 DEF Handed, Yields
    <3>4. QED
      BY <1>1, <1>2, <2>1, <3>2, <3>3 DEF OneItem
  <2>7. QED
    BY <2>5, <2>6
<1>11. ASSUME NEW j \in Items, FillSlot(j) PROVE OneItem(i)'
  <2>1. /\ Slotted /\ stage[j] = Ports
        /\ slot' = IF \A p \in DOMAIN answers[j] : answers[j][p]
                   THEN [slot EXCEPT ![j] = j] ELSE slot
        /\ stage' = [stage EXCEPT ![j] = Idle]
        /\ UNCHANGED <<pc, next, answers, out, expired>>
    BY <1>11 DEF FillSlot, Asked
  <2>2. CASE i # j
    BY <1>1, <1>2, <2>1, <2>2 DEF OneItem, Started, Fresh, UnderWay,
           Through, Handed, Yields
  <2>3. CASE i = j
    <3>1. UnderWay(i) /\ Started(i) /\ ~Handed(i)
      BY <1>1, <2>1, <2>3 DEF OneItem, Fresh, Through, Idle
    <3>2. Through(i)' /\ Started(i)'
      BY <1>2, <2>1, <2>3, <3>1 DEF Through, UnderWay, Started
    <3>3. DOMAIN answers[i] = 1 .. Ports
      BY <2>1, <2>3, <3>1 DEF UnderWay
    <3>4. Handed(i)' <=> Yields(i)'
      BY <1>2, <2>1, <2>3, <3>1, <3>3 DEF Handed, Yields
    <3>5. slot'[i] \in {Empty, i}
      BY <1>1, <2>1, <2>3 DEF OneItem
    <3>6. QED
      BY <1>1, <1>2, <2>1, <3>2, <3>4, <3>5 DEF OneItem
  <2>4. QED
    BY <2>2, <2>3
<1>12. QED
  BY <1>3, <1>4, <1>5, <1>6, <1>7, <1>8, <1>9, <1>10, <1>11 DEF PoolNext, Caller,
         Worker

(* Every step keeps the result one of items, each once. *)
LEMMA OutStep ==
    ASSUME PoolTypeOK, ItemInv, OutInv, [PoolNext]_poolVars
    PROVE  OutInv'
<1>1. kind' = kind /\ (Slotted' <=> Slotted)
  BY SamePool
<1> USE PoolFacts DEF PoolTypeOK
<1>2. CASE List \/ ListFails \/ Go \/ AllStarted \/ Expire \/ UNCHANGED poolVars
  BY <1>1, <1>2 DEF List, ListFails, Go, AllStarted, Expire,
         poolVars, OutInv
<1>3. CASE Concatenated
  <2>1. \A i \in Items : i < next
    BY <1>3 DEF Concatenated
  <2>2. QED
    BY <1>1, <1>3, <2>1 DEF Concatenated, OutInv
<1>4. CASE Wait
  <2>1. /\ pc' = (IF Slotted THEN "concat" ELSE "done") /\ next' = 1
        /\ UNCHANGED <<out, slot>> /\ pc = "wait"
    BY <1>4 DEF Wait
  <2>2. \A i \in Items : ~ (i < 1)
    OBVIOUS
  <2>3. Slotted => DOMAIN out = {}
    BY <2>1 DEF OutInv
  <2>4. QED
    BY <1>1, <2>1, <2>2, <2>3 DEF OutInv
<1>5. ASSUME NEW i \in Items, Ask(i) PROVE OutInv'
  BY <1>1, <1>5 DEF Ask, OutInv
<1>6. ASSUME NEW i \in Items, FillSlot(i) PROVE OutInv'
  <2>1. Slotted /\ stage[i] = Ports /\ UNCHANGED <<pc, next, out>>
    BY <1>6 DEF FillSlot, Asked
  <2>2. pc \in {"spawn", "wait"}
    BY <2>1 DEF ItemInv, Fresh, Through, Idle
  <2>3. QED
    BY <1>1, <2>1, <2>2 DEF OutInv
<1>7. ASSUME NEW i \in Items, AppendSamples(i) PROVE OutInv'
  <2>1. ~Slotted /\ stage[i] = Ports /\ out' = Append(out, i) /\ UNCHANGED <<pc, next>>
    BY <1>7 DEF AppendSamples, Asked
  <2>2. pc \in {"spawn", "wait"} /\ \A k \in DOMAIN out : out[k] # i
    BY <2>1 DEF ItemInv, Fresh, Through, Handed, Idle
  <2>3. /\ out'[Len(out) + 1] = i /\ Len(out) \in Nat
        /\ \A k \in 1 .. Len(out) : out'[k] = out[k]
        /\ DOMAIN out = 1 .. Len(out) /\ DOMAIN out' = 1 .. Len(out) + 1
    BY <2>1
  <2>4. \A j, k \in DOMAIN out' : out'[j] = out'[k] => j = k
    <3>1. \A k \in DOMAIN out' : k \in DOMAIN out \/ k = Len(out) + 1
      BY <2>3
    <3>2. \A j, k \in DOMAIN out : out[j] = out[k] => j = k
      BY DEF OutInv
    <3>3. QED
      BY <2>2, <2>3, <3>1, <3>2
  <2>5. QED
    BY <1>1, <2>1, <2>2, <2>4 DEF OutInv
<1>8. CASE Concat
  <2>1. /\ pc = "concat" /\ pc' = pc /\ slot' = slot /\ next \in Items /\ next' = next + 1
        /\ out' = IF slot[next] # Empty THEN Append(out, slot[next]) ELSE out
        /\ Slotted
    BY <1>8 DEF Concat, Items, OutInv
  <2>2. /\ \A i \in Items : (\E k \in DOMAIN out : out[k] = i) <=> slot[i] = i /\ i < next
        /\ \A j, k \in DOMAIN out : out[j] = out[k] => j = k
        /\ \A j, k \in DOMAIN out : j < k => out[j] < out[k]
    BY <2>1 DEF OutInv
  <2>3. \A i \in Items : slot[i] \in {Empty, i}
    BY DEF ItemInv
  <2>4. \A i \in Items : i < next + 1 <=> i < next \/ i = next
    BY <2>1
  <2>5. CASE slot[next] = Empty
    <3>1. out' = out /\ slot[next] # next
      BY <2>1, <2>5
    <3>2. \A i \in Items : (\E k \in DOMAIN out' : out'[k] = i) <=> slot'[i] = i /\ i < next'
      BY <2>1, <2>2, <2>4, <3>1
    <3>3. QED
      BY <1>1, <2>1, <2>2, <3>1, <3>2 DEF OutInv
  <2>6. CASE slot[next] # Empty
    <3>1. slot[next] = next /\ out' = Append(out, next)
      BY <2>1, <2>3, <2>6
    <3>2. /\ out'[Len(out) + 1] = next /\ Len(out) \in Nat
          /\ Len(out) + 1 \in DOMAIN out' /\ \A k \in DOMAIN out : k \in DOMAIN out'
          /\ \A k \in 1 .. Len(out) : out'[k] = out[k]
          /\ DOMAIN out = 1 .. Len(out) /\ DOMAIN out' = 1 .. Len(out) + 1
      BY <2>1, <3>1
    <3>3. \A k \in DOMAIN out : out[k] \in Items /\ out[k] < next
      BY <2>2
    <3>4. \A k \in DOMAIN out' : k \in DOMAIN out \/ k = Len(out) + 1
      BY <3>2
    <3>5. \A j, k \in DOMAIN out' : out'[j] = out'[k] => j = k
      <4>1. SUFFICES ASSUME NEW j \in DOMAIN out', NEW k \in DOMAIN out', out'[j] = out'[k]
                     PROVE  j = k
        OBVIOUS
      <4>2. CASE j \in DOMAIN out /\ k \in DOMAIN out
        BY <2>2, <3>2, <4>1, <4>2
      <4>3. CASE j \notin DOMAIN out \/ k \notin DOMAIN out
        BY <2>1, <3>2, <3>3, <3>4, <4>1, <4>3
      <4>4. QED
        BY <4>2, <4>3
    <3>6. \A j, k \in DOMAIN out' : j < k => out'[j] < out'[k]
      <4>1. SUFFICES ASSUME NEW j \in DOMAIN out', NEW k \in DOMAIN out', j < k
                     PROVE  out'[j] < out'[k]
        OBVIOUS
      <4>2. j \in DOMAIN out
        BY <3>2, <4>1
      <4>3. CASE k \in DOMAIN out
        BY <2>2, <3>2, <4>1, <4>2, <4>3
      <4>4. CASE k = Len(out) + 1
        BY <3>2, <3>3, <4>2, <4>4
      <4>5. QED
        BY <3>4, <4>3, <4>4
    <3>7. \A i \in Items : (\E k \in DOMAIN out' : out'[k] = i) <=> slot'[i] = i /\ i < next'
      <4>1. SUFFICES ASSUME NEW i \in Items
                     PROVE  (\E k \in DOMAIN out' : out'[k] = i) <=> slot[i] = i /\ i < next + 1
        BY <2>1
      <4>2. (\E k \in DOMAIN out' : out'[k] = i) <=> (\E k \in DOMAIN out : out[k] = i) \/ i = next
        BY <3>2, <3>4
      <4>3. QED
        BY <2>2, <2>4, <3>1, <4>2
    <3>8. QED
      BY <1>1, <2>1, <3>5, <3>6, <3>7 DEF OutInv
  <2>7. QED
    BY <2>5, <2>6
<1>9. QED
  BY <1>2, <1>3, <1>4, <1>5, <1>6, <1>7, <1>8 DEF PoolNext, Caller, Worker

(* Every step keeps the inductive invariant. *)
LEMMA PoolStep == PoolInv /\ [PoolNext]_poolVars => PoolInv'
<1> SUFFICES ASSUME PoolTypeOK, ItemInv, OutInv, [PoolNext]_poolVars
             PROVE  PoolTypeOK' /\ ItemInv' /\ OutInv'
  BY DEF PoolInv
<1>1. PoolTypeOK' /\ OutInv'
  BY PoolTypes, OutStep
<1>2. \A i \in Items : OneItem(i)'
  BY ItemStep
<1>3. ItemInv'
  BY <1>2 DEF ItemInv, OneItem
<1>4. QED
  BY <1>1, <1>3

(* So it holds throughout. *)
LEMMA PoolAlways == PoolSpec => []PoolInv
BY PoolInvInit, PoolStep, PTL DEF PoolSpec

(* And it says what a Collect that is done returns. *)
LEMMA PoolImplies ==
    ASSUME PoolInv
    PROVE  FailuresStayLocal /\ EachOnce
<1> USE PoolFacts DEF PoolInv, PoolTypeOK
<1>1. ASSUME pc = "done", NEW i \in Items
      PROVE  Through(i) /\ (Handed(i) <=> Yields(i))
  BY <1>1 DEF ItemInv, Started
<1>2. ASSUME pc = "done", ~expired, NEW i \in Items
      PROVE  answers[i] = alive[i]
  <2>1. Len(answers[i]) = Ports /\ answers[i] \in Seq(BOOLEAN)
    BY <1>1, <1>2 DEF Through
  <2>2. DOMAIN answers[i] = 1 .. Ports /\ answers[i] \in [1 .. Ports -> BOOLEAN]
    BY <2>1
  <2>3. \A p \in 1 .. Ports : answers[i][p] = alive[i][p]
    BY <1>2, <2>1 DEF ItemInv
  <2>5. alive[i] \in [1 .. Ports -> BOOLEAN]
    OBVIOUS
  <2>4. QED
    BY <2>2, <2>3, <2>5, SameFunction
<1>3. ASSUME pc = "done", NEW i \in Items
      PROVE  /\ Len(answers[i]) = Ports
             /\ (\E k \in DOMAIN out : out[k] = i)
                   <=> (Slotted => \A p \in 1 .. Ports : answers[i][p])
  BY <1>1, <1>3 DEF Through, Handed, Yields, OutInv
<1>4. QED
  BY <1>2, <1>3 DEF FailuresStayLocal, EachOnce, OutInv

(* However many items and however many requests at once: never are more    *)
(* goroutines at work than the limit allows.                               *)
THEOREM PoolKeepsItsLimit == PoolSpec => []PoolTypeOK
<1>1. PoolInv => PoolTypeOK
  BY DEF PoolInv
<1> QED
  BY <1>1, PoolAlways, PTL

(* Whatever fails and in whatever order the requests end, an item's        *)
(* outcome is what its own endpoints answered.                             *)
THEOREM AFailureCostsItsItem == PoolSpec => []FailuresStayLocal
<1>1. PoolInv => FailuresStayLocal
  BY PoolImplies
<1> QED
  BY <1>1, PoolAlways, PTL

(* No item is lost or reported twice, and Quotas keeps the inventory order.*)
THEOREM ItemsComeOutOnce == PoolSpec => []EachOnce
<1>1. PoolInv => EachOnce
  BY PoolImplies
<1> QED
  BY <1>1, PoolAlways, PTL

=============================================================================
