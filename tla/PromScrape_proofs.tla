------------------------- MODULE PromScrape_proofs -------------------------
(***************************************************************************)
(* Whatever the collectors return and however often a snapshot is swapped  *)
(* during a scrape, the scrape sends no series twice and gives each name   *)
(* one list of label keys: client_golang's registry has nothing to refuse. *)
(***************************************************************************)
EXTENDS PromScrape, FiniteSetTheorems, FunctionTheorems, TLAPS

Samples == {WithIdentity(e) : e \in Entries}

(* The identity labels leave the name alone. *)
LEMMA SampleName == \A s \in Samples : s.name \in Names
BY EntriesAssumption DEF Samples, WithIdentity

(* The type invariant holds initially. *)
LEMMA TypeInit == Init => TypeOK
BY DEF Init, TypeOK

(* The sample under the walk is one of the samples. *)
LEMMA CurrentIsSample ==
    ASSUME TypeOK, i < Len(view)
    PROVE  Current \in Samples /\ Current.name \in Names
<1>1. view[i + 1] \in Entries
  BY DEF TypeOK
<1>2. Current \in Samples
  BY <1>1 DEF Current, Samples
<1> QED
  BY <1>2, SampleName

(* Every step keeps the type invariant. *)
LEMMA TypeStep == TypeOK /\ [Next]_vars => TypeOK'
<1> SUFFICES ASSUME TypeOK, [Next]_vars PROVE TypeOK'
  OBVIOUS
<1> USE DEF TypeOK
<1>1. CASE Store
  BY <1>1, SnapshotsAssumption DEF Store
<1>2. CASE Load
  BY <1>2 DEF Load
<1>3. CASE Skip
  BY <1>3 DEF Skip, Visit, Learn
<1>4. CASE Emit
  <2>1. out' \in Seq({WithIdentity(e) : e \in Entries})
    BY <1>4, CurrentIsSample DEF Emit, Visit, Samples
  <2> QED
    BY <2>1, <1>4 DEF Emit, Visit, Learn
<1>5. CASE Finish
  BY <1>5 DEF Finish
<1>6. CASE UNCHANGED vars
  BY <1>6 DEF vars
<1> QED
  BY <1>1, <1>2, <1>3, <1>4, <1>5, <1>6 DEF Next

(* The types of PromScrape's variables hold for all constants. *)
THEOREM ScrapeTypeCorrect == Spec => []TypeOK
BY TypeInit, TypeStep, PTL DEF Spec

WalkInv == SentInv /\ SeriesUnique

(* A visit keeps what was sent true to its name's schema. *)
LEMMA LearnKeepsSent ==
    ASSUME TypeOK, SentInv, i < Len(view), Learn(Current)
    PROVE  \A k \in 1 .. Len(out) : schema'[out[k].name] = {Keys(out[k])}
<1> SUFFICES ASSUME NEW k \in 1 .. Len(out)
             PROVE  schema'[out[k].name] = {Keys(out[k])}
  OBVIOUS
<1>1. out[k].name \in Names
  BY SampleName DEF TypeOK, Samples
<1>2. Current.name \in Names
  BY CurrentIsSample
<1>3. schema[out[k].name] = {Keys(out[k])}
  BY DEF SentInv
<1> QED
  BY <1>1, <1>2, <1>3 DEF TypeOK, Learn

(* A step that sends nothing and learns nothing disturbs neither. *)
LEMMA SameSent ==
    ASSUME WalkInv, UNCHANGED <<schema, seen, out>>
    PROVE  WalkInv'
<1>1. SentInv'
  BY DEF WalkInv, SentInv, Identity, Values, Keys
<1>2. SeriesUnique'
  BY DEF WalkInv, SeriesUnique, Identity, Values
<1> QED
  BY <1>1, <1>2 DEF WalkInv

(* Every step keeps the sent series unique and of one schema. *)
LEMMA WalkStep == TypeOK /\ WalkInv /\ [Next]_vars => WalkInv'
<1> SUFFICES ASSUME TypeOK, WalkInv, [Next]_vars PROVE WalkInv'
  OBVIOUS
<1>1. CASE Store
  BY <1>1, SameSent DEF Store
<1>2. CASE Load
  BY <1>2 DEF Load, WalkInv, SentInv, SeriesUnique
<1>3. CASE Skip
  <2>1. Learn(Current) /\ i < Len(view) /\ UNCHANGED <<seen, out>>
    BY <1>3 DEF Skip, Visit
  <2>2. \A k \in 1 .. Len(out) : schema'[out[k].name] = {Keys(out[k])}
    BY <2>1, LearnKeepsSent DEF WalkInv
  <2>3. SentInv'
    BY <2>1, <2>2 DEF WalkInv, SentInv, Identity, Values, Keys
  <2>4. SeriesUnique'
    BY <2>1 DEF WalkInv, SeriesUnique, Identity, Values
  <2> QED
    BY <2>3, <2>4 DEF WalkInv
<1>4. CASE Emit
  <2> DEFINE s == Current
  <2>1. /\ Learn(s) /\ i < Len(view)
        /\ ~Drifts(s) /\ Identity(s) \notin seen
        /\ seen' = seen \cup {Identity(s)}
        /\ out' = IF IsFit(s.labels) THEN Append(out, s) ELSE out
    BY <1>4 DEF Emit, Visit, Repeats
  <2>2. s \in Samples /\ s.name \in Names
    BY <2>1, CurrentIsSample
  <2>3. \A k \in 1 .. Len(out) : schema'[out[k].name] = {Keys(out[k])}
    BY <2>1, LearnKeepsSent DEF WalkInv
  <2>4. schema'[s.name] = {Keys(s)}
    BY <2>1, <2>2 DEF Drifts, Learn, TypeOK
  <2>5. \A k \in 1 .. Len(out) : Identity(out[k]) \in seen
    BY DEF WalkInv, SentInv
  <2>6. CASE ~IsFit(s.labels)
    <3>1. out' = out /\ seen \subseteq seen'
      BY <2>1, <2>6
    <3>2. SentInv'
      BY <3>1, <2>3, <2>5 DEF SentInv, Identity, Values, Keys
    <3>3. SeriesUnique'
      BY <3>1 DEF WalkInv, SeriesUnique, Identity, Values
    <3> QED
      BY <3>2, <3>3 DEF WalkInv
  <2>7. CASE IsFit(s.labels)
    <3> HIDE DEF s
    <3>1. /\ Len(out') = Len(out) + 1
          /\ out'[Len(out) + 1] = s
          /\ \A k \in 1 .. Len(out) : out'[k] = out[k]
          /\ Len(out) \in Nat
      BY <2>1, <2>2, <2>7 DEF TypeOK, Samples
    <3>2. \A k \in 1 .. Len(out') : k \in 1 .. Len(out) \/ k = Len(out) + 1
      BY <3>1
    <3>3. SentInv'
      <4> SUFFICES ASSUME NEW k \in 1 .. Len(out')
                   PROVE  /\ schema'[out'[k].name] = {Keys(out'[k])}
                          /\ Identity(out'[k]) \in seen'
        BY DEF SentInv, Identity, Values, Keys
      <4>1. CASE k \in 1 .. Len(out)
        BY <4>1, <2>1, <2>3, <2>5, <3>1
      <4>2. CASE k = Len(out) + 1
        BY <4>2, <2>1, <2>4, <3>1
      <4> QED
        BY <4>1, <4>2, <3>2
    <3>4. \A j, k \in 1 .. Len(out) : Identity(out'[j]) = Identity(out'[k]) => j = k
      BY <3>1 DEF WalkInv, SeriesUnique
    <3>5. \A k \in 1 .. Len(out) : Identity(out'[k]) # Identity(s)
      BY <2>1, <2>5, <3>1
    <3>6. SeriesUnique'
      BY <3>1, <3>2, <3>4, <3>5 DEF SeriesUnique, Identity, Values
    <3> QED
      BY <3>3, <3>6 DEF WalkInv
  <2> QED
    BY <2>6, <2>7
<1>5. CASE Finish
  BY <1>5, SameSent DEF Finish
<1>6. CASE UNCHANGED vars
  BY <1>6, SameSent DEF vars
<1> QED
  BY <1>1, <1>2, <1>3, <1>4, <1>5, <1>6 DEF Next

(* Nothing is sent at first. *)
LEMMA WalkInit == Init => WalkInv
BY DEF Init, WalkInv, SentInv, SeriesUnique

(* The invariant behind both theorems below. *)
LEMMA WalkAlways == Spec => []WalkInv
<1>1. Spec => []TypeOK
  BY ScrapeTypeCorrect
<1>2. TypeOK /\ TypeOK' /\ WalkInv /\ [Next]_vars => WalkInv'
  BY WalkStep
<1> QED
  BY <1>1, <1>2, WalkInit, PTL DEF Spec

(* No scrape ever sends a series twice, so one cluster's repeated row can  *)
(* never fail the scrape of all.                                           *)
THEOREM NoSeriesTwice == Spec => []SeriesUnique
<1>1. WalkInv => SeriesUnique
  BY DEF WalkInv
<1> QED
  BY <1>1, WalkAlways, PTL

(* Within a scrape every name has one ordered list of label keys. *)
THEOREM OneKeyListPerName == Spec => []OneSchema
<1>1. WalkInv => OneSchema
  <2> SUFFICES ASSUME SentInv, NEW j \in 1 .. Len(out), NEW k \in 1 .. Len(out),
                      out[j].name = out[k].name
               PROVE  Keys(out[j]) = Keys(out[k])
    BY DEF WalkInv, OneSchema
  <2>1. {Keys(out[j])} = {Keys(out[k])}
    BY DEF SentInv
  <2> QED
    BY <2>1
<1> QED
  BY <1>1, WalkAlways, PTL

-----------------------------------------------------------------------------
(* Nothing else is lost *)

(* There is one first sample of a name. *)
LEMMA FirstIs ==
    ASSUME NEW v, NEW j \in Nat, NEW k \in 1 .. j, IsFirst(v, k, j)
    PROVE  FirstOf(v, j) = k
<1>1. FirstOf(v, j) \in 1 .. j /\ IsFirst(v, FirstOf(v, j), j)
  BY DEF FirstOf
<1>2. QED
  BY <1>1 DEF IsFirst

(* There is an n-th smallest for every n up to the size of a finite set of *)
(* numbers: counting those up to each one takes every value once.          *)
LEMMA NthIsIn ==
    ASSUME NEW S, S \subseteq Nat, IsFiniteSet(S), NEW n \in 1 .. Cardinality(S)
    PROVE  Nth(S, n) \in S
<1> DEFINE UpTo(x) == {y \in S : y <= x}
           size == Cardinality(S)
           f == [x \in S |-> Cardinality(UpTo(x))]
<1>1. \A x : UpTo(x) \in SUBSET S
  OBVIOUS
<1>2. size \in Nat /\ IsFiniteSet(1 .. size) /\ Cardinality(1 .. size) = size
  BY FS_CardinalityType, FS_Interval
<1>3. ASSUME NEW x \in S
      PROVE  IsFiniteSet(UpTo(x)) /\ Cardinality(UpTo(x)) \in 1 .. size
  <2>1. IsFiniteSet(UpTo(x)) /\ Cardinality(UpTo(x)) <= size
    BY <1>1, FS_Subset
  <2>2. UpTo(x) # {}
    OBVIOUS
  <2>3. Cardinality(UpTo(x)) \in Nat /\ Cardinality(UpTo(x)) # 0
    BY <2>1, <2>2, FS_CardinalityType, FS_EmptySet
  <2>4. QED
    BY <1>2, <2>1, <2>3
<1>4. ASSUME NEW x \in S, NEW y \in S, x < y
      PROVE  Cardinality(UpTo(x)) # Cardinality(UpTo(y))
  <2>1. x \in Nat /\ y \in Nat /\ \A z \in S : z \in Nat
    OBVIOUS
  <2>2. y \in UpTo(y) /\ y \notin UpTo(x)
    BY <1>4, <2>1
  <2>3. UpTo(x) \in SUBSET UpTo(y)
    <3>1. \A z \in S : z <= x => z <= y
      BY <1>4, <2>1
    <3>2. QED
      BY <3>1
  <2> HIDE DEF UpTo
  <2>4. QED
    BY <1>3, <2>2, <2>3, FS_Subset
<1> HIDE DEF UpTo, size
<1>5. f \in [S -> 1 .. size]
  BY <1>3
<1>6. \A x, y \in S : f[x] = f[y] => x = y
  BY <1>4
<1>7. f \in Injection(S, 1 .. size)
  BY <1>5, <1>6, Fun_IsInj
<1>8. f \in Surjection(S, 1 .. size)
  BY <1>2, <1>7, FS_Injection DEF size
<1>9. \E x \in S : Cardinality(UpTo(x)) = n
  <2>1. \A x \in S : f[x] = Cardinality(UpTo(x))
    OBVIOUS
  <2>2. n \in 1 .. size
    BY DEF size
  <2> HIDE DEF f
  <2>3. \A m \in 1 .. size : \E x \in S : f[x] = m
    BY <1>8, Fun_SurjectionProperties
  <2>4. QED
    BY <2>1, <2>2, <2>3
<1>10. \E x \in S : Cardinality({y \in S : y <= x}) = n
  BY <1>9 DEF UpTo
<1>11. QED
  BY <1>10 DEF Nth

(* A selection from labels is labels, and its keys depend on the keys of   *)
(* the list alone.                                                         *)
LEMMA SelectLabels ==
    ASSUME NEW s \in Seq(Labels), NEW S \in SUBSET DOMAIN s
    PROVE  /\ Select(s, S) \in Seq(Labels)
           /\ \A t \in Seq(Labels) :
                KeyList(s) = KeyList(t) => KeyList(Select(s, S)) = KeyList(Select(t, S))
<1>1. S \subseteq Nat /\ IsFiniteSet(S) /\ Cardinality(S) \in Nat
  <2>1. DOMAIN s = 1 .. Len(s) /\ Len(s) \in Nat
    OBVIOUS
  <2>2. IsFiniteSet(1 .. Len(s))
    BY <2>1, FS_Interval
  <2>3. QED
    BY <2>1, <2>2, FS_Subset, FS_CardinalityType
<1>2. \A n \in 1 .. Cardinality(S) : Nth(S, n) \in DOMAIN s
  BY <1>1, NthIsIn
<1>3. \A n \in DOMAIN s : s[n] \in Labels
  OBVIOUS
<1>4. Select(s, S) \in [1 .. Cardinality(S) -> Labels]
  BY <1>2, <1>3 DEF Select
<1>5. Select(s, S) \in Seq(Labels)
  BY <1>1, <1>4
<1>6. ASSUME NEW t \in Seq(Labels), KeyList(s) = KeyList(t)
      PROVE  KeyList(Select(s, S)) = KeyList(Select(t, S))
  <2>1. DOMAIN s = DOMAIN t /\ \A n \in DOMAIN s : s[n].key = t[n].key
    <3>1. DOMAIN KeyList(s) = DOMAIN s /\ DOMAIN KeyList(t) = DOMAIN t
      BY DEF KeyList
    <3>2. \A n \in DOMAIN s : KeyList(s)[n] = s[n].key
      BY DEF KeyList
    <3>3. \A n \in DOMAIN t : KeyList(t)[n] = t[n].key
      BY DEF KeyList
    <3>4. QED
      BY <1>6, <3>1, <3>2, <3>3
  <2>2. \A n \in 1 .. Cardinality(S) : s[Nth(S, n)].key = t[Nth(S, n)].key
    BY <1>2, <2>1
  <2>3. QED
    BY <2>2 DEF KeyList, Select
<1>7. QED
  BY <1>5, <1>6

(* The keys of two lists of labels, one after the other. *)
LEMMA KeysOfConcat ==
    ASSUME NEW r \in Seq(Labels), NEW s \in Seq(Labels),
           NEW t \in Seq(Labels), NEW u \in Seq(Labels),
           KeyList(r) = KeyList(t), KeyList(s) = KeyList(u)
    PROVE  KeyList(r \o s) = KeyList(t \o u)
<1>1. ASSUME NEW a \in Seq(Labels), NEW b \in Seq(Labels), KeyList(a) = KeyList(b)
      PROVE  Len(a) = Len(b) /\ \A n \in 1 .. Len(a) : a[n].key = b[n].key
  <2>1. DOMAIN KeyList(a) = 1 .. Len(a) /\ DOMAIN KeyList(b) = 1 .. Len(b)
    BY DEF KeyList
  <2>2. Len(a) = Len(b)
    BY <1>1, <2>1
  <2>3. \A n \in 1 .. Len(a) : KeyList(a)[n] = a[n].key
    BY DEF KeyList
  <2>4. \A n \in 1 .. Len(b) : KeyList(b)[n] = b[n].key
    BY DEF KeyList
  <2>5. QED
    BY <1>1, <2>2, <2>3, <2>4
<1>2. /\ Len(r) = Len(t) /\ \A n \in 1 .. Len(r) : r[n].key = t[n].key
      /\ Len(s) = Len(u) /\ \A n \in 1 .. Len(s) : s[n].key = u[n].key
  BY <1>1
<1>3. /\ DOMAIN (r \o s) = 1 .. Len(r) + Len(s)
      /\ DOMAIN (t \o u) = 1 .. Len(r) + Len(s)
  <2>1. \A a, b \in Seq(Labels) : DOMAIN (a \o b) = 1 .. Len(a) + Len(b)
    <3>1. \A a, b \in Seq(Labels) :
            a \o b \in Seq(Labels) /\ Len(a \o b) = Len(a) + Len(b)
      OBVIOUS
    <3>2. \A c \in Seq(Labels) : DOMAIN c = 1 .. Len(c)
      OBVIOUS
    <3>3. QED
      BY <3>1, <3>2
  <2>2. QED
    BY <1>2, <2>1
<1>4. ASSUME NEW n \in 1 .. Len(r) + Len(s)
      PROVE  (r \o s)[n].key = (t \o u)[n].key
  <2>1. CASE n \in 1 .. Len(r)
    BY <1>2, <2>1
  <2>2. CASE n \notin 1 .. Len(r)
    <3>1. n - Len(r) \in 1 .. Len(s)
      BY <2>2
    <3>2. (r \o s)[n] = s[n - Len(r)] /\ (t \o u)[n] = u[n - Len(r)]
      BY <1>2, <2>2
    <3>3. QED
      BY <1>2, <3>1, <3>2
  <2>3. QED
    BY <2>1, <2>2
<1>5. QED
  BY <1>3, <1>4 DEF KeyList

(* The identity labels are labels. *)
LEMMA IdentityTyped ==
    ASSUME NEW e \in Entries
    PROVE  /\ <<[key |-> ClusterKey, value |-> e.cluster]>> \in Seq(Labels)
           /\ Select(Custom[e.cluster], Unclashing(e)) \in Seq(Labels)
           /\ IdentityLabels(e) \in Seq(Labels)
<1>1. [key |-> ClusterKey, value |-> e.cluster] \in Labels
  BY EntriesAssumption DEF Labels
<1>2. Select(Custom[e.cluster], Unclashing(e)) \in Seq(Labels)
  BY EntriesAssumption, SelectLabels DEF Unclashing
<1>3. QED
  BY <1>1, <1>2, EntriesAssumption DEF IdentityLabels

(* sample.go:57-58: entries with one list of own keys have one list of     *)
(* identity keys, whatever their clusters and values.                      *)
LEMMA IdentityKeys ==
    ASSUME NEW d \in Entries, NEW e \in Entries, KeyList(d.own) = KeyList(e.own)
    PROVE  Keys(WithIdentity(d)) = Keys(WithIdentity(e))
<1> DEFINE first(x) == <<[key |-> ClusterKey, value |-> x.cluster]>>
           custom(x) == Select(Custom[x.cluster], Unclashing(x))
<1>1. /\ d.own \in Seq(Labels) /\ e.own \in Seq(Labels)
      /\ Custom[d.cluster] \in Seq(Labels) /\ Custom[e.cluster] \in Seq(Labels)
      /\ first(d) \in Seq(Labels) /\ first(e) \in Seq(Labels)
      /\ custom(d) \in Seq(Labels) /\ custom(e) \in Seq(Labels)
  BY EntriesAssumption, IdentityTyped
<1>2. KeyList(Custom[d.cluster]) = KeyList(Custom[e.cluster])
  BY CustomAssumption
<1>3. \A key : HasLabel(d.own, key) <=> HasLabel(e.own, key)
  <2>1. DOMAIN d.own = DOMAIN e.own /\ \A n \in DOMAIN d.own : d.own[n].key = e.own[n].key
    <3>1. DOMAIN KeyList(d.own) = DOMAIN d.own /\ DOMAIN KeyList(e.own) = DOMAIN e.own
      BY DEF KeyList
    <3>2. \A n \in DOMAIN d.own : KeyList(d.own)[n] = d.own[n].key
      BY DEF KeyList
    <3>3. \A n \in DOMAIN e.own : KeyList(e.own)[n] = e.own[n].key
      BY DEF KeyList
    <3>4. QED
      BY <3>1, <3>2, <3>3
  <2>2. QED
    BY <2>1 DEF HasLabel
<1>4. Unclashing(d) = Unclashing(e)
  <2>1. /\ DOMAIN Custom[d.cluster] = DOMAIN Custom[e.cluster]
        /\ \A n \in DOMAIN Custom[d.cluster] :
              Custom[d.cluster][n].key = Custom[e.cluster][n].key
    <3> DEFINE c == Custom[d.cluster]
               k == Custom[e.cluster]
    <3> HIDE DEF c, k
    <3>1. KeyList(c) = KeyList(k)
      BY <1>2 DEF c, k
    <3>2. DOMAIN KeyList(c) = DOMAIN c /\ DOMAIN KeyList(k) = DOMAIN k
      BY DEF KeyList
    <3>3. \A n \in DOMAIN c : KeyList(c)[n] = c[n].key
      BY DEF KeyList
    <3>4. \A n \in DOMAIN k : KeyList(k)[n] = k[n].key
      BY DEF KeyList
    <3>5. DOMAIN c = DOMAIN k /\ \A n \in DOMAIN c : c[n].key = k[n].key
      BY <3>1, <3>2, <3>3, <3>4
    <3>6. QED
      BY <3>5 DEF c, k
  <2>2. QED
    BY <1>3, <2>1 DEF Unclashing
<1>5. KeyList(custom(d)) = KeyList(custom(e))
  <2>1. Unclashing(d) \in SUBSET DOMAIN Custom[d.cluster]
    BY DEF Unclashing
  <2>2. \A t \in Seq(Labels) : KeyList(Custom[d.cluster]) = KeyList(t) =>
            KeyList(Select(Custom[d.cluster], Unclashing(d))) =
                KeyList(Select(t, Unclashing(d)))
    BY <1>1, <2>1, SelectLabels
  <2>3. QED
    BY <1>1, <1>2, <1>4, <2>2
<1>6. KeyList(first(d)) = KeyList(first(e))
  BY DEF KeyList
<1> HIDE DEF first, custom
<1>7. KeyList(first(d) \o custom(d)) = KeyList(first(e) \o custom(e))
  BY <1>1, <1>5, <1>6, KeysOfConcat
<1>8. first(d) \o custom(d) \in Seq(Labels) /\ first(e) \o custom(e) \in Seq(Labels)
  BY <1>1
<1>9. KeyList((first(d) \o custom(d)) \o d.own) = KeyList((first(e) \o custom(e)) \o e.own)
  <2>1. \A a, b \in Seq(Labels) : KeyList(a) = KeyList(b) =>
            KeyList(a \o d.own) = KeyList(b \o e.own)
    BY <1>1, KeysOfConcat
  <2>2. QED
    BY <1>7, <1>8, <2>1
<1>10. QED
  BY <1>9 DEF Keys, WithIdentity, IdentityLabels, first, custom

(* A sample is its name, its label keys and their values. *)
LEMMA SameSample ==
    ASSUME NEW d \in Entries, NEW e \in Entries,
           Keys(WithIdentity(d)) = Keys(WithIdentity(e)),
           Identity(WithIdentity(d)) = Identity(WithIdentity(e))
    PROVE  WithIdentity(d) = WithIdentity(e)
<1> DEFINE k == IdentityLabels(d)
           l == IdentityLabels(e)
<1>1. k \in Seq(Labels) /\ l \in Seq(Labels)
  BY IdentityTyped
<1>2. \A x, y \in Labels : x.key = y.key /\ x.value = y.value => x = y
  BY DEF Labels
<1>3. d.name = e.name
  BY DEF Identity, WithIdentity
<1>4. [n \in DOMAIN k |-> k[n].key] = [n \in DOMAIN l |-> l[n].key]
  BY DEF Keys, KeyList, WithIdentity
<1>5. [n \in DOMAIN k |-> k[n].value] = [n \in DOMAIN l |-> l[n].value]
  BY DEF Identity, Values, WithIdentity
<1> HIDE DEF k, l
<1>6. DOMAIN k = DOMAIN l
  BY <1>4
<1>7. \A n \in DOMAIN k : k[n].key = l[n].key /\ k[n].value = l[n].value
  BY <1>4, <1>5, <1>6
<1>8. k = l
  BY <1>1, <1>2, <1>6, <1>7
<1>9. QED
  BY <1>3, <1>8 DEF WithIdentity, k, l

(* A visit finds the first sample of its name, and compares with it.       *)
LEMMA VisitFirst ==
    ASSUME TypeOK, FirstInv, i < Len(view), Learn(Current)
    PROVE  /\ FirstOf(view, i + 1) \in 1 .. i + 1
           /\ IsFirst(view, FirstOf(view, i + 1), i + 1)
           /\ schema'[view[i + 1].name] = {Keys(Stamped(FirstOf(view, i + 1)))}
           /\ Drifts(Current) <=> ~Agrees(i + 1)
           /\ \A n \in Names : n # view[i + 1].name => schema'[n] = schema[n]
           /\ schema[view[i + 1].name] # {} =>
                schema'[view[i + 1].name] = schema[view[i + 1].name]
<1> DEFINE name == view[i + 1].name
<1>1. i \in Nat /\ Current = Stamped(i + 1) /\ Current.name = name /\ name \in Names
  BY CurrentIsSample DEF TypeOK, Current, Stamped, WithIdentity
<1>2. /\ schema' = [schema EXCEPT ![name] = IF @ = {} THEN {Keys(Stamped(i + 1))} ELSE @]
      /\ DOMAIN schema = Names
  BY <1>1 DEF Learn, TypeOK
<1>3. Drifts(Current) <=> schema[name] # {} /\ schema[name] # {Keys(Stamped(i + 1))}
  BY <1>1 DEF Drifts
<1> HIDE DEF name
<1>4. CASE schema[name] = {}
  <2>1. \A j \in 1 .. i : view[j].name # name
    BY <1>1, <1>4 DEF FirstInv
  <2>2. IsFirst(view, i + 1, i + 1) /\ i + 1 \in Nat /\ i + 1 \in 1 .. i + 1
    BY <1>1, <2>1 DEF IsFirst, name
  <2>3. FirstOf(view, i + 1) = i + 1
    BY <2>2, FirstIs
  <2>4. QED
    BY <1>1, <1>2, <1>3, <1>4, <2>2, <2>3 DEF Agrees, name
<1>5. CASE schema[name] # {}
  <2>1. PICK j \in 1 .. i : view[j].name = name
    BY <1>1, <1>5 DEF FirstInv, name
  <2> DEFINE k == FirstOf(view, j)
  <2>2. k \in 1 .. j /\ IsFirst(view, k, j) /\ schema[name] = {Keys(Stamped(k))}
    BY <2>1 DEF FirstInv
  <2>3. k \in 1 .. i + 1 /\ IsFirst(view, k, i + 1) /\ i + 1 \in Nat
    BY <1>1, <2>1, <2>2 DEF IsFirst, name
  <2>4. FirstOf(view, i + 1) = k
    BY <2>3, FirstIs
  <2> HIDE DEF k
  <2>5. Drifts(Current) <=> ~Agrees(i + 1)
    BY <1>3, <1>5, <2>2, <2>4 DEF Agrees
  <2>6. QED
    BY <1>1, <1>2, <1>5, <2>2, <2>3, <2>4, <2>5 DEF name
<1>6. QED
  BY <1>4, <1>5

(* What the samples of the snapshot are is a matter of the snapshot. *)
LEMMA SameView ==
    ASSUME view' = view
    PROVE  /\ \A j : Stamped(j)' = Stamped(j)
           /\ \A j : Agrees(j)' <=> Agrees(j)
           /\ \A j : FirstOf(view', j) = FirstOf(view, j)
           /\ \A j, k : IsFirst(view', k, j) <=> IsFirst(view, k, j)
BY DEF Stamped, Agrees, Keys

(* The samples that should have been sent after n visits, and the          *)
(* identities that should have been seen.                                  *)
Due(n) == {Stamped(j) : j \in {k \in 1 .. n : IsFit(Stamped(k).labels) /\ Agrees(k)}}
Met(n) == {Identity(Stamped(j)) : j \in {k \in 1 .. n : Agrees(k)}}

(* One more visit, one more sample at most. *)
LEMMA DueGrows ==
    ASSUME NEW n \in Nat
    PROVE  /\ Due(n + 1) = Due(n) \cup
                  {Stamped(j) : j \in {k \in {n + 1} : IsFit(Stamped(k).labels) /\ Agrees(k)}}
           /\ Met(n + 1) = Met(n) \cup
                  {Identity(Stamped(j)) : j \in {k \in {n + 1} : Agrees(k)}}
<1>1. 1 .. n + 1 = (1 .. n) \cup {n + 1}
  OBVIOUS
<1>2. QED
  BY <1>1 DEF Due, Met

ExposeInv == FirstInv /\ ExposesFirst

(* The same, with Due and Met. *)
LEMMA ExposeIs ==
    /\ ExposesFirst <=> {out[k] : k \in 1 .. Len(out)} = Due(i)
    /\ FirstInv =>  seen = Met(i)
BY DEF ExposesFirst, FirstInv, Due, Met

(* A visit keeps the names' first samples in the schema. *)
LEMMA VisitSchema ==
    ASSUME TypeOK, FirstInv, Visit
    PROVE  /\ \A n \in Names : schema'[n] = {} <=> \A j \in 1 .. i' : view'[j].name # n
           /\ \A j \in 1 .. i' :
                 /\ FirstOf(view', j) \in 1 .. j /\ IsFirst(view', FirstOf(view', j), j)
                 /\ schema'[view'[j].name] = {Keys(Stamped(FirstOf(view, j)))}
<1>1. i < Len(view) /\ Learn(Current) /\ view' = view /\ i' = i + 1 /\ i \in Nat
  BY DEF Visit, TypeOK
<1>2. /\ FirstOf(view, i + 1) \in 1 .. i + 1
      /\ IsFirst(view, FirstOf(view, i + 1), i + 1)
      /\ schema'[view[i + 1].name] = {Keys(Stamped(FirstOf(view, i + 1)))}
      /\ \A n \in Names : n # view[i + 1].name => schema'[n] = schema[n]
      /\ schema[view[i + 1].name] # {} =>
           schema'[view[i + 1].name] = schema[view[i + 1].name]
  BY <1>1, VisitFirst
<1>3. \A j : j \in 1 .. i' <=> j \in 1 .. i \/ j = i + 1
  BY <1>1
<1>4. \A j \in 1 .. i : view[j].name \in Names /\ schema[view[j].name] # {}
  <2>1. \A j \in 1 .. i : view[j].name \in Names
    BY EntriesAssumption DEF TypeOK
  <2>2. QED
    BY <2>1 DEF FirstInv
<1>5. \A j \in 1 .. i : schema'[view[j].name] = schema[view[j].name]
  BY <1>2, <1>4
<1>6. ASSUME NEW j \in 1 .. i'
      PROVE  /\ FirstOf(view, j) \in 1 .. j /\ IsFirst(view, FirstOf(view, j), j)
             /\ schema'[view[j].name] = {Keys(Stamped(FirstOf(view, j)))}
  <2>1. CASE j \in 1 .. i
    BY <1>5, <2>1 DEF FirstInv
  <2>2. CASE j = i + 1
    BY <1>2, <2>2
  <2>3. QED
    BY <1>3, <2>1, <2>2
<1>7. ASSUME NEW n \in Names
      PROVE  schema'[n] = {} <=> \A j \in 1 .. i' : view[j].name # n
  <2>1. CASE n = view[i + 1].name
    BY <1>2, <1>3, <2>1
  <2>2. CASE n # view[i + 1].name
    BY <1>2, <1>3, <2>2 DEF FirstInv
  <2>3. QED
    BY <2>1, <2>2
<1>8. QED
  BY <1>1, <1>6, <1>7

(* Every step keeps what was sent to the samples due. *)
LEMMA ExposeStep == TypeOK /\ ExposeInv /\ [Next]_vars => ExposeInv'
<1> SUFFICES ASSUME TypeOK, FirstInv, ExposesFirst, [Next]_vars
             PROVE  FirstInv' /\ ExposesFirst'
  BY DEF ExposeInv
<1>1. CASE UNCHANGED <<view, i, schema, seen, out>>
  <2>1. FirstInv'
    BY <1>1, SameView DEF FirstInv, Identity, Values, Keys
  <2>2. ExposesFirst'
    BY <1>1, SameView DEF ExposesFirst
  <2>3. QED
    BY <2>1, <2>2
<1>2. CASE Load
  <2>1. i' = 0 /\ Len(out') = 0 /\ seen' = {} /\ \A n \in Names : schema'[n] = {}
    BY <1>2 DEF Load
  <2>2. 1 .. i' = {} /\ 1 .. Len(out') = {}
    BY <2>1
  <2>3. FirstInv'
    BY <2>1, <2>2 DEF FirstInv
  <2>4. ExposesFirst'
    BY <2>2 DEF ExposesFirst
  <2>5. QED
    BY <2>3, <2>4
<1>3. CASE Skip \/ Emit
  <2> DEFINE s == Stamped(i + 1)
  <2>1. Visit /\ view' = view /\ i' = i + 1 /\ i \in Nat /\ i < Len(view)
    BY <1>3 DEF Skip, Emit, Visit, TypeOK
  <2>2. Current = s /\ (Drifts(s) <=> ~Agrees(i + 1))
    BY <2>1, VisitFirst DEF Visit, Current, Stamped
  <2>3. /\ seen = Met(i) /\ {out[k] : k \in 1 .. Len(out)} = Due(i)
    BY ExposeIs
  <2>4. /\ Due(i + 1) = Due(i) \cup (IF IsFit(s.labels) /\ Agrees(i + 1) THEN {s} ELSE {})
        /\ Met(i + 1) = Met(i) \cup (IF Agrees(i + 1) THEN {Identity(s)} ELSE {})
    BY <2>1, DueGrows
  <2>5. seen' = Met(i + 1) /\ {out'[k] : k \in 1 .. Len(out')} = Due(i + 1)
    <3>1. CASE Skip /\ Drifts(s)
      BY <3>1, <2>2, <2>3, <2>4 DEF Skip
    <3>2. CASE Skip /\ ~Drifts(s)
      <4>1. Identity(s) \in Met(i) /\ Agrees(i + 1) /\ UNCHANGED <<seen, out>>
        BY <3>2, <2>2, <2>3 DEF Skip, Repeats
      <4>2. PICK j \in 1 .. i : Agrees(j) /\ Identity(Stamped(j)) = Identity(s)
        BY <4>1 DEF Met
      <4>3. Keys(Stamped(j)) = Keys(s)
        <5>1. view[j].name = view[i + 1].name
          BY <4>2 DEF Identity, Stamped, WithIdentity
        <5>2. {Keys(Stamped(FirstOf(view, j)))} = {Keys(Stamped(FirstOf(view, i + 1)))}
          <6>1. \A k \in 1 .. i' : schema'[view'[k].name] = {Keys(Stamped(FirstOf(view, k)))}
            BY <2>1, VisitSchema
          <6>2. j \in 1 .. i' /\ i + 1 \in 1 .. i'
            BY <2>1
          <6>3. QED
            BY <2>1, <5>1, <6>1, <6>2
        <5>3. QED
          BY <4>1, <4>2, <5>2 DEF Agrees
      <4>4. Stamped(j) = s
        <5>1. view[j] \in Entries /\ view[i + 1] \in Entries
          BY <2>1 DEF TypeOK
        <5>2. QED
          BY <4>2, <4>3, <5>1, SameSample DEF Stamped
      <4>5. IsFit(s.labels) => s \in Due(i)
        BY <4>2, <4>4 DEF Due
      <4>6. QED
        BY <2>3, <2>4, <4>1, <4>5
    <3>3. CASE Emit
      <4>1. Agrees(i + 1) /\ seen' = seen \cup {Identity(s)}
        BY <3>3, <2>2 DEF Emit
      <4>2. CASE IsFit(s.labels)
        <5>1. out' = Append(out, s)
          BY <3>3, <4>2, <2>2 DEF Emit
        <5>2. s \in Samples
          BY <2>1, <2>2, CurrentIsSample
        <5> HIDE DEF s
        <5>3. /\ Len(out') = Len(out) + 1 /\ Len(out) \in Nat
              /\ out'[Len(out) + 1] = s
              /\ \A k \in 1 .. Len(out) : out'[k] = out[k]
          BY <5>1, <5>2 DEF TypeOK, Samples
        <5>4. \A k : k \in 1 .. Len(out') <=> k \in 1 .. Len(out) \/ k = Len(out) + 1
          BY <5>3
        <5>5. {out'[k] : k \in 1 .. Len(out')} = {out[k] : k \in 1 .. Len(out)} \cup {s}
          BY <5>3, <5>4
        <5>6. QED
          BY <2>3, <2>4, <4>1, <4>2, <5>5
      <4>3. CASE ~IsFit(s.labels)
        <5>1. out' = out
          BY <3>3, <4>3, <2>2 DEF Emit
        <5>2. QED
          BY <2>3, <2>4, <4>1, <4>3, <5>1
      <4>4. QED
        BY <4>2, <4>3
    <3>4. QED
      BY <1>3, <3>1, <3>2, <3>3
  <2>6. seen' = Met(i') /\ {out'[k] : k \in 1 .. Len(out')} = Due(i')
    BY <2>1, <2>5
  <2>7. ExposesFirst'
    BY <2>1, <2>6, SameView DEF ExposesFirst, Due
  <2>8. seen' = {Identity(Stamped(j))' : j \in {n \in 1 .. i' : Agrees(n)'}}
    BY <2>1, <2>6, SameView DEF Met, Identity, Values
  <2>9. \A j : Keys(Stamped(j))' = Keys(Stamped(j))
    BY <2>1, SameView DEF Keys
  <2>10. FirstInv'
    BY <2>1, <2>8, <2>9, VisitSchema DEF FirstInv, Stamped
  <2>11. QED
    BY <2>7, <2>10
<1>4. QED
  BY <1>1, <1>2, <1>3 DEF Next, Store, Finish, vars

(* Nothing was visited and nothing sent. *)
LEMMA ExposeInit == Init => ExposeInv
<1> SUFFICES ASSUME Init PROVE ExposeInv
  OBVIOUS
<1>1. 1 .. i = {} /\ 1 .. Len(out) = {}
  BY DEF Init
<1>2. QED
  BY <1>1 DEF Init, ExposeInv, FirstInv, ExposesFirst

(* prometheus.go:20-37: of the one snapshot the scrape loaded it has sent  *)
(* every sample it visited that has its name's first key list, and nothing *)
(* else, however often the loop publishes meanwhile.                       *)
THEOREM ScrapeExposesFirst == Spec => []ExposesFirst
<1>1. ExposeInv => ExposesFirst
  BY DEF ExposeInv
<1>2. QED
  BY <1>1, ExposeInit, ExposeStep, ScrapeTypeCorrect, PTL DEF Spec

(* With one list of own keys for each name, every sample has its name's    *)
(* first key list, so none of those due is hidden.                         *)
LEMMA UniformHidesNone ==
    ASSUME TypeOK, FirstInv, ExposesFirst
    PROVE  NothingHidden
<1> SUFFICES ASSUME Uniform, NEW j \in 1 .. i, IsFit(Stamped(j).labels)
             PROVE  \E k \in 1 .. Len(out) : out[k] = Stamped(j)
  BY DEF NothingHidden
<1> DEFINE f == FirstOf(view, j)
<1>1. f \in 1 .. j /\ view[f].name = view[j].name
  BY DEF FirstInv, IsFirst
<1>2. f \in 1 .. Len(view) /\ j \in 1 .. Len(view)
  BY <1>1 DEF TypeOK
<1>3. view[f] \in Entries /\ view[j] \in Entries
  BY <1>2 DEF TypeOK
<1>4. KeyList(view[f].own) = KeyList(view[j].own)
  BY <1>1, <1>2 DEF Uniform
<1>5. Agrees(j)
  BY <1>3, <1>4, IdentityKeys DEF Agrees, Stamped
<1>6. Stamped(j) \in {out[k] : k \in 1 .. Len(out)}
  BY <1>5 DEF ExposesFirst
<1>7. QED
  BY <1>6

(* sample.go:57-58, ADR-0014: the operator's labels, those that clash with *)
(* a collector's included, cost no cluster a series.                       *)
THEOREM LabelsHideNothing == Spec => []NothingHidden
<1>1. TypeOK /\ ExposeInv => NothingHidden
  BY UniformHidesNone DEF ExposeInv
<1>2. QED
  BY <1>1, ExposeInit, ExposeStep, ScrapeTypeCorrect, PTL DEF Spec

=============================================================================
