------------------------ MODULE FluxCollect_proofs ------------------------
(***************************************************************************)
(* The node index and the Flux collector, for every inventory, every table *)
(* of distinct measurements, every answer and any number of cycles: what a *)
(* key of the index stands for, which node a row is published under, what  *)
(* a failed measurement takes with it, what is said about it, and what the *)
(* histograms of FluxBuckets are made of.                                  *)
(***************************************************************************)
EXTENDS FluxCollect, FluxBuckets, FiniteSetTheorems, TLAPS

USE DEF Contested, AfterSkip, SilentAfterRows

-----------------------------------------------------------------------------
(* The index: types *)

(* An inventory is a sequence of nodes, each with a label and keys. *)
LEMMA InventoryFacts ==
    ASSUME NEW i \in Inventories
    PROVE  /\ DOMAIN i = 1 .. Len(i) /\ Len(i) \in Nat
           /\ \A m \in DOMAIN i : i[m].label \in Keys /\ i[m].keys \in Seq(Keys)
<1> DEFINE N == [label : Keys, keys : Seq(Keys)]
<1>1. i \in Seq(N)
  BY NamesAssumption
<1>2. \A n \in N : n.label \in Keys /\ n.keys \in Seq(Keys)
  OBVIOUS
<1> HIDE DEF N
<1>3. DOMAIN i = 1 .. Len(i) /\ Len(i) \in Nat /\ \A m \in DOMAIN i : i[m] \in N
  BY <1>1
<1> QED
  BY <1>2, <1>3

(* In particular the one being indexed. *)
LEMMA NodeFacts ==
    ASSUME IndexTypeOK
    PROVE  /\ DOMAIN inv = 1 .. Len(inv) /\ Len(inv) \in Nat
           /\ \A m \in DOMAIN inv : inv[m].label \in Keys /\ inv[m].keys \in Seq(Keys)
BY InventoryFacts DEF IndexTypeOK

(* A key of the node being read is a key. *)
LEMMA KeyFacts ==
    ASSUME IndexTypeOK, AtKey
    PROVE  /\ Key \in Keys /\ Label \in Keys /\ Label # Blank
           /\ node \in DOMAIN inv /\ field \in DOMAIN inv[node].keys
           /\ node \in Nat /\ field \in Nat
<1>1. node \in DOMAIN inv /\ node \in Nat
  BY NodeFacts DEF IndexTypeOK, AtKey
<1>2. inv[node].label \in Keys /\ inv[node].keys \in Seq(Keys)
  BY <1>1, NodeFacts
<1>3. field \in 1 .. Len(inv[node].keys) /\ field \in Nat
  BY <1>2 DEF IndexTypeOK, AtKey
<1>4. inv[node].keys[field] \in Keys /\ field \in DOMAIN inv[node].keys
  BY <1>2, <1>3
<1>5. Lower \in [Keys -> Keys] /\ Blank \notin Keys
  BY NamesAssumption
<1> QED
  BY <1>1, <1>2, <1>3, <1>4, <1>5 DEF Key, Label

(* Set adds one key and leaves the others as they are. *)
LEMMA SetFacts ==
    ASSUME NEW k, NEW l
    PROVE  /\ DOMAIN Set(k, l) = DOMAIN byKey \cup {k}
           /\ Set(k, l)[k] = l
           /\ \A x \in DOMAIN byKey \ {k} : Set(k, l)[x] = byKey[x]
BY DEF Set

(* Every step of newNodeMapper keeps its types. *)
LEMMA IndexTypeStep == IndexTypeOK /\ IndexNext => IndexTypeOK'
<1> SUFFICES ASSUME IndexTypeOK, IndexNext PROVE IndexTypeOK'
  OBVIOUS
<1>a. Len(inv) \in Nat /\ \A m \in 1 .. Len(inv) : Len(inv[m].keys) \in Nat
  BY NodeFacts
<1>b. ASSUME AtKey, NEW l \in Keys \cup {Blank},
             byKey' = Set(Key, l), field' = field + 1, UNCHANGED <<inv, node, mapped>>
      PROVE  IndexTypeOK'
  <2>1. Key \in Keys
    BY <1>b, KeyFacts
  <2>2. DOMAIN byKey' \subseteq Keys /\ \A k \in DOMAIN byKey' : byKey'[k] \in Keys \cup {Blank}
    <3>1. /\ DOMAIN Set(Key, l) = DOMAIN byKey \cup {Key}
          /\ Set(Key, l)[Key] = l
          /\ \A x \in DOMAIN byKey \ {Key} : Set(Key, l)[x] = byKey[x]
      BY SetFacts
    <3> QED
      BY <1>b, <2>1, <3>1 DEF IndexTypeOK
  <2>3. field' \in Nat \ {0} /\ (node <= Len(inv) => field' <= Len(inv[node].keys) + 1)
    BY <1>a, <1>b DEF IndexTypeOK, AtKey
  <2> QED
    BY <1>b, <2>2, <2>3 DEF IndexTypeOK
<1>1. CASE Contest
  BY <1>1, <1>b DEF Contest
<1>2. CASE Claim
  BY <1>2, <1>b, KeyFacts DEF Claim
<1>3. CASE NextNode
  BY <1>3, <1>a DEF NextNode, IndexTypeOK
<1>4. CASE Return
  BY <1>4 DEF Return, IndexTypeOK
<1> QED
  BY <1>1, <1>2, <1>3, <1>4 DEF IndexNext

(* The index is returned after its last node. *)
LEMMA ReadAllStep == ReadAll /\ IndexNext => ReadAll'
BY DEF ReadAll, IndexNext, Contest, Claim, NextNode, Return, AtKey

-----------------------------------------------------------------------------
(* The index: claims *)

(* Reading a key adds the node's label to the claimants of that key. *)
LEMMA ReadKey ==
    ASSUME IndexTypeOK, AtKey, field' = field + 1, UNCHANGED <<inv, node>>, NEW k
    PROVE  Claimants(k)' = Claimants(k) \cup (IF k = Key THEN {Label} ELSE {})
<1>1. \A m \in DOMAIN inv : \A g \in DOMAIN inv[m].keys :
          Read(m, g)' <=> Read(m, g) \/ (m = node /\ g = field)
  <2> SUFFICES ASSUME NEW m \in DOMAIN inv, NEW g \in DOMAIN inv[m].keys
               PROVE  Read(m, g)' <=> Read(m, g) \/ (m = node /\ g = field)
    OBVIOUS
  <2>1. m \in Nat /\ inv[m].keys \in Seq(Keys)
    BY NodeFacts
  <2>2. g \in Nat
    BY <2>1
  <2> QED
    BY <2>1, <2>2, KeyFacts DEF Read
<1>2. node \in DOMAIN inv /\ field \in DOMAIN inv[node].keys
  BY KeyFacts
<1> QED
  BY <1>1, <1>2 DEF Claimants, Key, Label

(* Turning to the next node, and returning, claims nothing. *)
LEMMA SameClaims ==
    ASSUME IndexTypeOK, NextNode \/ UNCHANGED <<inv, node, field>>, NEW k
    PROVE  Claimants(k)' = Claimants(k)
<1>1. CASE NextNode
  <2>1. \A m \in DOMAIN inv : \A g \in DOMAIN inv[m].keys : Read(m, g)' <=> Read(m, g)
    <3> SUFFICES ASSUME NEW m \in DOMAIN inv, NEW g \in DOMAIN inv[m].keys
                 PROVE  Read(m, g)' <=> Read(m, g)
      OBVIOUS
    <3>1. m \in Nat /\ inv[m].keys \in Seq(Keys)
      BY NodeFacts
    <3>2. g \in 1 .. Len(inv[m].keys) /\ Len(inv[m].keys) \in Nat
      BY <3>1
    <3> QED
      BY <1>1, <3>1, <3>2 DEF Read, NextNode, IndexTypeOK
  <2> QED
    BY <1>1, <2>1 DEF Claimants, NextNode
<1>2. CASE UNCHANGED <<inv, node, field>>
  BY <1>2 DEF Claimants, Read
<1> QED
  BY <1>1, <1>2

(* Labels are what a key is claimed for: none of them is blank. *)
LEMMA ClaimantsAreLabels ==
    ASSUME IndexTypeOK, NEW k, NEW a \in Claimants(k)
    PROVE  a \in Keys /\ a # Blank
<1>1. PICK m \in DOMAIN inv : a = inv[m].label
  BY DEF Claimants
<1>2. inv[m].label \in Keys
  BY NodeFacts
<1> QED
  BY <1>1, <1>2, NamesAssumption

(* An index that knows its claimants does so after every key.  A third     *)
(* node that claims a blank key leaves it blank, which is why Contest      *)
(* looks at blank entries as well.                                         *)
LEMMA IndexStep == IndexTypeOK /\ IndexInv /\ IndexNext => IndexInv'
<1> SUFFICES ASSUME IndexTypeOK, IndexInv, IndexNext PROVE IndexInv'
  OBVIOUS
<1>1. ASSUME AtKey, NEW l, byKey' = Set(Key, l), field' = field + 1, UNCHANGED <<inv, node>>,
             \/ l # Blank /\ Claimants(Key) \subseteq {l} /\ l = Label
             \/ l = Blank /\ \E a \in Claimants(Key) : a # Label
             \/ l = Blank /\ \E a, b \in Claimants(Key) : a # b
      PROVE  IndexInv'
  <2>1. \A k : Claimants(k)' = Claimants(k) \cup (IF k = Key THEN {Label} ELSE {})
    BY <1>1, ReadKey
  <2>2. Key \in Keys /\ Label # Blank
    BY <1>1, KeyFacts
  <2>3. DOMAIN byKey' = DOMAIN byKey \cup {Key}
    BY <1>1, SetFacts
  <2>4. byKey'[Key] = l /\ \A x \in DOMAIN byKey \ {Key} : byKey'[x] = byKey[x]
    <3>1. Set(Key, l)[Key] = l /\ \A x \in DOMAIN byKey \ {Key} : Set(Key, l)[x] = byKey[x]
      BY SetFacts
    <3> QED
      BY <1>1, <3>1
  <2>5. DOMAIN byKey' = {k \in Keys : Claimants(k)' # {}}
    BY <2>1, <2>2, <2>3 DEF IndexInv
  <2>6. ASSUME NEW k \in DOMAIN byKey'
        PROVE  \/ byKey'[k] # Blank /\ Claimants(k)' = {byKey'[k]}
               \/ byKey'[k] = Blank /\ \E a, b \in Claimants(k)' : a # b
    <3>1. CASE k = Key
      BY <1>1, <2>1, <2>4, <3>1
    <3>2. CASE k # Key
      BY <2>1, <2>3, <2>4, <3>2 DEF IndexInv
    <3> QED
      BY <3>1, <3>2
  <2> QED
    BY <2>5, <2>6 DEF IndexInv
<1>2. CASE Contest
  <2>1. Key \in DOMAIN byKey /\ byKey[Key] # Label
    BY <1>2 DEF Contest, Seen
  <2>2. (\E a \in Claimants(Key) : a # Label) \/ (\E a, b \in Claimants(Key) : a # b)
    BY <2>1 DEF IndexInv
  <2> QED
    BY <1>1, <1>2, <2>2 DEF Contest
<1>3. CASE Claim
  <2>1. Key \in DOMAIN byKey => byKey[Key] = Label
    BY <1>3 DEF Claim, Seen
  <2>2. Key \in Keys /\ Label # Blank
    BY <1>3, KeyFacts DEF Claim
  <2>3. Claimants(Key) \subseteq {Label}
    BY <2>1, <2>2 DEF IndexInv
  <2> QED
    BY <1>1, <1>3, <2>2, <2>3 DEF Claim
<1>4. CASE NextNode
  <2>1. \A k : Claimants(k)' = Claimants(k)
    BY <1>4, SameClaims
  <2> QED
    BY <1>4, <2>1 DEF NextNode, IndexInv
<1>5. CASE Return
  <2>1. \A k : Claimants(k)' = Claimants(k)
    BY <1>5, SameClaims DEF Return
  <2> QED
    BY <1>5, <2>1 DEF Return, IndexInv
<1> QED
  BY <1>2, <1>3, <1>4, <1>5 DEF IndexNext

-----------------------------------------------------------------------------
(* The join *)

(* An entry of the index is a key's only claimant, or blank. *)
LEMMA EntryFacts ==
    ASSUME IndexTypeOK, IndexInv, NEW k \in Keys
    PROVE  /\ Entry(k) # Blank => Claimants(k) = {Entry(k)}
           /\ (\E a, b \in Claimants(k) : a # b) => Entry(k) = Blank
           /\ \A l : Claimants(k) = {l} => Entry(k) = l
BY DEF Entry, IndexInv

(* Every claimant of a key claims its short form too. *)
LEMMA ShortClaims ==
    ASSUME IndexTypeOK, ReadAll, mapped, NEW h \in Keys
    PROVE  /\ Lower[h] \in Keys /\ Short[Lower[h]] \in Keys
           /\ Claimants(Lower[h]) \subseteq Claimants(Short[Lower[h]])
<1>1. Lower[h] \in Keys /\ Short[Lower[h]] \in Keys
  BY NamesAssumption
<1>2. ASSUME NEW a \in Claimants(Lower[h]) PROVE a \in Claimants(Short[Lower[h]])
  <2>a. PICK m \in DOMAIN inv :
          a = inv[m].label /\ \E x \in DOMAIN inv[m].keys : Lower[inv[m].keys[x]] = Lower[h]
    BY DEF Claimants
  <2>1. PICK g \in DOMAIN inv[m].keys : a = inv[m].label /\ Lower[inv[m].keys[g]] = Lower[h]
    BY <2>a
  <2>2. PICK f \in DOMAIN inv[m].keys : inv[m].keys[f] = Short[inv[m].keys[g]]
    BY NamesAssumption DEF IndexTypeOK
  <2>3. inv[m].keys[g] \in Keys
    BY NodeFacts
  <2>4. Lower[Short[inv[m].keys[g]]] = Short[Lower[inv[m].keys[g]]]
    BY <2>3, NamesAssumption
  <2>5. Lower[inv[m].keys[f]] = Short[Lower[h]]
    BY <2>1, <2>2, <2>4
  <2>6. Read(m, f)
    BY NodeFacts DEF Read, ReadAll, IndexTypeOK
  <2> QED
    BY <2>1, <2>5, <2>6 DEF Claimants
<1> QED
  BY <1>1, <1>2

(* The index joins a host tag to a node that publishes it, to no node if   *)
(* two publish it, and to its node if nobody else does.                    *)
LEMMA JoinSound == IndexTypeOK /\ ReadAll /\ IndexInv => JoinIsSound
<1> SUFFICES ASSUME IndexTypeOK, ReadAll, IndexInv, mapped, NEW h \in Keys
             PROVE  /\ (\E a, b \in Claimants(Lower[h]) : a # b) => Lookup(h) = Blank
                    /\ Lookup(h) # Blank =>
                          Lookup(h) \in Claimants(Lower[h]) \cup Claimants(Short[Lower[h]])
                    /\ \A m \in DOMAIN inv :
                          (Lower[h] = Lower[inv[m].label] /\ Claimants(Lower[h]) = {inv[m].label})
                              => Lookup(h) = inv[m].label
  BY DEF JoinIsSound
<1>1. /\ Lower[h] \in Keys /\ Short[Lower[h]] \in Keys
      /\ Claimants(Lower[h]) \subseteq Claimants(Short[Lower[h]])
  BY ShortClaims
<1>2. \A k \in Keys :
          /\ Entry(k) # Blank => Claimants(k) = {Entry(k)}
          /\ (\E a, b \in Claimants(k) : a # b) => Entry(k) = Blank
          /\ \A l : Claimants(k) = {l} => Entry(k) = l
  BY EntryFacts
<1>3. Lookup(h) = IF Entry(Lower[h]) # Blank THEN Entry(Lower[h]) ELSE Entry(Short[Lower[h]])
  BY DEF Lookup
<1>4. (\E a, b \in Claimants(Lower[h]) : a # b) => Lookup(h) = Blank
  BY <1>1, <1>2, <1>3
<1>5. Lookup(h) # Blank => Lookup(h) \in Claimants(Lower[h]) \cup Claimants(Short[Lower[h]])
  <2>1. CASE Entry(Lower[h]) # Blank
    BY <1>1, <1>2, <1>3, <2>1
  <2>2. CASE Entry(Lower[h]) = Blank
    BY <1>1, <1>2, <1>3, <2>2
  <2> QED
    BY <2>1, <2>2
<1>6. \A m \in DOMAIN inv : Claimants(Lower[h]) = {inv[m].label} => Lookup(h) = inv[m].label
  <2> SUFFICES ASSUME NEW m \in DOMAIN inv, Claimants(Lower[h]) = {inv[m].label}
               PROVE  Lookup(h) = inv[m].label
    OBVIOUS
  <2>1. Entry(Lower[h]) = inv[m].label
    BY <1>1, <1>2
  <2>2. inv[m].label # Blank
    BY NodeFacts, NamesAssumption
  <2> QED
    BY <1>3, <2>1, <2>2
<1> QED
  BY <1>4, <1>5, <1>6

-----------------------------------------------------------------------------
(* The collector: types *)

(* A host tag is joined to a key or to nothing. *)
LEMMA LookupType == IndexTypeOK => \A h : Lookup(h) \in Keys \cup {Blank}
BY DEF IndexTypeOK, Lookup, Entry

(* The table lists its queries, each at one place. *)
LEMMA TableFacts ==
    /\ Len(Queries) \in Nat
    /\ \A n \in 1 .. Len(Queries) : Queries[n] \in Table
    /\ \A q \in Table : \E n \in 1 .. Len(Queries) : q = Queries[n]
    /\ \A m, n \in 1 .. Len(Queries) : Queries[m] = Queries[n] => m = n
BY QueriesAssumption DEF Table

(* The index, and the variables a step of the collector writes one at a    *)
(* time.                                                                   *)
LEMMA SameIndex == IndexTypeOK /\ UNCHANGED indexVars => IndexTypeOK'
BY DEF IndexTypeOK, indexVars

(* The results the collector returns have their types. *)
LEMMA ResultTypes ==
    /\ None \in Results /\ Error \in Results
    /\ \A S, n : S \subseteq Samples /\ n \in Nat =>
          [err |-> FALSE, samples |-> S, unmapped |-> n] \in Results
BY DEF None, Error, Results

(* So do the answers it records. *)
LEMMA AnswerTypes ==
    /\ NotAsked \in Answers
    /\ \A rows : rows \subseteq Rows => Came("rows", rows) \in Answers
    /\ \A e : Came(Reason(e), {}) \in Answers
<1>1. \A how \in {"not asked", "hopeless", "refused", "rows"}, rows \in SUBSET Rows :
          Came(how, rows) \in Answers
  BY DEF Came, Answers
<1>2. \A e : Reason(e) \in {"hopeless", "refused"}
  BY DEF Reason
<1> QED
  BY <1>1, <1>2 DEF NotAsked

(* A row's sample is one. *)
LEMMA SampleType ==
    ASSUME IndexTypeOK, NEW q \in Table, NEW r \in Rows
    PROVE  SampleOf(q, r) \in Samples
<1>1. Lookup(r.host) \in Keys \cup {Blank}
  BY LookupType
<1> QED
  BY <1>1 DEF SampleOf, Samples

(* The empty index has no key. *)
LEMMA NoKeysFact == DOMAIN NoKeys = {}
BY DEF NoKeys

(* The type invariant holds initially. *)
LEMMA TypeInit == Init => TypeOK
<1> SUFFICES ASSUME Init PROVE TypeOK
  OBVIOUS
<1>1. IndexTypeOK
  <2>1. inv \in Inventories /\ Len(inv) = 0
    BY QueriesAssumption DEF Init
  <2>2. node = 1 /\ field = 1 /\ mapped = FALSE /\ DOMAIN byKey = {}
    BY NoKeysFact DEF Init, IndexInit
  <2>3. node \in 1 .. Len(inv) + 1 /\ field \in Nat \ {0} /\ ~(node <= Len(inv))
    BY <2>1, <2>2
  <2> QED
    BY <2>1, <2>2, <2>3 DEF IndexTypeOK
<1>2. result \in Results /\ answer \in [Table -> Answers]
  BY ResultTypes, AnswerTypes DEF Init
<1>3. at \in 1 .. Len(Queries) + 1 /\ cycles \in 0 .. MaxCycles /\ reloads \in 0 .. MaxReloads
  BY TableFacts, QueriesAssumption, AnswersAssumption DEF Init, MaxCycles
<1>4. said \in [Table -> {"rows", "nothing"}] /\ lines \in [Table -> Nat] /\ spells \in [Table -> Nat]
  BY DEF Init
<1> QED
  BY <1>1, <1>2, <1>3, <1>4 DEF Init, TypeOK

(* Issuing a query counts it. *)
LEMMA IssueTypes ==
    ASSUME TypeOK, NEW q \in Table, Issue(q)
    PROVE  /\ at' \in 1 .. Len(Queries) + 1 /\ attempted' \in 0 .. at' - 1
           /\ succeeded \in 0 .. attempted' /\ succeeded + 1 \in 0 .. attempted'
           /\ IndexTypeOK' /\ UNCHANGED <<indexVars, dtOwned, cycles, reloads>>
           /\ pc = "query" /\ mapped'
BY TableFacts, SameIndex DEF TypeOK, Issue, AtQuery, indexVars

(* Every step of the collector keeps the type invariant. *)
LEMMA TypeStep == TypeOK /\ [Next]_vars => TypeOK'
<1> SUFFICES ASSUME TypeOK, [Next]_vars PROVE TypeOK'
  OBVIOUS
<1> USE DEF TypeOK, history
<1>1. CASE Begin
  <2>1. inv' \in Inventories /\ cycles' \in 0 .. MaxCycles
    BY <1>1, QueriesAssumption DEF Begin, MaxCycles
  <2>2. Len(inv') \in Nat /\ \A m \in 1 .. Len(inv') : Len(inv'[m].keys) \in Nat
    <3>1. \A i \in Inventories : Len(i) \in Nat /\ \A m \in 1 .. Len(i) : Len(i[m].keys) \in Nat
      BY InventoryFacts
    <3> QED
      BY <2>1, <3>1
  <2>4. IndexTypeOK'
    <3>1. node' = 1 /\ field' = 1 /\ byKey' = NoKeys /\ mapped' = FALSE
      BY <1>1 DEF Begin
    <3>2. node' \in 1 .. Len(inv') + 1 /\ (node' <= Len(inv') => field' <= Len(inv'[node'].keys) + 1)
      BY <2>2, <3>1
    <3>3. DOMAIN byKey' = {} /\ field' \in Nat \ {0}
      BY <3>1, NoKeysFact
    <3> QED
      BY <2>1, <3>1, <3>2, <3>3 DEF IndexTypeOK
  <2>5. result' \in Results /\ answer' \in [Table -> Answers]
    BY <1>1, ResultTypes, AnswerTypes DEF Begin
  <2> QED
    BY <1>1, <2>1, <2>4, <2>5, TableFacts DEF Begin
<1>2. CASE MapNodes
  <2>1. IndexTypeOK'
    BY <1>2, IndexTypeStep DEF MapNodes
  <2> QED
    BY <1>2, <2>1 DEF MapNodes, IndexTypeOK
<1>3. CASE MapFails
  <2>1. IndexTypeOK' /\ result' \in Results
    BY <1>3, SameIndex, ResultTypes DEF MapFails, Fail
  <2> QED
    BY <1>3, <2>1 DEF MapFails, Fail
<1>4. CASE Finish
  <2>1. IndexTypeOK' /\ result' \in Results
    BY <1>4, SameIndex, ResultTypes DEF Finish
  <2> QED
    BY <1>4, <2>1 DEF Finish
<1>5. CASE Rebuild
  <2>1. IndexTypeOK' /\ result' \in Results
    BY <1>5, SameIndex, ResultTypes DEF Rebuild
  <2> QED
    BY <1>5, <2>1, AnswersAssumption DEF Rebuild
<1>6. ASSUME NEW q \in Table, SkipOwned(q) PROVE TypeOK'
  <2>1. IndexTypeOK'
    BY <1>6, SameIndex DEF SkipOwned
  <2>2. at' \in 1 .. Len(Queries) + 1 /\ attempted' \in 0 .. at' - 1
    BY <1>6, TableFacts DEF SkipOwned, AtQuery
  <2> QED
    BY <1>6, <2>1, <2>2 DEF SkipOwned, indexVars
<1>7. ASSUME NEW q \in Table, Fatal(q) PROVE TypeOK'
  <2>1. answer' \in [Table -> Answers] /\ result' \in Results
    BY <1>7, AnswerTypes, ResultTypes DEF Fatal, Fail
  <2> QED
    BY <1>7, <2>1, IssueTypes DEF Fatal, Fail
<1>8. ASSUME NEW q \in Table, Refused(q) PROVE TypeOK'
  <2>1. answer' \in [Table -> Answers]
    BY <1>8, AnswerTypes DEF Refused
  <2> QED
    BY <1>8, <2>1, IssueTypes DEF Refused
<1>9. ASSUME NEW q \in Table, Empty(q) PROVE TypeOK'
  <2>1. answer' \in [Table -> Answers]
    BY <1>9, AnswerTypes DEF Empty
  <2>2. lines' \in [Table -> Nat] /\ spells' \in [Table -> Nat]
    BY <1>9 DEF Empty
  <2>3. said' \in [Table -> {"rows", "nothing"}] /\ silent' \subseteq Table
    BY <1>9 DEF Empty
  <2> QED
    BY <1>9, <2>1, <2>2, <2>3, IssueTypes DEF Empty
<1>10. ASSUME NEW q \in Table, Answered(q) PROVE TypeOK'
  <2>1. PICK rows \in SUBSET Rows :
          /\ answer' = [answer EXCEPT ![q] = Came("rows", rows)]
          /\ out' = out \cup {SampleOf(q, r) : r \in {x \in rows : Lands(q, x)}}
          /\ unmapped' = unmapped + Cardinality({x \in rows : Unmapped(q, x)})
    BY <1>10 DEF Answered
  <2>2. answer' \in [Table -> Answers]
    BY <2>1, AnswerTypes
  <2>3. out' \subseteq Samples
    BY <2>1, SampleType
  <2>4. unmapped' \in Nat
    <3>1. Cardinality({x \in rows : Unmapped(q, x)}) \in Nat
      BY AnswersAssumption, FS_Subset, FS_CardinalityType
    <3> QED
      BY <2>1, <3>1
  <2>5. said' \in [Table -> {"rows", "nothing"}] /\ silent' \subseteq Table
    BY <1>10 DEF Answered
  <2> QED
    BY <1>10, <2>2, <2>3, <2>4, <2>5, IssueTypes DEF Answered
<1>11. CASE UNCHANGED vars
  <2>1. IndexTypeOK'
    BY <1>11, SameIndex DEF vars
  <2> QED
    BY <1>11, <2>1 DEF vars, loopVars, indexVars
<1> QED
  BY <1>1, <1>2, <1>3, <1>4, <1>5, <1>6, <1>7, <1>8, <1>9, <1>10, <1>11 DEF Next

(* The types of the collector and its index hold for all constants. *)
THEOREM FluxTypeCorrect == Spec => []TypeOK
BY TypeInit, TypeStep, PTL DEF Spec

-----------------------------------------------------------------------------
(* The collector and its index *)

(* A new index has read nothing and holds nothing. *)
LEMMA EmptyIndex ==
    ASSUME DOMAIN byKey = {}, Len(inv) = 0 \/ (node = 1 /\ field = 1), inv \in Inventories
    PROVE  IndexInv
<1>1. DOMAIN inv = 1 .. Len(inv) /\ Len(inv) \in Nat
      /\ \A m \in DOMAIN inv : inv[m].keys \in Seq(Keys)
  BY InventoryFacts
<1>2. \A m \in DOMAIN inv : \A g \in DOMAIN inv[m].keys : ~Read(m, g)
  <2> SUFFICES ASSUME NEW m \in DOMAIN inv, NEW g \in DOMAIN inv[m].keys PROVE ~Read(m, g)
    OBVIOUS
  <2>1. g \in Nat /\ g >= 1
    BY <1>1
  <2>2. m \in Nat /\ m >= 1 /\ node = 1 /\ field = 1
    BY <1>1
  <2> QED
    BY <2>1, <2>2 DEF Read
<1>3. \A k : Claimants(k) = {}
  BY <1>2 DEF Claimants
<1> QED
  BY <1>3 DEF IndexInv

(* Steps of the collector that leave the index leave what it says. *)
LEMMA SameEntries ==
    ASSUME UNCHANGED indexVars
    PROVE  (IndexInv => IndexInv') /\ (ReadAll => ReadAll')
<1>1. inv' = inv /\ node' = node /\ field' = field /\ byKey' = byKey /\ mapped' = mapped
  BY DEF indexVars
<1>2. \A k : Claimants(k)' = Claimants(k)
  BY <1>1 DEF Claimants, Read
<1>3. IndexInv => IndexInv'
  BY <1>1, <1>2 DEF IndexInv
<1>4. ReadAll => ReadAll'
  BY <1>1 DEF ReadAll
<1> QED
  BY <1>3, <1>4

(* The index holds what the inventory claims throughout a Collect. *)
LEMMA IndexAlways == Spec => [](IndexInv /\ ReadAll)
<1> DEFINE I == IndexInv /\ ReadAll
<1>1. Spec => []TypeOK
  BY FluxTypeCorrect
<1>2. Init => I
  <2> SUFFICES ASSUME Init PROVE I
    OBVIOUS
  <2>1. Len(inv) = 0 /\ inv \in Inventories
    BY QueriesAssumption DEF Init
  <2>2. DOMAIN byKey = {} /\ ~mapped
    BY NoKeysFact DEF Init, IndexInit
  <2> QED
    BY <2>1, <2>2, EmptyIndex DEF ReadAll
<1>3. TypeOK /\ TypeOK' /\ I /\ [Next]_vars => I'
  <2> SUFFICES ASSUME TypeOK, TypeOK', I, [Next]_vars PROVE I'
    OBVIOUS
  <2>1. CASE Begin
    <3>1. byKey' = NoKeys /\ node' = 1 /\ field' = 1 /\ mapped' = FALSE /\ inv' \in Inventories
      BY <2>1 DEF Begin, TypeOK, IndexTypeOK
    <3>2. \A m \in DOMAIN inv' : \A g \in DOMAIN inv'[m].keys : ~Read(m, g)'
      <4> SUFFICES ASSUME NEW m \in DOMAIN inv', NEW g \in DOMAIN inv'[m].keys PROVE ~Read(m, g)'
        OBVIOUS
      <4>1. m \in Nat /\ m >= 1 /\ inv'[m].keys \in Seq(Keys)
        BY <3>1, InventoryFacts
      <4>2. g \in Nat /\ g >= 1
        BY <4>1
      <4> QED
        BY <3>1, <4>1, <4>2 DEF Read
    <3>3. \A k : Claimants(k)' = {}
      BY <3>2 DEF Claimants
    <3> QED
      BY <3>1, <3>3, NoKeysFact DEF IndexInv, ReadAll
  <2>2. CASE MapNodes
    BY <2>2, IndexStep, ReadAllStep DEF MapNodes, TypeOK
  <2>3. CASE ~(Begin \/ MapNodes)
    <3>1. UNCHANGED indexVars
      BY <2>3 DEF Next, MapFails, Finish, Rebuild, SkipOwned, Fatal, Refused, Empty, Answered, Issue, vars
    <3> QED
      BY <3>1, SameEntries
  <2> QED
    BY <2>1, <2>2, <2>3
<1> QED
  BY <1>1, <1>2, <1>3, PTL DEF Spec

(* At every step of newNodeMapper a key of the index has its one claimant, *)
(* or is blank because two nodes claim it.                                 *)
THEOREM IndexCorrect == Spec => []IndexInv
BY IndexAlways, PTL

(* A row is joined to a node that publishes its host tag, or not at all.   *)
THEOREM JoinCorrect == Spec => []JoinIsSound
<1>1. TypeOK /\ IndexInv /\ ReadAll => JoinIsSound
  BY JoinSound DEF TypeOK
<1> QED
  BY <1>1, IndexAlways, FluxTypeCorrect, PTL

-----------------------------------------------------------------------------
(* The warnings *)

(* The history of the silences agrees with the silenceSet. *)
LEMMA SilenceStep == TypeOK /\ SilenceInv /\ [Next]_vars => SilenceInv'
<1> SUFFICES ASSUME TypeOK, SilenceInv, [Next]_vars PROVE SilenceInv'
  OBVIOUS
<1> USE DEF SilenceInv, OneWarningPerSilence
<1>1. CASE Rebuild
  BY <1>1 DEF Rebuild
<1>2. ASSUME NEW q \in Table, Empty(q) PROVE SilenceInv'
  BY <1>2 DEF Empty, TypeOK
<1>3. ASSUME NEW q \in Table, Answered(q) PROVE SilenceInv'
  BY <1>3 DEF Answered, TypeOK
<1>4. ASSUME UNCHANGED <<silent, said, lines, spells>> PROVE SilenceInv'
  BY <1>4
<1>5. CASE ~(Rebuild \/ \E q \in Table : Empty(q) \/ Answered(q))
  BY <1>5, <1>4 DEF Next, Begin, MapNodes, MapFails, Finish, SkipOwned, Fatal, Refused, vars, history
<1> QED
  BY <1>1, <1>2, <1>3, <1>5

(* A measurement that falls silent is warned about once, however long the  *)
(* silence lasts, and again the next time.                                 *)
THEOREM OneWarningEach == Spec => []OneWarningPerSilence
<1>1. Init => SilenceInv
  BY DEF Init, SilenceInv, OneWarningPerSilence
<1>2. SilenceInv => OneWarningPerSilence
  BY DEF SilenceInv
<1> QED
  BY <1>1, <1>2, SilenceStep, FluxTypeCorrect, PTL DEF Spec

-----------------------------------------------------------------------------
(* What a Collect returns *)

(* Rows keep their fate as long as the index stays. *)
LEMMA SameFate ==
    ASSUME UNCHANGED <<indexVars, dtOwned>>
    PROVE  /\ \A q, r : SampleOf(q, r)' = SampleOf(q, r) /\ (Lands(q, r)' <=> Lands(q, r))
           /\ \A r : Joins(r)' <=> Joins(r)
           /\ \A q : Owned(q)' <=> Owned(q)
<1>1. byKey' = byKey /\ dtOwned' = dtOwned
  BY DEF indexVars
<1>2. \A h : Lookup(h)' = Lookup(h)
  BY <1>1 DEF Lookup, Entry
<1>3. \A r : Joins(r)' <=> Joins(r)
  BY <1>2 DEF Joins, Tagged
<1> QED
  BY <1>1, <1>2, <1>3 DEF SampleOf, Lands, Owned, Current

(* The fields of an answer. *)
LEMMA CameFields ==
    /\ \A how, rows : Came(how, rows).how = how /\ Came(how, rows).rows = rows
    /\ NotAsked.how = "not asked" /\ NotAsked.rows = {}
BY DEF Came, NotAsked

(* The first answer to a query adds its rows to what can be labelled and   *)
(* to what must join.                                                      *)
LEMMA AnswerAdds ==
    ASSUME TypeOK, NEW q \in Table, answer[q] = NotAsked, UNCHANGED <<indexVars, dtOwned>>,
           NEW how, NEW rows, answer' = [answer EXCEPT ![q] = Came(how, rows)]
    PROVE  /\ Labelled' = Labelled \cup {SampleOf(q, r) : r \in {x \in rows : Lands(q, x)}}
           /\ AllJoin' <=> AllJoin /\ \A r \in rows : ~Unmapped(q, r)
           /\ answer'[q].how = how
           /\ \A p \in Table \ {q} : answer'[p] = answer[p]
<1>1. /\ \A p \in Table \ {q} : answer'[p] = answer[p]
      /\ answer'[q].how = how /\ answer'[q].rows = rows /\ answer[q].rows = {}
  <2>1. answer'[q] = Came(how, rows) /\ \A p \in Table \ {q} : answer'[p] = answer[p]
    BY DEF TypeOK
  <2>2. Came(how, rows).how = how /\ Came(how, rows).rows = rows
    BY CameFields
  <2>3. answer[q].rows = {}
    BY CameFields
  <2> QED
    BY <2>1, <2>2, <2>3
<1>2. /\ \A p \in Table \ {q} : RowsOf(p)' = RowsOf(p)
      /\ RowsOf(q)' = rows /\ RowsOf(q) = {}
  BY <1>1 DEF RowsOf
<1>3. /\ \A p \in Table \ {q} : SamplesOf(p)' = SamplesOf(p)
      /\ SamplesOf(q)' = {SampleOf(q, r) : r \in {x \in rows : Lands(q, x)}}
      /\ SamplesOf(q) = {}
  BY <1>2, SameFate DEF SamplesOf
<1>4. Labelled' = Labelled \cup {SampleOf(q, r) : r \in {x \in rows : Lands(q, x)}}
  BY <1>3 DEF Labelled
<1>5. AllJoin' <=> AllJoin /\ \A r \in rows : ~Unmapped(q, r)
  <2>1. \A r : Unmapped(q, r) <=> q \in PerNode /\ Current(r) /\ Tagged(r) /\ ~Joins(r)
    BY DEF Unmapped
  <2> QED
    BY <1>2, <2>1, SameFate DEF AllJoin, Current, Tagged
<1> QED
  BY <1>1, <1>4, <1>5

(* Counting the rows that name no node tells whether there are any. *)
LEMMA CountTells ==
    ASSUME NEW rows \in SUBSET Rows, NEW q, NEW n \in Nat
    PROVE  LET c == Cardinality({x \in rows : Unmapped(q, x)}) IN
               n + c = 0 <=> n = 0 /\ \A r \in rows : ~Unmapped(q, r)
<1> DEFINE U == {x \in rows : Unmapped(q, x)}
<1>1. IsFiniteSet(U)
  BY AnswersAssumption, FS_Subset
<1>2. Cardinality(U) \in Nat /\ (Cardinality(U) = 0 <=> U = {})
  BY <1>1, FS_CardinalityType, FS_EmptySet
<1>3. U = {} <=> \A r \in rows : ~Unmapped(q, r)
  OBVIOUS
<1> HIDE DEF U
<1>4. n + Cardinality(U) = 0 <=> n = 0 /\ Cardinality(U) = 0
  BY <1>2
<1> QED
  BY <1>2, <1>3, <1>4 DEF U

(* A refusal ends the Collect exactly when it is hopeless. *)
LEMMA FatalIsHopeless ==
    ASSUME NEW e \in Failures
    PROVE  FluxFatal(e) <=> Reason(e) = "hopeless"
<1> DEFINE b == e.body
<1>1. b.retryable \in {{}, {TRUE}, {FALSE}}
  BY AnswersAssumption
<1>2. (FALSE \in b.retryable) <=> b.retryable = {FALSE}
  <2>1. {} # {FALSE} /\ {TRUE} # {FALSE}
    <3>1. FALSE \in {FALSE} /\ FALSE \notin {} /\ FALSE \notin {TRUE}
      OBVIOUS
    <3> QED
      BY <3>1
  <2> QED
    BY <1>1, <2>1
<1>3. CASE b = Unreadable
  <2>1. b.code = 0 /\ b.retryable = {}
    BY <1>3 DEF Unreadable
  <2>2. ~Permanent(ParseAPIError(b))
    BY <1>3 DEF Permanent, ParseAPIError
  <2>3. b.code # CodeInsufficientPermissions /\ b.retryable # {FALSE}
    BY <1>2, <2>1 DEF CodeInsufficientPermissions
  <2> QED
    BY <2>2, <2>3 DEF FluxFatal, Reason
<1>4. CASE b # Unreadable
  <2>1. Permanent(ParseAPIError(b)) <=> FALSE \in b.retryable \/ b.code = CodeInsufficientPermissions
    BY <1>4 DEF Permanent, ParseAPIError
  <2> QED
    BY <1>2, <2>1 DEF FluxFatal, Reason
<1> QED
  BY <1>3, <1>4

(* An answer that does not end the Collect, refused or not, keeps the      *)
(* counts and the samples those of the answers so far.                     *)
LEMMA AnswerStep ==
    ASSUME TypeOK, SoFar, NEW q \in Table, Issue(q),
           NEW how \in {"refused", "rows"}, NEW rows \in SUBSET Rows,
           how = "refused" => rows = {},
           answer' = [answer EXCEPT ![q] = Came(how, rows)],
           succeeded' = IF how = "rows" THEN succeeded + 1 ELSE succeeded,
           out' = out \cup {SampleOf(q, r) : r \in {x \in rows : Lands(q, x)}},
           unmapped' = 0 <=> unmapped = 0 /\ \A r \in rows : ~Unmapped(q, r)
    PROVE  SoFar'
<1>1. /\ at \in 1 .. Len(Queries) /\ q = Queries[at] /\ at' = at + 1
      /\ attempted' = attempted + 1 /\ attempted \in Nat
      /\ UNCHANGED <<indexVars, dtOwned>>
  BY TableFacts DEF TypeOK, Issue, AtQuery
<1>2. answer[q] = NotAsked
  BY <1>1, TableFacts DEF SoFar
<1>3. /\ Labelled' = Labelled \cup {SampleOf(q, r) : r \in {x \in rows : Lands(q, x)}}
      /\ AllJoin' <=> AllJoin /\ \A r \in rows : ~Unmapped(q, r)
      /\ answer'[q].how = how
      /\ \A p \in Table \ {q} : answer'[p] = answer[p]
  BY <1>1, <1>2, AnswerAdds
<1>4. mapped'
  BY <1>1 DEF SoFar, indexVars
<1>5. ASSUME NEW n \in 1 .. at' - 1
      PROVE  /\ answer'[Queries[n]].how # "hopeless"
             /\ attempted' = 0 \/ answer'[Queries[n]] = NotAsked => Owned(Queries[n])'
  <2>1. CASE n = at
    <3>1. answer'[Queries[n]].how = how /\ attempted' # 0
      BY <1>1, <1>3, <2>1
    <3>2. answer'[Queries[n]] # NotAsked
      BY <3>1, CameFields
    <3> QED
      BY <3>1, <3>2
  <2>2. CASE n # at
    <3>1. n \in 1 .. at - 1 /\ Queries[n] \in Table \ {q}
      BY <1>1, <1>5, <2>2, TableFacts
    <3> QED
      BY <1>1, <1>3, <3>1, SameFate DEF SoFar
  <2> QED
    BY <2>1, <2>2
<1>6. ASSUME NEW n \in at' .. Len(Queries) PROVE answer'[Queries[n]] = NotAsked
  <2>1. n \in at .. Len(Queries) /\ Queries[n] \in Table \ {q}
    BY <1>1, <1>6, TableFacts
  <2> QED
    BY <1>3, <2>1 DEF SoFar
<1>7. succeeded' > 0 <=> \E p \in Table : answer'[p].how = "rows"
  <2>1. answer[q].how # "rows"
    BY <1>2, CameFields
  <2>2. succeeded \in Nat
    BY <1>1 DEF TypeOK
  <2> QED
    BY <1>3, <2>1, <2>2 DEF SoFar
<1>8. out' = Labelled' /\ (unmapped' = 0 <=> AllJoin')
  BY <1>3 DEF SoFar
<1> QED
  BY <1>4, <1>5, <1>6, <1>7, <1>8 DEF SoFar

(* The counts and the samples are those of the answers so far throughout   *)
(* a Collect.                                                              *)
LEMMA StageStep == TypeOK /\ StageInv /\ [Next]_vars => StageInv'
<1> SUFFICES ASSUME TypeOK, StageInv, [Next]_vars PROVE StageInv'
  OBVIOUS
<1> USE DEF StageInv
<1>1. CASE Begin
  BY <1>1 DEF Begin, Untouched
<1>2. CASE MapNodes
  <2>1. Untouched /\ UNCHANGED <<at, attempted, succeeded, out, unmapped, answer, dtOwned>>
    BY <1>2 DEF MapNodes, history
  <2>2. CASE ~mapped'
    BY <1>2, <2>1, <2>2 DEF MapNodes, Untouched
  <2>3. CASE mapped'
    <3>1. pc' = "query"
      BY <1>2, <2>3 DEF MapNodes
    <3>2. \A q \in Table : answer'[q] = NotAsked /\ RowsOf(q)' = {} /\ answer'[q].how # "rows"
      BY <2>1, CameFields DEF Untouched, RowsOf
    <3>3. Labelled' = {} /\ AllJoin'
      BY <3>2 DEF Labelled, SamplesOf, AllJoin
    <3>4. at' = 1 /\ succeeded' = 0 /\ out' = {} /\ unmapped' = 0
      BY <2>1 DEF Untouched
    <3>5. \A n \in 1 .. Len(Queries) : answer'[Queries[n]] = NotAsked
      BY <3>2, TableFacts
    <3>6. \A n : n \notin 1 .. at' - 1
      BY <3>4
    <3>7. SoFar'
      BY <2>3, <3>2, <3>3, <3>4, <3>5, <3>6 DEF SoFar
    <3> QED
      BY <3>1, <3>7
  <2> QED
    BY <2>2, <2>3
<1>3. ASSUME NEW q \in Table, SkipOwned(q) PROVE StageInv'
  <2>1. /\ at \in 1 .. Len(Queries) /\ q = Queries[at] /\ at' = at + 1
        /\ Owned(q) /\ SoFar /\ pc' = "query"
        /\ UNCHANGED <<indexVars, dtOwned, attempted, succeeded, out, unmapped, answer>>
    BY <1>3, TableFacts DEF SkipOwned, AtQuery, TypeOK, history
  <2>2. Labelled' = Labelled /\ (AllJoin' <=> AllJoin)
    BY <2>1, SameFate DEF Labelled, SamplesOf, RowsOf, AllJoin, Current, Tagged
  <2>3. answer[q] = NotAsked /\ answer[q].how # "hopeless"
    <3>1. answer[q] = NotAsked
      BY <2>1 DEF SoFar
    <3> QED
      BY <3>1, CameFields
  <2>4. \A n \in 1 .. at' - 1 : n \in 1 .. at - 1 \/ n = at
    BY <2>1
  <2>5. \A n \in 1 .. at' - 1 :
          /\ answer'[Queries[n]].how # "hopeless"
          /\ attempted' = 0 \/ answer'[Queries[n]] = NotAsked => Owned(Queries[n])'
    BY <2>1, <2>3, <2>4, SameFate DEF SoFar
  <2>6. \A n \in at' .. Len(Queries) : answer'[Queries[n]] = NotAsked
    BY <2>1 DEF SoFar
  <2>7. mapped' /\ SoFar
    BY <2>1 DEF SoFar, indexVars
  <2>8. SoFar'
    BY <2>1, <2>2, <2>5, <2>6, <2>7 DEF SoFar
  <2> QED
    BY <2>1, <2>8
<1>4. ASSUME NEW q \in Table, Fatal(q) PROVE StageInv'
  BY <1>4 DEF Fatal, Fail
<1>5. ASSUME NEW q \in Table, Refused(q) PROVE StageInv'
  <2>1. PICK e \in Failures : ~FluxFatal(e) /\ answer' = [answer EXCEPT ![q] = Came(Reason(e), {})]
    BY <1>5 DEF Refused
  <2>2. Reason(e) = "refused"
    BY <2>1, FatalIsHopeless DEF Reason
  <2>3. SoFar /\ Issue(q) /\ pc' = "query" /\ UNCHANGED <<succeeded, out, unmapped>>
    BY <1>5 DEF Refused, Issue, AtQuery
  <2>4. /\ out' = out \cup {SampleOf(q, r) : r \in {x \in {} : Lands(q, x)}}
        /\ unmapped' = 0 <=> unmapped = 0 /\ \A r \in {} : ~Unmapped(q, r)
        /\ succeeded' = IF "refused" = "rows" THEN succeeded + 1 ELSE succeeded
        /\ answer' = [answer EXCEPT ![q] = Came("refused", {})]
        /\ {} \in SUBSET Rows /\ "refused" \in {"refused", "rows"}
    BY <2>1, <2>2, <2>3
  <2>5. SoFar'
    BY <2>3, <2>4, AnswerStep
  <2> QED
    BY <2>3, <2>5
<1>6. ASSUME NEW q \in Table, Empty(q) PROVE StageInv'
  <2>1. SoFar /\ Issue(q) /\ pc' = "query" /\ UNCHANGED <<out, unmapped>>
    BY <1>6 DEF Empty, Issue, AtQuery
  <2>2. succeeded' = succeeded + 1 /\ answer' = [answer EXCEPT ![q] = Came("rows", {})]
    BY <1>6 DEF Empty
  <2>3. /\ out' = out \cup {SampleOf(q, r) : r \in {x \in {} : Lands(q, x)}}
        /\ unmapped' = 0 <=> unmapped = 0 /\ \A r \in {} : ~Unmapped(q, r)
        /\ succeeded' = IF "rows" = "rows" THEN succeeded + 1 ELSE succeeded
        /\ {} \in SUBSET Rows /\ "rows" \in {"refused", "rows"}
    BY <2>1, <2>2
  <2>4. SoFar'
    BY <2>1, <2>2, <2>3, AnswerStep
  <2> QED
    BY <2>1, <2>4
<1>7. ASSUME NEW q \in Table, Answered(q) PROVE StageInv'
  <2>1. PICK rows \in SUBSET Rows :
          /\ answer' = [answer EXCEPT ![q] = Came("rows", rows)]
          /\ out' = out \cup {SampleOf(q, r) : r \in {x \in rows : Lands(q, x)}}
          /\ unmapped' = unmapped + Cardinality({x \in rows : Unmapped(q, x)})
    BY <1>7 DEF Answered
  <2>2. SoFar /\ Issue(q) /\ pc' = "query" /\ succeeded' = succeeded + 1
    BY <1>7 DEF Answered, Issue, AtQuery
  <2>3. unmapped' = 0 <=> unmapped = 0 /\ \A r \in rows : ~Unmapped(q, r)
    BY <2>1, CountTells DEF TypeOK
  <2>4. SoFar'
    BY <2>1, <2>2, <2>3, AnswerStep
  <2> QED
    BY <2>2, <2>4
<1>8. CASE MapFails \/ Finish \/ Rebuild
  BY <1>8 DEF MapFails, Fail, Finish, Rebuild
<1>9. CASE UNCHANGED vars
  <2>1. UNCHANGED <<indexVars, dtOwned, pc, at, attempted, succeeded, out, unmapped, answer>>
    BY <1>9 DEF vars, loopVars, history
  <2>2. Labelled' = Labelled /\ (AllJoin' <=> AllJoin) /\ mapped' = mapped
    BY <2>1, SameFate DEF Labelled, SamplesOf, RowsOf, AllJoin, Current, Tagged, indexVars
  <2>3. Untouched => Untouched'
    BY <2>1, <2>2 DEF Untouched
  <2>4. SoFar => SoFar'
    BY <2>1, <2>2, SameFate DEF SoFar
  <2> QED
    BY <2>1, <2>3, <2>4
<1> QED
  BY <1>1, <1>2, <1>3, <1>4, <1>5, <1>6, <1>7, <1>8, <1>9 DEF Next

(* A Collect whose table is through has asked for something, and for all   *)
(* that is not the DT collector's.                                         *)
LEMMA TableThrough ==
    ASSUME TypeOK, SoFar, at > Len(Queries)
    PROVE  /\ attempted > 0
           /\ \A q \in Table : answer[q].how # "hopeless" /\ (answer[q] = NotAsked => Owned(q))
<1>1. at = Len(Queries) + 1 /\ Len(Queries) \in Nat
  BY TableFacts DEF TypeOK
<1>2. \A q \in Table : \E n \in 1 .. at - 1 : q = Queries[n]
  BY <1>1, TableFacts
<1>3. \A q \in Table :
         answer[q].how # "hopeless" /\ (attempted = 0 \/ answer[q] = NotAsked => Owned(q))
  BY <1>2 DEF SoFar
<1>4. PICK q \in Table : q \notin DTPerNode
  BY QueriesAssumption
<1>5. attempted # 0 /\ attempted \in Nat
  BY <1>1, <1>3, <1>4 DEF Owned, TypeOK
<1> QED
  BY <1>3, <1>5

(* What a Collect returns when it ends, in each of the three ways it can.  *)
LEMMA OutcomeStep ==
    TypeOK /\ StageInv /\ OthersSurvive /\ UnmappedTells /\ [Next]_vars
        => OthersSurvive' /\ UnmappedTells'
<1> SUFFICES ASSUME TypeOK, StageInv, OthersSurvive, UnmappedTells, [Next]_vars, pc' = "idle"
             PROVE  OthersSurvive' /\ UnmappedTells'
  BY DEF OthersSurvive, UnmappedTells, Ended
<1>1. CASE MapFails
  <2>1. Untouched /\ UNCHANGED answer /\ result' = Error
    BY <1>1 DEF MapFails, Fail, StageInv, history
  <2>2. result'.err /\ \A q \in Table : answer'[q].how # "rows"
    BY <2>1, CameFields DEF Untouched, Error
  <2> QED
    BY <2>2 DEF OthersSurvive, UnmappedTells
<1>2. ASSUME NEW q \in Table, Fatal(q) PROVE OthersSurvive' /\ UnmappedTells'
  <2>1. PICK e \in Failures : FluxFatal(e) /\ answer' = [answer EXCEPT ![q] = Came(Reason(e), {})]
    BY <1>2 DEF Fatal
  <2>2. answer'[q].how = "hopeless"
    <3>1. answer'[q] = Came("hopeless", {})
      BY <2>1, FatalIsHopeless DEF TypeOK
    <3> QED
      BY <3>1, CameFields
  <2>3. result'.err
    BY <1>2 DEF Fatal, Fail, Error
  <2> QED
    BY <2>2, <2>3 DEF OthersSurvive, UnmappedTells
<1>3. CASE Finish
  <2>1. /\ SoFar /\ at > Len(Queries)
        /\ UNCHANGED <<indexVars, dtOwned, answer>>
        /\ result' = IF attempted > 0 /\ succeeded = 0
                     THEN Error
                     ELSE [err |-> FALSE, samples |-> out, unmapped |-> unmapped]
    BY <1>3 DEF Finish, StageInv, history
  <2>2. /\ attempted > 0
        /\ \A q \in Table : answer[q].how # "hopeless" /\ (answer[q] = NotAsked => Owned(q))
    BY <2>1, TableThrough
  <2>3. Labelled' = Labelled /\ (AllJoin' <=> AllJoin) /\ \A q : Owned(q)' <=> Owned(q)
    BY <2>1, SameFate DEF Labelled, SamplesOf, RowsOf, AllJoin, Current, Tagged
  <2>4. CASE succeeded = 0
    <3>1. result'.err /\ \A q \in Table : answer'[q].how # "rows"
      BY <2>1, <2>2, <2>4 DEF SoFar, Error
    <3> QED
      BY <3>1 DEF OthersSurvive, UnmappedTells
  <2>5. CASE succeeded # 0
    <3>1. result' = [err |-> FALSE, samples |-> out, unmapped |-> unmapped]
      BY <2>1, <2>5
    <3>2. ~result'.err /\ result'.samples = out /\ result'.unmapped = unmapped
      BY <3>1
    <3>3. succeeded > 0
      BY <2>5 DEF TypeOK
    <3>4. \E q \in Table : answer'[q].how = "rows"
      BY <2>1, <3>3 DEF SoFar
    <3>5. result'.samples = Labelled' /\ (result'.unmapped = 0 <=> AllJoin')
      BY <2>1, <2>3, <3>2 DEF SoFar
    <3>6. \A q \in Table : answer'[q].how # "hopeless" /\ (answer'[q] = NotAsked => Owned(q)')
      BY <2>1, <2>2, <2>3
    <3> QED
      BY <3>2, <3>4, <3>5, <3>6 DEF OthersSurvive, UnmappedTells
  <2> QED
    BY <2>4, <2>5
<1>4. CASE UNCHANGED vars
  <2>1. UNCHANGED <<indexVars, dtOwned, pc, result, answer>>
    BY <1>4 DEF vars, loopVars, history
  <2>2. Labelled' = Labelled /\ (AllJoin' <=> AllJoin) /\ \A q : Owned(q)' <=> Owned(q)
    BY <2>1, SameFate DEF Labelled, SamplesOf, RowsOf, AllJoin, Current, Tagged
  <2> QED
    BY <2>1, <2>2 DEF OthersSurvive, UnmappedTells, Ended
<1>5. MapFails \/ Finish \/ UNCHANGED vars \/ \E q \in Table : Fatal(q)
  BY DEF Next, Begin, MapNodes, Rebuild, SkipOwned, Refused, Empty, Answered, Issue, AtQuery
<1> QED
  BY <1>1, <1>2, <1>3, <1>4, <1>5

(* No Collect has ended at first. *)
LEMMA OutcomeInit == Init => StageInv /\ OthersSurvive /\ UnmappedTells
BY DEF Init, StageInv, OthersSurvive, UnmappedTells, Ended

(* The invariant of a Collect, for all constants. *)
LEMMA OutcomeAlways == Spec => [](OthersSurvive /\ UnmappedTells)
<1>1. Spec => []TypeOK
  BY FluxTypeCorrect
<1>2. TypeOK /\ StageInv /\ OthersSurvive /\ UnmappedTells /\ [Next]_vars
          => StageInv' /\ OthersSurvive' /\ UnmappedTells'
  BY StageStep, OutcomeStep
<1> QED
  BY <1>1, <1>2, OutcomeInit, PTL DEF Spec

(* A measurement that is refused or has vanished takes no other with it:   *)
(* a Collect fails only for want of an inventory, of an API answer or of   *)
(* any measurement, or for a refusal that cannot pass, and returns every   *)
(* row that can be labelled otherwise.                                     *)
THEOREM NoMeasurementSinksOthers == Spec => []OthersSurvive
BY OutcomeAlways, PTL

(* The counter of unmapped rows is zero exactly when every current row of  *)
(* a measurement per node found its node.                                  *)
THEOREM UnmappedIsTrue == Spec => []UnmappedTells
BY OutcomeAlways, PTL

-----------------------------------------------------------------------------
(* The histograms *)

USE DEF Condemned, BadAfterGood, Total

(* A keyed row belongs to one of the groups. *)
LEMMA KeyedGroup == \A r \in BucketRows : Keyed(r) => Group(r) \in Groups
BY RowsAssumption DEF Keyed, Group, Groups

(* The type invariant holds initially. *)
LEMMA BucketTypeInit == BucketInit => BucketTypeOK
BY InfAssumption DEF BucketInit, BucketTypeOK

(* Every step keeps the type invariant. *)
LEMMA BucketTypeStep == BucketTypeOK /\ [BucketNext]_bucketVars => BucketTypeOK'
<1> SUFFICES ASSUME BucketTypeOK, [BucketNext]_bucketVars PROVE BucketTypeOK'
  OBVIOUS
<1> USE DEF BucketTypeOK, ReadRow, bucketVars, tallies
<1>1. CASE \E r \in BucketRows : ReadUnkeyed(r)
  BY <1>1, InfAssumption DEF ReadUnkeyed
<1>2. CASE \E r \in BucketRows : ReadLost(r)
  <2>1. PICK r \in BucketRows : ReadLost(r)
    BY <1>2
  <2>2. Group(r) \in Groups
    BY <2>1, KeyedGroup DEF ReadLost
  <2>3. /\ homeless' \in Nat /\ stale' \in Nat /\ badID' \in Nat
        /\ homeless' + stale' + badID' <= homeless + stale + badID + 1
    BY <2>1 DEF ReadLost
  <2> QED
    BY <2>1, <2>2, <2>3, InfAssumption DEF ReadLost
<1>3. CASE \E r \in BucketRows : ReadGood(r)
  <2>1. PICK r \in BucketRows : ReadGood(r)
    BY <1>3
  <2>2. Group(r) \in Groups /\ r.field \in Bounds
    BY <2>1, KeyedGroup, RowsAssumption DEF ReadGood, Good, Readable
  <2>3. vals' \in [Groups -> [Bounds -> {x.value : x \in BucketRows} \cup {Absent}]]
    BY <2>1, <2>2 DEF ReadGood
  <2> QED
    BY <2>1, <2>3, InfAssumption DEF ReadGood
<1>4. CASE Assemble
  BY <1>4 DEF Assemble
<1>5. CASE UNCHANGED bucketVars
  BY <1>5
<1> QED
  BY <1>1, <1>2, <1>3, <1>4, <1>5 DEF BucketNext

(* The types of FluxBuckets's variables hold for all constants. *)
THEOREM BucketTypeCorrect == BucketSpec => []BucketTypeOK
BY BucketTypeInit, BucketTypeStep, PTL DEF BucketSpec

(* No row read, no mark left. *)
LEMMA GroupInit == BucketInit => GroupInv
BY DEF BucketInit, GroupInv, GroupRows

(* Reading a row changes the rows of its own group only. *)
LEMMA GroupRowsStep ==
    ASSUME NEW r \in BucketRows, ReadRow(r), NEW g \in Groups
    PROVE  GroupRows(g)' = GroupRows(g) \cup {x \in {r} : Keyed(x) /\ Group(x) = g}
BY DEF ReadRow, GroupRows, Keyed, Group

(* Every step of the loop keeps the groups true to the rows read. *)
LEMMA GroupStep == BucketTypeOK /\ GroupInv /\ [BucketNext]_bucketVars => GroupInv'
<1> SUFFICES ASSUME BucketTypeOK, GroupInv, [BucketNext]_bucketVars PROVE GroupInv'
  OBVIOUS
<1>1. CASE \E r \in BucketRows : ReadUnkeyed(r)
  <2>1. PICK r \in BucketRows : ReadUnkeyed(r)
    BY <1>1
  <2>2. \A g \in Groups : GroupRows(g)' = GroupRows(g)
    BY <2>1, GroupRowsStep DEF ReadUnkeyed
  <2> QED
    BY <2>1, <2>2 DEF ReadUnkeyed, GroupInv, Good, Readable, Mapped, Named
<1>2. CASE \E r \in BucketRows : ReadLost(r)
  <2>1. PICK r \in BucketRows : ReadLost(r)
    BY <1>2
  <2>2. \A g \in Groups : GroupRows(g)' = GroupRows(g) \cup {x \in {r} : Group(x) = g}
    BY <2>1, GroupRowsStep DEF ReadLost
  <2>3. ~Good(r) /\ bad' = bad \cup {Group(r)} /\ vals' = vals
    BY <2>1 DEF ReadLost
  <2> SUFFICES ASSUME NEW g \in Groups
               PROVE  /\ g \in bad' <=> \E x \in GroupRows(g)' : ~Good(x)
                      /\ \A f \in Bounds :
                           IF \E x \in GroupRows(g)' : Good(x) /\ x.field = f
                           THEN \E x \in GroupRows(g)' :
                                   Good(x) /\ x.field = f /\ vals[g][f] = x.value
                           ELSE vals[g][f] = Absent
    BY <2>3 DEF GroupInv, Good, Readable, Mapped, Named
  <2>4. g \in bad' <=> \E x \in GroupRows(g)' : ~Good(x)
    BY <2>2, <2>3 DEF GroupInv
  <2>5. \A x : x \in GroupRows(g)' /\ Good(x) <=> x \in GroupRows(g) /\ Good(x)
    BY <2>2, <2>3
  <2> QED
    BY <2>4, <2>5 DEF GroupInv
<1>3. CASE \E r \in BucketRows : ReadGood(r)
  <2>1. PICK r \in BucketRows : ReadGood(r)
    BY <1>3
  <2>2. \A g \in Groups : GroupRows(g)' = GroupRows(g) \cup {x \in {r} : Group(x) = g}
    BY <2>1, GroupRowsStep DEF ReadGood
  <2>3. Good(r) /\ bad' = bad /\ vals' = [vals EXCEPT ![Group(r)][r.field] = r.value]
    BY <2>1 DEF ReadGood
  <2>4. Group(r) \in Groups /\ r.field \in Bounds
    BY <2>1, KeyedGroup, RowsAssumption DEF ReadGood, Good, Readable
  <2> SUFFICES ASSUME NEW g \in Groups
               PROVE  /\ g \in bad <=> \E x \in GroupRows(g)' : ~Good(x)
                      /\ \A f \in Bounds :
                           IF \E x \in GroupRows(g)' : Good(x) /\ x.field = f
                           THEN \E x \in GroupRows(g)' :
                                   Good(x) /\ x.field = f /\ vals'[g][f] = x.value
                           ELSE vals'[g][f] = Absent
    BY <2>3 DEF GroupInv, Good, Readable, Mapped, Named
  <2>5. g \in bad <=> \E x \in GroupRows(g)' : ~Good(x)
    BY <2>2, <2>3 DEF GroupInv
  <2>6. ASSUME NEW f \in Bounds, g = Group(r), f = r.field
        PROVE  vals'[g][f] = r.value /\ r \in GroupRows(g)'
    BY <2>2, <2>3, <2>4, <2>6 DEF BucketTypeOK
  <2>7. ASSUME NEW f \in Bounds, g # Group(r) \/ f # r.field
        PROVE  /\ vals'[g][f] = vals[g][f]
               /\ \A x : x \in GroupRows(g)' /\ x.field = f <=> x \in GroupRows(g) /\ x.field = f
    BY <2>2, <2>3, <2>4, <2>7 DEF BucketTypeOK
  <2>8. ASSUME NEW f \in Bounds
        PROVE  IF \E x \in GroupRows(g)' : Good(x) /\ x.field = f
               THEN \E x \in GroupRows(g)' : Good(x) /\ x.field = f /\ vals'[g][f] = x.value
               ELSE vals'[g][f] = Absent
    <3>1. CASE g = Group(r) /\ f = r.field
      BY <3>1, <2>3, <2>6
    <3>2. CASE g # Group(r) \/ f # r.field
      BY <3>2, <2>7 DEF GroupInv
    <3> QED
      BY <3>1, <3>2
  <2> QED
    BY <2>5, <2>8
<1>4. CASE Assemble \/ UNCHANGED bucketVars
  BY <1>4 DEF Assemble, bucketVars, tallies, GroupInv, GroupRows, Keyed, Group, Good, Readable,
              Mapped, Named
<1> QED
  BY <1>1, <1>2, <1>3, <1>4 DEF BucketNext

(* The groups the code takes for whole are the complete ones. *)
LEMMA WholeIsComplete ==
    ASSUME BucketTypeOK, GroupInv
    PROVE  /\ UnionBounds = AllBounds
           /\ \A g \in Groups : Whole(g) <=> Complete(g)
<1>1. \A g \in Groups : Have(g) = {f \in Bounds : \E r \in GroupRows(g) : Good(r) /\ r.field = f}
  BY DEF Have, GroupInv, Good, Readable
<1>2. \A r \in seen : Keyed(r) => Group(r) \in Groups /\ r \in GroupRows(Group(r))
  BY KeyedGroup DEF BucketTypeOK, GroupRows
<1>3. \A r \in seen : Good(r) => r.field \in Bounds
  BY RowsAssumption DEF BucketTypeOK, Good, Readable
<1>4. UnionBounds = AllBounds
  BY <1>1, <1>2, <1>3 DEF UnionBounds, AllBounds, GroupRows
<1>5. ASSUME NEW g \in Groups, \A r \in GroupRows(g) : Good(r)
      PROVE  Have(g) = {r.field : r \in GroupRows(g)}
  BY <1>1, <1>3, <1>5 DEF GroupRows
<1>6. ASSUME NEW g \in Groups PROVE Whole(g) <=> Complete(g)
  <2>1. g \in bad <=> \E r \in GroupRows(g) : ~Good(r)
    BY DEF GroupInv
  <2> QED
    BY <1>4, <1>5, <2>1 DEF Whole, Complete
<1> QED
  BY <1>4, <1>6

(* What the definition of OrderIndependent says is published.              *)
OfRow(r) ==
    {Sample("bucket", Group(r), r.field, r.value)} \cup
    (IF r.field = Inf THEN {Sample("count", Group(r), Absent, r.value)} ELSE {})

OfRows == UNION {OfRow(r) : r \in {x \in seen : Keyed(x) /\ Complete(Group(x))}}

(* Rows that agree with one another leave one value per group and bound,   *)
(* so what the groups publish is what the rows say.                        *)
LEMMA RowsDecide ==
    ASSUME BucketTypeOK, GroupInv, Unambiguous
    PROVE  UNION {Histogram(g) : g \in {x \in Groups : Whole(x)}} = OfRows
<1>1. ASSUME NEW r \in seen, Keyed(r), Complete(Group(r))
      PROVE  /\ Group(r) \in Groups /\ Whole(Group(r)) /\ r.field \in Have(Group(r))
             /\ vals[Group(r)][r.field] = r.value
  <2>1. r \in BucketRows /\ r \in GroupRows(Group(r)) /\ Group(r) \in Groups
    BY <1>1, KeyedGroup DEF BucketTypeOK, GroupRows
  <2>2. Good(r) /\ r.field \in Bounds
    BY <1>1, <2>1, RowsAssumption DEF Complete, Good, Readable
  <2>3. PICK x \in GroupRows(Group(r)) : Good(x) /\ x.field = r.field
                                     /\ vals[Group(r)][r.field] = x.value
    BY <2>1, <2>2 DEF GroupInv
  <2>4. x.value = r.value /\ x.value # Absent
    BY <1>1, <2>3 DEF Unambiguous, GroupRows, Good, Readable
  <2>5. QED
    BY <1>1, <2>1, <2>2, <2>3, <2>4, WholeIsComplete DEF Have
<1>2. ASSUME NEW g \in Groups, Whole(g), NEW f \in Have(g)
      PROVE  \E r \in seen : /\ Keyed(r) /\ Complete(Group(r))
                            /\ Group(r) = g /\ r.field = f /\ r.value = vals[g][f]
  <2>1. f \in Bounds /\ vals[g][f] # Absent /\ Complete(g)
    BY <1>2, WholeIsComplete DEF Have
  <2>2. PICK x \in GroupRows(g) : Good(x) /\ x.field = f /\ vals[g][f] = x.value
    BY <2>1 DEF GroupInv
  <2>3. QED
    BY <2>1, <2>2 DEF GroupRows
<1>3. ASSUME NEW g \in Groups, Whole(g), NEW s \in Histogram(g) PROVE s \in OfRows
  <2>1. Inf \in Have(g)
    BY <1>3 DEF Whole
  <2>2. PICK f \in Have(g) : \/ s = Sample("bucket", g, f, vals[g][f])
                             \/ f = Inf /\ s = Sample("count", g, Absent, vals[g][f])
    BY <1>3, <2>1 DEF Histogram
  <2>3. PICK r \in seen : /\ Keyed(r) /\ Complete(Group(r))
                          /\ Group(r) = g /\ r.field = f /\ r.value = vals[g][f]
    BY <1>2, <1>3
  <2>4. s \in OfRow(r)
    BY <2>2, <2>3 DEF OfRow
  <2>5. QED
    BY <2>3, <2>4 DEF OfRows
<1>4. ASSUME NEW r \in seen, Keyed(r), Complete(Group(r)), NEW s \in OfRow(r)
      PROVE  s \in Histogram(Group(r))
  <2>1. r.field \in Have(Group(r)) /\ vals[Group(r)][r.field] = r.value
    BY <1>1, <1>4
  <2>2. QED
    BY <1>4, <2>1 DEF OfRow, Histogram
<1>5. QED
  BY <1>1, <1>3, <1>4 DEF OfRows

ResultInv == AllOrNothing /\ CountIsInf /\ OrderIndependent

(* The assembly publishes complete groups, each of them in full. *)
LEMMA AssembleResult ==
    ASSUME BucketTypeOK, GroupInv, Assemble
    PROVE  ResultInv'
<1>1. \A g \in Groups : Complete(g)' <=> Complete(g)
  BY DEF Assemble, Complete, GroupRows, AllBounds, Keyed, Group, Good, Readable, Mapped, Named
<1>2. AllBounds' = AllBounds /\ \A g \in Groups : GroupRows(g)' = GroupRows(g)
  BY DEF Assemble, GroupRows, AllBounds, Keyed, Group, Good, Readable, Mapped, Named
<1>3. histograms' = UNION {Histogram(g) : g \in {x \in Groups : Whole(x)}}
  BY DEF Assemble
<1>4. ASSUME NEW s \in histograms'
      PROVE  \E g \in Groups :
                /\ Whole(g)
                /\ \/ \E f \in Have(g) : s = Sample("bucket", g, f, vals[g][f])
                   \/ s = Sample("count", g, Absent, vals[g][Inf])
  BY <1>3, <1>4 DEF Histogram
<1>5. ASSUME NEW g \in Groups, Whole(g), NEW f \in Have(g)
      PROVE  Sample("bucket", g, f, vals[g][f]) \in histograms'
  BY <1>3, <1>5 DEF Histogram
<1>6. AllOrNothing'
  <2>1. ASSUME NEW s \in histograms'
        PROVE  \E g \in Groups : Complete(g) /\ s.node = NodeOf[g[1]] /\ s.op = OpOf[g[2]]
    BY <1>4, WholeIsComplete DEF Sample
  <2>2. ASSUME NEW g \in Groups, Complete(g), NEW f \in AllBounds
        PROVE  \E r \in GroupRows(g) : r.field = f /\ Sample("bucket", g, f, r.value) \in histograms'
    <3>1. Whole(g) /\ f \in Have(g) /\ f \in Bounds
      BY <2>2, WholeIsComplete DEF Whole, Have
    <3>2. PICK r \in GroupRows(g) : r.field = f /\ vals[g][f] = r.value
      BY <3>1 DEF Have, GroupInv
    <3> QED
      BY <3>1, <3>2, <1>5
  <2> QED
    BY <1>1, <1>2, <2>1, <2>2 DEF AllOrNothing, Sample
<1>7. CountIsInf'
  <2> SUFFICES ASSUME NEW s \in histograms', s.series = "count"
               PROVE  [series |-> "bucket", node |-> s.node, op |-> s.op, le |-> Inf, value |-> s.value] \in histograms'
    BY DEF CountIsInf
  <2>1. PICK g \in Groups : Whole(g) /\ s = Sample("count", g, Absent, vals[g][Inf])
    BY <1>4 DEF Sample
  <2>2. [series |-> "bucket", node |-> s.node, op |-> s.op, le |-> Inf, value |-> s.value]
            = Sample("bucket", g, Inf, vals[g][Inf])
    BY <2>1 DEF Sample
  <2> QED
    BY <2>1, <2>2, <1>5 DEF Whole
<1>8. OrderIndependent'
  <2>1. OfRows' = OfRows
    BY <1>1
       DEF Assemble, OfRows, OfRow, Complete, GroupRows, AllBounds, Keyed, Group, Good,
           Readable, Mapped, Named, Sample
  <2>2. Unambiguous' => Unambiguous
    BY DEF Assemble, Unambiguous, Keyed, Group
  <2>3. Unambiguous' => histograms' = OfRows'
    BY <1>3, <2>1, <2>2, RowsDecide
  <2> QED
    BY <2>3 DEF OrderIndependent, OfRows, OfRow
<1> QED
  BY <1>6, <1>7, <1>8 DEF ResultInv

(* The result is there once the assembly ran, and nothing touches it. *)
LEMMA ResultStep == BucketTypeOK /\ GroupInv /\ ResultInv /\ [BucketNext]_bucketVars => ResultInv'
<1> SUFFICES ASSUME BucketTypeOK, GroupInv, ResultInv, [BucketNext]_bucketVars PROVE ResultInv'
  OBVIOUS
<1>1. CASE Assemble
  BY <1>1, AssembleResult
<1>2. CASE \E r \in BucketRows : ReadUnkeyed(r) \/ ReadLost(r) \/ ReadGood(r)
  <2>1. phase' = "read"
    BY <1>2 DEF ReadUnkeyed, ReadLost, ReadGood, ReadRow
  <2> QED
    BY <2>1 DEF ResultInv, AllOrNothing, CountIsInf, OrderIndependent
<1>3. CASE UNCHANGED bucketVars
  BY <1>3 DEF bucketVars, ResultInv, AllOrNothing, CountIsInf, OrderIndependent, Unambiguous,
              Complete, GroupRows, AllBounds, Keyed, Group, Good, Readable, Mapped, Named, Sample
<1> QED
  BY <1>1, <1>2, <1>3 DEF BucketNext

(* The three invariants together, always. *)
LEMMA ResultAlways == BucketSpec => [](GroupInv /\ ResultInv)
<1>1. BucketInit => ResultInv
  BY DEF BucketInit, ResultInv, AllOrNothing, CountIsInf, OrderIndependent
<1> QED
  BY <1>1, BucketTypeInit, BucketTypeStep, GroupInit, GroupStep, ResultStep, PTL DEF BucketSpec

(* No response makes the collector publish part of a histogram. *)
THEOREM HistogramsAreWhole == BucketSpec => []AllOrNothing
BY ResultAlways, PTL DEF ResultInv

(* Every published total is the +Inf bucket published with it. *)
THEOREM TotalIsInfBucket == BucketSpec => []CountIsInf
BY ResultAlways, PTL DEF ResultInv

(* Rows that agree with one another give one result, in whatever order the *)
(* store returns them.                                                     *)
THEOREM OrderDoesNotMatter == BucketSpec => []OrderIndependent
BY ResultAlways, PTL DEF ResultInv

=============================================================================
