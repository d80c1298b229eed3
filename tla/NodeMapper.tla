----------------------------- MODULE NodeMapper -----------------------------
(***************************************************************************)
(* newNodeMapper and lookup (internal/ecs/flux.go): the index from every   *)
(* identifier the node inventory publishes to the label the other          *)
(* collectors use for that node, built one key at a time, and the join of  *)
(* a row's host tag through it.                                            *)
(***************************************************************************)
EXTENDS Integers, Sequences

CONSTANTS
    Keys,         \* nodenames, addresses and host tags, as written
    Lower,        \* Lower[k]: k in lower case
    Short,        \* Short[k]: k up to its first dot, k itself if an address
    Inventories   \* node lists: sequences of [label, keys]

Blank == ""

(* An inventory: the label of a node is one of the keys it is indexed      *)
(* under (cmp.Or over three of the six fields), and a name comes with its  *)
(* short form.                                                             *)
ASSUME NamesAssumption ==
    /\ Blank \notin Keys
    /\ Lower \in [Keys -> Keys] /\ Short \in [Keys -> Keys]
    /\ \A k \in Keys : /\ Lower[Lower[k]] = Lower[k] /\ Short[Short[k]] = Short[k]
                       /\ Lower[Short[k]] = Short[Lower[k]]
    /\ Inventories \subseteq Seq([label : Keys, keys : Seq(Keys)])
    /\ \A i \in Inventories : \A m \in DOMAIN i :
          /\ i[m].label \in {i[m].keys[g] : g \in DOMAIN i[m].keys}
          /\ \A g \in DOMAIN i[m].keys : \E h \in DOMAIN i[m].keys :
                i[m].keys[h] = Short[i[m].keys[g]]

VARIABLES
    inv,      \* inv.Node, the nodes that have a label
    node,     \* index of the node being read
    field,    \* index of its key being read
    byKey,    \* m.byKey
    mapped    \* newNodeMapper has returned

indexVars == <<inv, node, field, byKey, mapped>>

NoKeys == [k \in {} |-> Blank]

IndexInit ==
    /\ inv \in Inventories
    /\ node = 1 /\ field = 1
    /\ byKey = NoKeys
    /\ mapped = FALSE

Label == inv[node].label
Key == Lower[inv[node].keys[field]]
Set(k, l) == [x \in DOMAIN byKey \cup {k} |-> IF x = k THEN l ELSE byKey[x]]

AtKey == ~mapped /\ node <= Len(inv) /\ field <= Len(inv[node].keys)

(* Fault: a blank key is up for the next claimant. *)
SeenUnlessBlank == Key \in DOMAIN byKey /\ byKey[Key] \notin {Label, Blank}

Seen == Key \in DOMAIN byKey /\ byKey[Key] # Label

(* Fault: the node indexed last gets the key. *)
LastWins == Label

Contested == Blank

(* The key has another label, or is blank already: it identifies no node.  *)
Contest ==
    /\ AtKey
    /\ Seen
    /\ byKey' = Set(Key, Contested)
    /\ field' = field + 1
    /\ UNCHANGED <<inv, node, mapped>>

Claim ==
    /\ AtKey
    /\ ~Seen
    /\ byKey' = Set(Key, Label)
    /\ field' = field + 1
    /\ UNCHANGED <<inv, node, mapped>>

NextNode ==
    /\ ~mapped
    /\ node <= Len(inv)
    /\ field > Len(inv[node].keys)
    /\ node' = node + 1
    /\ field' = 1
    /\ UNCHANGED <<inv, byKey, mapped>>

Return ==
    /\ ~mapped
    /\ node > Len(inv)
    /\ mapped' = TRUE
    /\ UNCHANGED <<inv, node, field, byKey>>

IndexNext == Contest \/ Claim \/ NextNode \/ Return

IndexSpec == IndexInit /\ [][IndexNext]_indexVars

(* lookup: the tag whole, then truncated; Blank where it names no node.    *)
Entry(k) == IF k \in DOMAIN byKey THEN byKey[k] ELSE Blank
Lookup(h) ==
    LET whole == Entry(Lower[h])
    IN  IF whole # Blank THEN whole ELSE Entry(Short[Lower[h]])

-----------------------------------------------------------------------------
(* Properties *)

(* Types of the variables. *)
IndexTypeOK ==
    /\ inv \in Inventories
    /\ node \in 1 .. Len(inv) + 1
    /\ field \in Nat \ {0} /\ (node <= Len(inv) => field <= Len(inv[node].keys) + 1)
    /\ DOMAIN byKey \subseteq Keys
    /\ \A k \in DOMAIN byKey : byKey[k] \in Keys \cup {Blank}
    /\ mapped \in BOOLEAN

(* What has been indexed so far, and who claims a key. *)
Read(m, g) == m < node \/ (m = node /\ g < field)
Claimants(k) ==
    {inv[m].label : m \in {x \in DOMAIN inv :
        \E g \in DOMAIN inv[x].keys : Read(x, g) /\ Lower[inv[x].keys[g]] = k}}

(* flux.go:112-115, "A key two different nodes both claim cannot identify  *)
(* either of them": at every step the index holds exactly the claimed      *)
(* keys, each with its one claimant or blank; in particular neither the    *)
(* order of the inventory nor a third claimant can bring a node back.      *)
IndexInv ==
    /\ DOMAIN byKey = {k \in Keys : Claimants(k) # {}}
    /\ \A k \in DOMAIN byKey :
          \/ byKey[k] # Blank /\ Claimants(k) = {byKey[k]}
          \/ byKey[k] = Blank /\ \E a, b \in Claimants(k) : a # b

(* An index that was returned has read every key of every node. *)
ReadAll == mapped => node > Len(inv)

(* flux.go:88-89, a series that does not join "is worse than an absent     *)
(* one" and :112-115, a row is dropped rather than "silently attributed":  *)
(* a host tag two nodes publish joins neither of them, one that joins      *)
(* joins a node that publishes it, whole or truncated, and a nodename that *)
(* nobody else publishes joins its node, whatever the case of the tag.     *)
JoinIsSound ==
    mapped => \A h \in Keys :
        /\ (\E a, b \in Claimants(Lower[h]) : a # b) => Lookup(h) = Blank
        /\ Lookup(h) # Blank =>
              Lookup(h) \in Claimants(Lower[h]) \cup Claimants(Short[Lower[h]])
        /\ \A m \in DOMAIN inv :
              (Lower[h] = Lower[inv[m].label] /\ Claimants(Lower[h]) = {inv[m].label})
                  => Lookup(h) = inv[m].label

=============================================================================
