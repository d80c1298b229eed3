---------------------------- MODULE FluxCollect ----------------------------
(***************************************************************************)
(* Flux.Collect over many cycles, and samples() for the measurements read  *)
(* row by row (internal/ecs/flux.go): the node inventory is fetched and    *)
(* indexed (NodeMapper), then comes one request per measurement, which may *)
(* be refused, come back empty or answer with rows; and the silenceSet     *)
(* that outlives the cycles.                                               *)
(*                                                                         *)
(* A row is reduced to what decides its fate: whether its point is recent, *)
(* whether its field and value can be read, its host tag (Blank when it    *)
(* has none), and whether the tags that become labels are all there and    *)
(* its field is one the query lists.                                       *)
(***************************************************************************)
EXTENDS NodeMapper, ApiError, FiniteSets

CONSTANTS
    Queries,      \* the query table, in order
    PerNode,      \* queries whose rows must name a node
    DTPerNode,    \* queries the DT collector owns where it runs
    Rows,         \* rows a query may be answered with
    Failures,     \* errors it may come to: whether the API answered, and the body
    Finds,        \* bound: Finds[c] are the inventories the c-th Collect may read
    MaxReloads    \* bound: collectors built after the first

Table == {Queries[n] : n \in 1 .. Len(Queries)}
MaxCycles == Len(Finds)

(* Each measurement is in the table once, and one of them is Flux's alone: *)
(* a Collect always has one to ask for.                                    *)
ASSUME QueriesAssumption ==
    /\ Queries \in Seq(Table)
    /\ \A m, n \in 1 .. Len(Queries) : Queries[m] = Queries[n] => m = n
    /\ DTPerNode \subseteq PerNode /\ PerNode \subseteq Table
    /\ Table \ DTPerNode # {}
    /\ Finds \in Seq(SUBSET Inventories)
    /\ <<>> \in Inventories

(* A response has finitely many rows.  The error of a request is reduced   *)
(* to a body that says at most once whether it may be retried.             *)
ASSUME AnswersAssumption ==
    /\ IsFiniteSet(Rows)
    /\ \A r \in Rows :
          /\ r.host \in Keys \cup {Blank}
          /\ r.recent \in BOOLEAN /\ r.readable \in BOOLEAN /\ r.labelled \in BOOLEAN
    /\ \A e \in Failures :
          e.api \in BOOLEAN /\ e.body.retryable \in {{}, {TRUE}, {FALSE}}
    /\ MaxReloads \in Nat

VARIABLES
    dtOwned,    \* f.DTOwnedByDT: the DT collector runs
    pc,         \* "new" or "idle" between Collects, "map" or "query" in one
    at,         \* index of the next query
    cycles,     \* cycles begun
    attempted,  \* queries issued
    succeeded,  \* queries answered
    out,        \* <<query, row, node>>: the samples collected
    unmapped,   \* rows whose host names no node
    silent,     \* f.silent: queries already reported empty
    result,     \* what the last Collect returned
    reloads,
    answer,     \* history: what each query came to in this cycle
    said,       \* history: whether a query's last answer had rows
    lines,      \* history: warnings written about each query
    spells      \* history: times each query fell silent

loopVars == <<pc, at, attempted, succeeded, out, unmapped>>
history == <<answer, said, lines, spells>>
vars == <<indexVars, dtOwned, loopVars, cycles, silent, result, reloads, history>>

Came(how, rows) == [how |-> how, rows |-> rows]
NotAsked == Came("not asked", {})
None == [err |-> FALSE, samples |-> {}, unmapped |-> 0]
Error == [err |-> TRUE, samples |-> {}, unmapped |-> 0]

Init ==
    /\ IndexInit /\ inv = <<>>
    /\ dtOwned \in BOOLEAN
    /\ pc = "new"
    /\ at = 1
    /\ cycles = 0
    /\ attempted = 0 /\ succeeded = 0
    /\ out = {}
    /\ unmapped = 0
    /\ silent = {}
    /\ result = None
    /\ reloads = 0
    /\ answer = [q \in Table |-> NotAsked]
    /\ said = [q \in Table |-> "rows"]
    /\ lines = [q \in Table |-> 0]
    /\ spells = [q \in Table |-> 0]

-----------------------------------------------------------------------------

Between == pc \in {"new", "idle"}

Begin ==
    /\ Between
    /\ cycles < MaxCycles
    /\ cycles' = cycles + 1
    /\ pc' = "map"
    /\ at' = 1
    /\ attempted' = 0 /\ succeeded' = 0
    /\ out' = {}
    /\ unmapped' = 0
    /\ result' = None
    /\ answer' = [q \in Table |-> NotAsked]
    /\ inv' \in Finds[cycles + 1]
    /\ node' = 1 /\ field' = 1 /\ byKey' = NoKeys /\ mapped' = FALSE
    /\ UNCHANGED <<dtOwned, silent, reloads, said, lines, spells>>

Fail ==
    /\ pc' = "idle"
    /\ result' = Error

(* The inventory arrived and is indexed.  *)
MapNodes ==
    /\ pc = "map"
    /\ IndexNext
    /\ pc' = IF mapped' THEN "query" ELSE "map"
    /\ UNCHANGED <<dtOwned, at, cycles, attempted, succeeded, out, unmapped, silent, result,
                   reloads, history>>

(* The inventory could not be read. *)
MapFails ==
    /\ pc = "map"
    /\ byKey = NoKeys
    /\ Fail
    /\ UNCHANGED <<indexVars, dtOwned, at, cycles, attempted, succeeded, out, unmapped, silent,
                   reloads, history>>

Owned(q) == q \in DTPerNode /\ dtOwned

AtQuery(q) == pc = "query" /\ at <= Len(Queries) /\ q = Queries[at]

(* Fault: break, not continue. *)
LeavesTable == Len(Queries) + 1

AfterSkip == at + 1

SkipOwned(q) ==
    /\ AtQuery(q)
    /\ Owned(q)
    /\ at' = AfterSkip
    /\ UNCHANGED <<indexVars, dtOwned, pc, cycles, attempted, succeeded, out, unmapped, silent,
                   result, reloads, history>>

Issue(q) ==
    /\ AtQuery(q)
    /\ ~Owned(q)
    /\ at' = at + 1
    /\ attempted' = attempted + 1
    /\ UNCHANGED <<indexVars, dtOwned, cycles, reloads>>

(* No API error, or one that ECS calls permanent. *)
FluxFatal(e) == e.api => Permanent(ParseAPIError(e.body))

(* History: why it failed, as the words of flux.go:345-350 have it.        *)
Reason(e) ==
    IF \/ ~e.api
       \/ e.body.code = CodeInsufficientPermissions
       \/ e.body.retryable = {FALSE}
    THEN "hopeless" ELSE "refused"

Fatal(q) ==
    /\ Issue(q)
    /\ \E e \in Failures :
          /\ FluxFatal(e)
          /\ answer' = [answer EXCEPT ![q] = Came(Reason(e), {})]
    /\ Fail
    /\ UNCHANGED <<succeeded, out, unmapped, silent, said, lines, spells>>

(* Any other API error is this query's alone. *)
Refused(q) ==
    /\ Issue(q)
    /\ \E e \in Failures :
          /\ ~FluxFatal(e)
          /\ answer' = [answer EXCEPT ![q] = Came(Reason(e), {})]
    /\ UNCHANGED <<pc, succeeded, out, unmapped, silent, result, said, lines, spells>>

(* firstTime: the warning is for a query not yet known to be silent. *)
Empty(q) ==
    /\ Issue(q)
    /\ succeeded' = succeeded + 1
    /\ silent' = silent \cup {q}
    /\ lines' = [lines EXCEPT ![q] = IF q \in silent THEN @ ELSE @ + 1]
    /\ answer' = [answer EXCEPT ![q] = Came("rows", {})]
    /\ said' = [said EXCEPT ![q] = "nothing"]
    /\ spells' = [spells EXCEPT ![q] = IF said[q] = "rows" THEN @ + 1 ELSE @]
    /\ UNCHANGED <<pc, out, unmapped, result>>

(* samples(): a row is read, then dated to a node, then labelled. *)
Current(r) == r.recent /\ r.readable
Tagged(r) == r.host # Blank
Joins(r) == Tagged(r) /\ Lookup(r.host) # Blank

(* Fault: rows are counted before they are dated. *)
UnmappedOfAnyAge(q, r) == q \in PerNode /\ Tagged(r) /\ ~Joins(r)

Unmapped(q, r) == Current(r) /\ q \in PerNode /\ Tagged(r) /\ ~Joins(r)
Lands(q, r) ==
    /\ Current(r)
    /\ q \in PerNode => Joins(r)
    /\ r.labelled
SampleOf(q, r) == <<q, r, IF q \in PerNode THEN Lookup(r.host) ELSE Blank>>

(* Fault: the silence is remembered. *)
Remembers(q) == silent

SilentAfterRows(q) == silent \ {q}

Answered(q) ==
    /\ Issue(q)
    /\ succeeded' = succeeded + 1
    /\ silent' = SilentAfterRows(q)
    /\ \E rows \in (SUBSET Rows) \ {{}} :
          /\ answer' = [answer EXCEPT ![q] = Came("rows", rows)]
          /\ out' = out \cup {SampleOf(q, r) : r \in {x \in rows : Lands(q, x)}}
          /\ unmapped' = unmapped + Cardinality({x \in rows : Unmapped(q, x)})
    /\ said' = [said EXCEPT ![q] = "rows"]
    /\ UNCHANGED <<pc, result, lines, spells>>

(* The table is through: an error if nothing succeeded, else the samples   *)
(* and the unmapped counter, zero included.                                *)
Finish ==
    /\ pc = "query"
    /\ at > Len(Queries)
    /\ pc' = "idle"
    /\ result' = IF attempted > 0 /\ succeeded = 0
                 THEN Error
                 ELSE [err |-> FALSE, samples |-> out, unmapped |-> unmapped]
    /\ UNCHANGED <<indexVars, dtOwned, at, cycles, attempted, succeeded, out, unmapped, silent,
                   reloads, history>>

(* A reload builds a Flux with a silenceSet of its own, and may turn the   *)
(* DT collector on or off.                                                 *)
Rebuild ==
    /\ Between
    /\ pc' = "new"
    /\ reloads < MaxReloads
    /\ reloads' = reloads + 1
    /\ silent' = {}
    /\ dtOwned' \in BOOLEAN
    /\ said' = [q \in Table |-> "rows"]
    /\ result' = None
    /\ UNCHANGED <<indexVars, at, attempted, succeeded, out, unmapped, cycles, answer, lines,
                   spells>>

Next ==
    \/ Begin \/ MapNodes \/ MapFails \/ Finish \/ Rebuild
    \/ \E q \in Table :
          SkipOwned(q) \/ Fatal(q) \/ Refused(q) \/ Empty(q) \/ Answered(q)

Spec == Init /\ [][Next]_vars

-----------------------------------------------------------------------------
(* Properties *)

Samples == Table \X Rows \X (Keys \cup {Blank})
Results == [err : BOOLEAN, samples : SUBSET Samples, unmapped : Nat]
Answers == [how : {"not asked", "hopeless", "refused", "rows"}, rows : SUBSET Rows]

(* Types of the variables. *)
TypeOK ==
    /\ IndexTypeOK
    /\ dtOwned \in BOOLEAN
    /\ pc \in {"new", "idle", "map", "query"}
    /\ pc = "query" => mapped
    /\ at \in 1 .. Len(Queries) + 1
    /\ cycles \in 0 .. MaxCycles /\ reloads \in 0 .. MaxReloads
    /\ attempted \in 0 .. at - 1 /\ succeeded \in 0 .. attempted
    /\ out \subseteq Samples
    /\ unmapped \in Nat
    /\ silent \subseteq Table
    /\ result \in Results
    /\ answer \in [Table -> Answers]
    /\ said \in [Table -> {"rows", "nothing"}]
    /\ lines \in [Table -> Nat] /\ spells \in [Table -> Nat]

RowsOf(q) == answer[q].rows
Ended == pc = "idle"

(* The samples of the rows that can be labelled, and whether every current *)
(* row that names a node found it.                                         *)
SamplesOf(q) == {SampleOf(q, r) : r \in {x \in RowsOf(q) : Lands(q, x)}}
Labelled == UNION {SamplesOf(q) : q \in Table}
AllJoin ==
    \A q \in PerNode \cap Table : \A r \in RowsOf(q) : Current(r) /\ Tagged(r) => Joins(r)

(* flux.go:365-367: a renamed or refused measurement "must not take the    *)
(* other seven down with it": a Collect that returns no error returns each *)
(* row that can be labelled of each measurement that answered, and it      *)
(* returns an error exactly when there was no inventory, no API answer, a  *)
(* refusal that cannot pass, or nothing but refusals.                      *)
OthersSurvive ==
    Ended =>
        /\ ~result.err => result.samples = Labelled
        /\ ~result.err <=>
              /\ \E q \in Table : answer[q].how = "rows"
              /\ \A q \in Table : answer[q].how # "hopeless" /\ (answer[q] = NotAsked => Owned(q))

(* flux.go:38-40, "a measurement that starts answering again is forgotten, *)
(* so a later disappearance warns afresh": one warning for each time a     *)
(* measurement falls silent, however long the silence lasts.               *)
OneWarningPerSilence == \A q \in Table : lines[q] = spells[q]

(* flux.go:433-434: the counter of a Collect that succeeded is zero        *)
(* exactly when every current row found its node.                          *)
UnmappedTells == (Ended /\ ~result.err) => (result.unmapped = 0 <=> AllJoin)

(* What makes these inductive.  Before the first query nothing is counted; *)
(* at a query the counts and the samples are those of the answers so far,  *)
(* and the rest of the table has none.                                     *)
Untouched ==
    /\ ~mapped
    /\ at = 1 /\ attempted = 0 /\ succeeded = 0
    /\ out = {} /\ unmapped = 0
    /\ \A q \in Table : answer[q] = NotAsked

SoFar ==
    /\ mapped
    /\ \A n \in 1 .. at - 1 :
          /\ answer[Queries[n]].how # "hopeless"
          /\ attempted = 0 \/ answer[Queries[n]] = NotAsked => Owned(Queries[n])
    /\ \A n \in at .. Len(Queries) : answer[Queries[n]] = NotAsked
    /\ succeeded > 0 <=> \E q \in Table : answer[q].how = "rows"
    /\ out = Labelled
    /\ unmapped = 0 <=> AllJoin

StageInv ==
    /\ pc = "map" => Untouched
    /\ pc = "query" => SoFar

(* A measurement is in the silenceSet when its last answer had no rows. *)
SilenceInv ==
    /\ OneWarningPerSilence
    /\ \A q \in Table : said[q] = "nothing" <=> q \in silent

=============================================================================
