------------------------------ MODULE EntityGraph -------------------------------
(***************************************************************************)
(* Neo4jGraphStore (rag/graph/neo4j_store.py): the entity nodes of one     *)
(* normalized name in one tenant, at most one for each document, and the   *)
(* bridges (CROSS_KB_RELATED) between knowledge bases that share the name. *)
(* Names are independent of each other: every query is about one key.      *)
(* Each session.run is a transaction of its own.                           *)
(***************************************************************************)
EXTENDS Naturals, FiniteSets, FiniteSetsExt

CONSTANTS Docs,    \* <<knowledge base, number>>: numbers order the ids within a knowledge base
          Writers, \* bound: each makes one call of the store, in this order
          None

GraphAssumption ==
    /\ Writers \subseteq Nat /\ None \notin Writers
    /\ \A d \in Docs : d[2] \in Nat

VARIABLES
    node,    \* the node of a document: [det, sem, degree], or None
    bridges, \* pairs of documents
    at, call,
    old,     \* whether the name is one of the old keys
    plan,    \* the bridges a backfill has computed
    lone,    \* the call that no other has been under way with so far
    broken   \* since the last lone backfill a call has failed, or was disturbed

vars == <<node, bridges, at, call, old, plan, lone, broken>>
calls == <<call, lone, broken>>

KbOf(d) == d[1]
Kinds == {"chunks", "semantic", "delete"}
\* whether the chunks mention the name, and how many co-occurrences they hold for it
Payloads == {[mention |-> FALSE, degree |-> 0], [mention |-> TRUE, degree |-> 0],
             [mention |-> TRUE, degree |-> 1]}
Nodes == [det : BOOLEAN, sem : BOOLEAN, degree : 0 .. 1]
Call(kind, d, payload) == [kind |-> kind, doc |-> d, payload |-> payload]
Backfill == Call("backfill", None, None)
Calls == {Backfill} \cup {Call("delete", d, None) : d \in Docs}
         \cup {Call("chunks", d, p) : d \in Docs, p \in Payloads}
         \cup {Call("semantic", d, p) : d \in Docs, p \in {q \in Payloads : q.degree = 0}}

TypeOK ==
    /\ node \in [Docs -> Nodes \cup {None}]
    /\ bridges \subseteq kSubset(2, Docs)
    /\ at \in [Writers -> {"idle", "keys", "clear", "merge", "relate", "cut", "bridge", "done"}]
    /\ call \in [Writers -> Calls \cup {None}]
    /\ old \in [Writers -> BOOLEAN] /\ lone \in Writers \cup {None} /\ broken \in BOOLEAN

-----------------------------------------------------------------------------
(* Representatives. *)

Holders(k) == {d \in Docs : KbOf(d) = k /\ node[d] # None}

\* most co-occurrences first, then the smallest id
Representative(k) ==
    CHOOSE d \in Holders(k) :
        \A e \in Holders(k) : \/ node[d].degree > node[e].degree
                              \/ node[d].degree = node[e].degree /\ d[2] <= e[2]

\* one bridge for each pair of knowledge bases that hold the name
Bridges == kSubset(2, {Representative(k) : k \in {KbOf(d) : d \in {e \in Docs : node[e] # None}}})

\* nodes from before, seen by both extractions, with their bridges
Init ==
    /\ node \in [Docs -> {None, [det |-> TRUE, sem |-> TRUE, degree |-> 1]}]
    /\ bridges = Bridges
    /\ at = [w \in Writers |-> "idle"] /\ call = [w \in Writers |-> None]
    /\ old = [w \in Writers |-> FALSE] /\ plan = [w \in Writers |-> {}]
    /\ lone = None /\ broken = FALSE

-----------------------------------------------------------------------------
(* The steps of a call. *)

Active == {w \in Writers : at[w] \notin {"idle", "done"}}
Goes(w, from, to) == at[w] = from /\ at' = [at EXCEPT ![w] = to]
Doc(w) == call[w].doc
Mentioned(w) == call[w].kind \in {"chunks", "semantic"} /\ call[w].payload.mention

Forget(w) == /\ call' = [call EXCEPT ![w] = None]
             /\ old' = [old EXCEPT ![w] = FALSE] /\ plan' = [plan EXCEPT ![w] = {}]

\* calls that do not go together: a backfill and any other, two about one document
Disturb(c, v) == c = Backfill \/ call[v] = Backfill \/ c.doc = Doc(v)

Begin(w) ==
    /\ Goes(w, "idle", "keys") /\ \A v \in Writers : v < w => at[v] # "idle"
    /\ \E c \in Calls :
         /\ call' = [call EXCEPT ![w] = c]
         /\ lone' = IF Active = {} THEN w ELSE None
         /\ broken' = (broken \/ \E v \in Active : Disturb(c, v))
    /\ UNCHANGED <<node, bridges, old, plan>>

\* a semantic refresh asks for the nodes that an earlier one has seen
ReadKeys(w) ==
    /\ call[w] # Backfill /\ Goes(w, "keys", "clear")
    /\ old' = [old EXCEPT ![w] =
         node[Doc(w)] # None /\ (call[w].kind = "semantic" => node[Doc(w)].sem)]
    /\ UNCHANGED <<node, bridges, calls, plan>>

\* DETACH DELETE; a semantic refresh spares the nodes extracted from chunks
Clear(w) ==
    LET d == Doc(w)
        gone == node[d] # None /\ (call[w].kind = "semantic" => ~node[d].det)
    IN  /\ Goes(w, "clear", "merge")
        /\ node' = IF gone THEN [node EXCEPT ![d] = None] ELSE node
        /\ bridges' = IF gone THEN {b \in bridges : d \notin b} ELSE bridges
        /\ UNCHANGED <<calls, old, plan>>

\* MERGE: a node that exists keeps what is not set
Merged(d, kind) ==
    IF kind = "chunks"
    THEN [det |-> TRUE, sem |-> node[d] # None /\ node[d].sem,
          degree |-> IF node[d] = None THEN 0 ELSE node[d].degree]
    ELSE [det |-> node[d] # None /\ node[d].det, sem |-> TRUE,
          degree |-> IF node[d] = None THEN 0 ELSE node[d].degree]

MergeNodes(w) ==
    /\ Goes(w, "merge", "relate")
    /\ node' = IF Mentioned(w) THEN [node EXCEPT ![Doc(w)] = Merged(Doc(w), call[w].kind)] ELSE node
    /\ UNCHANGED <<bridges, calls, old, plan>>

\* variant: only the names of the new chunks are looked after
AffectedByNew(w) == Mentioned(w)

Affected(w) == old[w] \/ Mentioned(w)

\* co-occurrences (FLAVOR_RELATED), where the node still is
MergeRelations(w) ==
    /\ Goes(w, "relate", IF Affected(w) THEN "cut" ELSE "done")
    /\ node' = IF call[w].kind = "chunks" /\ call[w].payload.degree = 1 /\ node[Doc(w)] # None
               THEN [node EXCEPT ![Doc(w)].degree = 1] ELSE node
    /\ IF Affected(w) THEN UNCHANGED <<call, old, plan>> ELSE Forget(w)
    /\ UNCHANGED <<bridges, lone, broken>>

\* _rebuild_cross_kb_relations, in two transactions
DeleteBridges(w) ==
    /\ call[w] # Backfill /\ Goes(w, "cut", "bridge")
    /\ bridges' = {}
    /\ UNCHANGED <<node, calls, old, plan>>

CreateBridges(w) ==
    /\ call[w] # Backfill /\ Goes(w, "bridge", "done")
    /\ bridges' = bridges \cup Bridges
    /\ Forget(w) /\ UNCHANGED <<node, lone, broken>>

-----------------------------------------------------------------------------
(* backfill_cross_kb_relations: read everything, compute, delete and create. *)

Scan(w) ==
    /\ call[w] = Backfill /\ Goes(w, "keys", "cut")
    /\ plan' = [plan EXCEPT ![w] = Bridges]
    /\ UNCHANGED <<node, bridges, calls, old>>

DeleteAllBridges(w) ==
    /\ call[w] = Backfill /\ Goes(w, "cut", "bridge")
    /\ bridges' = {}
    /\ UNCHANGED <<node, calls, old, plan>>

\* MATCH: where both nodes still are.  Alone, a backfill mends what was broken before.
CreatePlanned(w) ==
    /\ call[w] = Backfill /\ Goes(w, "bridge", "done")
    /\ bridges' = bridges \cup {b \in plan[w] : \A d \in b : node[d] # None}
    /\ broken' = (broken /\ lone # w)
    /\ Forget(w) /\ UNCHANGED <<node, lone>>

\* The driver raises, or the process dies.
Fail(w) ==
    /\ w \in Active /\ at' = [at EXCEPT ![w] = "done"]
    /\ broken' = TRUE
    /\ Forget(w) /\ UNCHANGED <<node, bridges, lone>>

Next == \E w \in Writers :
    \/ Begin(w) \/ ReadKeys(w) \/ Clear(w) \/ MergeNodes(w) \/ MergeRelations(w)
    \/ DeleteBridges(w) \/ CreateBridges(w) \/ Scan(w) \/ DeleteAllBridges(w) \/ CreatePlanned(w)
    \/ Fail(w)

Spec == Init /\ [][Next]_vars

-----------------------------------------------------------------------------
(* Properties. *)

\* "one representative bridge per shared entity and KB pair": whenever no call is under way the
\* bridges are those of the nodes that there are, however calls about other documents have been
\* interleaved; and after failures and disturbed calls, once a backfill has run alone.
BridgesAreThoseOfNodes == Active = {} /\ ~broken => bridges = Bridges

\* Refuted: a call that is repeated does not know the old keys of the one that failed; nor does
\* a backfill see nodes merged after its scan.
BridgesAlwaysMend == Active = {} => bridges = Bridges

\* At most one bridge for two knowledge bases, whatever fails.  Refuted: a backfill adds those
\* of its scan to those of a call that went on meanwhile.
OneBridgePerPair ==
    Active = {} => \A b, c \in bridges : {KbOf(d) : d \in b} = {KbOf(d) : d \in c} => b = c
-----------------------------------------------------------------------------
(* What they rest on. *)

\* Undisturbed calls are about different documents, and a backfill is alone.
CallsAreApart ==
    ~broken => \A v, w \in Active : v # w =>
        call[v] # Backfill /\ call[w] # Backfill /\ Doc(v) # Doc(w)

LoneIsAlone == \A w \in Active : lone = w => Active = {w}

NodesAreExtracted == \A d \in Docs : node[d] # None => node[d].det \/ node[d].sem

\* What a call has read of its document is still so when it clears it.
KeysAreCurrent ==
    ~broken => \A w \in Active : at[w] = "clear" =>
        old[w] = (node[Doc(w)] # None /\ (call[w].kind = "semantic" => node[Doc(w)].sem))

\* A backfill that is alone creates the bridges there should be.
PlanIsCurrent ==
    \A w \in Active : call[w] = Backfill /\ at[w] \in {"cut", "bridge"} /\ (lone = w \/ ~broken) =>
        plan[w] = Bridges /\ (at[w] = "bridge" => bridges = {})

\* the calls that may have changed nodes, and are yet to delete the bridges and create them
Pending == {w \in Active : /\ call[w] # Backfill
                           /\ at[w] = "cut" \/ (at[w] \in {"merge", "relate"} /\ Affected(w))}

\* Bridges are wrong only while a call is pending, and missing only while one creates them.
WrongBridgesGo ==
    ~broken /\ Pending = {} =>
        /\ bridges \subseteq Bridges
        /\ (\A w \in Active : at[w] # "bridge") => bridges = Bridges
=============================================================================
