-------------------------- MODULE IndexGenerations --------------------------
(***************************************************************************)
(* Generations of the vector index of a knowledge base: planned by a       *)
(* request, built from the chunk rows into a Milvus collection of their    *)
(* own, validated by the number of entities, promoted, and dropped after   *)
(* their retirement (services/index_lifecycle.py, services/retention.py),  *)
(* next to the ingestions, deletions of chunks and deletions of knowledge  *)
(* bases that use the active collection meanwhile.                         *)
(*                                                                         *)
(* Generations are numbered in the order of their create_time; the first   *)
(* ones are those created with the knowledge bases.  A vector is           *)
(* <<chunk, n>>: Milvus assigns primary keys, so that a chunk may be       *)
(* inserted several times.                                                 *)
(***************************************************************************)
EXTENDS Naturals, FiniteSets

CONSTANTS
    NumKBs,      \* knowledge bases
    MaxGens,     \* bound: generations, the initial ones included
    Chunks,
    ChunkKB,     \* Chunks -> KBs
    Ingested,    \* chunks ingested before the first plan
    Deletable,   \* knowledge bases that may be deleted
    Workers,     \* processes that run an IndexBuildWorker
    MaxFaults    \* bound: process crashes and failing requests explored

KBs == 1..NumKBs
Gens == 1..MaxGens
NoGen == 0

ASSUME ConstantsAssumption ==
    /\ NumKBs \in Nat \ {0}
    /\ MaxGens \in Nat
    /\ NumKBs <= MaxGens
    /\ ChunkKB \in [Chunks -> KBs]
    /\ IsFiniteSet(Chunks)
    /\ Ingested \subseteq Chunks
    /\ Deletable \subseteq KBs
    /\ MaxFaults \in Nat

VARIABLES
    status,    \* Gens -> status of t_knowledge_index_generation
    kbOf,      \* Gens -> kb_id
    active,    \* KBs -> generation of active_collection_name
    kbState,   \* KBs -> deletion of the knowledge base
    chunk,     \* Chunks -> progress of its ingestion, index_status, deleted
    target,    \* Chunks -> collection its ingestion writes to
    present,   \* generations whose Milvus collection exists
    coll,      \* Gens -> vectors in the collection
    pc,        \* Workers -> progress of _loop and build_and_promote
    gen,       \* Workers -> generation_id
    snap,      \* Workers -> the chunks read at the start of the build
    todo,      \* Workers -> those not inserted yet
    old,       \* Workers -> ACTIVE generations read by the promotion
    base,      \* Workers -> active collection read by the promotion
    contested, \* history: knowledge bases with two builds at once, or a build of a
               \* generation that another process had already settled
    faults

recordVars == <<status, kbOf>>
kbVars == <<active, kbState>>
chunkVars == <<chunk, target>>
milvusVars == <<present, coll>>
workVars == <<snap, todo, old, base>>
auxVars == <<contested, faults>>
vars == <<recordVars, kbVars, chunkVars, milvusVars, pc, gen, workVars, auxVars>>

GenStatus == {"NONE", "BUILDING", "ACTIVE", "RETIRED", "FAILED", "DELETED"}
\* dropping: a request dropped the collection and has not committed; aborted:
\* it never did
KBState == {"live", "dropping", "deleted", "aborted"}
\* new, loaded, stored: the rows are not committed yet
ChunkState == {"new", "loaded", "stored", "ACTIVE", "deleted"}
\* mismatch: the validation has raised; failing: another exception
BuildState == {"idle", "chosen", "locked", "building", "validated", "promoting",
               "mismatch", "failing"}

Live(k) == kbState[k] # "deleted"
ActiveChunks(k) == {c \in Chunks : ChunkKB[c] = k /\ chunk[c] = "ACTIVE"}
Recorded(k) == {g \in Gens : kbOf[g] = k /\ status[g] = "ACTIVE"}
VectorsOf(g, c) == {v \in coll[g] : v[1] = c}
Without(g, cs) == {v \in coll[g] : v[1] \notin cs}
NextVector(g, c) == <<c, Cardinality(VectorsOf(g, c))>>
Exactly(cs) == {<<c, 0>> : c \in cs}
\* advisory lock index-build:<generation>, held by the session of the worker
Builds(w) == pc[w] \notin {"idle", "chosen"}
Holds(w, g) == Builds(w) /\ gen[w] = g

Init ==
    /\ status = [g \in Gens |-> IF g \in KBs THEN "ACTIVE" ELSE "NONE"]
    /\ kbOf = [g \in Gens |-> IF g \in KBs THEN g ELSE 1]
    /\ active = [k \in KBs |-> k]
    /\ kbState = [k \in KBs |-> "live"]
    /\ chunk = [c \in Chunks |-> IF c \in Ingested THEN "ACTIVE" ELSE "new"]
    /\ target = [c \in Chunks |-> NoGen]
    /\ present = KBs
    /\ coll = [g \in Gens |-> {<<c, 0>> : c \in {i \in Ingested : ChunkKB[i] = g}}]
    /\ pc = [w \in Workers |-> "idle"]
    /\ gen = [w \in Workers |-> NoGen]
    /\ snap = [w \in Workers |-> {}]
    /\ todo = [w \in Workers |-> {}]
    /\ old = [w \in Workers |-> {}]
    /\ base = [w \in Workers |-> NoGen]
    /\ contested = {}
    /\ faults = 0

-----------------------------------------------------------------------------
(***************************************************************************)
(* Requests and the other users of the active collection.                  *)
(***************************************************************************)

\* POST /{kb_id}/index-generations; requests commit in any order
Plan(k, g) ==
    /\ Live(k)
    /\ status[g] = "NONE"
    /\ status' = [status EXCEPT ![g] = "BUILDING"]
    /\ kbOf' = [kbOf EXCEPT ![g] = k]
    /\ UNCHANGED <<kbVars, chunkVars, milvusVars, pc, gen, workVars, auxVars>>

\* An ingestion takes the name of the active collection when it starts,
LoadTarget(c) ==
    /\ chunk[c] = "new"
    /\ Live(ChunkKB[c])
    /\ chunk' = [chunk EXCEPT ![c] = "loaded"]
    /\ target' = [target EXCEPT ![c] = active[ChunkKB[c]]]
    /\ UNCHANGED <<recordVars, kbVars, milvusVars, pc, gen, workVars, auxVars>>

\* inserts into it later, silently into nothing if it is gone,
StoreVectors(c) ==
    LET g == target[c] IN
    /\ chunk[c] = "loaded"
    /\ coll' = IF g \in present
               THEN [coll EXCEPT ![g] = @ \cup {NextVector(g, c)}]
               ELSE coll
    /\ chunk' = [chunk EXCEPT ![c] = "stored"]
    /\ UNCHANGED <<recordVars, kbVars, target, present, pc, gen, workVars, auxVars>>

\* and commits its rows.
CommitChunk(c) ==
    /\ chunk[c] = "stored"
    /\ chunk' = [chunk EXCEPT ![c] = "ACTIVE"]
    /\ target' = [target EXCEPT ![c] = NoGen]
    /\ UNCHANGED <<recordVars, kbVars, milvusVars, pc, gen, workVars, auxVars>>

\* The deletion of a document cleans the active collection only.
DeleteChunk(c) ==
    LET g == active[ChunkKB[c]] IN
    /\ chunk[c] = "ACTIVE"
    /\ chunk' = [chunk EXCEPT ![c] = "deleted"]
    /\ coll' = [coll EXCEPT ![g] = Without(g, {c})]
    /\ UNCHANGED <<recordVars, kbVars, target, present, pc, gen, workVars, auxVars>>

\* delete_knowledge_base removes the vectors of its documents and drops the
\* collection, as far as Milvus answers, before its commit.
DropActive(k) ==
    /\ k \in Deletable
    /\ kbState[k] = "live"
    /\ kbState' = [kbState EXCEPT ![k] = "dropping"]
    /\ \/ /\ present' = present \ {active[k]}
          /\ coll' = [coll EXCEPT ![active[k]] = {}]
       \/ /\ \E gone \in SUBSET ActiveChunks(k) :
                coll' = [coll EXCEPT ![active[k]] = Without(active[k], gone)]
          /\ UNCHANGED present
    /\ UNCHANGED <<recordVars, active, chunkVars, pc, gen, workVars, auxVars>>

CommitDeletion(k) ==
    /\ kbState[k] = "dropping"
    /\ kbState' = [kbState EXCEPT ![k] = "deleted"]
    /\ chunk' = [c \in Chunks |-> IF c \in ActiveChunks(k) THEN "deleted" ELSE chunk[c]]
    /\ UNCHANGED <<recordVars, active, target, milvusVars, pc, gen, workVars, auxVars>>

\* The audit record or the commit raises, or the process dies.
AbortDeletion(k) ==
    /\ kbState[k] = "dropping"
    /\ faults < MaxFaults
    /\ faults' = faults + 1
    /\ kbState' = [kbState EXCEPT ![k] = "aborted"]
    /\ UNCHANGED <<recordVars, active, chunkVars, milvusVars, pc, gen, workVars, contested>>

\* Variant with a bug: only builds are kept from being purged.
RetirableUnlessBuilding(g) == status[g] \notin {"NONE", "BUILDING", "DELETED"}
Retirable(g) == status[g] \in {"RETIRED", "FAILED"}

\* RetentionWorker, days after the last change of the record: no build and no
\* ingestion that still uses the generation is that old.  The statuses are
\* committed only if every collection could be dropped.
Purge(g) ==
    /\ Retirable(g)
    /\ \A w \in Workers : gen[w] # g
    /\ \A c \in Chunks : target[c] # g
    /\ present' = present \ {g}
    /\ coll' = [coll EXCEPT ![g] = {}]
    /\ \/ status' = [status EXCEPT ![g] = "DELETED"]
       \/ g \in present /\ UNCHANGED status
    /\ UNCHANGED <<kbOf, kbVars, chunkVars, pc, gen, workVars, auxVars>>

-----------------------------------------------------------------------------
(***************************************************************************)
(* IndexBuildWorker._loop and build_and_promote.                           *)
(***************************************************************************)

Goto(w, s) == pc' = [pc EXCEPT ![w] = s]

\* build_and_promote returns or raises; the advisory lock is released.
Leave(w) ==
    /\ Goto(w, "idle")
    /\ gen' = [gen EXCEPT ![w] = NoGen]
    /\ snap' = [snap EXCEPT ![w] = {}]
    /\ todo' = [todo EXCEPT ![w] = {}]
    /\ old' = [old EXCEPT ![w] = {}]
    /\ base' = [base EXCEPT ![w] = NoGen]

\* Variant with a bug: no record is found and the build is started all the same.
ChooseNothing(w) ==
    /\ pc[w] = "idle"
    /\ \A g \in Gens : status[g] # "BUILDING"
    /\ Goto(w, "chosen")
    /\ UNCHANGED <<recordVars, kbVars, chunkVars, milvusVars, gen, workVars, auxVars>>

\* The oldest record that is BUILDING
Choose(w) ==
    /\ pc[w] = "idle"
    /\ \E g \in Gens :
        /\ status[g] = "BUILDING"
        /\ \A h \in Gens : h < g => status[h] # "BUILDING"
        /\ gen' = [gen EXCEPT ![w] = g]
    /\ Goto(w, "chosen")
    /\ UNCHANGED <<recordVars, kbVars, chunkVars, milvusVars, workVars, auxVars>>

\* pg_try_advisory_lock; the record is not looked at again, so that it may have been
\* settled by another process since it was chosen.
Lock(w) ==
    LET g == gen[w]
        k == kbOf[g]
        late == status[g] # "BUILDING"
        shared == \E v \in Workers : Builds(v) /\ kbOf[gen[v]] = k
    IN
    /\ pc[w] = "chosen"
    /\ \/ /\ \A v \in Workers : ~Holds(v, g)
          /\ Goto(w, "locked")
          /\ contested' = IF late \/ shared THEN contested \cup {k} ELSE contested
          /\ UNCHANGED <<gen, workVars>>
       \/ /\ \E v \in Workers : Holds(v, g)
          /\ Leave(w)
          /\ UNCHANGED contested
    /\ UNCHANGED <<recordVars, kbVars, chunkVars, milvusVars, faults>>

\* scalar_one on a deleted knowledge base or record raises outside the try
\* block, and the record is left as it is.
RecordFound(g) == status[g] # "DELETED" /\ Live(kbOf[g])

Snapshot(w) ==
    /\ pc[w] = "locked"
    /\ RecordFound(gen[w])
    /\ snap' = [snap EXCEPT ![w] = ActiveChunks(kbOf[gen[w]])]
    /\ todo' = [todo EXCEPT ![w] = ActiveChunks(kbOf[gen[w]])]
    /\ Goto(w, IF ActiveChunks(kbOf[gen[w]]) = {} THEN "failing" ELSE "building")
    /\ UNCHANGED <<recordVars, kbVars, chunkVars, milvusVars, gen, old, base, auxVars>>

RecordMissing(w) ==
    /\ pc[w] = "locked"
    /\ ~RecordFound(gen[w])
    /\ Leave(w)
    /\ UNCHANGED <<recordVars, kbVars, chunkVars, milvusVars, auxVars>>

\* One batch; the first one creates the collection unless it exists.
InsertBatch(w) ==
    LET g == gen[w]
        exists == present \cup (IF todo[w] = snap[w] THEN {g} ELSE {})
    IN
    /\ pc[w] = "building"
    /\ \E c \in todo[w] :
        /\ present' = exists
        /\ coll' = IF g \in exists
                   THEN [coll EXCEPT ![g] = @ \cup {NextVector(g, c)}]
                   ELSE coll
        /\ todo' = [todo EXCEPT ![w] = @ \ {c}]
    /\ UNCHANGED <<recordVars, kbVars, chunkVars, pc, gen, snap, old, base, auxVars>>

\* Variant with a bug: more entities than expected are accepted.
ValidateLax(w) ==
    /\ pc[w] = "building"
    /\ todo[w] = {}
    /\ Goto(w, IF Cardinality(coll[gen[w]]) >= Cardinality(snap[w])
               THEN "validated" ELSE "mismatch")
    /\ UNCHANGED <<recordVars, kbVars, chunkVars, milvusVars, gen, workVars, auxVars>>

Validate(w) ==
    /\ pc[w] = "building"
    /\ todo[w] = {}
    /\ Goto(w, IF Cardinality(coll[gen[w]]) = Cardinality(snap[w])
               THEN "validated" ELSE "mismatch")
    /\ UNCHANGED <<recordVars, kbVars, chunkVars, milvusVars, gen, workVars, auxVars>>

\* The transaction of the promotion reads the records and the knowledge base,
ReadActive(w) ==
    LET k == kbOf[gen[w]] IN
    /\ pc[w] = "validated"
    /\ old' = [old EXCEPT ![w] = Recorded(k)]
    /\ base' = [base EXCEPT ![w] = active[k]]
    /\ Goto(w, "promoting")
    /\ UNCHANGED <<recordVars, kbVars, chunkVars, milvusVars, gen, snap, todo, auxVars>>

\* Variant with a bug: what was active is not retired.
PromoteOnly(w) ==
    /\ pc[w] = "promoting"
    /\ status' = [status EXCEPT ![gen[w]] = "ACTIVE"]
    /\ active' = [active EXCEPT ![kbOf[gen[w]]] = gen[w]]
    /\ Leave(w)
    /\ UNCHANGED <<kbOf, kbState, chunkVars, milvusVars, auxVars>>

\* and writes the columns whose values differ from those it read.
Promote(w) ==
    LET g == gen[w] IN
    /\ pc[w] = "promoting"
    /\ status' = [h \in Gens |-> IF h \in old[w] \ {g} THEN "RETIRED"
                                 ELSE IF h = g /\ g \notin old[w] THEN "ACTIVE"
                                 ELSE status[h]]
    /\ active' = IF base[w] = g THEN active ELSE [active EXCEPT ![kbOf[g]] = g]
    /\ Leave(w)
    /\ UNCHANGED <<kbOf, kbState, chunkVars, milvusVars, auxVars>>

\* Embedding, Milvus or PostgreSQL raises inside the try block.
BuildError(w) ==
    /\ pc[w] \in {"building", "validated", "promoting"}
    /\ Goto(w, "failing")
    /\ UNCHANGED <<recordVars, kbVars, chunkVars, milvusVars, gen, workVars, auxVars>>

\* Variant with a bug: the failure is logged and not recorded.
LogFailure(w) ==
    /\ pc[w] \in {"mismatch", "failing"}
    /\ Leave(w)
    /\ UNCHANGED <<recordVars, kbVars, chunkVars, milvusVars, auxVars>>

RecordFailure(w) ==
    /\ pc[w] \in {"mismatch", "failing"}
    /\ status' = [status EXCEPT ![gen[w]] = "FAILED"]
    /\ Leave(w)
    /\ UNCHANGED <<kbOf, kbVars, chunkVars, milvusVars, auxVars>>

\* The process dies, is stopped (CancelledError is no Exception), or fails to
\* record a failure: the lock is released and the record stays as it is.
Crash(w) ==
    /\ faults < MaxFaults
    /\ pc[w] # "idle"
    /\ faults' = faults + 1
    /\ Leave(w)
    /\ UNCHANGED <<recordVars, kbVars, chunkVars, milvusVars, contested>>

-----------------------------------------------------------------------------

Work(w) ==
    \/ Choose(w)
    \/ Lock(w)
    \/ Snapshot(w)
    \/ RecordMissing(w)
    \/ InsertBatch(w)
    \/ Validate(w)
    \/ ReadActive(w)
    \/ Promote(w)
    \/ RecordFailure(w)

Next ==
    \/ \E k \in KBs, g \in Gens : Plan(k, g)
    \/ \E c \in Chunks : LoadTarget(c) \/ StoreVectors(c) \/ CommitChunk(c) \/ DeleteChunk(c)
    \/ \E k \in KBs : DropActive(k) \/ CommitDeletion(k) \/ AbortDeletion(k)
    \/ \E g \in Gens : Purge(g)
    \/ \E w \in Workers : Work(w) \/ BuildError(w) \/ Crash(w)

Spec == Init /\ [][Next]_vars

\* The worker loops never pause while a record is BUILDING.
FairSpec == Spec /\ \A w \in Workers : WF_vars(Work(w))

-----------------------------------------------------------------------------
(***************************************************************************)
(* Properties.                                                             *)
(***************************************************************************)

\* Every variable stays in its domain, and a busy worker has a generation.
TypeOK ==
    /\ status \in [Gens -> GenStatus]
    /\ kbOf \in [Gens -> KBs]
    /\ active \in [KBs -> Gens]
    /\ kbState \in [KBs -> KBState]
    /\ chunk \in [Chunks -> ChunkState]
    /\ target \in [Chunks -> Gens \cup {NoGen}]
    /\ present \subseteq Gens
    /\ coll \in [Gens -> SUBSET (Chunks \X Nat)]
    /\ pc \in [Workers -> BuildState]
    /\ gen \in [Workers -> Gens \cup {NoGen}]
    /\ snap \in [Workers -> SUBSET Chunks]
    /\ todo \in [Workers -> SUBSET Chunks]
    /\ old \in [Workers -> SUBSET Gens]
    /\ base \in [Workers -> Gens \cup {NoGen}]
    /\ contested \subseteq KBs
    /\ faults \in Nat
    /\ \A w \in Workers : pc[w] # "idle" => gen[w] # NoGen

\* The records of a knowledge base and its active collection agree: exactly the
\* generation that retrieval reads is ACTIVE, hence never purged.  It holds of every
\* knowledge base whose builds did not get in each other's way.  A process that chose a
\* generation and locks it after another one promoted it builds it again, into the active
\* collection, and then records it as FAILED.
ActiveIsRecorded ==
    \A k \in KBs \ contested : Recorded(k) = {active[k]}

\* Retrieval always finds the collection it is told to read, unless somebody
\* tried to delete the knowledge base or its builds were contested.
ActiveIsPresent ==
    \A k \in KBs \ contested : kbState[k] = "live" => active[k] \in present

\* A collection is promoted with one vector of every chunk of the snapshot
\* and nothing else, although only their number is compared and the build may have
\* been begun by a process that died.
PromotedIsComplete ==
    \A w \in Workers :
        pc[w] = "promoting" /\ gen[w] \in present /\ kbOf[gen[w]] \notin contested =>
            coll[gen[w]] = Exactly(snap[w])

\* A build that inserted all its chunks passes the validation, also when it has
\* been resumed by another process.
CompleteBuildsValidate == \A w \in Workers : pc[w] # "mismatch"

\* What retrieval finds: chunks with an ACTIVE row and a vector in the active
\* collection.
Findable(k) == {c \in ActiveChunks(k) : VectorsOf(active[k], c) # {}}

\* Rebuilding an index is not destructive: a chunk that is found stays so,
\* unless it or its knowledge base is deleted.
FindableIsKept ==
    [][\A k \in KBs : kbState'[k] = "live" =>
         \A c \in Findable(k) : c \in Findable(k)' \/ chunk'[c] = "deleted"]_vars

\* Every planned generation of a knowledge base that exists is promoted or FAILED,
\* although processes crash and builds fail, unless the plan of a deleted knowledge
\* base, which no build can end, is older.  The first generations are never BUILDING.
EveryBuildSettles ==
    \A g \in Gens \ KBs :
        (status[g] = "BUILDING" /\ Live(kbOf[g]))
            ~> \/ status[g] # "BUILDING" \/ ~Live(kbOf[g])
               \/ \E h \in Gens : h < g /\ status[h] = "BUILDING" /\ ~Live(kbOf[h])

-----------------------------------------------------------------------------
(***************************************************************************)
(* The strengthening that makes the safety invariants inductive.           *)
(***************************************************************************)

\* A knowledge base that is not contested has one build at most, of a generation that
\* stays BUILDING until the build leaves it.
BuildIsOwned ==
    /\ \A w \in Workers : pc[w] # "idle" => status[gen[w]] # "NONE"
    /\ \A w \in Workers : Builds(w) /\ kbOf[gen[w]] \notin contested =>
           status[gen[w]] = "BUILDING"
    /\ \A v, w \in Workers : Builds(v) /\ Builds(w) /\ kbOf[gen[v]] = kbOf[gen[w]] =>
           v = w \/ kbOf[gen[v]] \in contested

\* What is active, or was when a promotion read it, has been promoted once.
ActiveWasPromoted ==
    /\ \A k \in KBs : kbOf[active[k]] = k /\ status[active[k]] \notin {"NONE", "BUILDING"}
    /\ \A w \in Workers : \A g \in old[w] :
           Builds(w) /\ kbOf[g] = kbOf[gen[w]] /\ status[g] \notin {"NONE", "BUILDING"}

\* What the promotion has read stays current until it writes.
ViewIsCurrent ==
    \A w \in Workers : pc[w] = "promoting" /\ kbOf[gen[w]] \notin contested =>
        /\ old[w] = Recorded(kbOf[gen[w]])
        /\ base[w] = active[kbOf[gen[w]]]

\* Ingestions write to collections that are, or have been, active.
TargetWasActive ==
    \A c \in Chunks : target[c] # NoGen => status[target[c]] \notin {"NONE", "BUILDING"}

\* The vectors of a chunk are numbered from 0.
VectorsAreNumbered ==
    \A g \in Gens : /\ IsFiniteSet(coll[g])
                     /\ \A c \in Chunks : VectorsOf(g, c) # {} => <<c, 0>> \in coll[g]

BuildProgress ==
    \A w \in Workers : Builds(w) /\ kbOf[gen[w]] \notin contested =>
        /\ pc[w] = "building" =>
               /\ snap[w] # {}
               /\ todo[w] \subseteq snap[w]
               /\ todo[w] # snap[w] => gen[w] \in present
               /\ \A c \in snap[w] \ todo[w] : VectorsOf(gen[w], c) # {}
        /\ pc[w] \in {"validated", "promoting"} =>
               /\ gen[w] \in present
               /\ coll[gen[w]] = Exactly(snap[w])

IInv ==
    /\ TypeOK
    /\ ActiveIsRecorded
    /\ ActiveIsPresent
    /\ BuildIsOwned
    /\ ActiveWasPromoted
    /\ ViewIsCurrent
    /\ TargetWasActive
    /\ VectorsAreNumbered
    /\ BuildProgress
=============================================================================
