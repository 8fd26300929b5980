--------------------------- MODULE MCIndexes_proofs ---------------------------
(***************************************************************************)
(* Proofs about the vector index for every value of the constants.         *)
(*                                                                         *)
(* The generations, for any number of processes that run the build worker: *)
(* what is promised to a knowledge base holds until its builds get in each *)
(* other's way (contested), and is not disturbed by those of another one.  *)
(*                                                                         *)
(* The reconciliation, for any number of workers: no chunk is held twice   *)
(* by the collection.  A repair inserts what it has just removed.  Nothing *)
(* comes in between because no other repair of the item runs (one pending  *)
(* job per item, a RUNNING job held by one worker at most) and because its *)
(* ingestion has ended (its rows were found ACTIVE).                       *)
(***************************************************************************)
EXTENDS MCIndexes, FiniteSetTheorems, TLAPS

CollectionsOK == coll \in [Gens -> SUBSET (Chunks \X Nat)] /\ VectorsAreNumbered

LEMMA KBsAreGens == KBs \subseteq Gens /\ NoGen \notin Gens
  BY ConstantsAssumption DEF KBs, Gens, NoGen

\* A set of chunks has as many first vectors as chunks.
LEMMA ExactlyCardinality ==
    ASSUME NEW cs \in SUBSET Chunks
    PROVE  IsFiniteSet(Exactly(cs)) /\ Cardinality(Exactly(cs)) = Cardinality(cs)
  <1> DEFINE f == [c \in cs |-> <<c, 0>>]
  <1>1. IsFiniteSet(cs)
    BY FS_Subset, ConstantsAssumption
  <1>2. f \in Bijection(cs, Exactly(cs))
    BY DEF Bijection, Injection, Surjection, IsInjective, Exactly
  <1> QED
    BY <1>1, <1>2, FS_Bijection DEF ExistsBijection

\* Two facts about one insertion: the collections stay numbered, and the chunk
\* has a vector afterwards.
LEMMA AddVector ==
    ASSUME CollectionsOK, NEW g \in Gens, NEW c \in Chunks,
           coll' = [coll EXCEPT ![g] = @ \cup {NextVector(g, c)}]
    PROVE  CollectionsOK' /\ VectorsOf(g, c)' # {}
  <1>1. VectorsOf(g, c) \subseteq coll[g] /\ IsFiniteSet(VectorsOf(g, c))
    BY FS_Subset DEF CollectionsOK, VectorsAreNumbered, VectorsOf
  <1>2. NextVector(g, c) \in Chunks \X Nat /\ NextVector(g, c)[1] = c
    BY <1>1, FS_CardinalityType DEF NextVector
  <1>3. coll' \in [Gens -> SUBSET (Chunks \X Nat)]
    BY <1>2 DEF CollectionsOK
  <1>4. coll'[g] = coll[g] \cup {NextVector(g, c)}
    BY DEF CollectionsOK
  <1>5. IsFiniteSet(coll'[g])
    BY <1>4, FS_AddElement DEF CollectionsOK, VectorsAreNumbered
  <1>6. <<c, 0>> \in coll'[g]
    <2>1. CASE VectorsOf(g, c) = {}
      BY <2>1, <1>4, FS_EmptySet DEF NextVector
    <2>2. CASE VectorsOf(g, c) # {}
      BY <2>2, <1>4 DEF CollectionsOK, VectorsAreNumbered
    <2> QED
      BY <2>1, <2>2
  <1>7. ASSUME NEW h \in Gens PROVE IsFiniteSet(coll'[h])
    BY <1>5 DEF CollectionsOK, VectorsAreNumbered
  <1>8. ASSUME NEW h \in Gens, NEW d \in Chunks, {v \in coll'[h] : v[1] = d} # {}
        PROVE  <<d, 0>> \in coll'[h]
    <2>1. CASE h = g /\ d = c
      BY <2>1, <1>6
    <2>2. CASE h = g /\ d # c
      <3>1. VectorsOf(h, d) # {}
        BY <2>2, <1>8, <1>4, <1>2 DEF VectorsOf
      <3> QED
        BY <3>1, <2>2, <1>4 DEF CollectionsOK, VectorsAreNumbered
    <2>3. CASE h # g
      BY <2>3, <1>8 DEF CollectionsOK, VectorsAreNumbered, VectorsOf
    <2> QED
      BY <2>1, <2>2, <2>3
  <1>9. VectorsOf(g, c)' # {}
    BY <1>2, <1>4 DEF VectorsOf
  <1> QED
    BY <1>3, <1>7, <1>8, <1>9 DEF CollectionsOK, VectorsAreNumbered, VectorsOf

\* Removing the vectors of some chunks, or all of them, keeps the others numbered.
LEMMA RemoveVectors ==
    ASSUME CollectionsOK, NEW g \in Gens, NEW cs,
           \/ coll' = [coll EXCEPT ![g] = {}]
           \/ coll' = [coll EXCEPT ![g] = Without(g, cs)]
    PROVE  CollectionsOK'
  <1>1. coll' \in [Gens -> SUBSET (Chunks \X Nat)]
    BY DEF CollectionsOK, Without
  <1>2. ASSUME NEW h \in Gens PROVE coll'[h] \subseteq coll[h] /\ IsFiniteSet(coll'[h])
    <2>1. coll'[h] \subseteq coll[h]
      BY DEF CollectionsOK, Without
    <2> QED
      BY <2>1, FS_Subset DEF CollectionsOK, VectorsAreNumbered
  <1>3. ASSUME NEW h \in Gens, NEW d \in Chunks, {v \in coll'[h] : v[1] = d} # {}
        PROVE  <<d, 0>> \in coll'[h]
    <2>1. <<d, 0>> \in coll[h]
      BY <1>2, <1>3 DEF CollectionsOK, VectorsAreNumbered, VectorsOf
    <2> QED
      BY <2>1, <1>3 DEF CollectionsOK, Without
  <1> QED
    BY <1>1, <1>2, <1>3 DEF CollectionsOK, VectorsAreNumbered, VectorsOf

\* Every step keeps the collections numbered.
LEMMA NextCollections ==
    ASSUME TypeOK, CollectionsOK, [Next]_vars
    PROVE  CollectionsOK'
  <1>1. CASE coll' = coll
    BY <1>1 DEF CollectionsOK, VectorsAreNumbered, VectorsOf
  <1>2. ASSUME NEW c \in Chunks, StoreVectors(c) PROVE CollectionsOK'
    <2>1. CASE target[c] \in present
      <3>1. target[c] \in Gens
        BY <2>1 DEF TypeOK
      <3> QED
        BY <1>2, <2>1, <3>1, AddVector DEF StoreVectors
    <2>2. CASE target[c] \notin present
      BY <1>1, <1>2, <2>2 DEF StoreVectors
    <2> QED
      BY <2>1, <2>2
  <1>3. ASSUME NEW c \in Chunks, DeleteChunk(c) PROVE CollectionsOK'
    <2>1. active[ChunkKB[c]] \in Gens
      BY ConstantsAssumption DEF TypeOK
    <2> QED
      BY <1>3, <2>1, RemoveVectors DEF DeleteChunk
  <1>4. ASSUME NEW k \in KBs, DropActive(k) PROVE CollectionsOK'
    <2>1. active[k] \in Gens
      BY DEF TypeOK
    <2> QED
      BY <1>4, <2>1, RemoveVectors DEF DropActive
  <1>5. ASSUME NEW g \in Gens, Purge(g) PROVE CollectionsOK'
    BY <1>5, RemoveVectors DEF Purge
  <1>6. ASSUME NEW w \in Workers, InsertBatch(w) PROVE CollectionsOK'
    <2>1. gen[w] \in Gens
      BY <1>6 DEF InsertBatch, TypeOK
    <2>2. PICK c \in todo[w] : \/ coll' = [coll EXCEPT ![gen[w]] = @ \cup {NextVector(gen[w], c)}]
                               \/ coll' = coll
      BY <1>6 DEF InsertBatch
    <2>3. c \in Chunks
      BY DEF TypeOK
    <2> QED
      BY <1>1, <2>1, <2>2, <2>3, AddVector
  <1>7. CASE UNCHANGED vars
    BY <1>1, <1>7 DEF vars, milvusVars
  <1>8. CASE \/ \E k \in KBs, g \in Gens : Plan(k, g)
             \/ \E c \in Chunks : LoadTarget(c) \/ CommitChunk(c)
             \/ \E k \in KBs : CommitDeletion(k) \/ AbortDeletion(k)
    BY <1>1, <1>8
    DEF Plan, LoadTarget, CommitChunk, CommitDeletion, AbortDeletion, milvusVars
  <1>9. CASE \E w \in Workers :
               \/ Choose(w) \/ Lock(w) \/ Snapshot(w) \/ RecordMissing(w) \/ Validate(w)
               \/ ReadActive(w) \/ Promote(w) \/ RecordFailure(w) \/ BuildError(w) \/ Crash(w)
    BY <1>1, <1>9
    DEF Choose, Lock, Snapshot, RecordMissing, Validate, ReadActive, Promote,
        RecordFailure, BuildError, Crash, milvusVars
  <1> QED
    BY <1>2, <1>3, <1>4, <1>5, <1>6, <1>7, <1>8, <1>9 DEF Next, Work

-----------------------------------------------------------------------------
LEMMA InitTypeOK == Init => TypeOK
  BY ConstantsAssumption
  DEF Init, TypeOK, GenStatus, KBState, ChunkState, BuildState, Gens, KBs, NoGen

\* What a worker forgets when it leaves stays in its domain.
LEMMA LeaveTypes ==
    ASSUME TypeOK, NEW w \in Workers, Leave(w)
    PROVE  /\ pc' \in [Workers -> BuildState]
           /\ gen' \in [Workers -> Gens \cup {NoGen}]
           /\ snap' \in [Workers -> SUBSET Chunks]
           /\ todo' \in [Workers -> SUBSET Chunks]
           /\ old' \in [Workers -> SUBSET Gens]
           /\ base' \in [Workers -> Gens \cup {NoGen}]
           /\ \A v \in Workers : pc'[v] # "idle" => gen'[v] # NoGen
  BY DEF TypeOK, Leave, Goto, BuildState

\* The steps of the build worker keep the types.
LEMMA WorkTypeOK ==
    ASSUME TypeOK, CollectionsOK', NEW w \in Workers,
           Work(w) \/ BuildError(w) \/ Crash(w)
    PROVE  TypeOK'
  <1> USE DEF recordVars, kbVars, chunkVars, milvusVars, workVars, auxVars
  <1>1. coll' \in [Gens -> SUBSET (Chunks \X Nat)]
    BY DEF CollectionsOK
  <1>2. CASE Choose(w)
    BY <1>2, KBsAreGens DEF Choose, Goto, TypeOK, BuildState
  <1>3. CASE Lock(w)
    <2>1. CASE Leave(w) /\ UNCHANGED <<recordVars, kbVars, chunkVars, milvusVars, auxVars>>
      BY <2>1, LeaveTypes DEF TypeOK
    <2>2. CASE Goto(w, "locked") /\ UNCHANGED <<gen, workVars>>
      <3>1. gen[w] \in Gens /\ kbOf[gen[w]] \in KBs
        BY <1>3 DEF Lock, TypeOK
      <3>2. contested' \subseteq KBs
        BY <1>3, <3>1 DEF Lock, TypeOK
      <3> QED
        BY <1>3, <2>2, <3>2 DEF Lock, Goto, TypeOK, BuildState
    <2> QED
      BY <1>3, <2>1, <2>2 DEF Lock
  <1>4. CASE Snapshot(w)
    <2>1. ActiveChunks(kbOf[gen[w]]) \subseteq Chunks
      BY DEF ActiveChunks
    <2> QED
      BY <1>4, <2>1 DEF Snapshot, Goto, TypeOK, BuildState
  <1>5. CASE RecordMissing(w)
    BY <1>5, LeaveTypes DEF RecordMissing, TypeOK
  <1>6. CASE InsertBatch(w)
    <2>1. present' \subseteq Gens /\ todo' \in [Workers -> SUBSET Chunks]
      BY <1>6 DEF InsertBatch, TypeOK
    <2> QED
      BY <1>1, <1>6, <2>1 DEF InsertBatch, TypeOK
  <1>7. CASE Validate(w) \/ BuildError(w)
    BY <1>7 DEF Validate, BuildError, Goto, TypeOK, BuildState
  <1>8. CASE ReadActive(w)
    <2>1. kbOf[gen[w]] \in KBs
      BY <1>8 DEF ReadActive, TypeOK
    <2> QED
      BY <1>8, <2>1 DEF ReadActive, Recorded, Goto, TypeOK, BuildState
  <1>9. CASE Promote(w)
    <2>1. gen[w] \in Gens /\ kbOf[gen[w]] \in KBs
      BY <1>9 DEF Promote, TypeOK
    <2>2. status' \in [Gens -> GenStatus] /\ active' \in [KBs -> Gens]
      BY <1>9, <2>1 DEF Promote, TypeOK, GenStatus
    <2> QED
      BY <1>9, <2>2, LeaveTypes DEF Promote, TypeOK
  <1>10. CASE RecordFailure(w)
    <2>1. status' \in [Gens -> GenStatus]
      BY <1>10 DEF RecordFailure, TypeOK, GenStatus
    <2> QED
      BY <1>10, <2>1, LeaveTypes DEF RecordFailure, TypeOK
  <1>11. CASE Crash(w)
    BY <1>11, LeaveTypes DEF Crash, TypeOK
  <1> QED
    BY <1>2, <1>3, <1>4, <1>5, <1>6, <1>7, <1>8, <1>9, <1>10, <1>11 DEF Work

\* So do the requests, the ingestions and the retention.
LEMMA NextTypeOK ==
    ASSUME TypeOK, CollectionsOK, [Next]_vars
    PROVE  TypeOK'
  <1> USE DEF recordVars, kbVars, chunkVars, milvusVars, workVars, auxVars
  <1>0. coll' \in [Gens -> SUBSET (Chunks \X Nat)] /\ CollectionsOK'
    BY NextCollections DEF CollectionsOK
  <1>1. ASSUME NEW k \in KBs, NEW g \in Gens, Plan(k, g) PROVE TypeOK'
    BY <1>1 DEF Plan, TypeOK, GenStatus
  <1>2. ASSUME NEW c \in Chunks, LoadTarget(c) PROVE TypeOK'
    <2>1. ChunkKB[c] \in KBs
      BY ConstantsAssumption
    <2> QED
      BY <1>2, <2>1 DEF LoadTarget, TypeOK, ChunkState
  <1>3. ASSUME NEW c \in Chunks, StoreVectors(c) \/ CommitChunk(c) \/ DeleteChunk(c) PROVE TypeOK'
    BY <1>0, <1>3 DEF StoreVectors, CommitChunk, DeleteChunk, TypeOK, ChunkState
  <1>4. ASSUME NEW k \in KBs, DropActive(k) \/ CommitDeletion(k) \/ AbortDeletion(k) PROVE TypeOK'
    BY <1>0, <1>4, SMTT(30) DEF DropActive, CommitDeletion, AbortDeletion, TypeOK, ChunkState,
                                KBState
  <1>5. ASSUME NEW g \in Gens, Purge(g) PROVE TypeOK'
    BY <1>0, <1>5 DEF Purge, TypeOK, GenStatus
  <1>6. CASE UNCHANGED vars
    BY <1>6 DEF vars, TypeOK
  <1> QED
    BY <1>0, <1>1, <1>2, <1>3, <1>4, <1>5, <1>6, WorkTypeOK DEF Next

-----------------------------------------------------------------------------
(***************************************************************************)
(* What a build has chosen and read does not change under it, while its    *)
(* knowledge base is not contested.                                        *)
(***************************************************************************)

\* Which steps change the status of a record, and how.
LEMMA StatusSteps ==
    ASSUME TypeOK, [Next]_vars, NEW g \in Gens, status'[g] # status[g]
    PROVE  \/ status[g] = "NONE" /\ status'[g] = "BUILDING"
           \/ /\ status[g] \in {"RETIRED", "FAILED"} /\ status'[g] = "DELETED"
              /\ \A w \in Workers : gen[w] # g
              /\ \A c \in Chunks : target[c] # g
           \/ \E w \in Workers :
                 /\ Promote(w)
                 /\ \/ g \in old[w] \ {gen[w]} /\ status'[g] = "RETIRED"
                    \/ g = gen[w] /\ g \notin old[w] /\ status'[g] = "ACTIVE"
           \/ \E w \in Workers : RecordFailure(w) /\ g = gen[w] /\ status'[g] = "FAILED"
  <1> USE DEF recordVars
  <1>1. CASE \E k \in KBs, h \in Gens : Plan(k, h)
    BY <1>1 DEF Plan, TypeOK
  <1>2. CASE \E h \in Gens : Purge(h)
    BY <1>2 DEF Purge, Retirable, TypeOK
  <1>3. ASSUME NEW w \in Workers, Promote(w)
        PROVE  \/ g \in old[w] \ {gen[w]} /\ status'[g] = "RETIRED"
               \/ g = gen[w] /\ g \notin old[w] /\ status'[g] = "ACTIVE"
    BY <1>3 DEF Promote, TypeOK
  <1>4. CASE \E w \in Workers : RecordFailure(w)
    BY <1>4 DEF RecordFailure, TypeOK
  <1>5. CASE UNCHANGED status
    BY <1>5
  <1> QED
    BY <1>1, <1>2, <1>3, <1>4, <1>5
    DEF Next, Work, LoadTarget, StoreVectors, CommitChunk, DeleteChunk, DropActive,
        CommitDeletion, AbortDeletion, Choose, Lock, Snapshot, RecordMissing,
        InsertBatch, Validate, ReadActive, BuildError, Crash, vars

\* The active collection of a knowledge base changes by a promotion only.
LEMMA ActiveSteps ==
    ASSUME [Next]_vars, ~ \E w \in Workers : Promote(w)
    PROVE  active' = active
  BY DEF Next, Work, Plan, LoadTarget, StoreVectors, CommitChunk, DeleteChunk, DropActive,
         CommitDeletion, AbortDeletion, Purge, Choose, Lock, Snapshot, RecordMissing,
         InsertBatch, Validate, ReadActive, RecordFailure, BuildError, Crash, vars, kbVars

\* The knowledge base of a record changes only when the record is planned.
LEMMA OwnerSteps ==
    ASSUME TypeOK, [Next]_vars, NEW g \in Gens, kbOf'[g] # kbOf[g]
    PROVE  status[g] = "NONE" /\ status'[g] = "BUILDING"
  BY DEF Next, Work, Plan, LoadTarget, StoreVectors, CommitChunk, DeleteChunk, DropActive,
         CommitDeletion, AbortDeletion, Purge, Choose, Lock, Snapshot, RecordMissing,
         InsertBatch, Validate, ReadActive, Promote, RecordFailure, BuildError, Crash,
         vars, recordVars, TypeOK

\* A record is never BUILDING again, and its knowledge base stays, once it is planned.
LEMMA OnceSettled ==
    ASSUME TypeOK, [Next]_vars, NEW g \in Gens, status[g] # "NONE"
    PROVE  /\ kbOf'[g] = kbOf[g]
           /\ status'[g] # "NONE"
           /\ status[g] # "BUILDING" => status'[g] # "BUILDING"
  BY OwnerSteps, StatusSteps

\* Only the locking of a generation makes a knowledge base contested.
LEMMA ContestedSteps ==
    ASSUME [Next]_vars
    PROVE  /\ contested \subseteq contested'
           /\ contested' = contested \/ \E w \in Workers : Lock(w)
  BY DEF Next, Work, Plan, LoadTarget, StoreVectors, CommitChunk, DeleteChunk, DropActive,
         CommitDeletion, AbortDeletion, Purge, Choose, Lock, Snapshot, RecordMissing,
         InsertBatch, Validate, ReadActive, Promote, RecordFailure, BuildError, Crash,
         vars, auxVars

\* A worker that builds after a step did so before, on the same generation, or has just
\* locked the one it had chosen.
LEMMA BuildSteps ==
    ASSUME TypeOK, [Next]_vars, NEW w \in Workers, Builds(w)'
    PROVE  /\ gen'[w] = gen[w] /\ gen[w] \in Gens /\ pc[w] # "idle"
           /\ Builds(w) \/ (Lock(w) /\ Goto(w, "locked"))
           /\ ~Promote(w) /\ ~RecordFailure(w)
  <1>1. CASE UNCHANGED <<pc, gen>>
    <2>1. ~Promote(w) /\ ~RecordFailure(w)
      BY <1>1 DEF Promote, RecordFailure, Leave, Goto, TypeOK
    <2> QED
      BY <1>1, <2>1 DEF Builds, TypeOK
  <1>2. ASSUME NEW v \in Workers, v # w, Work(v) \/ BuildError(v) \/ Crash(v)
        PROVE  /\ pc'[w] = pc[w] /\ gen'[w] = gen[w]
               /\ ~Promote(w) /\ ~RecordFailure(w)
    <2>1. pc'[w] = pc[w] /\ gen'[w] = gen[w]
      BY <1>2 DEF Work, Choose, Lock, Snapshot, RecordMissing, InsertBatch, Validate, ReadActive,
         Promote, RecordFailure, BuildError, Crash, Leave, Goto, TypeOK
    <2> QED
      BY <2>1 DEF Promote, RecordFailure, Leave, Goto, TypeOK
  <1>3. ASSUME Work(w) \/ BuildError(w) \/ Crash(w)
        PROVE  /\ gen'[w] = gen[w] /\ pc[w] # "idle"
               /\ Builds(w) \/ (Lock(w) /\ Goto(w, "locked"))
               /\ ~Promote(w) /\ ~RecordFailure(w)
    <2>1. ~Leave(w) /\ ~Choose(w)
      BY DEF Leave, Choose, Goto, Builds, TypeOK
    <2> QED
      BY <1>3, <2>1
      DEF Work, Lock, Snapshot, RecordMissing, InsertBatch, Validate, ReadActive,
          Promote, RecordFailure, BuildError, Crash, Builds
  <1> QED
    BY <1>1, <1>2, <1>3
    DEF Next, Plan, LoadTarget, StoreVectors, CommitChunk, DeleteChunk, DropActive,
        CommitDeletion, AbortDeletion, Purge, vars, Builds, TypeOK

\* While its knowledge base is not contested, a generation that is built stays BUILDING:
\* only the build itself settles it.
LEMMA NextBuildIsOwned ==
    ASSUME TypeOK, BuildIsOwned, ActiveWasPromoted, [Next]_vars
    PROVE  BuildIsOwned'
  <1>1. ASSUME NEW w \in Workers, pc'[w] # "idle" PROVE status'[gen'[w]] # "NONE"
    <2>1. CASE Choose(w)
      BY <2>1 DEF Choose, TypeOK, recordVars
    <2>2. CASE gen'[w] = gen[w] /\ pc[w] # "idle"
      BY <2>2, OnceSettled DEF BuildIsOwned, TypeOK
    <2>3. Choose(w) \/ (gen'[w] = gen[w] /\ pc[w] # "idle")
      <3>1. CASE Builds(w)'
        BY <3>1, BuildSteps
      <3>2. CASE UNCHANGED <<pc, gen>>
        BY <1>1, <3>2
      <3>3. ASSUME NEW v \in Workers, Work(v) \/ BuildError(v) \/ Crash(v), ~Builds(w)'
            PROVE  Choose(w) \/ (gen'[w] = gen[w] /\ pc[w] # "idle")
        <4>1. pc'[w] = "chosen"
          BY <1>1, <3>3 DEF Builds
        <4> QED
          BY <3>3, <4>1
          DEF Work, Choose, Lock, Snapshot, RecordMissing, InsertBatch, Validate, ReadActive,
              Promote, RecordFailure, BuildError, Crash, Leave, Goto, TypeOK
      <3> QED
        BY <3>1, <3>2, <3>3
        DEF Next, Plan, LoadTarget, StoreVectors, CommitChunk, DeleteChunk, DropActive,
            CommitDeletion, AbortDeletion, Purge, vars
    <2> QED
      BY <2>1, <2>2, <2>3
  <1>2. ASSUME NEW w \in Workers, Builds(w)', kbOf'[gen'[w]] \notin contested'
        PROVE  status'[gen'[w]] = "BUILDING"
    <2>1. /\ gen'[w] = gen[w] /\ gen[w] \in Gens /\ pc[w] # "idle"
          /\ Builds(w) \/ (Lock(w) /\ Goto(w, "locked"))
          /\ ~Promote(w) /\ ~RecordFailure(w)
      BY <1>2, BuildSteps
    <2>2. status[gen[w]] # "NONE" /\ kbOf'[gen[w]] = kbOf[gen[w]]
      BY <2>1, OnceSettled DEF BuildIsOwned
    <2>3. kbOf[gen[w]] \notin contested
      BY <1>2, <2>1, <2>2, ContestedSteps
    <2>4. CASE Lock(w) /\ Goto(w, "locked")
      <3>1. Builds(w)' /\ pc[w] = "chosen" /\ ~ \E v \in Workers : Holds(v, gen[w])
        BY <1>2, <2>4 DEF Lock, Leave, Goto, TypeOK
      <3>2. kbOf[gen[w]] \in KBs /\ status' = status
        BY <2>1, <2>4 DEF Lock, recordVars, TypeOK
      <3> QED
        BY <1>2, <2>1, <2>2, <2>4, <3>1, <3>2 DEF Lock
    <2>5. CASE Builds(w)
      <3>1. status[gen[w]] = "BUILDING"
        BY <2>3, <2>5 DEF BuildIsOwned
      <3>2. ASSUME NEW v \in Workers, Promote(v) \/ RecordFailure(v), gen[v] = gen[w]
            PROVE  FALSE
        <4>1. Builds(v) /\ v # w
          BY <2>1, <3>2 DEF Promote, RecordFailure, Builds
        <4> QED
          BY <2>3, <2>5, <3>2, <4>1 DEF BuildIsOwned
      <3>3. ASSUME NEW v \in Workers, Promote(v), gen[w] \in old[v] PROVE FALSE
        BY <2>3, <3>1, <3>3 DEF ActiveWasPromoted
      <3> QED
        BY <2>1, <3>1, <3>2, <3>3, StatusSteps
    <2> QED
      BY <2>1, <2>4, <2>5
  <1>3. ASSUME NEW v \in Workers, NEW w \in Workers, Builds(v)', Builds(w)', v # w,
               kbOf'[gen'[v]] = kbOf'[gen'[w]]
        PROVE  kbOf'[gen'[v]] \in contested'
    <2>1. /\ gen'[w] = gen[w] /\ gen[w] \in Gens /\ status[gen[w]] # "NONE"
          /\ gen'[v] = gen[v] /\ gen[v] \in Gens /\ status[gen[v]] # "NONE"
      BY <1>3, BuildSteps DEF BuildIsOwned
    <2>2. kbOf'[gen[w]] = kbOf[gen[w]] /\ kbOf'[gen[v]] = kbOf[gen[v]]
      BY <2>1, OnceSettled
    <2>3. CASE Builds(v) /\ Builds(w)
      BY <1>3, <2>1, <2>2, <2>3, ContestedSteps DEF BuildIsOwned
    <2>4. ASSUME NEW x \in Workers, NEW y \in Workers, Lock(x), Goto(x, "locked"), Builds(y),
                 kbOf[gen[x]] = kbOf[gen[y]], Builds(x)'
          PROVE  kbOf[gen[x]] \in contested'
      <3>1. ~Leave(x)
        BY <2>4 DEF Leave, Goto, Builds, TypeOK
      <3> QED
        BY <2>4, <3>1 DEF Lock
    <2>5. ~(Lock(v) /\ Goto(v, "locked") /\ Lock(w) /\ Goto(w, "locked"))
      BY <1>3 DEF Lock, Goto, TypeOK
    <2> QED
      BY <1>3, <2>1, <2>2, <2>3, <2>4, <2>5, BuildSteps
  <1> QED
    BY <1>1, <1>2, <1>3 DEF BuildIsOwned

\* Which steps change what a promotion has read.
LEMMA OldSteps ==
    ASSUME TypeOK, [Next]_vars, NEW w \in Workers
    PROVE  \/ ReadActive(w)
           \/ old'[w] = {}
           \/ old'[w] = old[w] /\ (Builds(w) => gen'[w] = gen[w] /\ Builds(w)')
  <1>1. CASE UNCHANGED <<pc, gen, workVars>>
    BY <1>1 DEF Builds, workVars
  <1>2. ASSUME NEW v \in Workers, v # w, Work(v) \/ BuildError(v) \/ Crash(v)
        PROVE  pc'[w] = pc[w] /\ gen'[w] = gen[w] /\ old'[w] = old[w]
    BY <1>2
    DEF Work, Choose, Lock, Snapshot, RecordMissing, InsertBatch, Validate, ReadActive,
        Promote, RecordFailure, BuildError, Crash, Leave, Goto, TypeOK, workVars
  <1>3. CASE Leave(w)
    BY <1>3 DEF Leave, TypeOK
  <1>4. CASE \/ Choose(w) \/ Snapshot(w) \/ InsertBatch(w) \/ Validate(w) \/ BuildError(w)
             \/ Lock(w) /\ ~Leave(w)
    BY <1>4
    DEF Choose, Lock, Snapshot, InsertBatch, Validate, BuildError, Goto, TypeOK, workVars, Builds
  <1> QED
    BY <1>1, <1>2, <1>3, <1>4
    DEF Next, Work, Plan, LoadTarget, StoreVectors, CommitChunk, DeleteChunk, DropActive,
        CommitDeletion, AbortDeletion, Purge, vars, RecordMissing, Promote, RecordFailure, Crash,
        Builds

\* What has been promoted once, and read as such, never becomes BUILDING again.
LEMMA NextActiveWasPromoted ==
    ASSUME TypeOK, BuildIsOwned, ActiveWasPromoted, [Next]_vars
    PROVE  ActiveWasPromoted'
  <1>1. ASSUME NEW k \in KBs
        PROVE  (kbOf[active[k]] = k /\ status[active[k]] \notin {"NONE", "BUILDING"})'
    <2>1. active[k] \in Gens /\ kbOf[active[k]] = k /\ status[active[k]] \notin {"NONE", "BUILDING"}
      BY DEF ActiveWasPromoted, TypeOK
    <2>2. CASE active'[k] = active[k]
      BY <2>1, <2>2, OnceSettled
    <2>3. ASSUME NEW w \in Workers, Promote(w), active'[k] # active[k]
          PROVE  (kbOf[active[k]] = k /\ status[active[k]] \notin {"NONE", "BUILDING"})'
      <3>1. gen[w] \in Gens /\ k = kbOf[gen[w]] /\ active'[k] = gen[w] /\ kbOf' = kbOf
        BY <2>3 DEF Promote, TypeOK
      <3>2. status'[gen[w]] = IF gen[w] \in old[w] THEN status[gen[w]] ELSE "ACTIVE"
        BY <2>3, <3>1 DEF Promote
      <3> QED
        BY <3>1, <3>2 DEF ActiveWasPromoted
    <2> QED
      BY <2>2, <2>3, ActiveSteps
  <1>2. ASSUME NEW w \in Workers, NEW g \in old'[w]
        PROVE  (Builds(w) /\ kbOf[g] = kbOf[gen[w]] /\ status[g] \notin {"NONE", "BUILDING"})'
    <2>1. CASE ReadActive(w)
      <3>1. g \in Recorded(kbOf[gen[w]]) /\ gen' = gen /\ kbOf' = kbOf /\ status' = status
        BY <1>2, <2>1 DEF ReadActive, recordVars, TypeOK
      <3>2. Builds(w)'
        BY <2>1 DEF ReadActive, Goto, Builds, TypeOK
      <3> QED
        BY <3>1, <3>2 DEF Recorded
    <2>2. CASE old'[w] = old[w] /\ (Builds(w) => gen'[w] = gen[w] /\ Builds(w)')
      <3>1. /\ Builds(w) /\ g \in Gens /\ kbOf[g] = kbOf[gen[w]]
            /\ status[g] \notin {"NONE", "BUILDING"}
        BY <1>2, <2>2 DEF ActiveWasPromoted, TypeOK
      <3>2. gen[w] \in Gens /\ status[gen[w]] # "NONE"
        BY <3>1 DEF BuildIsOwned, Builds, TypeOK
      <3> QED
        BY <2>2, <3>1, <3>2, OnceSettled
    <2> QED
      BY <1>2, <2>1, <2>2, OldSteps
  <1> QED
    BY <1>1, <1>2 DEF ActiveWasPromoted

\* The set of ACTIVE records of a knowledge base changes by a promotion only, unless its
\* builds are contested: no other build records a failure of a generation that is ACTIVE.
LEMMA RecordedSteps ==
    ASSUME TypeOK, BuildIsOwned, [Next]_vars, NEW k \in KBs, k \notin contested,
           ~ \E w \in Workers : Promote(w) /\ kbOf[gen[w]] = k, ActiveWasPromoted
    PROVE  Recorded(k)' = Recorded(k)
  <1> SUFFICES ASSUME NEW g \in Gens
               PROVE  (kbOf'[g] = k /\ status'[g] = "ACTIVE") <=>
                      (kbOf[g] = k /\ status[g] = "ACTIVE")
    BY DEF Recorded
  <1>1. CASE status'[g] = status[g]
    BY <1>1, OwnerSteps
  <1>2. CASE status'[g] # status[g] /\ kbOf[g] = k
    <2>1. ASSUME NEW w \in Workers, RecordFailure(w), g = gen[w]
          PROVE  status[g] = "BUILDING"
      BY <1>2, <2>1 DEF RecordFailure, BuildIsOwned, Builds
    <2>2. ASSUME NEW w \in Workers, Promote(w) PROVE g # gen[w] /\ g \notin old[w]
      BY <1>2, <2>2 DEF ActiveWasPromoted
    <2>3. status[g] # "ACTIVE" /\ status'[g] # "ACTIVE"
      BY <1>2, <2>1, <2>2, StatusSteps
    <2> QED
      BY <2>3
  <1>3. CASE kbOf[g] # k
    <2>1. ASSUME NEW w \in Workers, Promote(w) PROVE status[gen[w]] # "NONE"
      BY <2>1 DEF Promote, BuildIsOwned
    <2>2. status'[g] = "ACTIVE" => status[g] # "NONE"
      BY <2>1, StatusSteps
    <2> QED
      BY <1>3, <2>2, OwnerSteps
  <1> QED
    BY <1>1, <1>2, <1>3

\* What a promotion does to the records of a knowledge base that is not contested, and
\* what it leaves alone in any case: the other knowledge bases.
LEMMA PromoteRecords ==
    ASSUME TypeOK, ActiveIsRecorded, BuildIsOwned, ActiveWasPromoted, ViewIsCurrent,
           NEW w \in Workers, Promote(w), NEW k \in KBs
    PROVE  /\ k # kbOf[gen[w]] => active'[k] = active[k]
           /\ k = kbOf[gen[w]] /\ k \notin contested =>
                 active'[k] = gen[w] /\ Recorded(k)' = {gen[w]}
  <1> DEFINE g == gen[w]
  <1>1. g \in Gens /\ Builds(w)
    BY DEF Promote, Builds, TypeOK
  <1>2. k # kbOf[g] => active'[k] = active[k]
    BY <1>1 DEF Promote, TypeOK
  <1>3. ASSUME k = kbOf[g], k \notin contested
        PROVE  active'[k] = g /\ Recorded(k)' = {g}
    <2>1. status[g] = "BUILDING"
      BY <1>1, <1>3 DEF BuildIsOwned
    <2>2. old[w] = Recorded(k) /\ base[w] = active[k] /\ g \notin Recorded(k)
      BY <1>3, <2>1 DEF Promote, ViewIsCurrent, Recorded
    <2>3. base[w] # g
      BY <1>1, <1>3, <2>2 DEF ActiveIsRecorded
    <2>4. active'[k] = g
      BY <1>1, <1>3, <2>3 DEF Promote, TypeOK
    <2>5. /\ kbOf' = kbOf
          /\ \A h \in Gens : status'[h] = IF h \in Recorded(k) THEN "RETIRED"
                                          ELSE IF h = g THEN "ACTIVE" ELSE status[h]
      BY <2>2 DEF Promote
    <2>6. g \in Recorded(k)'
      BY <1>1, <1>3, <2>2, <2>5 DEF Recorded
    <2>7. ASSUME NEW h \in Gens, h # g PROVE h \notin Recorded(k)'
      BY <2>5, <2>7 DEF Recorded
    <2>8. Recorded(k)' \subseteq Gens
      BY DEF Recorded
    <2> QED
      BY <1>1, <2>4, <2>6, <2>7, <2>8
  <1> QED
    BY <1>2, <1>3

LEMMA NextActiveIsRecorded ==
    ASSUME TypeOK, ActiveIsRecorded, BuildIsOwned, ActiveWasPromoted, ViewIsCurrent, [Next]_vars
    PROVE  ActiveIsRecorded'
  <1> SUFFICES ASSUME NEW k \in KBs, k \notin contested'
               PROVE  Recorded(k)' = {active'[k]}
    BY DEF ActiveIsRecorded
  <1>1. k \notin contested
    BY ContestedSteps
  <1>2. CASE \E w \in Workers : Promote(w) /\ kbOf[gen[w]] = k
    <2>1. PICK w \in Workers : Promote(w) /\ kbOf[gen[w]] = k
      BY <1>2
    <2>2. active'[k] = gen[w] /\ Recorded(k)' = {gen[w]}
      BY <1>1, <2>1, PromoteRecords
    <2> QED
      BY <2>2
  <1>3. CASE ~ \E w \in Workers : Promote(w) /\ kbOf[gen[w]] = k
    <2>1. active'[k] = active[k]
      BY <1>3, ActiveSteps, PromoteRecords
    <2> QED
      BY <1>1, <1>3, <2>1, RecordedSteps DEF ActiveIsRecorded
  <1> QED
    BY <1>2, <1>3

\* Only a step of the build itself disturbs what it has read.
LEMMA NextViewIsCurrent ==
    ASSUME TypeOK, ActiveIsRecorded, BuildIsOwned, ActiveWasPromoted, ViewIsCurrent, [Next]_vars
    PROVE  ViewIsCurrent'
  <1> SUFFICES ASSUME NEW w \in Workers, pc'[w] = "promoting", kbOf'[gen'[w]] \notin contested'
               PROVE  (old[w] = Recorded(kbOf[gen[w]]) /\ base[w] = active[kbOf[gen[w]]])'
    BY DEF ViewIsCurrent
  <1> DEFINE k == kbOf[gen[w]]
  <1>1. /\ gen'[w] = gen[w] /\ gen[w] \in Gens /\ pc[w] # "idle"
        /\ Builds(w) /\ ~Promote(w) /\ ~Lock(w)
    <2>1. Builds(w)'
      BY DEF Builds
    <2>2. ~Lock(w)
      BY DEF Lock, Leave, Goto, TypeOK
    <2> QED
      BY <2>1, <2>2, BuildSteps
  <1>2. k \in KBs /\ kbOf'[gen'[w]] = k /\ k \notin contested
    BY <1>1, OnceSettled, ContestedSteps DEF BuildIsOwned, TypeOK
  <1>3. ~ \E v \in Workers : Promote(v) /\ kbOf[gen[v]] = k
    BY <1>1, <1>2 DEF BuildIsOwned, Promote, Builds
  <1>4. active'[k] = active[k] /\ Recorded(k)' = Recorded(k)
    BY <1>2, <1>3, ActiveSteps, PromoteRecords, RecordedSteps
  <1>5. CASE ReadActive(w)
    <2>1. old'[w] = Recorded(k) /\ base'[w] = active[k]
      BY <1>5 DEF ReadActive, TypeOK
    <2> QED
      BY <1>2, <1>4, <2>1
  <1>7. CASE pc[w] = "promoting" /\ old'[w] = old[w] /\ base'[w] = base[w]
    BY <1>2, <1>4, <1>7 DEF ViewIsCurrent
  <1>8. ReadActive(w) \/ (pc[w] = "promoting" /\ old'[w] = old[w] /\ base'[w] = base[w])
    <2>1. CASE UNCHANGED <<pc, gen, workVars>>
      BY <2>1 DEF workVars
    <2>2. ASSUME NEW v \in Workers, v # w, Work(v) \/ BuildError(v) \/ Crash(v)
          PROVE  pc'[w] = pc[w] /\ old'[w] = old[w] /\ base'[w] = base[w]
      BY <2>2
      DEF Work, Choose, Lock, Snapshot, RecordMissing, InsertBatch, Validate, ReadActive,
          Promote, RecordFailure, BuildError, Crash, Leave, Goto, TypeOK, workVars
    <2>3. ASSUME Work(w) \/ BuildError(w) \/ Crash(w) PROVE ReadActive(w)
      BY <2>3
      DEF Work, Choose, Lock, Snapshot, RecordMissing, InsertBatch, Validate, Promote,
          RecordFailure, BuildError, Crash, Leave, Goto, TypeOK
    <2> QED
      BY <2>1, <2>2, <2>3
      DEF Next, Plan, LoadTarget, StoreVectors, CommitChunk, DeleteChunk, DropActive,
          CommitDeletion, AbortDeletion, Purge, vars
  <1> QED
    BY <1>5, <1>7, <1>8

\* Ingestions only write to collections that are no longer being built.
LEMMA NextTargetWasActive ==
    ASSUME TypeOK, ActiveWasPromoted, TargetWasActive, [Next]_vars
    PROVE  TargetWasActive'
  <1> SUFFICES ASSUME NEW c \in Chunks, target'[c] # NoGen
               PROVE  status'[target'[c]] \notin {"NONE", "BUILDING"}
    BY DEF TargetWasActive
  <1>1. CASE target'[c] = target[c]
    <2>1. target[c] \in Gens /\ status[target[c]] \notin {"NONE", "BUILDING"}
      BY <1>1 DEF TypeOK, TargetWasActive
    <2> QED
      BY <1>1, <2>1, OnceSettled
  <1>2. CASE LoadTarget(c)
    <2>1. ChunkKB[c] \in KBs
      BY ConstantsAssumption
    <2>2. target'[c] = active[ChunkKB[c]] /\ status' = status
      BY <1>2 DEF LoadTarget, recordVars, TypeOK
    <2> QED
      BY <2>1, <2>2 DEF ActiveWasPromoted
  <1>3. target'[c] = target[c] \/ LoadTarget(c) \/ target'[c] = NoGen
    <2>1. CASE target' = target
      BY <2>1
    <2>2. ASSUME NEW d \in Chunks, LoadTarget(d) \/ CommitChunk(d)
          PROVE  target'[c] = target[c] \/ LoadTarget(c) \/ target'[c] = NoGen
      BY <2>2 DEF LoadTarget, CommitChunk, TypeOK
    <2> QED
      BY <2>1, <2>2
      DEF Next, Work, Plan, StoreVectors, DeleteChunk, DropActive, CommitDeletion,
          AbortDeletion, Purge, Choose, Lock, Snapshot, RecordMissing, InsertBatch,
          Validate, ReadActive, Promote, RecordFailure, BuildError, Crash, vars, chunkVars
  <1> QED
    BY <1>1, <1>2, <1>3

\* Nobody but the worker touches the collection it is building, while that is BUILDING.
LEMMA OthersKeepTheBuild ==
    ASSUME TypeOK, ActiveWasPromoted, TargetWasActive,
           NEW g \in Gens, status[g] = "BUILDING", [Next]_vars,
           ~ \E v \in Workers : InsertBatch(v) /\ gen[v] = g
    PROVE  /\ coll'[g] = coll[g]
           /\ g \in present => g \in present'
  <1>2. ASSUME NEW k \in KBs PROVE active[k] # g /\ active[k] \in Gens
    BY DEF ActiveWasPromoted, TypeOK
  <1>3. ASSUME NEW c \in Chunks PROVE target[c] # g /\ ChunkKB[c] \in KBs
    BY KBsAreGens, ConstantsAssumption DEF TargetWasActive
  <1>4. CASE UNCHANGED milvusVars
    BY <1>4 DEF milvusVars
  <1>5. ASSUME NEW c \in Chunks, StoreVectors(c)
        PROVE  coll'[g] = coll[g] /\ present' = present
    BY <1>3, <1>5 DEF StoreVectors, TypeOK
  <1>6. ASSUME NEW c \in Chunks, DeleteChunk(c)
        PROVE  coll'[g] = coll[g] /\ present' = present
    BY <1>2, <1>3, <1>6 DEF DeleteChunk, TypeOK
  <1>7. ASSUME NEW k \in KBs, DropActive(k)
        PROVE  coll'[g] = coll[g] /\ (g \in present => g \in present')
    BY <1>2, <1>7 DEF DropActive, milvusVars, TypeOK
  <1>8. ASSUME NEW h \in Gens, Purge(h)
        PROVE  coll'[g] = coll[g] /\ (g \in present => g \in present')
    BY <1>8 DEF Purge, Retirable, TypeOK
  <1>9. ASSUME NEW v \in Workers, InsertBatch(v)
        PROVE  coll'[g] = coll[g] /\ (g \in present => g \in present')
    <2>1. gen[v] # g
      BY <1>9
    <2> QED
      BY <1>9, <2>1 DEF InsertBatch, TypeOK
  <1> QED
    BY <1>4, <1>5, <1>6, <1>7, <1>8, <1>9
    DEF Next, Work, Plan, LoadTarget, CommitChunk, CommitDeletion, AbortDeletion, Choose,
        Lock, Snapshot, RecordMissing, Validate, ReadActive, Promote, RecordFailure,
        BuildError, Crash, vars, milvusVars

\* A collection with as many vectors as the snapshot has chunks, and a vector of
\* each of them, holds exactly one vector of each.
LEMMA CountSuffices ==
    ASSUME CollectionsOK, NEW g \in Gens, NEW cs \in SUBSET Chunks,
           \A c \in cs : VectorsOf(g, c) # {},
           Cardinality(coll[g]) = Cardinality(cs)
    PROVE  coll[g] = Exactly(cs)
  <1>1. IsFiniteSet(coll[g])
    BY DEF CollectionsOK, VectorsAreNumbered
  <1>2. Exactly(cs) \subseteq coll[g]
    BY DEF CollectionsOK, VectorsAreNumbered, Exactly
  <1> QED
    BY <1>1, <1>2, ExactlyCardinality, FS_Subset

\* What the build of a knowledge base that is not contested has inserted is in its collection.
LEMMA NextBuildProgress ==
    ASSUME TypeOK, CollectionsOK, BuildIsOwned, ActiveWasPromoted, TargetWasActive,
           BuildProgress, [Next]_vars
    PROVE  BuildProgress'
  <1> SUFFICES ASSUME NEW w \in Workers, Builds(w)', kbOf'[gen'[w]] \notin contested'
               PROVE  (/\ pc[w] = "building" =>
                             /\ snap[w] # {}
                             /\ todo[w] \subseteq snap[w]
                             /\ todo[w] # snap[w] => gen[w] \in present
                             /\ \A c \in snap[w] \ todo[w] : VectorsOf(gen[w], c) # {}
                       /\ pc[w] \in {"validated", "promoting"} =>
                             /\ gen[w] \in present
                             /\ coll[gen[w]] = Exactly(snap[w]))'
    BY DEF BuildProgress
  <1> DEFINE g == gen[w]
             k == kbOf[g]
  <1>1. /\ gen'[w] = g /\ g \in Gens /\ status[g] # "NONE"
        /\ Builds(w) \/ (Lock(w) /\ Goto(w, "locked"))
    BY BuildSteps DEF BuildIsOwned
  <1>2. k \notin contested
    BY <1>1, OnceSettled, ContestedSteps
  <1>3. CASE Lock(w) /\ Goto(w, "locked")
    BY <1>3 DEF Goto, TypeOK
  <1>4. CASE /\ Builds(w) /\ pc'[w] = pc[w] /\ snap'[w] = snap[w] /\ todo'[w] = todo[w]
             /\ ~InsertBatch(w)
    <2>1. status[g] = "BUILDING"
      BY <1>2, <1>4 DEF BuildIsOwned
    <2>2. ~ \E v \in Workers : InsertBatch(v) /\ gen[v] = g
      BY <1>2, <1>4 DEF InsertBatch, BuildIsOwned, Builds
    <2>3. coll'[g] = coll[g] /\ (g \in present => g \in present')
      BY <1>1, <2>1, <2>2, OthersKeepTheBuild
    <2> QED
      BY <1>1, <1>2, <1>4, <2>3 DEF BuildProgress, VectorsOf, Exactly
  <1>5. CASE InsertBatch(w)
    <2> DEFINE exists == present \cup (IF todo[w] = snap[w] THEN {g} ELSE {})
    <2>1. PICK c \in todo[w] :
            /\ present' = exists
            /\ coll' = IF g \in exists
                       THEN [coll EXCEPT ![g] = @ \cup {NextVector(g, c)}]
                       ELSE coll
            /\ todo' = [todo EXCEPT ![w] = @ \ {c}]
      BY <1>5 DEF InsertBatch
    <2>2. /\ pc[w] = "building" /\ Builds(w) /\ pc' = pc /\ gen' = gen /\ snap' = snap
          /\ g \in Gens /\ c \in Chunks
      BY <1>5 DEF InsertBatch, Builds, TypeOK
    <2>3. g \in exists
      BY <1>2, <2>2 DEF BuildProgress
    <2>4. CollectionsOK' /\ VectorsOf(g, c)' # {}
      BY <2>1, <2>2, <2>3, AddVector
    <2>5. ASSUME NEW d \in Chunks, VectorsOf(g, d) # {} PROVE VectorsOf(g, d)' # {}
      BY <2>1, <2>2, <2>3, <2>5 DEF CollectionsOK, VectorsOf
    <2>6. todo'[w] = todo[w] \ {c} /\ snap[w] \subseteq Chunks
      BY <2>1 DEF TypeOK
    <2>7. ASSUME NEW d \in snap[w] \ todo'[w] PROVE VectorsOf(g, d)' # {}
      BY <1>2, <2>2, <2>4, <2>5, <2>6 DEF BuildProgress
    <2>8. \A d \in snap'[w] \ todo'[w] : VectorsOf(g, d)' # {}
      BY <2>2, <2>7
    <2>9. gen'[w] \in present'
      BY <2>1, <2>2, <2>3
    <2>10. snap[w] # {} /\ todo[w] \subseteq snap[w]
      BY <1>2, <2>2 DEF BuildProgress
    <2> QED
      BY <2>2, <2>6, <2>8, <2>9, <2>10 DEF VectorsOf
  <1>6. CASE Snapshot(w)
    BY <1>6 DEF Snapshot, Goto, TypeOK
  <1>7. CASE Validate(w)
    <2>1. /\ pc[w] = "building" /\ Builds(w) /\ todo[w] = {}
          /\ gen' = gen /\ snap' = snap /\ coll' = coll /\ present' = present
      BY <1>7 DEF Validate, workVars, milvusVars, Builds
    <2>2. g \in present /\ \A c \in snap[w] : VectorsOf(g, c) # {}
      BY <1>2, <2>1 DEF BuildProgress
    <2>3. CASE Cardinality(coll[g]) = Cardinality(snap[w])
      <3>1. snap[w] \in SUBSET Chunks
        BY DEF TypeOK
      <3>2. coll[g] = Exactly(snap[w])
        BY <1>1, <2>2, <2>3, <3>1, CountSuffices
      <3> QED
        BY <1>7, <2>1, <2>2, <2>3, <3>2 DEF Validate, Goto, Exactly, TypeOK
    <2>4. CASE Cardinality(coll[g]) # Cardinality(snap[w])
      BY <1>7, <2>4 DEF Validate, Goto, TypeOK
    <2> QED
      BY <2>3, <2>4
  <1>8. CASE ReadActive(w)
    <2>1. Builds(w) /\ pc[w] = "validated"
      BY <1>8 DEF ReadActive, Builds
    <2> QED
      BY <1>2, <1>8, <2>1 DEF ReadActive, Goto, TypeOK, BuildProgress, Exactly, milvusVars
  <1>9. CASE BuildError(w)
    BY <1>9 DEF BuildError, Goto, TypeOK
  <1>10. CASE \E v \in Workers : v # w /\ (Work(v) \/ BuildError(v) \/ Crash(v))
    <2>1. ~InsertBatch(w)
      <3>1. CASE UNCHANGED todo
        BY <3>1 DEF InsertBatch, TypeOK
      <3>2. CASE ~UNCHANGED todo
        BY <1>10, <3>2
        DEF Work, Choose, Lock, Snapshot, RecordMissing, InsertBatch, Validate, ReadActive,
            Promote, RecordFailure, BuildError, Crash, Leave, TypeOK, workVars
      <3> QED
        BY <3>1, <3>2
    <2>2. pc'[w] = pc[w] /\ snap'[w] = snap[w] /\ todo'[w] = todo[w]
      BY <1>10
      DEF Work, Choose, Lock, Snapshot, RecordMissing, InsertBatch, Validate, ReadActive,
          Promote, RecordFailure, BuildError, Crash, Leave, Goto, TypeOK, workVars
    <2> QED
      BY <1>1, <1>3, <1>4, <2>1, <2>2
  <1>11. CASE UNCHANGED <<pc, gen, workVars>>
    <2>1. ~InsertBatch(w)
      BY <1>11 DEF InsertBatch, TypeOK, workVars
    <2> QED
      BY <1>1, <1>3, <1>4, <1>11, <2>1 DEF workVars
  <1>12. ~Leave(w) /\ ~Choose(w)
    BY DEF Leave, Choose, Goto, Builds, TypeOK
  <1> QED
    BY <1>1, <1>3, <1>5, <1>6, <1>7, <1>8, <1>9, <1>10, <1>11, <1>12
    DEF Next, Work, Plan, LoadTarget, StoreVectors, CommitChunk, DeleteChunk, DropActive,
        CommitDeletion, AbortDeletion, Purge, vars, Lock, RecordMissing, Promote, RecordFailure,
        Crash

\* The active collection exists: a promotion brings its own, and only a deletion
\* of the knowledge base or the retention drops collections.
LEMMA NextActiveIsPresent ==
    ASSUME TypeOK, ActiveIsRecorded, ActiveIsPresent, BuildIsOwned, ActiveWasPromoted,
           ViewIsCurrent, BuildProgress, [Next]_vars
    PROVE  ActiveIsPresent'
  <1> SUFFICES ASSUME NEW k \in KBs, k \notin contested', kbState'[k] = "live"
               PROVE  active'[k] \in present'
    BY DEF ActiveIsPresent
  <1>1. k \notin contested /\ kbState[k] = "live" /\ active[k] \in present
    <2>1. kbState[k] = "live"
      BY DEF Next, Work, Plan, LoadTarget, StoreVectors, CommitChunk, DeleteChunk, DropActive,
         CommitDeletion, AbortDeletion, Purge, Choose, Lock, Snapshot, RecordMissing,
         InsertBatch, Validate, ReadActive, Promote, RecordFailure, BuildError, Crash,
         vars, kbVars, TypeOK
    <2> QED
      BY <2>1, ContestedSteps DEF ActiveIsPresent
  <1>2. active[k] \in Recorded(k) /\ status[active[k]] = "ACTIVE" /\ kbOf[active[k]] = k
    BY <1>1 DEF ActiveIsRecorded, Recorded
  <1>3. ASSUME NEW w \in Workers, Promote(w) PROVE active'[k] \in present'
    <2>1. present' = present
      BY <1>3 DEF Promote, milvusVars
    <2>2. CASE kbOf[gen[w]] = k
      <3>1. gen[w] \in present
        BY <1>1, <1>3, <2>2 DEF Promote, BuildProgress, Builds
      <3> QED
        BY <1>1, <1>3, <2>1, <2>2, <3>1, PromoteRecords
    <2>3. CASE kbOf[gen[w]] # k
      BY <1>1, <1>3, <2>1, <2>3, PromoteRecords
    <2> QED
      BY <2>2, <2>3
  <1>4. CASE ~ \E w \in Workers : Promote(w)
    <2>1. active'[k] = active[k]
      BY <1>4, ActiveSteps
    <2>2. ASSUME NEW g \in Gens, Purge(g) PROVE active[k] \in present'
      BY <1>1, <1>2, <2>2 DEF Purge, Retirable
    <2>3. ASSUME NEW j \in KBs, DropActive(j) PROVE active[k] \in present'
      <3>1. j # k
        BY <2>3 DEF DropActive, TypeOK
      <3>2. active[j] # active[k]
        BY <3>1 DEF ActiveWasPromoted
      <3> QED
        BY <1>1, <2>3, <3>2 DEF DropActive, milvusVars
    <2>4. ASSUME NEW w \in Workers, InsertBatch(w) PROVE active[k] \in present'
      BY <1>1, <2>4 DEF InsertBatch
    <2>5. CASE present' = present
      BY <1>1, <2>1, <2>5
    <2> QED
      BY <1>4, <2>1, <2>2, <2>3, <2>4, <2>5
      DEF Next, Work, Plan, LoadTarget, StoreVectors, CommitChunk, DeleteChunk,
          CommitDeletion, AbortDeletion, Choose, Lock, Snapshot, RecordMissing,
          Validate, ReadActive, RecordFailure, BuildError, Crash, vars, milvusVars
  <1> QED
    BY <1>3, <1>4

-----------------------------------------------------------------------------
LEMMA InitIInv == Init => IInv
  <1> SUFFICES ASSUME Init PROVE IInv
    OBVIOUS
  <1>1. TypeOK
    BY InitTypeOK
  <1>2. ActiveIsRecorded /\ ActiveIsPresent
    BY KBsAreGens DEF Init, ActiveIsRecorded, ActiveIsPresent, Recorded
  <1>3. BuildIsOwned /\ ViewIsCurrent /\ TargetWasActive /\ BuildProgress
    BY DEF Init, BuildIsOwned, ViewIsCurrent, TargetWasActive, BuildProgress, Builds, NoGen
  <1>5. ActiveWasPromoted
    BY KBsAreGens DEF Init, ActiveWasPromoted
  <1>4. VectorsAreNumbered
    <2> SUFFICES ASSUME NEW g \in Gens
                 PROVE  /\ IsFiniteSet(coll[g])
                        /\ \A c \in Chunks : VectorsOf(g, c) # {} => <<c, 0>> \in coll[g]
      BY DEF VectorsAreNumbered
    <2>1. coll[g] = Exactly({i \in Ingested : ChunkKB[i] = g})
      BY DEF Init, Exactly
    <2>2. {i \in Ingested : ChunkKB[i] = g} \subseteq Chunks
      BY ConstantsAssumption
    <2>3. IsFiniteSet(coll[g])
      BY <2>1, <2>2, ExactlyCardinality
    <2> QED
      BY <2>1, <2>3 DEF Exactly, VectorsOf
  <1> QED
    BY <1>1, <1>2, <1>3, <1>4, <1>5 DEF IInv

\* The conjunction of the invariants is inductive, with any number of build workers.
THEOREM InductiveInvariant == Spec => []IInv
  <1>1. IInv /\ [Next]_vars => IInv'
    <2> SUFFICES ASSUME IInv, [Next]_vars PROVE IInv'
      OBVIOUS
    <2>1. CollectionsOK
      BY DEF IInv, CollectionsOK, TypeOK
    <2>2. CollectionsOK' /\ TypeOK'
      BY <2>1, NextCollections, NextTypeOK DEF IInv
    <2> QED
      BY <2>1, <2>2, NextBuildIsOwned, NextActiveWasPromoted, NextActiveIsRecorded,
         NextViewIsCurrent, NextTargetWasActive, NextBuildProgress, NextActiveIsPresent
      DEF IInv, CollectionsOK
  <1> QED
    BY InitIInv, <1>1, PTL DEF Spec

\* The records and the collection that retrieval reads agree, for every knowledge base
\* whose builds are not contested.
THEOREM ActiveGenerationIsRecorded == Spec => []ActiveIsRecorded
  <1>1. IInv => ActiveIsRecorded
    BY DEF IInv
  <1> QED
    BY <1>1, InductiveInvariant, PTL

\* Retrieval finds the collection it is told to read, under the same condition.
THEOREM ActiveCollectionIsPresent == Spec => []ActiveIsPresent
  <1>1. IInv => ActiveIsPresent
    BY DEF IInv
  <1> QED
    BY <1>1, InductiveInvariant, PTL

\* Comparing numbers is enough when no other build interferes: what is promoted is the
\* snapshot.
THEOREM PromotedCollectionIsComplete == Spec => []PromotedIsComplete
  <1>1. IInv => PromotedIsComplete
    BY DEF IInv, BuildProgress, PromotedIsComplete, Builds
  <1> QED
    BY <1>1, InductiveInvariant, PTL

-----------------------------------------------------------------------------
(***************************************************************************)
(* Reconciliation and repair.                                              *)
(***************************************************************************)

\* The sizes of sets in IndexReconciliation are those of FiniteSets.
LEMMA ReconCardinality == \A S : Recon!Cardinality(S) = Cardinality(S)
  BY DEF Recon!Cardinality, Cardinality

\* What is assumed of the constants of IndexReconciliation.
LEMMA ReconConstants ==
  /\ IsFiniteSet(Items) /\ IsFiniteSet(Records)
  /\ BatchSize \in Nat \ {0} /\ MaxAttempts \in Nat \ {0} /\ MaxRepairFaults \in Nat
  /\ WorkersCrash \in BOOLEAN /\ NoJob \notin Recon!Jobs
  BY ReconciliationAssumption DEF Recon!ReconcileAssumption, Recon!IsFiniteSet, IsFiniteSet

\* The jobs a worker has claimed and not ended.
Held(w) == batch[w] \cup ({job[w]} \ {NoJob})

HeldIsRunning == \A w \in Repairers : \A j \in Held(w) : jobStatus[j] = "RUNNING"

HeldOnce ==
    /\ \A v, w \in Repairers : v # w => Held(v) \cap Held(w) = {}
    /\ \A w \in Repairers : job[w] \notin batch[w]

OnePending ==
    \A j, k \in Recon!Jobs : /\ jobStatus[j] \in Recon!PendingStatus
                       /\ jobStatus[k] \in Recon!PendingStatus
                       /\ Recon!Item(j) = Recon!Item(k)
                       => j = k

\* Rows become ACTIVE at the end of their ingestion, which inserts first.
IngestedOnce ==
    \A i \in Items : /\ rows[i] = "ACTIVE" => ingest[i] = "ended"
                     /\ ingest[i] = "new" => copies[i] = 0

RepairKnows ==
    \A w \in Repairers : found[w] => job[w] # NoJob /\ ingest[Recon!Item(job[w])] = "ended"

RemovedIsGone ==
    \A w \in Repairers : wpc[w] = "removed" /\ found[w] => copies[Recon!Item(job[w])] = 0

JobsInv == HeldIsRunning /\ HeldOnce /\ OnePending
VectorsInv == IngestedOnce /\ RepairKnows /\ RemovedIsGone /\ Recon!NoDuplicateVectors
ReconInv == Recon!TypeOK /\ JobsInv /\ VectorsInv

LEMMA JobsAreFinite == IsFiniteSet(Recon!Jobs)
  BY FS_Product, ReconConstants DEF Recon!Jobs

LEMMA ItemOfJob == \A j \in Recon!Jobs : Recon!Item(j) \in Items
  BY DEF Recon!Jobs, Recon!Item

-----------------------------------------------------------------------------

\* Every variable stays in its domain: initially and after each step.
LEMMA ReconInitType == Recon!Init => Recon!TypeOK
  BY DEF Recon!Init, Recon!TypeOK, Recon!IngestState, Recon!RowState, Recon!RecState,
         Recon!JobStatus, Recon!WorkState

LEMMA ReconNextType == Recon!TypeOK /\ [Recon!Next]_(Recon!vars) => Recon!TypeOK'
  <1> SUFFICES ASSUME Recon!TypeOK, [Recon!Next]_(Recon!vars) PROVE Recon!TypeOK'
    OBVIOUS
  <1> USE ItemOfJob, ReconConstants
      DEF Recon!TypeOK, Recon!IngestState, Recon!RowState, Recon!RecState, Recon!JobStatus,
          Recon!PendingStatus, Recon!WorkState,
          Recon!ingestVars, Recon!recVars, Recon!jobVars, Recon!workVars
  <1>1. CASE UNCHANGED Recon!vars
    BY <1>1 DEF Recon!vars
  <1>2. ASSUME NEW i \in Items, Recon!StoreVectors(i) PROVE Recon!TypeOK'
    BY <1>2 DEF Recon!StoreVectors
  <1>3. ASSUME NEW i \in Items, Recon!CommitRows(i) PROVE Recon!TypeOK'
    BY <1>3 DEF Recon!CommitRows
  <1>4. ASSUME NEW i \in Items, Recon!RollBack(i) PROVE Recon!TypeOK'
    BY <1>4 DEF Recon!RollBack
  <1>5. ASSUME NEW i \in Items, Recon!CleanVectors(i) PROVE Recon!TypeOK'
    BY <1>5 DEF Recon!CleanVectors, Recon!Active
  <1>6. ASSUME NEW i \in Items, Recon!CommitDeletion(i) PROVE Recon!TypeOK'
    BY <1>6 DEF Recon!CommitDeletion
  <1>7. ASSUME NEW i \in Items, Recon!AbortDeletion(i) PROVE Recon!TypeOK'
    BY <1>7 DEF Recon!AbortDeletion, Recon!Fault
  <1>8. CASE Recon!ReadRows
    BY <1>8 DEF Recon!ReadRows, Recon!Active
  <1>9. CASE Recon!ReadExisting
    BY <1>9 DEF Recon!ReadExisting
  <1>10. CASE Recon!ReadPhysical
    BY <1>10 DEF Recon!ReadPhysical, Recon!Stored
  <1>11. CASE Recon!DeleteOrphans
    BY <1>11 DEF Recon!DeleteOrphans
  <1>12. CASE Recon!QueueRepairs
    BY <1>12 DEF Recon!QueueRepairs, Recon!Stop
  <1>13. CASE Recon!AbortReconciliation
    BY <1>13 DEF Recon!AbortReconciliation, Recon!Stop, Recon!Fault
  <1>14. ASSUME NEW w \in Repairers, Recon!Claim(w) PROVE Recon!TypeOK'
    BY <1>14 DEF Recon!Claim, Recon!Claimable
  <1>15. ASSUME NEW w \in Repairers, Recon!LoadJob(w) PROVE Recon!TypeOK'
    BY <1>15 DEF Recon!LoadJob, Recon!Goto
  <1>16. ASSUME NEW w \in Repairers, Recon!RemoveVectors(w) PROVE Recon!TypeOK'
    BY <1>16 DEF Recon!RemoveVectors, Recon!Goto
  <1>17. ASSUME NEW w \in Repairers, Recon!InsertVectors(w) PROVE Recon!TypeOK'
    BY <1>17 DEF Recon!InsertVectors, Recon!Goto
  <1>18. ASSUME NEW w \in Repairers, Recon!Finish(w) PROVE Recon!TypeOK'
    BY <1>18 DEF Recon!Finish, Recon!EndJob, Recon!Goto
  <1>19. ASSUME NEW w \in Repairers, Recon!RepairFails(w) PROVE Recon!TypeOK'
    BY <1>19 DEF Recon!RepairFails, Recon!EndJob, Recon!Goto, Recon!Fault
  <1>20. ASSUME NEW w \in Repairers, Recon!Crash(w) PROVE Recon!TypeOK'
    BY <1>20 DEF Recon!Crash, Recon!Goto, Recon!Fault
  <1> QED
    BY <1>1, <1>2, <1>3, <1>4, <1>5, <1>6, <1>7, <1>8, <1>9, <1>10, <1>11, <1>12, <1>13,
       <1>14, <1>15, <1>16, <1>17, <1>18, <1>19, <1>20 DEF Recon!Next, Recon!Reconcile,
                                                           Recon!Repair

-----------------------------------------------------------------------------
(***************************************************************************)
(* Jobs: who holds one, and how many of an item are pending.               *)
(***************************************************************************)

\* A worker that drops jobs, ends the one it processes, or both.
LEMMA JobReleased ==
    ASSUME Recon!TypeOK, Recon!TypeOK', JobsInv, NEW w \in Repairers,
           batch' = batch \/ batch' = [batch EXCEPT ![w] = {}],
           job' = [job EXCEPT ![w] = NoJob],
           \/ jobStatus' = jobStatus
           \/ /\ job[w] # NoJob
              /\ \E s \in {"SUCCESS", "RETRY", "DEAD"} :
                    jobStatus' = [jobStatus EXCEPT ![job[w]] = s]
    PROVE  JobsInv'
  <1>1. ASSUME NEW v \in Repairers PROVE Held(v)' \subseteq Held(v)
    BY DEF Held, Recon!TypeOK
  <1>2. HeldOnce'
    BY <1>1, ReconConstants DEF HeldOnce, JobsInv, Held, Recon!TypeOK
  <1>3. job[w] \notin Held(w)'
    BY ReconConstants DEF Held, Recon!TypeOK, JobsInv, HeldOnce
  <1>4. HeldIsRunning'
    <2> SUFFICES ASSUME NEW v \in Repairers, NEW j \in Held(v)' PROVE jobStatus'[j] = "RUNNING"
      BY DEF HeldIsRunning
    <2>1. jobStatus[j] = "RUNNING" /\ j \in Recon!Jobs
      BY <1>1, ReconConstants DEF JobsInv, HeldIsRunning, Held, Recon!TypeOK
    <2>2. CASE jobStatus' = jobStatus
      BY <2>1, <2>2
    <2>3. CASE job[w] # NoJob /\ \E s : jobStatus' = [jobStatus EXCEPT ![job[w]] = s]
      <3>1. job[w] \in Held(w)
        BY <2>3 DEF Held
      <3>2. j # job[w]
        BY <3>1, <1>1, <1>3 DEF JobsInv, HeldOnce
      <3> QED
        BY <2>1, <2>3, <3>2 DEF Recon!TypeOK
    <2> QED
      BY <2>2, <2>3
  <1>5. ASSUME NEW j \in Recon!Jobs, jobStatus'[j] \in Recon!PendingStatus
        PROVE  jobStatus[j] \in Recon!PendingStatus
    <2>1. job[w] # NoJob => jobStatus[job[w]] = "RUNNING"
      BY DEF JobsInv, HeldIsRunning, Held
    <2> QED
      BY <1>5, <2>1 DEF Recon!PendingStatus, Recon!TypeOK
  <1>6. OnePending'
    BY <1>5 DEF OnePending, JobsInv
  <1> QED
    BY <1>2, <1>4, <1>6 DEF JobsInv

LEMMA InitJobs == Recon!Init => JobsInv
  BY ReconConstants DEF Recon!Init, JobsInv, HeldIsRunning, HeldOnce, OnePending, Held,
     Recon!PendingStatus

LEMMA ClaimJobs ==
    ASSUME Recon!TypeOK, Recon!TypeOK', JobsInv, NEW w \in Repairers, Recon!Claim(w)
    PROVE  JobsInv'
  <1> PICK b \in SUBSET Recon!Claimable :
        /\ jobStatus' = [j \in Recon!Jobs |-> IF j \in b THEN "RUNNING" ELSE jobStatus[j]]
        /\ batch' = [batch EXCEPT ![w] = b]
    BY DEF Recon!Claim
  <1>1. batch[w] = {} /\ job' = job
    BY DEF Recon!Claim
  <1>2. ASSUME NEW v \in Repairers PROVE Held(v)' = IF v = w THEN Held(v) \cup b ELSE Held(v)
    BY <1>1 DEF Held, Recon!TypeOK
  <1>3. ASSUME NEW v \in Repairers PROVE Held(v) \cap b = {} /\ Held(v) \subseteq Recon!Jobs
    BY DEF JobsInv, HeldIsRunning, Recon!Claimable, Held, Recon!TypeOK
  <1>4. HeldIsRunning'
    BY <1>2, <1>3 DEF JobsInv, HeldIsRunning, Recon!Claimable
  <1>5. \A u, v \in Repairers : u # v => Held(u)' \cap Held(v)' = {}
    BY <1>2, <1>3 DEF JobsInv, HeldOnce
  <1>6. ASSUME NEW v \in Repairers PROVE job'[v] \notin batch'[v]
    <2>1. CASE v = w
      BY <2>1, <1>1, <1>3, ReconConstants DEF Held, Recon!TypeOK, Recon!Claimable
    <2>2. CASE v # w
      BY <2>2, <1>1 DEF Recon!TypeOK, JobsInv, HeldOnce
    <2> QED
      BY <2>1, <2>2
  <1>7. OnePending'
    BY DEF OnePending, JobsInv, Recon!Claimable, Recon!PendingStatus
  <1> QED
    BY <1>4, <1>5, <1>6, <1>7 DEF JobsInv, HeldOnce

LEMMA LoadJobs ==
    ASSUME Recon!TypeOK, Recon!TypeOK', JobsInv, NEW w \in Repairers, Recon!LoadJob(w)
    PROVE  JobsInv'
  <1> PICK j \in batch[w] : /\ job' = [job EXCEPT ![w] = j]
                            /\ batch' = [batch EXCEPT ![w] = @ \ {j}]
    BY DEF Recon!LoadJob
  <1>1. ASSUME NEW v \in Repairers PROVE Held(v)' \subseteq Held(v)
    BY DEF Held, Recon!TypeOK
  <1>2. HeldOnce'
    BY <1>1, ReconConstants DEF HeldOnce, JobsInv, Recon!TypeOK
  <1>3. jobStatus' = jobStatus
    BY DEF Recon!LoadJob, Recon!jobVars
  <1> QED
    BY <1>1, <1>2, <1>3 DEF JobsInv, HeldIsRunning, OnePending

\* New jobs are for items without a pending one, and one for each.
LEMMA QueueJobs ==
    ASSUME Recon!TypeOK, Recon!TypeOK', JobsInv, Recon!QueueRepairs
    PROVE  JobsInv'
  <1> PICK new \in SUBSET {j \in Recon!Jobs : jobStatus[j] \notin Recon!PendingStatus} :
        /\ \A j \in new : Recon!Item(j) \in missing /\ ~Recon!Pending(Recon!Item(j))
        /\ \A i \in missing :
              Recon!Pending(i) \/ Recon!Cardinality({j \in new : Recon!Item(j) = i}) = 1
        /\ jobStatus' = [j \in Recon!Jobs |-> IF j \in new THEN "QUEUED" ELSE jobStatus[j]]
    BY DEF Recon!QueueRepairs
  <1>1. batch' = batch /\ job' = job
    BY DEF Recon!QueueRepairs, Recon!workVars
  <1>2. HeldIsRunning' /\ HeldOnce'
    BY <1>1 DEF JobsInv, HeldIsRunning, HeldOnce, Held, Recon!TypeOK, Recon!PendingStatus
  <1>3. ASSUME NEW j \in new, NEW k \in new, Recon!Item(j) = Recon!Item(k) PROVE j = k
    <2> DEFINE same == {l \in new : Recon!Item(l) = Recon!Item(j)}
    <2>1. Cardinality(same) = 1
      BY ReconCardinality
    <2>2. IsFiniteSet(same)
      BY JobsAreFinite, FS_Subset
    <2>3. PICK x : same = {x}
      BY <2>1, <2>2, FS_Singleton
    <2> QED
      BY <2>3, <1>3
  <1>4. ASSUME NEW j \in new, NEW k \in Recon!Jobs, k \notin new, Recon!Item(j) = Recon!Item(k)
        PROVE  jobStatus'[k] \notin Recon!PendingStatus
    BY <1>4 DEF Recon!Pending
  <1>5. OnePending'
    BY <1>3, <1>4 DEF OnePending, JobsInv
  <1> QED
    BY <1>2, <1>5 DEF JobsInv

LEMMA NextJobs ==
    ASSUME Recon!TypeOK, Recon!TypeOK', JobsInv, [Recon!Next]_(Recon!vars)
    PROVE  JobsInv'
  <1>1. CASE UNCHANGED <<jobStatus, batch, job>>
    BY <1>1 DEF JobsInv, HeldIsRunning, HeldOnce, OnePending, Held
  <1>2. CASE Recon!QueueRepairs
    BY <1>2, QueueJobs
  <1>3. ASSUME NEW w \in Repairers, Recon!Claim(w) PROVE JobsInv'
    BY <1>3, ClaimJobs
  <1>4. ASSUME NEW w \in Repairers, Recon!LoadJob(w) PROVE JobsInv'
    BY <1>4, LoadJobs
  <1>5. ASSUME NEW w \in Repairers, Recon!Finish(w) PROVE JobsInv'
    <2>1. job[w] # NoJob
      BY <1>5 DEF Recon!Finish, Recon!TypeOK
    <2> QED
      BY <1>5, <2>1, JobReleased DEF Recon!Finish, Recon!EndJob
  <1>6. ASSUME NEW w \in Repairers, Recon!RepairFails(w) PROVE JobsInv'
    <2>1. job[w] # NoJob
      BY <1>6 DEF Recon!RepairFails, Recon!TypeOK
    <2> QED
      BY <1>6, <2>1, JobReleased DEF Recon!RepairFails, Recon!EndJob
  <1>7. ASSUME NEW w \in Repairers, Recon!Crash(w) PROVE JobsInv'
    BY <1>7, JobReleased DEF Recon!Crash, Recon!jobVars
  <1> QED
    BY <1>1, <1>2, <1>3, <1>4, <1>5, <1>6, <1>7
    DEF Recon!Next, Recon!Reconcile, Recon!Repair, Recon!vars, Recon!ingestVars, Recon!recVars,
        Recon!jobVars, Recon!workVars, Recon!StoreVectors, Recon!CommitRows, Recon!RollBack,
        Recon!CleanVectors, Recon!CommitDeletion, Recon!AbortDeletion, Recon!ReadRows,
        Recon!ReadExisting, Recon!ReadPhysical, Recon!DeleteOrphans, Recon!AbortReconciliation,
        Recon!RemoveVectors, Recon!InsertVectors

-----------------------------------------------------------------------------
(***************************************************************************)
(* Vectors: who inserts, and into what.                                    *)
(***************************************************************************)

\* Two workers never repair the same item.
LEMMA RepairsAreApart ==
    ASSUME Recon!TypeOK, JobsInv, NEW v \in Repairers, NEW w \in Repairers, v # w,
           job[v] # NoJob, job[w] # NoJob
    PROVE  Recon!Item(job[v]) # Recon!Item(job[w])
  <1>1. job[v] \in Held(v) /\ job[w] \in Held(w)
    BY DEF Held
  <1>2. job[v] # job[w]
    BY <1>1 DEF JobsInv, HeldOnce
  <1>3. jobStatus[job[v]] = "RUNNING" /\ jobStatus[job[w]] = "RUNNING"
    BY <1>1 DEF JobsInv, HeldIsRunning
  <1> QED
    BY <1>2, <1>3 DEF JobsInv, OnePending, Recon!TypeOK, Recon!PendingStatus

LEMMA InitVectors == Recon!Init => VectorsInv
  BY DEF Recon!Init, VectorsInv, IngestedOnce, RepairKnows, RemovedIsGone,
         Recon!NoDuplicateVectors

LEMMA NextVectors ==
    ASSUME Recon!TypeOK, Recon!TypeOK', JobsInv, VectorsInv, [Recon!Next]_(Recon!vars)
    PROVE  VectorsInv'
  <1> USE ItemOfJob DEF VectorsInv, IngestedOnce, RepairKnows, RemovedIsGone,
                        Recon!NoDuplicateVectors
  <1>1. CASE UNCHANGED <<ingest, rows, copies, wpc, job, found>>
    BY <1>1
  <1>2. ASSUME NEW i \in Items, Recon!StoreVectors(i) PROVE VectorsInv'
    BY <1>2 DEF Recon!StoreVectors, Recon!TypeOK, Recon!workVars
  <1>3. ASSUME NEW i \in Items, Recon!CommitRows(i) PROVE VectorsInv'
    BY <1>3 DEF Recon!CommitRows, Recon!TypeOK, Recon!workVars
  <1>4. ASSUME NEW i \in Items, Recon!RollBack(i) PROVE VectorsInv'
    BY <1>4 DEF Recon!RollBack, Recon!TypeOK, Recon!workVars
  <1>5. ASSUME NEW i \in Items, Recon!CleanVectors(i) PROVE VectorsInv'
    <2> DEFINE S == {k \in Items : DocOf[k] = DocOf[i] /\ rows[k] # "none"}
    <2>1. CASE UNCHANGED copies
      BY <1>5, <2>1 DEF Recon!CleanVectors, Recon!workVars
    <2>2. CASE copies' = [k \in Items |-> IF k \in S THEN 0 ELSE copies[k]]
      BY <1>5, <2>2 DEF Recon!CleanVectors, Recon!workVars, Recon!TypeOK
    <2> QED
      BY <1>5, <2>1, <2>2 DEF Recon!CleanVectors
  <1>6. ASSUME NEW i \in Items, Recon!CommitDeletion(i) PROVE VectorsInv'
    BY <1>6 DEF Recon!CommitDeletion, Recon!TypeOK, Recon!workVars
  <1>7. CASE Recon!DeleteOrphans
    BY <1>7 DEF Recon!DeleteOrphans, Recon!ingestVars, Recon!workVars, Recon!TypeOK
  <1>8. ASSUME NEW w \in Repairers, Recon!LoadJob(w) PROVE VectorsInv'
    <2> PICK j \in batch[w] : /\ job' = [job EXCEPT ![w] = j]
                              /\ found' = [found EXCEPT ![w] = Recon!Item(j) \in Recon!Active]
      BY <1>8 DEF Recon!LoadJob
    <2>1. wpc' = [wpc EXCEPT ![w] = "loaded"] /\ UNCHANGED <<ingest, rows, copies>>
      BY <1>8 DEF Recon!LoadJob, Recon!Goto, Recon!ingestVars
    <2>2. j \in Recon!Jobs /\ j # NoJob
      BY ReconConstants DEF Recon!TypeOK
    <2>3. IngestedOnce' /\ Recon!NoDuplicateVectors'
      BY <2>1
    <2>4. Recon!Item(j) \in Recon!Active => ingest[Recon!Item(j)] = "ended"
      BY <2>2 DEF Recon!Active
    <2>5. RepairKnows'
      <3>1. ASSUME NEW v \in Repairers, v # w PROVE job'[v] = job[v] /\ found'[v] = found[v]
        BY <3>1 DEF Recon!TypeOK
      <3>2. job'[w] = j /\ found'[w] = (Recon!Item(j) \in Recon!Active)
        BY DEF Recon!TypeOK
      <3> QED
        BY <3>1, <3>2, <2>1, <2>2, <2>4, ZenonT(40)
    <2>6. RemovedIsGone'
      BY <2>1 DEF Recon!TypeOK
    <2> QED
      BY <2>3, <2>5, <2>6
  <1>9. ASSUME NEW w \in Repairers, Recon!RemoveVectors(w) PROVE VectorsInv'
    BY <1>9 DEF Recon!RemoveVectors, Recon!Goto, Recon!ingestVars, Recon!TypeOK
  <1>10. ASSUME NEW w \in Repairers, Recon!InsertVectors(w) PROVE VectorsInv'
    <2>1. ingest' = ingest /\ rows' = rows /\ job' = job /\ found' = found
      BY <1>10 DEF Recon!InsertVectors, Recon!ingestVars
    <2>2. wpc[w] = "removed" /\ wpc' = [wpc EXCEPT ![w] = "inserted"]
      BY <1>10 DEF Recon!InsertVectors, Recon!Goto
    <2>3. CASE ~found[w]
      BY <1>10, <2>1, <2>2, <2>3 DEF Recon!InsertVectors, Recon!TypeOK
    <2>4. CASE found[w]
      <3>1. copies[Recon!Item(job[w])] = 0 /\ ingest[Recon!Item(job[w])] = "ended" /\ job[w] # NoJob
        BY <2>2, <2>4
      <3>2. copies' = [copies EXCEPT ![Recon!Item(job[w])] = 1]
        BY <1>10, <2>4, <3>1 DEF Recon!InsertVectors, Recon!TypeOK
      <3>3. IngestedOnce' /\ RepairKnows' /\ Recon!NoDuplicateVectors'
        BY <2>1, <3>1, <3>2 DEF Recon!TypeOK
      <3>4. ASSUME NEW v \in Repairers, wpc'[v] = "removed", found'[v]
            PROVE  copies'[Recon!Item(job'[v])] = 0
        <4>1. v # w /\ wpc[v] = "removed" /\ found[v]
          BY <3>4, <2>1, <2>2 DEF Recon!TypeOK
        <4>2. Recon!Item(job[v]) # Recon!Item(job[w]) /\ Recon!Item(job[v]) \in Items
          BY <4>1, <3>1, RepairsAreApart DEF Recon!TypeOK
        <4> QED
          BY <4>1, <4>2, <3>2, <2>1 DEF Recon!TypeOK
      <3> QED
        BY <3>3, <3>4
    <2> QED
      BY <2>3, <2>4
  <1>11. ASSUME NEW w \in Repairers,
                wpc' = [wpc EXCEPT ![w] = "idle"],
                job' = [job EXCEPT ![w] = NoJob],
                found' = [found EXCEPT ![w] = FALSE],
                UNCHANGED <<ingest, rows, copies>>
         PROVE  VectorsInv'
    BY <1>11 DEF Recon!TypeOK
  <1>12. ASSUME NEW w \in Repairers, Recon!Finish(w) \/ Recon!RepairFails(w) \/ Recon!Crash(w)
         PROVE  VectorsInv'
    BY <1>11, <1>12 DEF Recon!Finish, Recon!RepairFails, Recon!Crash, Recon!EndJob, Recon!Goto,
                        Recon!ingestVars
  <1> QED
    BY <1>1, <1>2, <1>3, <1>4, <1>5, <1>6, <1>7, <1>8, <1>9, <1>10, <1>12
    DEF Recon!Next, Recon!Reconcile, Recon!Repair, Recon!vars, Recon!ingestVars, Recon!recVars,
        Recon!jobVars, Recon!workVars, Recon!AbortDeletion, Recon!ReadRows, Recon!ReadExisting,
        Recon!ReadPhysical, Recon!QueueRepairs, Recon!AbortReconciliation, Recon!Claim

-----------------------------------------------------------------------------

\* Jobs are held by one worker and pending once for an item; a repair knows that
\* the ingestion of its item has ended and that nothing is left of its vectors
\* before it inserts them (index_repair.py, run_once and _process).
THEOREM RepairsAreExclusive == Recon!Spec => []ReconInv
  <1>1. Recon!Init => ReconInv
    BY ReconInitType, InitJobs, InitVectors DEF ReconInv
  <1>2. ReconInv /\ [Recon!Next]_(Recon!vars) => ReconInv'
    BY ReconNextType, NextJobs, NextVectors DEF ReconInv
  <1> QED
    BY <1>1, <1>2, PTL DEF Recon!Spec

\* The collection never holds a chunk twice, although several processes delete and
\* insert the same ids without a transaction over both stores.
THEOREM NoChunkTwice == Recon!Spec => []NoDuplicateVectors
  <1>1. ReconInv => NoDuplicateVectors
    BY DEF ReconInv, VectorsInv, NoDuplicateVectors
  <1> QED
    BY <1>1, RepairsAreExclusive, PTL

-----------------------------------------------------------------------------
(***************************************************************************)
(* Both parts.                                                             *)
(***************************************************************************)

\* What the two parts do together is what each of them does: a step of one is a stutter of the
\* other.
THEOREM PartsAreImplemented == IndexSpec => Spec /\ Recon!Spec
  <1>1. IndexInit => Init /\ Recon!Init
    BY DEF IndexInit
  <1>2. UNCHANGED reconciliationVars => UNCHANGED Recon!vars
    BY DEF reconciliationVars, Recon!vars, Recon!ingestVars, Recon!recVars, Recon!jobVars,
       Recon!workVars
  <1>3. [IndexNext]_indexVars => [Next]_vars
    BY DEF IndexNext, indexVars, InGenerations, InReconciliation
  <1>4. [IndexNext]_indexVars => [Recon!Next]_(Recon!vars)
    BY <1>2 DEF IndexNext, indexVars, InGenerations, InReconciliation
  <1> QED
    BY <1>1, <1>3, <1>4, PTL DEF IndexSpec, Spec, Recon!Spec

\* The types of the generations, however many processes build.
LEMMA GenerationsAreTyped == Spec => []TypeOK
  <1>1. Init => TypeOK /\ VectorsAreNumbered
    BY InitIInv DEF IInv
  <1>2. (TypeOK /\ VectorsAreNumbered) /\ [Next]_vars => (TypeOK /\ VectorsAreNumbered)'
    BY NextCollections, NextTypeOK DEF CollectionsOK, TypeOK
  <1> QED
    BY <1>1, <1>2, PTL DEF Spec

\* Every variable of both parts stays in its domain, for any number of processes, documents
\* and generations (index_lifecycle.py, index_reconciliation.py, index_repair.py).
THEOREM TypeCorrect == IndexSpec => []IndexTypes
  <1>1. Recon!Spec => []Recon!TypeOK
    BY ReconInitType, ReconNextType, PTL DEF Recon!Spec
  <1> QED
    BY <1>1, PartsAreImplemented, GenerationsAreTyped, PTL DEF IndexTypes
=============================================================================
