------------------------ MODULE PipelineEngine_proofs ------------------------
(***************************************************************************)
(* For any pipeline, any requests and any number of attempts: one task is  *)
(* committed for an idempotency key, and what is served has its vectors.   *)
(*                                                                         *)
(* The key: a run is the only one within its transaction, and no task of   *)
(* the key is committed meanwhile (KeyIsHeld).  The vectors: an indexer    *)
(* that has succeeded holds those of its last attempt, because it is never *)
(* run again (IndexedIsInserted).                                          *)
(***************************************************************************)
EXTENDS PipelineEngine, FiniteSetTheorems, SequenceTheorems, TLAPS

Inside(r) == at[r] \in {"node", "inserting", "reading", "activating"}

\* Runs with one key exclude each other within the transaction, and from committed tasks.
KeyIsHeld ==
    sameKey =>
        /\ \A r \in Runs : Inside(r) => \A q \in Runs : task[q] = "none" /\ (Inside(q) => q = r)
        /\ \A q, r \in Runs : task[q] # "none" /\ task[r] # "none" => q = r

\* The indexer is tried at most MaxAttempts times, and no more once it has ended.
AttemptsAreLeft ==
    \A r \in Runs :
        /\ at[r] \in {"idle", "sent", "node"} /\ ~Visited(r, Indexer) => attempt[r] < MaxAttempts
        /\ at[r] \in {"inserting", "reading", "activating"} =>
               queue[r] # <<>> /\ Node(r) = Indexer

\* What the indexer is about to activate, and has activated, has its vectors.
IndexedIsInserted ==
    \A r \in Runs :
        /\ at[r] \in {"reading", "activating"} => inserted[r]
        /\ at[r] \in {"inserting", "reading", "activating"} => ~Visited(r, Indexer)
        /\ result[r][Indexer] = "success" => inserted[r]

IInv == TypeOK /\ KeyIsHeld /\ AttemptsAreLeft /\ IndexedIsInserted /\ ServedIsIndexed

\* The indexer is a node of the pipeline.
LEMMA IndexerIsNode == Indexer \in Nodes
  BY DEF Nodes

\* A pipeline has finitely many nodes.
LEMMA NodesAreFinite == IsFiniteSet(Nodes)
  <1>1. Nodes = (Plain \cup {Chunker}) \cup {Indexer}
    BY DEF Nodes
  <1>2. IsFiniteSet(Plain \cup {Chunker})
    BY PipelineAssumption, FS_AddElement
  <1> QED BY <1>1, <1>2, FS_AddElement

\* What a queue begins with.
LEMMA RootsAreNodes == \A q \in SetToSeqs(Roots) : q \in Seq(Nodes)
  <1>1. IsFiniteSet(Roots) /\ Roots \subseteq Nodes
    BY NodesAreFinite, FS_Subset DEF Roots
  <1>2. Cardinality(Roots) \in Nat
    BY <1>1, FS_CardinalityType
  <1> QED BY <1>1, <1>2, IsASeq DEF SetToSeqs

\* The end of a node keeps the types of what it updates.
LEMMA AdvanceType ==
  ASSUME TypeOK, NEW r \in Runs, queue[r] # <<>>, NEW s \in {"success", "skipped", "error"},
         Advance(r, s)
  PROVE  /\ queue' \in [Runs -> Seq(Nodes)] /\ order' \in [Runs -> Seq(Nodes)]
         /\ result' \in [Runs -> [Nodes -> {"none", "success", "skipped", "error"}]]
         /\ result' = [result EXCEPT ![r][Node(r)] = s]
         /\ Node(r) \in Nodes
  <1>1. Node(r) \in Nodes /\ Tail(queue[r]) \in Seq(Nodes)
    BY HeadTailProperties DEF TypeOK, Node
  <1>2. next[Node(r)] # None => next[Node(r)] \in Nodes
    BY <1>1 DEF TypeOK
  <1>3. queue' \in [Runs -> Seq(Nodes)]
    BY <1>1, <1>2, AppendProperties, EmptySeq DEF TypeOK, Advance
  <1>4. order' \in [Runs -> Seq(Nodes)]
    BY <1>1, AppendProperties DEF TypeOK, Advance
  <1> QED BY <1>1, <1>3, <1>4 DEF TypeOK, Advance

-----------------------------------------------------------------------------

\* The initial state.
LEMMA InitInv == Init => IInv
  <1> SUFFICES ASSUME Init PROVE IInv
    OBVIOUS
  <1> USE IndexerIsNode, PipelineAssumption
  <1>1. TypeOK
    BY DEF Init, TypeOK, Writers
  <1>2. KeyIsHeld
    BY DEF Init, KeyIsHeld, Inside
  <1>3. AttemptsAreLeft
    BY DEF Init, AttemptsAreLeft
  <1>4. IndexedIsInserted
    BY DEF Init, IndexedIsInserted
  <1>5. ServedIsIndexed
    BY DEF Init, ServedIsIndexed, Served, Writers, Generation
  <1> QED BY <1>1, <1>2, <1>3, <1>4, <1>5 DEF IInv

-----------------------------------------------------------------------------
(* The steps, each with the parts that it can disturb. *)

LEMMA NextInv == IInv /\ [Next]_vars => IInv'
  <1> SUFFICES ASSUME IInv, [Next]_vars PROVE IInv'
    OBVIOUS
  <1> USE IndexerIsNode, PipelineAssumption
      DEF IInv, pipeline, traversal, index, committed
  <1>1. ASSUME NEW r \in Runs, Execute(r) PROVE IInv'
    <2>1. TypeOK'
      BY <1>1 DEF TypeOK, Execute, Goes
    <2>2. KeyIsHeld'
      BY <1>1 DEF TypeOK, KeyIsHeld, Inside, Execute, Goes
    <2>3. AttemptsAreLeft'
      BY <1>1 DEF TypeOK, AttemptsAreLeft, Visited, Node, Execute, Goes
    <2>4. IndexedIsInserted'
      BY <1>1 DEF TypeOK, IndexedIsInserted, Visited, Node, Execute, Goes
    <2>5. ServedIsIndexed'
      BY <1>1 DEF TypeOK, ServedIsIndexed, Served, Execute, Goes
    <2> QED BY <2>1, <2>2, <2>3, <2>4, <2>5
  <1>2. ASSUME NEW r \in Runs, Insert(r) PROVE IInv'
    <2> DEFINE raises == sameKey /\ \E q \in Runs : task[q] # "none"
    <2>a. /\ raises => at' = [at EXCEPT ![r] = "raised"] /\ queue' = queue
          /\ ~raises => at' = [at EXCEPT ![r] = "node"]
          /\ \A q \in Runs \ {r} : queue'[q] = queue[q]
          /\ queue' \in [Runs -> Seq(Nodes)]
      <3>1. CASE queue' = queue
        BY <1>2, <3>1 DEF TypeOK, Insert, Begin
      <3>2. CASE queue' # queue
        <4>1. ~raises /\ Begin(r)
          BY <1>2, <3>2 DEF Insert
        <4>2. PICK q \in SetToSeqs(Roots) : queue' = [queue EXCEPT ![r] = q]
          BY <4>1, <3>2 DEF Begin
        <4> QED BY <4>1, <4>2, RootsAreNodes DEF TypeOK, Begin
      <3> QED BY <3>1, <3>2
    <2>b. /\ at[r] = "sent"
          /\ sameKey => \A q \in Runs \ {r} : ~Inside(q)
          /\ UNCHANGED <<pipeline, enabled, order, result, stop, chunks, index, committed, docLock>>
      BY <1>2 DEF Insert, Inside
    <2> HIDE DEF raises
    <2>1. TypeOK'
      BY <2>a, <2>b DEF TypeOK
    <2>2. KeyIsHeld'
      <3>1. CASE raises
        <4>1. \A q \in Runs : Inside(q)' => Inside(q)
          BY <2>a, <3>1 DEF TypeOK, Inside
        <4> QED BY <2>b, <4>1 DEF KeyIsHeld
      <3>2. CASE ~raises
        <4>1. sameKey => \A q \in Runs : task[q] = "none"
          BY <3>2 DEF raises
        <4>2. \A q \in Runs : Inside(q)' => q = r \/ Inside(q)
          BY <2>a, <3>2 DEF TypeOK, Inside
        <4> QED BY <2>b, <4>1, <4>2 DEF KeyIsHeld
      <3> QED BY <3>1, <3>2
    <2>3. AttemptsAreLeft'
      BY <2>a, <2>b DEF TypeOK, AttemptsAreLeft, Visited, Node
    <2>4. IndexedIsInserted'
      BY <2>a, <2>b DEF TypeOK, IndexedIsInserted, Visited, Node
    <2>5. ServedIsIndexed'
      BY <2>b DEF TypeOK, ServedIsIndexed, Served
    <2> QED BY <2>1, <2>2, <2>3, <2>4, <2>5
  <1>3. ASSUME NEW r \in Runs, SkipVisited(r) PROVE IInv'
    <2>1. TypeOK'
      BY <1>3 DEF TypeOK, SkipVisited
    <2>2. KeyIsHeld'
      BY <1>3 DEF TypeOK, KeyIsHeld, Inside, SkipVisited
    <2>3. AttemptsAreLeft'
      BY <1>3 DEF TypeOK, AttemptsAreLeft, Visited, Node, SkipVisited
    <2>4. IndexedIsInserted'
      BY <1>3 DEF TypeOK, IndexedIsInserted, Visited, Node, SkipVisited
    <2>5. ServedIsIndexed'
      BY <1>3 DEF TypeOK, ServedIsIndexed, Served, SkipVisited
    <2> QED BY <2>1, <2>2, <2>3, <2>4, <2>5
  <1>4. ASSUME NEW r \in Runs, RunNode(r) PROVE IInv'
    <2>1. TypeOK'
      <3>1. PICK s \in {"success", "error"} : Advance(r, s)
        BY <1>4 DEF RunNode
      <3>2. queue[r] # <<>>
        BY <1>4 DEF RunNode, Turn
      <3> QED BY <1>4, <3>1, <3>2, AdvanceType DEF TypeOK, RunNode
    <2>2. KeyIsHeld'
      BY <1>4 DEF TypeOK, KeyIsHeld, Inside, RunNode, Advance, Turn
    <2>3. AttemptsAreLeft'
      BY <1>4 DEF TypeOK, AttemptsAreLeft, Visited, Node, RunNode, Advance, Turn
    <2>4. IndexedIsInserted'
      BY <1>4 DEF TypeOK, IndexedIsInserted, Visited, Node, RunNode, Advance, Turn
    <2>5. ServedIsIndexed'
      BY <1>4 DEF TypeOK, ServedIsIndexed, Served, RunNode, Advance, Turn
    <2> QED BY <2>1, <2>2, <2>3, <2>4, <2>5
  <1>5. ASSUME NEW r \in Runs, SkipIndexer(r) PROVE IInv'
    <2>1. TypeOK'
      BY <1>5 DEF TypeOK, SkipIndexer, Advance, Turn
    <2>2. KeyIsHeld'
      BY <1>5 DEF TypeOK, KeyIsHeld, Inside, SkipIndexer, Advance, Turn
    <2>3. AttemptsAreLeft'
      BY <1>5 DEF TypeOK, AttemptsAreLeft, Visited, Node, SkipIndexer, Advance, Turn
    <2>4. IndexedIsInserted'
      BY <1>5 DEF TypeOK, IndexedIsInserted, Visited, Node, SkipIndexer, Advance, Turn
    <2>5. ServedIsIndexed'
      BY <1>5 DEF TypeOK, ServedIsIndexed, Served, SkipIndexer, Advance, Turn
    <2> QED BY <2>1, <2>2, <2>3, <2>4, <2>5
  <1>6. ASSUME NEW r \in Runs, FlushRows(r) PROVE IInv'
    <2>1. TypeOK'
      <3>1. attempt[r] < MaxAttempts
        BY <1>6 DEF FlushRows, Turn, AttemptsAreLeft
      <3> QED BY <1>6, <3>1 DEF TypeOK, FlushRows, Goes
    <2>2. KeyIsHeld'
      BY <1>6 DEF TypeOK, KeyIsHeld, Inside, FlushRows, Goes, Turn
    <2>3. AttemptsAreLeft'
      BY <1>6 DEF TypeOK, AttemptsAreLeft, Visited, Node, FlushRows, Goes, Turn
    <2>4. IndexedIsInserted'
      BY <1>6 DEF TypeOK, IndexedIsInserted, Visited, Node, FlushRows, Goes, Turn
    <2>5. ServedIsIndexed'
      BY <1>6 DEF TypeOK, ServedIsIndexed, Served, FlushRows, Goes, Turn
    <2> QED BY <2>1, <2>2, <2>3, <2>4, <2>5
  <1>7. ASSUME NEW r \in Runs, InsertVectors(r) PROVE IInv'
    <2>1. TypeOK'
      BY <1>7 DEF TypeOK, InsertVectors, Goes
    <2>2. KeyIsHeld'
      BY <1>7 DEF TypeOK, KeyIsHeld, Inside, InsertVectors, Goes
    <2>3. AttemptsAreLeft'
      BY <1>7 DEF TypeOK, AttemptsAreLeft, Visited, Node, InsertVectors, Goes
    <2>4. IndexedIsInserted'
      BY <1>7 DEF TypeOK, IndexedIsInserted, Visited, Node, InsertVectors, Goes
    <2>5. ServedIsIndexed'
      BY <1>7 DEF TypeOK, ServedIsIndexed, Served, InsertVectors, Goes
    <2> QED BY <2>1, <2>2, <2>3, <2>4, <2>5
  <1>8. ASSUME NEW r \in Runs, IndexerFails(r) PROVE IInv'
    <2>1. TypeOK'
      <3>1. queue[r] # <<>>
        BY <1>8 DEF IndexerFails, AttemptsAreLeft
      <3>2. /\ queue' \in [Runs -> Seq(Nodes)] /\ order' \in [Runs -> Seq(Nodes)]
            /\ result' \in [Runs -> [Nodes -> {"none", "success", "skipped", "error"}]]
        BY <1>8, <3>1, AdvanceType DEF TypeOK, IndexerFails
      <3> QED BY <1>8, <3>2 DEF TypeOK, IndexerFails
    <2>2. KeyIsHeld'
      BY <1>8 DEF TypeOK, KeyIsHeld, Inside, IndexerFails, Advance
    <2>3. AttemptsAreLeft'
      BY <1>8 DEF TypeOK, AttemptsAreLeft, Visited, Node, IndexerFails, Advance
    <2>4. IndexedIsInserted'
      BY <1>8 DEF TypeOK, IndexedIsInserted, Visited, Node, IndexerFails, Advance
    <2>5. ServedIsIndexed'
      BY <1>8 DEF TypeOK, ServedIsIndexed, Served, IndexerFails, Advance
    <2> QED BY <2>1, <2>2, <2>3, <2>4, <2>5
  <1>9. ASSUME NEW r \in Runs, ReadOld(r) PROVE IInv'
    <2>1. TypeOK'
      BY <1>9 DEF TypeOK, ReadOld, Goes, Served
    <2>2. KeyIsHeld'
      BY <1>9 DEF TypeOK, KeyIsHeld, Inside, ReadOld, Goes, Served
    <2>3. AttemptsAreLeft'
      BY <1>9 DEF TypeOK, AttemptsAreLeft, Visited, Node, ReadOld, Goes, Served
    <2>4. IndexedIsInserted'
      BY <1>9 DEF TypeOK, IndexedIsInserted, Visited, Node, ReadOld, Goes, Served
    <2>5. ServedIsIndexed'
      BY <1>9 DEF TypeOK, ServedIsIndexed, Served, ReadOld, Goes, Served
    <2> QED BY <2>1, <2>2, <2>3, <2>4, <2>5
  <1>10. ASSUME NEW r \in Runs, Activate(r) PROVE IInv'
    <2>1. TypeOK'
      <3>1. queue[r] # <<>>
        BY <1>10 DEF Activate, Goes, AttemptsAreLeft
      <3> QED BY <1>10, <3>1, AdvanceType DEF TypeOK, Activate, Goes
    <2>2. KeyIsHeld'
      BY <1>10 DEF TypeOK, KeyIsHeld, Inside, Activate, Goes, Advance
    <2>3. AttemptsAreLeft'
      BY <1>10 DEF TypeOK, AttemptsAreLeft, Visited, Node, Activate, Goes, Advance
    <2>4. IndexedIsInserted'
      BY <1>10 DEF TypeOK, IndexedIsInserted, Visited, Node, Activate, Goes, Advance
    <2>5. ServedIsIndexed'
      BY <1>10 DEF TypeOK, ServedIsIndexed, Served, Activate, Goes, Advance
    <2> QED BY <2>1, <2>2, <2>3, <2>4, <2>5
  <1>11. ASSUME NEW r \in Runs, Commit(r) PROVE IInv'
    <2>1. TypeOK'
      <3>1. active' \in [Writers -> {"none", "bare", "indexed"}]
        <4>1. CASE Switch(r)
          BY <4>1 DEF TypeOK, Switch
        <4>2. CASE ~Switch(r)
          BY <1>11, <4>2 DEF TypeOK, Commit
        <4> QED BY <4>1, <4>2
      <3>2. Status(r) \in {"success", "error"}
        BY DEF Status
      <3> QED BY <1>11, <3>1, <3>2 DEF TypeOK, Commit, Goes, Forget
    <2>2. KeyIsHeld'
      BY <1>11 DEF TypeOK, KeyIsHeld, Inside, Commit, Goes, Forget, Switch, Served
    <2>3. AttemptsAreLeft'
      BY <1>11 DEF TypeOK, AttemptsAreLeft, Visited, Node, Commit, Goes, Forget, Switch, Served
    <2>4. IndexedIsInserted'
      BY <1>11 DEF TypeOK, IndexedIsInserted, Visited, Node, Commit, Goes, Forget, Switch,
                   Served
    <2>5. ServedIsIndexed'
      <3>1. CASE result[r][Indexer] = "success"
        <4>1. inserted[r] /\ r \in Writers
          BY <3>1 DEF IndexedIsInserted, Writers
        <4>2. Switch(r) /\ generation' = Generation(r)
          BY <1>11, <3>1 DEF Commit
        <4>3. /\ active'[r] = "indexed"
              /\ \A w \in Writers : active'[w] # "bare"
          BY <4>1, <4>2 DEF Switch, ServedIsIndexed
        <4> QED BY <4>1, <4>2, <4>3 DEF ServedIsIndexed, Served, Generation
      <3>2. CASE result[r][Indexer] # "success"
        BY <1>11, <3>2 DEF Commit, ServedIsIndexed, Served, Generation
      <3> QED BY <3>1, <3>2
    <2> QED BY <2>1, <2>2, <2>3, <2>4, <2>5
  <1>12. ASSUME NEW r \in Runs, Breaks(r) PROVE IInv'
    <2>1. TypeOK'
      BY <1>12 DEF TypeOK, Breaks, Forget
    <2>2. KeyIsHeld'
      BY <1>12 DEF TypeOK, KeyIsHeld, Inside, Breaks, Forget
    <2>3. AttemptsAreLeft'
      BY <1>12 DEF TypeOK, AttemptsAreLeft, Visited, Node, Breaks, Forget
    <2>4. IndexedIsInserted'
      BY <1>12 DEF TypeOK, IndexedIsInserted, Visited, Node, Breaks, Forget
    <2>5. ServedIsIndexed'
      BY <1>12 DEF TypeOK, ServedIsIndexed, Served, Breaks, Forget
    <2> QED BY <2>1, <2>2, <2>3, <2>4, <2>5
  <1>13. CASE DeletePipeline \/ UNCHANGED vars
    <2>1. /\ enabled' \in BOOLEAN
          /\ UNCHANGED <<pipeline, at, traversal, chunks, index, committed, docLock>>
      BY <1>13 DEF DeletePipeline, vars, TypeOK
    <2>2. TypeOK'
      BY <2>1 DEF TypeOK
    <2>3. KeyIsHeld' /\ AttemptsAreLeft' /\ IndexedIsInserted' /\ ServedIsIndexed'
      BY <2>1 DEF KeyIsHeld, Inside, AttemptsAreLeft, Visited, Node, IndexedIsInserted,
                  ServedIsIndexed, Served, Generation
    <2> QED BY <2>2, <2>3
  <1> QED
    BY <1>1, <1>2, <1>3, <1>4, <1>5, <1>6, <1>7, <1>8, <1>9, <1>10, <1>11, <1>12, <1>13
      DEF Next, Step

-----------------------------------------------------------------------------

\* What the theorems rest on, in every reachable state.
LEMMA Invariant == Spec => []IInv
  BY InitInv, NextInv, PTL DEF Spec

\* Every variable has its type; no indexer is tried more often than MaxAttempts.
THEOREM TypeCorrect == Spec => []TypeOK
  BY Invariant, PTL DEF IInv

\* However often a request is sent with one idempotency key, one task of it is committed: the
\* unique key makes an insertion wait for the transaction that holds it.
THEOREM OneTaskForAKey == Spec => []KeyRunsOnce
  <1>1. IInv => KeyRunsOnce
    <2> SUFFICES ASSUME IInv, sameKey
                 PROVE  Cardinality({r \in Runs : task[r] # "none"}) <= 1
      BY DEF KeyRunsOnce
    <2> DEFINE T == {r \in Runs : task[r] # "none"}
    <2>1. \A q, r \in T : q = r
      BY DEF IInv, KeyIsHeld
    <2>2. CASE T = {}
      BY <2>2, FS_EmptySet
    <2>3. CASE T # {}
      <3>1. PICK r : r \in T
        BY <2>3
      <3>2. T = {r}
        BY <2>1, <3>1
      <3> QED BY <3>2, FS_Singleton
    <2> QED BY <2>2, <2>3
  <1> QED BY <1>1, Invariant, PTL

\* Whatever attempts of the indexer fail and whatever runs overlap, the rows that are served have
\* their vectors, and the generation of the document is one of them.
THEOREM ServedChunksHaveVectors == Spec => []ServedIsIndexed
  BY Invariant, PTL DEF IInv

-----------------------------------------------------------------------------
(* What has run, in its order, and what is queued. *)

\* A node is a root, or a predecessor of it has run.
Started(r, n) == n \in Roots \/ \E j \in DOMAIN order[r] : next[order[r][j]] = n

\* No node runs twice, those that have a result are those that have run, each of them after
\* a predecessor, and so will those in the queue.
OrderIsPath ==
    \A r \in Runs :
        /\ \A i, j \in DOMAIN order[r] : order[r][i] = order[r][j] => i = j
        /\ \A n \in Nodes : Visited(r, n) <=> \E i \in DOMAIN order[r] : order[r][i] = n
        /\ \A i \in DOMAIN order[r] :
              order[r][i] \in Roots \/ \E j \in 1 .. i - 1 : next[order[r][j]] = order[r][i]
        /\ \A k \in DOMAIN queue[r] : Started(r, queue[r][k])

\* The end of a node that had not run.
LEMMA AdvanceOrder ==
  ASSUME TypeOK, OrderIsPath, NEW r \in Runs, queue[r] # <<>>, ~Visited(r, Node(r)),
         NEW s \in {"success", "skipped", "error"}, Advance(r, s), next' = next
  PROVE  OrderIsPath'
  <1> DEFINE o == order[r]  n == Node(r)  p == Append(o, n)
  <1>1. /\ n \in Nodes /\ n = queue[r][1] /\ 1 \in DOMAIN queue[r]
        /\ o \in Seq(Nodes) /\ queue[r] \in Seq(Nodes)
    BY AdvanceType, LenProperties, EmptySeq DEF TypeOK, Node
  <1>2. /\ DOMAIN o = 1 .. Len(o) /\ Len(o) \in Nat /\ DOMAIN p = 1 .. Len(o) + 1
        /\ \A i \in DOMAIN o : p[i] = o[i]
        /\ p[Len(o) + 1] = n
    BY <1>1, AppendProperties, LenProperties
  <1>3. /\ order' = [order EXCEPT ![r] = p]
        /\ result' = [result EXCEPT ![r][n] = s]
        /\ queue'[r] \in {<<>>, Tail(queue[r]), Append(Tail(queue[r]), next[n])}
        /\ \A q \in Runs \ {r} : queue'[q] = queue[q]
    BY DEF Advance, TypeOK
  <1>4. Roots' = Roots
    BY DEF Roots
  <1> HIDE DEF o, n, p
  <1> SUFFICES ASSUME NEW q \in Runs
               PROVE  /\ \A i, j \in DOMAIN order'[q] : order'[q][i] = order'[q][j] => i = j
                      /\ \A m \in Nodes : Visited(q, m)' <=>
                            \E i \in DOMAIN order'[q] : order'[q][i] = m
                      /\ \A i \in DOMAIN order'[q] :
                            \/ order'[q][i] \in Roots
                            \/ \E j \in 1 .. i - 1 : next[order'[q][j]] = order'[q][i]
                      /\ \A k \in DOMAIN queue'[q] :
                            \/ queue'[q][k] \in Roots
                            \/ \E j \in DOMAIN order'[q] : next[order'[q][j]] = queue'[q][k]
    BY <1>4 DEF OrderIsPath, Started
  <1>5. CASE q # r
    BY <1>3, <1>5 DEF OrderIsPath, Started, Visited, TypeOK
  <1>6. CASE q = r
    <2>1. order'[q] = p
      BY <1>3, <1>6 DEF TypeOK
    <2>2. \A i \in DOMAIN o : o[i] # n
      BY <1>1 DEF OrderIsPath, o, n
    <2>3. \A i, j \in DOMAIN p : p[i] = p[j] => i = j
      BY <1>2, <2>2 DEF OrderIsPath, o
    <2>4. \A m \in Nodes : Visited(q, m)' <=> m = n \/ Visited(q, m)
      BY <1>1, <1>3, <1>6 DEF Visited, TypeOK
    <2>5. \A m \in Nodes : Visited(q, m)' <=> \E i \in DOMAIN p : p[i] = m
      <3>1. \A m \in Nodes : Visited(r, m) <=> \E i \in DOMAIN o : o[i] = m
        BY DEF OrderIsPath, o
      <3>2. \A m : (\E i \in DOMAIN p : p[i] = m) <=> (m = n \/ \E i \in DOMAIN o : o[i] = m)
        BY <1>2
      <3> QED BY <1>6, <2>4, <3>1, <3>2
    <2>6. n \in Roots \/ \E j \in 1 .. Len(o) : next[p[j]] = n
      <3>1. Started(r, n)
        BY <1>1 DEF OrderIsPath
      <3> QED BY <1>2, <3>1 DEF Started, o
    <2>7. \A i \in DOMAIN p : p[i] \in Roots \/ \E j \in 1 .. i - 1 : next[p[j]] = p[i]
      <3> SUFFICES ASSUME NEW i \in DOMAIN p
                   PROVE  p[i] \in Roots \/ \E j \in 1 .. i - 1 : next[p[j]] = p[i]
        OBVIOUS
      <3>1. CASE i = Len(o) + 1
        BY <1>2, <2>6, <3>1
      <3>2. CASE i \in DOMAIN o
        BY <1>2, <3>2 DEF OrderIsPath, o
      <3> QED BY <1>2, <3>1, <3>2
    <2>8. \A k \in DOMAIN queue[r] :
             queue[r][k] \in Roots \/ \E j \in DOMAIN p : next[p[j]] = queue[r][k]
      BY <1>2 DEF OrderIsPath, Started, o
    <2>9. \A k \in DOMAIN queue'[q] : \/ \E m \in DOMAIN queue[r] : queue'[q][k] = queue[r][m]
                                     \/ queue'[q][k] = next[n]
      <3>1. /\ Tail(queue[r]) \in Seq(Nodes)
            /\ \A k \in DOMAIN Tail(queue[r]) :
                 k + 1 \in DOMAIN queue[r] /\ Tail(queue[r])[k] = queue[r][k + 1]
        BY <1>1, HeadTailProperties, LenProperties
      <3>2. CASE queue'[q] = <<>>
        BY <3>2, EmptySeq, LenProperties
      <3>3. CASE queue'[q] = Tail(queue[r])
        BY <3>1, <3>3
      <3>4. CASE queue'[q] = Append(Tail(queue[r]), next[n])
        BY <3>1, <3>4
      <3> QED BY <1>3, <1>6, <3>2, <3>3, <3>4
    <2>10. Len(o) + 1 \in DOMAIN p
      BY <1>2
    <2> QED BY <1>2, <2>1, <2>3, <2>5, <2>7, <2>8, <2>9, <2>10
  <1> QED BY <1>5, <1>6

\* Nothing has run and nothing is queued in the beginning.
LEMMA InitOrder == Init => OrderIsPath
  BY EmptySeq, LenProperties DEF Init, OrderIsPath, Visited

\* Every step: a queue grows by roots and by successors of what has run, a node that has run
\* is not run again.
LEMMA NextOrder == IInv /\ OrderIsPath /\ [Next]_vars => OrderIsPath'
  <1> SUFFICES ASSUME IInv, OrderIsPath, [Next]_vars PROVE OrderIsPath'
    OBVIOUS
  <1> USE IndexerIsNode DEF IInv, pipeline, traversal, index, committed
  <1>a. next' = next => Roots' = Roots
    BY DEF Roots
  <1>b. ASSUME UNCHANGED <<next, queue, order, result>> PROVE OrderIsPath'
    BY <1>a, <1>b DEF OrderIsPath, Started, Visited
  <1>c. ASSUME NEW r \in Runs, Forget(r), next' = next PROVE OrderIsPath'
    <2>1. /\ order' = [order EXCEPT ![r] = <<>>] /\ queue' = [queue EXCEPT ![r] = <<>>]
          /\ result' = [result EXCEPT ![r] = [n \in Nodes |-> "none"]]
      BY <1>c DEF Forget
    <2>2. DOMAIN <<>> = {}
      BY EmptySeq, LenProperties
    <2> SUFFICES ASSUME NEW q \in Runs
                 PROVE  /\ \A i, j \in DOMAIN order'[q] : order'[q][i] = order'[q][j] => i = j
                        /\ \A m \in Nodes : Visited(q, m)' <=>
                              \E i \in DOMAIN order'[q] : order'[q][i] = m
                        /\ \A i \in DOMAIN order'[q] :
                              \/ order'[q][i] \in Roots
                              \/ \E j \in 1 .. i - 1 : next[order'[q][j]] = order'[q][i]
                        /\ \A k \in DOMAIN queue'[q] :
                              \/ queue'[q][k] \in Roots
                              \/ \E j \in DOMAIN order'[q] : next[order'[q][j]] = queue'[q][k]
      BY <1>a, <1>c DEF OrderIsPath, Started
    <2>3. CASE q = r
      BY <2>1, <2>2, <2>3 DEF TypeOK, Visited
    <2>4. CASE q # r
      BY <2>1, <2>4 DEF TypeOK, OrderIsPath, Started, Visited
    <2> QED BY <2>3, <2>4
  <1>1. ASSUME NEW r \in Runs, Insert(r) PROVE OrderIsPath'
    <2>1. CASE queue' = queue
      BY <1>1, <1>b, <2>1 DEF Insert
    <2>2. CASE queue' # queue
      <3>1. PICK q \in SetToSeqs(Roots) : queue' = [queue EXCEPT ![r] = q]
        BY <1>1, <2>2 DEF Insert, Begin
      <3>2. \A k \in DOMAIN q : q[k] \in Roots
        BY DEF SetToSeqs
      <3>3. UNCHANGED <<next, order, result>>
        BY <1>1 DEF Insert
      <3> QED BY <1>a, <3>1, <3>2, <3>3 DEF TypeOK, OrderIsPath, Started, Visited
    <2> QED BY <2>1, <2>2
  <1>2. ASSUME NEW r \in Runs, SkipVisited(r) PROVE OrderIsPath'
    <2>1. queue[r] \in Seq(Nodes) /\ queue[r] # <<>>
      BY <1>2 DEF SkipVisited, TypeOK
    <2>2. \A k \in DOMAIN Tail(queue[r]) :
             k + 1 \in DOMAIN queue[r] /\ Tail(queue[r])[k] = queue[r][k + 1]
      BY <2>1, HeadTailProperties, LenProperties
    <2> QED BY <1>2, <1>a, <2>2 DEF SkipVisited, TypeOK, OrderIsPath, Started, Visited
  <1>3. ASSUME NEW r \in Runs, RunNode(r) PROVE OrderIsPath'
    BY <1>3, AdvanceOrder DEF RunNode, Turn
  <1>4. ASSUME NEW r \in Runs, SkipIndexer(r) PROVE OrderIsPath'
    BY <1>4, AdvanceOrder DEF SkipIndexer, Turn
  <1>5. ASSUME NEW r \in Runs, IndexerFails(r) PROVE OrderIsPath'
    <2>1. queue[r] # <<>> /\ ~Visited(r, Node(r)) /\ next' = next
      BY <1>5 DEF IndexerFails, AttemptsAreLeft, IndexedIsInserted
    <2>2. CASE UNCHANGED traversal
      BY <1>b, <2>1, <2>2
    <2>3. CASE Advance(r, "error")
      BY <2>1, <2>3, AdvanceOrder
    <2> QED BY <1>5, <2>2, <2>3 DEF IndexerFails
  <1>6. ASSUME NEW r \in Runs, Activate(r) PROVE OrderIsPath'
    <2>1. queue[r] # <<>> /\ ~Visited(r, Node(r)) /\ next' = next /\ Advance(r, "success")
      BY <1>6 DEF Activate, Goes, AttemptsAreLeft, IndexedIsInserted
    <2> QED BY <2>1, AdvanceOrder
  <1>7. ASSUME NEW r \in Runs, Commit(r) \/ Breaks(r) PROVE OrderIsPath'
    BY <1>7, <1>c DEF Commit, Breaks
  <1>8. ASSUME NEW r \in Runs,
               Execute(r) \/ FlushRows(r) \/ InsertVectors(r) \/ ReadOld(r)
        PROVE  OrderIsPath'
    BY <1>8, <1>b DEF Execute, FlushRows, InsertVectors, ReadOld
  <1>9. CASE DeletePipeline \/ UNCHANGED vars
    BY <1>9, <1>b DEF DeletePipeline, vars
  <1> QED
    BY <1>1, <1>2, <1>3, <1>4, <1>5, <1>6, <1>7, <1>8, <1>9 DEF Next, Step
\* The order in which a run has executed nodes follows the arrows of the pipeline, at any time.
LEMMA OrderInvariant == Spec => [](IInv /\ OrderIsPath)
  BY Invariant, InitOrder, NextOrder, PTL DEF Spec

\* An order without repetitions that has reached every node has as many entries as nodes.
LEMMA CompleteOrderLength ==
  ASSUME TypeOK, OrderIsPath, NEW r \in Runs, Range(order[r]) = Nodes
  PROVE  Len(order[r]) = Cardinality(Nodes)
  <1> DEFINE o == order[r]
  <1>1. o \in Seq(Nodes)
    BY DEF TypeOK
  <1>2. DOMAIN o = 1 .. Len(o) /\ Len(o) \in Nat /\ o \in [1 .. Len(o) -> Nodes]
    BY <1>1, LenProperties
  <1>3. \A n \in Nodes : \E i \in 1 .. Len(o) : o[i] = n
    BY <1>2 DEF Range
  <1>4. \A i, j \in 1 .. Len(o) : o[i] = o[j] => i = j
    BY <1>2 DEF OrderIsPath
  <1> HIDE DEF o
  <1>5. o \in Bijection(1 .. Len(o), Nodes)
    BY <1>2, <1>3, <1>4 DEF Bijection, Injection, Surjection, IsInjective
  <1>6. ExistsBijection(1 .. Len(o), Nodes)
    BY <1>5 DEF ExistsBijection
  <1>7. IsFiniteSet(1 .. Len(o)) /\ Cardinality(1 .. Len(o)) = Len(o)
    <2>1. \A k \in Nat : IsFiniteSet(1 .. k) /\ Cardinality(1 .. k) = k
      <3> SUFFICES ASSUME NEW k \in Nat PROVE IsFiniteSet(1 .. k) /\ Cardinality(1 .. k) = k
        OBVIOUS
      <3>1. 1 \in Int /\ k \in Int
        OBVIOUS
      <3>2. IsFiniteSet(1 .. k) /\ Cardinality(1 .. k) = IF 1 > k THEN 0 ELSE k - 1 + 1
        BY <3>1, FS_Interval, Zenon
      <3> QED BY <3>2
    <2> QED BY <1>2, <2>1
  <1> QED BY <1>6, <1>7, FS_Bijection DEF o

\* A task is committed as a success only by a run whose order covers the pipeline, follows its
\* arrows and holds no error, in every graph and after any failures of the indexer.
THEOREM SuccessMeansComplete == Spec => SuccessIsComplete
  <1> DEFINE Complete(r) ==
        /\ Len(order[r]) = Cardinality(Nodes) /\ Range(order[r]) = Nodes
        /\ \A n \in Nodes : result[r][n] # "error"
        /\ \A i \in DOMAIN order[r] :
             order[r][i] \in Roots \/ \E j \in 1 .. i - 1 : next[order[r][j]] = order[r][i]
  <1>1. ASSUME IInv, OrderIsPath, [Next]_vars, NEW r \in Runs,
               task'[r] = "success", task[r] = "none"
        PROVE  Complete(r)
    <2>1. task' # task
      BY <1>1
    <2>2. PICK q \in Runs : Commit(q)
      BY <1>1, <2>1 DEF Next, Step, Execute, Insert, SkipVisited, RunNode, SkipIndexer,
                        FlushRows,
                        InsertVectors, IndexerFails, ReadOld, Activate, Breaks, DeletePipeline,
                        vars, committed
    <2>3. q = r /\ Status(r) = "success"
      BY <1>1, <2>2 DEF Commit, IInv, TypeOK
    <2>4. Range(order[r]) = Nodes /\ \A n \in Nodes : result[r][n] # "error"
      BY <2>3 DEF Status
    <2> QED BY <1>1, <2>4, CompleteOrderLength DEF IInv, OrderIsPath
  <1>2. IInv /\ OrderIsPath /\ [Next]_vars =>
          [\A r \in Runs : task'[r] = "success" /\ task[r] = "none" => Complete(r)]_vars
    BY <1>1
  <1> QED BY <1>2, OrderInvariant, PTL DEF Spec, SuccessIsComplete
=============================================================================
