---------------------------- MODULE PipelineEngine -----------------------------
(***************************************************************************)
(* IngestionEngine (ingestion/pipeline_engine.py): runs of one pipeline,   *)
(* a graph of nodes each with at most one successor, over one document.    *)
(* A run is one transaction: its task is visible when it has ended, never  *)
(* while it is running, and not at all when the process dies or the        *)
(* session breaks.  Vectors are written outside of the transaction.        *)
(***************************************************************************)
EXTENDS Naturals, Sequences, SequencesExt, FiniteSets

CONSTANTS Runs,
          Fresh,              \* runs of ingestion jobs: a new generation; others say "v1"
          Chunker, Indexer,   \* nodes of these types
          Plain,              \* nodes of other types
          Leniencies,         \* bound: sets of nodes with stop_on_error: false
          MaxAttempts,        \* bound: attempts of the indexer
          None

Nodes == Plain \cup {Chunker, Indexer}

ASSUME PipelineAssumption ==
    /\ IsFiniteSet(Plain) /\ Chunker # Indexer /\ {Chunker, Indexer} \cap Plain = {}
    /\ Fresh \subseteq Runs
    /\ MaxAttempts \in Nat \ {0} /\ None \notin Nodes \cup Runs

VARIABLES
    next,     \* next_node_id
    lenient,  \* nodes with stop_on_error: false
    enabled,  \* the pipeline is
    sameKey,  \* the requests have one idempotency key
    at, queue, order, result, stop, chunks, attempt,
    inserted, \* the vectors of the attempt
    old,      \* the runs whose rows a run is about to retire
    task,     \* the status of the committed task
    active,   \* committed ACTIVE rows of runs: with their vectors, "bare", or "none"
    generation, \* committed active_generation
    docLock   \* the run that has updated the document

vars == <<next, lenient, enabled, sameKey, at, queue, order, result, stop, chunks, attempt,
          inserted, old, task, active, generation, docLock>>
pipeline == <<next, lenient, sameKey>>
traversal == <<queue, order, result, stop>>
index == <<attempt, inserted, old>>
committed == <<task, active, generation>>

Writers == Runs \cup {"first"}  \* the rows that the document has had so far
Generation(r) == IF r = "first" THEN "g" ELSE IF r \in Fresh THEN r ELSE "v1"
Served == {w \in Writers : active[w] # "none"}

\* validate_pipeline_graph: no cycle
Cyclic(f) == \E S \in SUBSET Nodes : S # {} /\ \A n \in S : f[n] \in S

Roots == {n \in Nodes : \A p \in Nodes : next[p] # n}

TypeOK ==
    /\ next \in [Nodes -> Nodes \cup {None}] /\ lenient \in Leniencies
    /\ enabled \in BOOLEAN /\ sameKey \in BOOLEAN
    /\ at \in [Runs -> {"idle", "sent", "node", "inserting", "reading", "activating",
                        "raised", "answered"}]
    /\ queue \in [Runs -> Seq(Nodes)] /\ order \in [Runs -> Seq(Nodes)]
    /\ result \in [Runs -> [Nodes -> {"none", "success", "skipped", "error"}]]
    /\ attempt \in [Runs -> 0 .. MaxAttempts]
    /\ task \in [Runs -> {"none", "success", "error"}]
    /\ inserted \in [Runs -> BOOLEAN] /\ old \in [Runs -> SUBSET Writers]
    /\ active \in [Writers -> {"none", "bare", "indexed"}]
    /\ docLock \in Runs \cup {None}

Init ==
    /\ next \in {f \in [Nodes -> Nodes \cup {None}] : ~Cyclic(f)}
    /\ lenient \in Leniencies /\ enabled = TRUE /\ sameKey \in BOOLEAN
    /\ at = [r \in Runs |-> "idle"]
    /\ queue = [r \in Runs |-> <<>>] /\ order = [r \in Runs |-> <<>>]
    /\ result = [r \in Runs |-> [n \in Nodes |-> "none"]]
    /\ stop = [r \in Runs |-> TRUE] /\ chunks = [r \in Runs |-> FALSE]
    /\ attempt = [r \in Runs |-> 0] /\ inserted = [r \in Runs |-> FALSE]
    /\ old = [r \in Runs |-> {}]
    /\ task = [r \in Runs |-> "none"]
    /\ active = [w \in Writers |-> IF w = "first" THEN "indexed" ELSE "none"]
    /\ generation = "g" /\ docLock = None

Goes(r, from, to) == at[r] = from /\ at' = [at EXCEPT ![r] = to]

-----------------------------------------------------------------------------
(* The request. *)

\* a task with the key is committed already: its payload is the answer
Execute(r) ==
    /\ Goes(r, "idle", IF sameKey /\ (\E q \in Runs : task[q] # "none") THEN "answered" ELSE "sent")
    /\ UNCHANGED <<pipeline, enabled, traversal, chunks, index, committed, docLock>>

\* the nodes are read once; those without a predecessor have no order of their own
Begin(r) ==
    /\ at' = [at EXCEPT ![r] = "node"]
    /\ IF enabled THEN \E q \in SetToSeqs(Roots) : queue' = [queue EXCEPT ![r] = q] ELSE UNCHANGED queue

\* variant: nothing stops a second task with the key
InsertAny(r) ==
    /\ at[r] = "sent" /\ Begin(r)
    /\ UNCHANGED <<pipeline, enabled, order, result, stop, chunks, index, committed, docLock>>

\* the unique index makes the insertion wait for a run with the same key, and fail after it
Insert(r) ==
    /\ at[r] = "sent"
    /\ sameKey => \A q \in Runs \ {r} : at[q] \in {"idle", "sent", "raised", "answered"}
    /\ IF sameKey /\ (\E q \in Runs : task[q] # "none")
       THEN at' = [at EXCEPT ![r] = "raised"] /\ UNCHANGED queue
       ELSE Begin(r)
    /\ UNCHANGED <<pipeline, enabled, order, result, stop, chunks, index, committed, docLock>>

Node(r) == Head(queue[r])

\* settings accumulate: a lenient node leaves its leniency to those after it
StopsAfter(r, n) == stop[r] /\ n \notin lenient

Visited(r, n) == result[r][n] # "none"

\* the end of a node: what follows it is queued, unless it has run
Advance(r, status) ==
    LET n == Node(r)
        fresh == next[n] # None /\ ~Visited(r, next[n])
    IN  /\ result' = [result EXCEPT ![r][n] = status]
        /\ order' = [order EXCEPT ![r] = Append(@, n)]
        /\ stop' = [stop EXCEPT ![r] = StopsAfter(r, n)]
        /\ queue' = [queue EXCEPT ![r] =
             IF status = "error" /\ StopsAfter(r, n) THEN <<>>
             ELSE IF fresh THEN Append(Tail(@), next[n]) ELSE Tail(@)]

\* the next node of the queue, if it has not run already
Turn(r) == at[r] = "node" /\ queue[r] # <<>> /\ ~Visited(r, Node(r))

\* a node with two predecessors is in the queue twice
SkipVisited(r) ==
    /\ at[r] = "node" /\ queue[r] # <<>> /\ Visited(r, Node(r))
    /\ queue' = [queue EXCEPT ![r] = Tail(@)]
    /\ UNCHANGED <<pipeline, enabled, at, order, result, stop, chunks, index, committed, docLock>>

\* all attempts of a node
RunNode(r) ==
    /\ Turn(r) /\ Node(r) # Indexer
    /\ \E s \in {"success", "error"} :
         /\ Advance(r, s)
         /\ chunks' = [chunks EXCEPT ![r] = @ \/ (Node(r) = Chunker /\ s = "success")]
    /\ UNCHANGED <<pipeline, enabled, at, index, committed, docLock>>

-----------------------------------------------------------------------------
(* The indexer. *)

SkipIndexer(r) ==
    /\ Turn(r) /\ Node(r) = Indexer /\ ~chunks[r]
    /\ Advance(r, "skipped")
    /\ UNCHANGED <<pipeline, enabled, at, chunks, index, committed, docLock>>

\* variant: the attempts are not counted
FlushRowsForEver(r) ==
    /\ Turn(r) /\ Node(r) = Indexer /\ chunks[r]
    /\ Goes(r, "node", "inserting")
    /\ attempt' = [attempt EXCEPT ![r] = 1] /\ inserted' = [inserted EXCEPT ![r] = FALSE]
    /\ UNCHANGED <<pipeline, enabled, traversal, chunks, old, committed, docLock>>

\* embeddings, and PENDING rows of this attempt
FlushRows(r) ==
    /\ Turn(r) /\ Node(r) = Indexer /\ chunks[r]
    /\ Goes(r, "node", "inserting")
    /\ attempt' = [attempt EXCEPT ![r] = @ + 1] /\ inserted' = [inserted EXCEPT ![r] = FALSE]
    /\ UNCHANGED <<pipeline, enabled, traversal, chunks, old, committed, docLock>>

\* variant: a failed insertion is only logged, like one of Elasticsearch
InsertVectorsOrNot(r) ==
    /\ Goes(r, "inserting", "reading")
    /\ \E ok \in BOOLEAN : inserted' = [inserted EXCEPT ![r] = ok]
    /\ UNCHANGED <<pipeline, enabled, traversal, chunks, attempt, old, committed, docLock>>

InsertVectors(r) ==
    /\ Goes(r, "inserting", "reading")
    /\ inserted' = [inserted EXCEPT ![r] = TRUE]
    /\ UNCHANGED <<pipeline, enabled, traversal, chunks, attempt, old, committed, docLock>>

\* variant: the attempts are counted from zero
IndexerFailsOnceMore(r) ==
    /\ at[r] \in {"inserting", "reading"}
    /\ at' = [at EXCEPT ![r] = "node"]
    /\ \/ attempt[r] <= MaxAttempts /\ UNCHANGED traversal
       \/ Advance(r, "error")
    /\ UNCHANGED <<pipeline, enabled, chunks, index, committed, docLock>>

\* an error or a timeout of the insertion, or of a required index after it: the rows of the
\* attempt remain PENDING, and its vectors where they are
IndexerFails(r) ==
    /\ at[r] \in {"inserting", "reading"}
    /\ at' = [at EXCEPT ![r] = "node"]
    /\ \/ attempt[r] < MaxAttempts /\ UNCHANGED traversal
       \/ Advance(r, "error")
    /\ UNCHANGED <<pipeline, enabled, chunks, index, committed, docLock>>

\* the ACTIVE rows of other generations, as committed by now
ReadOld(r) ==
    /\ Goes(r, "reading", "activating")
    /\ old' = [old EXCEPT ![r] = {w \in Served : Generation(w) # Generation(r)}]
    /\ UNCHANGED <<pipeline, enabled, traversal, chunks, attempt, inserted, committed, docLock>>

\* the flush waits for another run that has updated the document
Activate(r) ==
    /\ docLock = None /\ Goes(r, "activating", "node")
    /\ docLock' = r
    /\ Advance(r, "success")
    /\ UNCHANGED <<pipeline, enabled, chunks, index, committed>>

-----------------------------------------------------------------------------
(* The end. *)

\* the locals of a run are forgotten
Forget(r) ==
    /\ order' = [order EXCEPT ![r] = <<>>] /\ queue' = [queue EXCEPT ![r] = <<>>]
    /\ result' = [result EXCEPT ![r] = [n \in Nodes |-> "none"]]
    /\ stop' = [stop EXCEPT ![r] = TRUE] /\ chunks' = [chunks EXCEPT ![r] = FALSE]
    /\ attempt' = [attempt EXCEPT ![r] = 0] /\ inserted' = [inserted EXCEPT ![r] = FALSE]
    /\ old' = [old EXCEPT ![r] = {}]
    /\ docLock' = IF docLock = r THEN None ELSE docLock

\* variant: the last status stands
StatusOfLast(r) ==
    IF order[r] # <<>> /\ result[r][Last(order[r])] # "error" THEN "success" ELSE "error"

\* an error stands; so does a node that has not been reached
Status(r) ==
    IF Range(order[r]) = Nodes /\ \A n \in Nodes : result[r][n] # "error" THEN "success" ELSE "error"

\* the rows of the last attempt are served, and the old ones retired
Switch(r) ==
    active' = [w \in Writers |-> IF w = r THEN (IF inserted[r] THEN "indexed" ELSE "bare")
                                 ELSE IF w \in old[r] THEN "none" ELSE active[w]]

\* variant: the document is switched to the generation although nothing has been indexed
CommitGeneration(r) ==
    /\ queue[r] = <<>> /\ Goes(r, "node", "answered")
    /\ task' = [task EXCEPT ![r] = Status(r)]
    /\ IF result[r][Indexer] = "success" THEN Switch(r) ELSE UNCHANGED active
    /\ generation' = Generation(r)
    /\ Forget(r) /\ UNCHANGED <<pipeline, enabled>>

\* the transaction of the request
Commit(r) ==
    /\ queue[r] = <<>> /\ Goes(r, "node", "answered")
    /\ task' = [task EXCEPT ![r] = Status(r)]
    /\ IF result[r][Indexer] = "success"
       THEN Switch(r) /\ generation' = Generation(r)
       ELSE UNCHANGED <<active, generation>>
    /\ Forget(r) /\ UNCHANGED <<pipeline, enabled>>

\* a statement fails or is cancelled by the timeout of the node, the client or the process
\* goes: everything but the vectors is rolled back, the task included
Breaks(r) ==
    /\ at[r] \in {"sent", "node", "inserting", "reading", "activating"}
    /\ at' = [at EXCEPT ![r] = "raised"]
    /\ Forget(r) /\ UNCHANGED <<pipeline, enabled, committed>>

\* No run is ever seen to be running by the check before it.
DeletePipeline ==
    /\ enabled /\ enabled' = FALSE
    /\ UNCHANGED <<pipeline, at, traversal, chunks, index, committed, docLock>>

Step(r) ==
    \/ Insert(r) \/ SkipVisited(r) \/ RunNode(r) \/ SkipIndexer(r) \/ FlushRows(r)
    \/ InsertVectors(r) \/ IndexerFails(r) \/ ReadOld(r) \/ Activate(r) \/ Commit(r)

Next ==
    \/ \E r \in Runs : Execute(r) \/ Step(r) \/ Breaks(r)
    \/ DeletePipeline

\* a handler goes on: every node has a time limit
Spec == Init /\ [][Next]_vars /\ \A r \in Runs : WF_vars(Step(r))

-----------------------------------------------------------------------------
(* Properties. *)

\* A task that says "success" has run every node of the pipeline once, none of them with an
\* error, and each of them after one of its predecessors.
SuccessIsComplete ==
    [][\A r \in Runs : task'[r] = "success" /\ task[r] = "none" =>
        /\ Len(order[r]) = Cardinality(Nodes) /\ Range(order[r]) = Nodes
        /\ \A n \in Nodes : result[r][n] # "error"
        /\ \A i \in DOMAIN order[r] :
             order[r][i] \in Roots \/ \E j \in 1 .. i - 1 : next[order[r][j]] = order[r][i]]_vars

\* However often a request is sent with one idempotency key, one task of it is committed.
KeyRunsOnce == sameKey => Cardinality({r \in Runs : task[r] # "none"}) <= 1

\* Whatever attempts fail, and whatever runs overlap: what is served has its vectors, and the
\* generation of the document is one that is served.
ServedIsIndexed ==
    /\ \A w \in Writers : active[w] # "bare"
    /\ \E w \in Served : Generation(w) = generation

\* Every request is answered or fails: no two of them wait for each other.
EveryRunEnds == \A r \in Runs : at[r] = "sent" ~> at[r] \in {"answered", "raised"}

\* "activates the new generation and retires the old one".  Refuted: a second request has the
\* generation of the first, whose rows stay; and runs that overlap do not see each other.
OneGenerationServed == Cardinality(Served) = 1

\* Refuted, with a fourth node: of two paths to a node the shorter one starts it.
PredecessorsFirst ==
    \A r \in Runs : \A i \in DOMAIN order[r] : \A n \in Nodes :
        next[n] = order[r][i] => n \in Range(SubSeq(order[r], 1, i))
=============================================================================
