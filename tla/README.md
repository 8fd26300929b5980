# Formal model of the flavor-rag backend

This directory keeps TLA+ models of flavor-rag: the durable queues and the external
indexes that must agree with PostgreSQL, the life of a question and its answer,
and what is drawn from documents and answers. TLC checks them on small instances,
TLAPS proves the most important properties for all values of the constants. All
line numbers are of `src/`; paths without a prefix are below
`src/flavorag-server/app/`.

## 1. The system

flavor-rag is a FastAPI server with background workers. PostgreSQL is the
authority for documents, chunks and jobs; Milvus (vectors), Elasticsearch
(keywords) and a graph (Neo4j, LightRAG) are derived from it. Requests only
write rows; workers, in the server process or in processes of their own
(`worker/registry.py`), poll tables of jobs. Questions go through retrieval and a
model, and are answered as a stream.

| component | state | operations | what is hard | modules |
|---|---|---|---|---|
| ingestion queue, `services/ingestion_jobs.py`; transaction, `ingestion/pipeline.py`; deletion, `api/knowledge.py`, `services/index_sync.py` | jobs, chunk rows with generation and status, indexes | enqueue, claim, save, index, activate, fail; delete and clean up | two runs of a job, crash between claim and commit, external writes that are not rolled back | `IngestionJobs`, `GenerationStore` |
| chunking, `ingestion/chunker.py` | index into a text, chunks so far | normalize, cut, merge, pack | loops that must end, lines that must not be lost | `FixedWindowChunks`, `DocumentBlocks` |
| pipeline engine, `ingestion/pipeline_engine.py`, `ingestion/nodes/` | one transaction: queue of nodes, results, rows; vectors outside of it | execute, run a node, retry, commit | idempotency keys, time limits, overlapping runs | `PipelineEngine` |
| index generations, `services/index_lifecycle.py`, `services/retention.py` | records, collections, active collection | plan, build, validate, promote, retire, drop | long builds next to ingestion; resumption | `IndexGenerations` |
| reconciliation and repair, `services/index_reconciliation.py`, `services/index_repair.py` | repair jobs | compare, delete orphans, repair | two stores that change meanwhile | `IndexReconciliation` |
| batch import, `services/batch_import.py` | job and file records | claim, import files, count, finish | resumption, claims that are not renewed | `BatchImports` |
| evaluation, `services/evaluation_jobs.py`, `evaluation/` | run with lease; case with votes; metrics | sweep, claim, renew, finish; vote, promote; score | fencing, overlapping transactions, ratios | `EvaluationRuns`, `EvaluationCases`, `EvaluationMetrics` |
| schedules, `services/schedule/`, `services/url_refresh_scheduler.py`, `worker/leader_lock.py` | schedule row, advisory locks, content hash | poll, lock, refresh, lead | what is committed when; lost sessions | `DocumentSchedules` |
| chat, `api/chat.py`, `services/chat_service.py`, `services/stream_control.py` | stop registry, messages, cases, summary, trace | stream, stop, save, summarise | two streams of a conversation, clients that leave | `ChatStreams` |
| retrieval, `rag/pipeline.py`, `agent/` | tasks of a question, results, rows that change | understand, search, fuse, resolve, authorise, repeat | early tasks, time limits, stale evidence | `RetrievalRequest`, `RetrievalEvidence` |
| governance, `rag/governance.py` | breakers, budgets, quotas | select context, allow, record | replacing while counting, half-open probes | `ContextSelection`, `ModelCalls` |
| clients, `llm/client.py`, `llm/embedding.py`, `rag/rate_limiter.py` | breakers, cache and requests in flight, window | stream with fallback, join a request, check and record | streams that break off, cancelled callers, check and use | `ModelCalls`, `QueryEmbeddings`, `RateLimiter` |
| interviews, `api/interview.py`, `services/interview.py` | session, answers, profile | start, save, submit, abandon, clear; script, grade | double submits, replies of a model | `InterviewSessions`, `InterviewScoring` |
| graph RAG, `rag/graph/` | entity nodes, bridges | write, remove, merge, backfill; extract | several transactions per call, providers that fail | `EntityGraph`, `SemanticExtraction` |
| memory, `memory/mem0_client.py` | memories in Milvus and Elasticsearch | extract, add, supersede, search | background tasks of one user overlap | `UserMemories` |
| watchdog, audit, profiles' daily rebuild, approval, quota, semantic cache, frontend, schema | | | not modelled, or partly: section 9 | |

Interaction: requests enqueue jobs in the transaction that changes the
document; workers share nothing but the tables, their row locks and PostgreSQL
advisory locks; ingestion, reconciliation, repair and index builds all write the
same Milvus collections; retrieval reads the collections and then filters by the
chunk rows; an answer's stream calls retrieval, then a model through a plan with
breakers, and leaves a message, a case, a summary and background tasks behind.

## 2. Plan and its state

1. `GenerationStore`, `IngestionJobs` with proofs: the core. Done.
2. `IndexGenerations` and `IndexReconciliation` with proofs. Done.
3. The other job queues: `EvaluationRuns`, `BatchImports` and `PipelineEngine` with
   proofs, `DocumentSchedules`. Done.
4. The life of a question: `RetrievalRequest`, `RetrievalEvidence`,
   `ContextSelection`, `ModelCalls`, `QueryEmbeddings`, `RateLimiter`,
   `ChatStreams` with proofs. Done.
5. Content: chunkers, graph, extraction, memories, interviews, cases, metrics. Done.

Left: the composition of `IndexGenerations` with `IndexReconciliation` (the
reconciler works on whatever collection is active, and a build may switch it under a
reconciliation); the parsers of `ingestion/structured.py`; the searches of the graph;
the materials of interviews; the watchdog next to a run of the queue.

Proofs: every safety invariant of every run is stated by a theorem, as are the action
properties and the refinement; what is left to TLC is liveness (section 9). Sections 3 to
8 give the arguments. Worth proving next: promises of `IndexReconciliation` about single
steps, of which only liveness is stated, and the properties of section 10 under conditions
that exclude what refutes them.

### How runs are put together

Modules that share no state are checked in one run as *parts*: the initial state chooses a part,
the others rest in one initial state of theirs, and a step belongs to the part chosen. So a run
explores the union of the parts' states, not their product. `MCJobs` has four parts (the two
loops of `DocumentSchedules` read nothing of each other), `MCRetrieval` four and `MCIndexes`
two, each with variables of its own (the two of `MCIndexes` are explored by two runs, which
differ in `Parts`); `MCContent` has eleven, whose variables are substituted by thirteen shared
slots (`s1 .. s13`): a variable that a part does not have stays `None`. The assumptions of the
modules are the `ASSUME` of the MC module. A property of such a run is the conjunction of named
properties of the parts; the mutant listed for it breaks one of them.

Where a part is proved about, what an instance has fixed is a constant of the MC module and a
value of the `.cfg`, so that the theorems speak of all values: the discount of positions, the
sizes of candidates, the providers. The modules of `MCContent` define the few helpers on
sequences that they need (`Rising`, `LinesIn`) instead of extending `SequencesExt`: each
instance would bring all of its operators into every proof.

## 3. The ingestion queue: `IngestionJobs`

### State and code

A job is identified by its idempotency key and owns one chunk generation, so the
constant `Jobs` stands for both. Each claim increments `attempts`; the run it
starts is `<<job, attempts>>`. The chunk rows of a run are one unit: they are
inserted, activated, superseded and deleted together.

| variable | code |
|---|---|
| `status`, `attempts`, `ripe` | `IngestionJob.status`, `.attempts`; whether `next_retry_time` or the claim timeout has passed |
| `docStatus`, `deleted`, `active`, `pending` | the columns of `KnowledgeDocument` |
| `lock` | who holds the row of the document (an uncommitted UPDATE) |
| `chunks`, `repairs`, `cleanup` | committed `KnowledgeChunk` rows, `IndexRepairJob`, `IndexSyncJob` |
| `index` | what Milvus, Elasticsearch and the graph hold |
| `pc`, `indexed`, `previous` | where the coroutine of a run is, and its local `es_ok`/`graph_ok` and `previous` |
| `same` | the fields that its session has loaded with the value that the commit is going to assign |
| `running`, `awaited` | tasks of a process; those its `gather` still waits for |

Requests (`Upload`, `Reprocess`, `DeleteDocument`) are single transactions that
wait for the row of the document. A run is `Load`, `Save`, `InsertVectors`,
`IndexChannels`, `SelectPrevious`, `Activate`, one step for each stretch between
two points where something else can be seen or can happen. `Save` takes the row
lock because the first flush sends `doc.status = "running"`; `Activate` is the
commit. `Fail` is any exception in the try block, `MarkFailure` the transaction
that records it. `FailCommit` is the one exception the code does not catch:
the commit itself. `Crash` is the death of a process.

Two details decide what can be promised. SQLAlchemy sends no UPDATE for a column that is
assigned the value it was loaded with: a run that has loaded the document with its own
generation as the active one (`same`) leaves `active` to whoever wrote it since. And the graph
is not versioned: `upsert_chunks` (`rag/graph/neo4j_store.py:147`) first deletes all entities of
the document in a transaction of its own, so `IndexChannels` takes the entries of other runs out
of the graph (`Displaces`), also those of the generation that is served, before it adds its own.

### Runs

| run | instance | shows |
|---|---|---|
| `ingestion_switch` | one document, upload and reprocessing, two workers, a required and an optional channel, one fault, runs that outlive their claim | types; one served generation; what is served is indexed, but for a graph that a run has displaced; never out of service |
| `ingestion_retry` | the same document, three claims per job, an optional channel, runs that end in time, deletion | no duplicates; a shown success is earned; settled jobs stay settled; refinement of `GenerationStore` |
| `ingestion_liveness` | two documents, one process with batches of two, one fault | every job settles |

Bounds: `MaxClaims` limits the claims of a job (2 let a claim be taken over; 3
exceed `MaxAttempts = 2`), `MaxFaults` the crashes and failed commits. The
claims are cut off in the guard of `Claimable`, so a run at the bound only loses
further retries. `RunsOutliveClaim` says whether a live run may be older than
`ingestion_job_claim_timeout_sec` (900 s): the code does not prevent it, so the
safety of the switch is checked and proved with it; the properties that
need punctual runs (`ingestion_retry`) are checked without it; each of them fails with it
(section 10). Deadlock
checking is off because a queue with nothing to do is idle, not stuck.

Fairness (`Fairness`): the poll loop keeps claiming, the event loop resumes each
coroutine, time passes. Requests, crashes and failures are not forced. With
finitely many faults every job settles; the bound on attempts comes from
`max_attempts`.

### Proofs: `IngestionJobs_proofs`

For every set of documents, jobs, channels and workers, and with late runs:

- `TypeCorrect`: the types.
- `OneGenerationIsServed`, `ServedUntilTheSwitch`: the switch of generations is
  safe. `OneServedGeneration` is not inductive: a commit supersedes the rows its
  run had *read*. What makes it inductive is `LockHeld` (between `Save` and the
  commit the run holds the row of its document) and `PreviousIsCurrent` (what it
  read is what a read would return now): only a commit or a deletion changes
  chunk rows (`NextChunks`), and both need the row.
  What is served is then of one generation, which need not be the one that `active` records.
- `ServedChunksAreIndexed`: from `WritesAreKept` (Milvus and Elasticsearch keep what a run wrote
  until its document is deleted, the graph until another run displaces it) and
  `CleanupOfDeleted`.
- `InductiveInvariant`: the conjunction `IInv`.

For the same sets, if no run outlives its claim. `~RunsOutliveClaim` is a hypothesis of each
of these theorems, as the code does not enforce it: 900 s are meant to be longer than any run,
and section 10 shows what happens when they are not.

- `PunctualInvariant`: `PunctualInv` is inductive. A live run is the latest attempt of a
  RUNNING job whose claim has not aged (`OneLiveRun`), so a claim finds no job that has a
  live run; rows are committed with the success of their job (`RowsOfSuccess`), so the run
  that commits is the first one of the job to do so (`OneRunCommits`).
- `RecordedIsTheServed`: `active` is the generation that is served. A run loads its document
  while its job is RUNNING, and what is recorded belongs to a job in SUCCESS
  (`RunsReadUnsettled`), so no run has loaded its own generation and every commit writes it.
- `ChunksAreNotDuplicated`, `SuccessIsEarned`, `SettledJobsAreFinal` follow from it, the first
  together with `OneServedGeneration`.
- `Refinement`: `IngestionJobs` implements `GenerationStore`. Only `Activate` and a deletion
  change what is served: an activation is the switch to a generation that was never
  published, and records it, as no other run of the job has committed; every other step is a stutter.

Assumed: `ConstantsAssumption`, and the semantics of PostgreSQL at READ COMMITTED
that is built into the actions.

Only model-checked: `EveryJobSettles`.

## 4. Index generations: `IndexGenerations`

### State and code

| variable | code |
|---|---|
| `status`, `kbOf` | `KnowledgeIndexGeneration.status` and `.kb_id`; a generation is a number in the order of `create_time`, `"NONE"` before its record exists |
| `active`, `kbState` | `KnowledgeBase.active_collection_name`, `.deleted`, and whether a deletion is between the drop and its commit |
| `chunk`, `target` | progress and row of a chunk; the collection its ingestion has taken the name of |
| `present`, `coll` | Milvus: which collections exist, what is in them. `<<c, n>>` is the n-th vector of chunk `c`: the primary key is assigned by Milvus, so a chunk can be inserted twice |
| `pc`, `gen` | where `IndexBuildWorker._loop` and `build_and_promote` are, and the generation they work on |
| `contested` | history: knowledge bases in which two builds have met, or a build has begun after its generation was settled |
| `snap`, `todo`, `old`, `base` | locals of `build_and_promote`: `chunks`, the batches left, `active_generations`, the `KnowledgeBase` row the promotion has read |

A build is `Choose` (the oldest BUILDING record), `Lock` (advisory lock),
`Snapshot` or `RecordMissing` (`scalar_one` outside the `try`), `InsertBatch`
for each batch, `Validate`, `ReadActive` and `Promote` (two steps: the SELECTs and
the commit of a transaction that takes no row lock before it writes),
`BuildError` and `RecordFailure`. `Crash` also stands for `stop()`:
`CancelledError` is not caught by `except Exception`. Next to it run ingestions
(`LoadTarget`, `StoreVectors`, `CommitChunk`), deletions of documents
(`DeleteChunk`) and of the knowledge base (`DropActive`, `CommitDeletion`,
`AbortDeletion`) and retention (`Purge`).

### Runs

| run | instance | shows |
|---|---|---|
| `generations_promote` | two knowledge bases of which one may be deleted, four generations, one chunk ingested and deleted meanwhile, two build processes, one crash or aborted request | types; in what is not contested, records and active collection agree, the collection exists and what is promoted is exactly the snapshot; every plan is promoted or FAILED |

Two build processes are the default deployment: `docker-entrypoint.sh:8` starts two server
processes, and each runs an `IndexBuildWorker` (`main.py:250`). The advisory lock is of the
generation, not of the knowledge base, and the record is not read again under it, so the code
lets two builds of a knowledge base meet, and a build begin that another process has already
promoted. What then goes wrong is in section 10; `contested` marks the knowledge bases in which
it has happened, and the three safety properties leave those out. They are about everything
else that two processes do: builds of different knowledge bases, builds that are resumed by the
other process, one that finds the lock taken, and builds that follow each other.

Bounds: `MaxGens` is the number of records: with the two of the beginning, four let a
generation be promoted, retired and purged while another one is built. One chunk is enough for a
snapshot that is empty, complete, or older than the chunk, and for one that is inserted twice
after a crash. `MaxFaults` bounds crashes and aborted requests; build errors are not bounded.
Fairness: the worker loop goes on (`WF` on its next step); requests, retention, crashes and
errors are not forced. `EveryBuildSettles` excuses plans younger than one of a deleted knowledge
base, which no build can end.

`IndexGenerations` and `IndexReconciliation` are the two parts of `MCIndexes`.

### Proofs: `MCIndexes_proofs`

For any number of build processes, knowledge bases and generations:
`ActiveGenerationIsRecorded`, `ActiveCollectionIsPresent` and `PromotedCollectionIsComplete`
follow from `IInv` (`InductiveInvariant`), which adds to them

- `BuildIsOwned`: a knowledge base that is not contested has one build at most, and what that
  builds stays BUILDING, so that retention keeps off it;
- `ViewIsCurrent`: what the promotion has read is still so when it writes;
- `ActiveWasPromoted`: what is active, or was when a promotion read it, is of its knowledge base
  and no longer BUILDING. This holds of contested ones too: a promotion retires
  collections of its own knowledge base only, so that what happens in a contested one
  does not reach the others;
- `TargetWasActive`: ingestions write into collections that were active once, never
  into the one being built;
- `BuildProgress` and `VectorsAreNumbered`: what is not left to insert is in the
  collection, so that as many vectors as chunks (all that `Validate` compares)
  means one vector of each.

`TypeCorrect` and `PartsAreImplemented` say that the specification that the runs explore is
typed and implements that of each part.

## 5. Reconciliation and repair: `IndexReconciliation`

### State and code

An item is what one ingestion writes: the chunks of a generation of a document.

| variable | code |
|---|---|
| `ingest`, `rows` | progress of the ingestion transaction; committed chunk rows: none, ACTIVE, or superseded or deleted (`"gone"`) |
| `cleaning` | documents being deleted: vectors removed, transaction not committed |
| `copies` | how many times the active collection holds the item |
| `rpc`, `seen`, `missing`, `orphans` | where the reconciler's `run_once` is, and its locals |
| `jobStatus`, `attempts` | `IndexRepairJob`; `Records` bounds how many jobs of an item there are at a time |
| `wpc`, `batch`, `job`, `found` | where a repair worker's `_process` is, the jobs it claimed, and whether `chunks` is empty |

The reconciler reads rows (`ReadRows`), compares (`ReadExisting`), lists Milvus
(`ReadPhysical`), deletes orphans (`DeleteOrphans`) and commits new jobs
(`QueueRepairs`): five points at which an ingestion or a deletion can come
between. A repair is `Claim`, `LoadJob`, `RemoveVectors`, `InsertVectors`,
`Finish` or `RepairFails`. The advisory lock leaves one reconciler at a time.

### Runs

| run | instance | shows |
|---|---|---|
| `reconcile` | one item with its ingestion and deletion, the reconciler, two repair workers with batches of two that may die, three faults | types; no chunk is twice in the collection; missing vectors are repaired and orphans removed |

Bounds: two `Records` leave room for a job that waits while another one is stuck or
has ended; `MaxAttempts = 2` reaches SUCCESS, RETRY and DEAD; `MaxFaults` bounds
exceptions, aborted requests and crashes. `MissingIsRepaired` excuses items whose
repair was abandoned by a worker that died: such a job stays RUNNING and the
reconciler takes it for pending (section 10).
Fairness: both loops go on polling (every 1800 s and 15 s), and a deletion that has
cleaned the indexes ends; ingestions need not.

### Proofs: `MCIndexes_proofs`

`NoChunkTwice`, from `RepairsAreExclusive`, for any number of documents, workers, records
and faults, crashes included. `NoDuplicateVectors` is not inductive, as a repair
inserts without looking. `ReconInv` adds that a job that is held is RUNNING
(`HeldIsRunning`) and held by one worker (`HeldOnce`), that an item has one
pending job (`OnePending`), hence two workers never repair the same item
(`RepairsAreApart`), that the ingestion of an item with ACTIVE rows has ended
(`IngestedOnce`, `RepairKnows`), and that between removal and insertion the
collection holds nothing of the item (`RemovedIsGone`). So `NoChunkTwice` rests on
RUNNING jobs never being claimed again: with a lease on them alone, the expiry that would free
an abandoned job could break it.

## 6. The other queues

The theorems about them are in `MCJobs_proofs`, first those of each module, then `TypeCorrect`
(`TypeOK`) and `TakenByOne` (`JobsAreExclusive`) of the three as the run `jobs` has them.

### Evaluation runs: `EvaluationRuns`

The row of `EvaluationRun` (`status`, `holder`, `lease`, `due`, `attempts`) and the
workers (`at`, `work`, `tries`). A worker polls (`SweepAndClaim`: expired leases are
swept and the oldest run is claimed, in one transaction), loads, evaluates and writes
(`Load`, `Evaluate`, `WriteResult`), or fails and records it (`Fail`,
`RecordFailure`, fenced by `claimed_by`). `LeaseExpires` is time: the lease of a dead
worker expires freely, that of a live one costs one of `MaxStalls`.

Proved for any number of runs and workers (`OneWorkerWithoutStalls`,
`CompletedRunsStay`), from `RunsAssumption`: as long as `stalls = 0` every worker that is
not idle holds a fresh lease on the run it works on (`LeaseIsHeld`), and the sweep and
the claim look at waiting runs and expired leases only, so never at that one.

### Batches: `BatchImports`

One job, its file records and the documents by content; a worker claims the job (also one
that has been running for 15 minutes, as the claim is not renewed), begins, imports one
file per transaction and ends the job. `punctual` says that no live claim grows that old: it
is a variable chosen at the start, so that both worlds are explored.

Proved for any number of workers, files and claims (`ImportedOnce`): a content is checked
and imported in two steps, so between them only solitude protects it. A claim grows stale
when all workers are idle, so whoever has the job is alone, and the job stays running and
fresh (`ClaimIsHeld`); hence what is being ingested is not there yet (`IngestedIsNew`). The
types bound what a worker has counted by the number of files, which needs that a file is
counted once, after it has left the list (`CountsFit`), and that `Files` is finite.

### Schedules: `DocumentSchedules`

Two loops in each process: `at` is the loop of `t_knowledge_document_schedule` with its
advisory lock, `url` the hourly loop of the leader. What the first writes is only
flushed: closing its session rolls everything back, so its actions change no committed
variable but the locks. A schedule may be deleted between the poll and the second reading:
`Refresh` then raises in its `finally` (`services/schedule/scheduler.py:142`, `:160`) and the
session keeps the lock. Sessions of locks may be lost (`lost`).

The URL loop compares a hash of headers. The upload from a URL stores that of the first version
(`api/knowledge.py:869`, `:1210`); what the loop assigns later, inside a JSON column, is never
noticed. So `hashed` says whether `chunk_config` still has the hash of the creation, and
`Unchanged` compares the headers with those of version 0; a reprocessing replaces `chunk_config`
and queues the ingestion of a file that was downloaded before (`queued`). `Headers` maps
versions to headers: the run gives each its own.

Run `jobs` (`MCJobs`): two workers or replicas; two runs with three attempts, a crash and
a stall; two files with equal or different content, two claims; two versions behind the URL,
which may go back to the first one. The loops of the schedule and of the URL are two parts, as
neither reads what the other writes.
`JobsAreExclusive` is what the leases and locks are for; `EveryJobEnds` that nothing gets
stuck. Fairness: workers poll and time passes; of the URL loop the check is weakly,
the fetch and the commit strongly fair (a crash or a failed ingestion may come first, but not for ever).
`ChangesAreServed` is conditional on one process staying the leader, and on headers that differ
from those of the creation. Proved: a replica between the lock and its release has the lock of
the document until a session is lost (`LockIsHeld`), so no two refresh it at once.

### Pipeline engine: `PipelineEngine`, `PipelineEngine_proofs`

A run is one database transaction around a traversal: `queue`, `order`, `result` are locals
of `execute`, `task`, `active`, `generation` what is committed. The graph is any function
from nodes to at most one successor without a cycle, chosen in the initial state, as are the
nodes with `stop_on_error: false` and whether the requests share an idempotency key. A queue
holds a node twice if two predecessors queued it: `SkipVisited` passes the second one. The
indexer is several steps (`FlushRows`, `InsertVectors`, `ReadOld`, `Activate`), all others
one (`RunNode`). `Breaks` is a timeout within a statement, a broken session or the
death of the process: all is rolled back but the vectors.

Run `pipeline_engine`: two requests on every graph of three nodes, two attempts, one plain
node that may be lenient, one request of an ingestion job with a generation of its own.
Fairness: the handler goes on, as every node has a time limit.

Proved for any finite graph and any requests and attempts: `TypeCorrect`,
`OneTaskForAKey`, `ServedChunksHaveVectors`, `SuccessMeansComplete`. The inductive
invariant says that a run with a key is alone in its transaction and that no task of the key
is committed meanwhile (`KeyIsHeld`), and that the indexer, once it has succeeded, holds the
vectors of its last attempt, because a node that has a result is not run again
(`AttemptsAreLeft`, `IndexedIsInserted`). `SuccessMeansComplete` adds `OrderIsPath`: no node
is twice in `order`, exactly the nodes with a result are in it, each after a predecessor,
and whatever is queued is a root or has a predecessor that ran.

## 7. The life of a question

### Chat streams: `ChatStreams`, `ChatStreams_proofs`

`phase` is where `event_stream` of a request stands, `registry` the stop flags of the
process (one entry per conversation, overwritten by a newer stream), the rest the rows.
Guidance, refusal, a streamed answer and the agent's buffered one (`Agentic`) are paths
through the same steps; `StepFails`, `HandleError`, `Cancel` and `Close` are the
exception, the client that leaves, and the `finally`. Saving is three steps (`SaveMessage`
reads and flushes, `CommitAnswer`, `CountMessages`/`Summarise`), since another stream
of the conversation may come between.

Run `chat`: two requests of one conversation, one of them agentic, one token, two
generation attempts, one fault, summaries from two messages on. `StreamIsControlled` and
`RecordsAreTrue` are each three or two named invariants of `ChatStreams`; those about a
stream alone (`StopIsKept`, `LoneCaseIsItsOwn`, `SummaryIsCurrent`) except requests that
overlapped, for which they fail. Fairness: the event loop resumes a generator that can go on.

Proved for any finite set of requests, any conversations and any bounds: `TypeCorrect`,
`StreamsAreControlled` and `RecordsStayTrue` (in parts `ToldAnswersAreSaved` and
`LoneCasesAreOwn`). The registry keeps one entry for a conversation, so the argument is
about its other streams. `LiveOverlap`: two streams of a conversation that run at the same
time have both overlapped, so whoever registers or unregisters beside a stream spoils only
promises that were not made. For the cases, every question that follows one being answered
was asked beside it (`LaterOverlap`), so the newest question is the own one or an overlapped
one (`DraftIsOwn`). For the summary, no other stream changes the rows between the count and
the finalisation of a stream that is alone (`SummaryInv`). Liveness (`EveryStreamEnds`) is
checked only.

### Retrieval: `RetrievalRequest`, `RetrievalEvidence`, `ContextSelection`

`RetrievalRequest` keeps the asyncio tasks of a question (`task`): rewriting,
intent, a speculative search and a hypothetical document started early, then the
channels with time limits and breakers, then the decision, and the loop of the agent. What
channels find is one of hits, nothing, error, time-out, or an error that the channel
swallowed. `detached` is work that these tasks leave to itself: the count of the term mappings
used (`rag/rewrite.py:175`, a task that nobody awaits), the provider request of an embedding,
shielded from the cancellation of its callers (`llm/embedding.py:77`), and searches in threads.
The answer awaits or cancels its tasks; it does not wait for `detached` (section 10).

`RetrievalEvidence` takes over where results are: index entries are fused, near duplicates
dropped, rows filtered by what is available, resolved by id or by content, neighbours added and
access checked, while rows are disabled, deleted, superseded and shared away. `Alike` is the
similarity of 3-grams of `rag/postprocess/fusion.py:67`: any reflexive and symmetric relation of
contents, chosen at the start. `Fuse` keeps of `hits` any set of entries
that are not alike and of which each dropped one has one; it knows nothing of the rows, so a
stale entry may take the place of an active one. `EvidenceSurvives` therefore speaks of all that
is alike.

`ContextSelection` is the pure algorithm of `select_context`: its inputs are all candidates,
sizes and quotas of the bound. Neighbours (`rag/pipeline.py:1810`) have no knowledge base in
their metadata (`None`): no quota counts or evicts them.

### Clients: `ModelCalls`, `QueryEmbeddings`, `RateLimiter`

`ModelCalls` is a plan of attempts over models with breakers whose tokens are buffered;
`QueryEmbeddings` the cache with requests in flight that callers join, leave and find failed;
`RateLimiter` the sorted set of Redis with check and record as two steps, and the passage
when Redis fails.

Run `retrieval` (`MCRetrieval`): agent steps 2, breaker threshold 1 (request) and 2 (models),
two channels wanted in three sets, and the channel of a hypothetical document; a plan of two
attempts on a failing model and one on a reliable one; two callers, a cache of one text, two
provider requests; a limit of two in a window of two ticks, time up to 3. Fairness: the request
goes on, channels and documents time out, streams have time limits and time passes.

### Proofs: `MCRetrieval_proofs`

For any channels, steps, plans, models, callers, texts and finite sets of checks:
`TypeCorrect`, `HonestRequests` (`RequestIsHonest`) and `SoundCalls` (`CallsAreSound`), from
an inductive invariant for each part.

- Request: `TasksOfStage` says which tasks may run at each stage; those of earlier stages have
  ended or were cancelled on the way, so none is left at the end but for `detached`.
- Models: the buffer holds tokens of the current attempt (`TokensOfAttempt`), as a stream that
  breaks off empties it; a reliable model is never counted against (`ReliableStands`), and no
  attempt passes it over (`NonePassedOver`).
- Embeddings: a request that runs is the one in the table for the text of everyone who joined
  it (`JoinedIsInFlight`); one that nobody has sent is in no table (`InFlightIsSent`).
- Limiter: a check that is about to be added counted at most `Limit - 1` requests, but for those
  let through since (`Room`), each by another check; so a window holds at most
  `Limit + Cardinality(Checks) - 1`. Needs that the sorted set keeps what is recent
  (`RecentIsKept`) and that a check does not outlast a tick (`OneTick`).

Assumed: the `ASSUME`s of the modules; `Checks` is finite, and `None` is no request.

## 8. Content

Run `content` (`MCContent`) has the parts that are about data. Their steps are those of
the loops or transactions of the code; sizes are the smallest at which each branch is taken.

| module | what a step is | bound |
|---|---|---|
| `FixedWindowChunks` | a round of `_normalize_text`, then a window | texts of up to 3 of 7 kinds of characters, sizes 1 to 3, overlaps 0, 1 and 3 (one larger than the window) |
| `DocumentBlocks` | a line of the scan, a block that becomes pieces, a piece that is packed | up to 4 lines of each kind, targets 1 and 4 |
| `EntityGraph` | one `session.run`: a merge, a removal, the rebuild of bridges, the scan or the writes of a backfill | three documents in two knowledge bases, two writers |
| `SemanticExtraction` | an answer or failure of a provider for a batch | two batches, two providers, a relation of two names |
| `UserMemories` | a store call of a task or a search | two tasks, one topic, two seconds in which they store, scores around the threshold |
| `RetrievalEvidence` | a stage of retrieval, or a change of a row | two rows, two contents that may be near duplicates, two knowledge bases, one change, two hits |
| `ContextSelection` | the whole selection | four candidates of one or three tokens, of two knowledge bases or neighbours of none, quotas 0 to 2 |
| `InterviewSessions` | a request between two waits | two interviews, two tasks, grades 0, 55, 100 |
| `InterviewScoring` | the script, the answers, the grade | two or three questions, a resume with or without signals, replies of a model with any categories and scores |
| `EvaluationCases` | the beginning or the commit of a transaction on a case | asker, another user, two reviewers, one who lists questions; two transactions open at once |
| `EvaluationMetrics` | the score of one case | three chunks of which two may have the same content, any of them expected, any of them graded |

The conjunctions: `AlgorithmsAreRight` (normalisation and blocks lose nothing, budgets, quotas
and metrics), `StoresAreSound` (windows cover the text and keep to size and overlap; graph,
extraction, memories), `EvidenceIsSound` (visible evidence), `GradesAreFair` (interviews and
cases), `NoStepGoesBack` (loops of the chunker advance; a search recalls no deleted memory).
Pure algorithms are compared with what they are to achieve, never with a second copy of them:
windows with the positions of the text, packed lines with the lines that are not blank, the gain
with the gain of the ideal order. `MaxOpen` bounds the transactions on a case that are open at
once: two let each overlap each. No fairness: these are safety properties. The one liveness
question, whether a text is ever chunked, has a run of its own.

### Proofs: `MCContent_proofs`, `ContentBlocks_proofs`

`ContentInvariant` puts an inductive invariant for each part together; from it follow
`WindowsCover`, `TextIsKept`, `BlocksAreChunked`, `ContextIsRight`, `MetricsAreRatios` (the parts
of `RightAlgorithms`), `SoundStores`, `SoundEvidence`, `FairGrades`, `StepsGoOn` and
`ContentIsTyped`, each for all values of the constants. The invariants of a part are at the end
of its module ("What they rest on"). `ContentBlocks_proofs` has the lemmas about
`DocumentBlocks`.

- `FixedWindowChunks` (`WindowInv`), for texts of any length: a boundary may move the end of a
  window back and the overlap the next start, but the next window starts behind the start of
  the last and at most the overlap before its end (`NextIsClose`). As the overlap is less than
  the size, the next end can only be farther on. `NoUrlIsEntered`: a text without URLs is
  normalized a character at a time, so that every round of the loops advances.
- `DocumentBlocks`: each stage (blocks, pieces, packed chunks, paths) keeps the lines that count
  in the order of the text; what is kept so far together with what is left is the whole.
- `ContextSelection`: first fit by the prefix that is decided; `FillIs` says what serving one
  knowledge base takes in and out. Counting with `MembersInAll` shows that quotas which fit,
  next to the neighbours that are taken, find enough to evict.
- `EvaluationMetrics`: an exchange of summations; the grades found after any number of positions
  add up to no more than those of as many positions of the ideal order.
- `EntityGraph` (`WrongBridgesGo`): a call is pending from when it may have changed a node until
  it deletes the bridges of the name. As long as two calls do not disturb each other (different
  documents, no backfill beside another call), bridges are wrong only while a call is pending:
  the one that deletes them knows the old and the new names (`KeysAreCurrent`), and the one
  that creates them reads all nodes at once. A backfill writes what it has scanned, which is
  still so if it is alone (`PlanIsCurrent`).
- `SemanticExtraction`: what is kept so far is shown by its chunk (`SoFarIsGrounded`), and only
  that is stored (`StoredAtTheEnd`).
- `UserMemories`: a memory is unknown to all tasks that have inserted before it
  (`KnownIsInserted`), and a task retires only what it has a replacement for
  (`RetiredIsReplaced`), so some memory of every topic is one that nobody retires
  (`NewestIsKept`). The primary key of a memory is the second it is stored in and its position
  in the call (`memory/mem0_client.py:633`), so two tasks can give one key to two memories, and
  a deletion of one deletes both (`Twins`). Topics of such memories are `Confused` and exempt.
  `StepsGoOn` needs `MinRelevance > 30`: keywords alone give 30 of 100 (`mem0_client.py`), the
  default threshold is 35 (`config/settings.py:274`).
- `RetrievalEvidence`: who could be seen is remembered (`VisibleIsSeen`); of entries that are
  alike and all active, visible and alone with their content, one goes through every filter
  (`FoundGoesOn`); what is shown is of the chunk it is shown for (`ShownIsOfChunk`).
- `InterviewSessions`: who counts a result holds the row of the user and has read the profile
  there still is, unless it was cleared (`CounterHoldsTheLock`); so no result overwrites another.
- `InterviewScoring`: script and skipped answers, for any replies of a model. Questions name the
  resume only if `extract_resume_signals` has found a signal in it.
- `EvaluationCases`: transactions may overlap, and a commit writes the columns it has changed
  over those of the row (`Merge`). As long as one is alone, what it has loaded is what it commits
  over; otherwise the row has only gone on since: it exists, it is golden (`LoadedIsCurrent`). So
  what `GoldenIsEarned` says of every active case holds whatever overlaps, and approval and the
  asker's vote unless the last promotion or down-vote overlapped another transaction, or one did
  that came after it (`contested`); then it is false (section 10).

Assumed: the `ASSUME`s of the modules, which `Content.cfg` satisfies: among others, reviewers
and the lister are not among the users that vote, there is an interview, `None` is no task and no
writer, quotas and limits are numbers, scripts have a question and paths a heading, the providers
are numbered, the chunks of a case are finitely many.

## 9. What is abstracted

- Parsing, chunking and embedding are steps without content; a document without
  chunks is `FinishEmpty`.
- The DAG pipeline flushes task rows before it saves chunks and so holds the row
  of the document for longer: its behaviours are among those of the model.
- Claims are not ordered by `create_time`: any batch of due jobs of the right size.
- The channels of a run are one step: one that fails may have written nothing or all, and the
  graph may have lost the document's entities in either case. A failing Milvus insert has stored
  all or nothing.
- A batch of a build is one chunk (128 in the code). `num_entities` is taken as the
  number of live vectors. A chunk count that embedding does not match is an error.
- Retention waits days after the last change of a record: `Purge` leaves alone what
  a running build or ingestion uses. The session that holds the advisory lock of a build is
  not lost while its process lives.
- In `IndexReconciliation` the rows of an item are activated and removed together,
  and so are its vectors in one call; the active collection does not change; ended
  job records are used again, where the code creates new ones; the backoff of a
  RETRY is some time; later retries of a deletion's clean-up are left out, so
  that only the reconciler removes what it left (they are in `IngestionJobs`).
- Time is a choice: a lease, a claim or a window may expire whenever its clock could have.
- Texts are sequences of kinds of characters or lines; scores, grades and sizes are small
  numbers; a model's reply is any reply of the right shape, and often of the wrong one.
- `PipelineEngine`: what nodes compute is success or error; the attempts of a plain node are
  one step.
- `RetrievalRequest`: the channels' results are members of a small set, their merging is
  `RetrievalEvidence`; a request is one question of one user.
- `DocumentBlocks`: the overlap of SEMANTIC and the branch `heading_as_path = false`.
- `RetrievalEvidence`: similarity is any reflexive and symmetric relation of contents.
- `ContextSelection`: scores are all different; characters are counted in tokens.
- `EntityGraph`: one normalized name; names are independent of each other.

Only model-checked: liveness under fairness (`EveryJobSettles`, `EveryStreamEnds`,
`EveryBuildSettles`, `MissingIsRepaired`, `OrphansAreRemoved`, `EveryRequestEnds`,
`EveryJobEnds` but for `CompletedStays`, `EveryRunEnds`), which the prover does not reach.
Every invariant and every action property that a passing run checks is stated by a theorem, some
under a condition that the theorem names (`~RunsOutliveClaim`, `MinRelevance > 30`).

### Not modelled

- `rag/query_clusters`, `tuning`, `decision`, `quality_alert`, `quota`, `semantic_cache`,
  `table_qa`, `decompose`, `document_diff`, `worker/distributed_lock`, `services/approval`:
  nothing in the application imports them.
- Parsers (`ingestion/structured.py`), OCR, prompts, the judges of the evaluation, query
  plans: functions of data without state of their own.
- The searches and enabled flags of the graph, the materials of interviews, the daily rebuild
  of user profiles (one timer and a row that the last writer wins), the purge of traces, the
  editing of pipelines, roles and their predicates.
- The audit chain: a read of the latest entry and an insert; two that overlap fork it.
- The watchdog's effect on documents of the queue; the start and stop of worker processes.
- The frontend and the migrations.

See `components` in `PROJECT.json` for each part.

## 10. Disagreements found

Two are kept as runs that TLC finds violated; `findings` in `PROJECT.json` quotes the
documentation and gives the lines.

| run | the code |
|---|---|
| `chunk_forever` | `_normalize_text` does not end on a line break within a URL: the index goes back to the blanks before it |
| `chunks_lost` | the chunker for structured Markdown keeps only the first of two neighbouring blocks that it merges, so a paragraph below a heading is lost |

The others are stated in the modules ("Refuted"), and TLC finds them violated when they are
checked with the configuration named here, as an invariant or property of the part's module
(for `Content.cfg`, `Jobs.cfg`, `Retrieval.cfg` and `Reconcile.cfg`: through the instance, for
example `Sessions!CompletedIsFinal`, with the part chosen in `Init`).

| property | configuration, changes | the code |
|---|---|---|
| `NoDuplicateChunks` | `IngestionSwitch.cfg` | a run that outlives its claim is joined by a second one, and both activate their chunks (`services/ingestion_jobs.py:199`; `docs/0.0.5-enterprise-rag-sdd.md:19` says otherwise) |
| `RecordedIsServed` | `IngestionSwitch.cfg` | the late run of an upload has loaded its generation as the active one; after a reprocessing it activates its chunks, and `active_generation` stays that of the reprocessing (`ingestion/pipeline.py:264`) |
| `GraphKeepsServed` | `IngestionSwitch.cfg` | a reprocessing that fails after its graph write has deleted the entities of the generation that stays in service, and nothing records it (`rag/graph/neo4j_store.py:147`) |
| `SettledIsFinal` | `IngestionSwitch.cfg`, no symmetry | the late failure of a run that outlived its claim takes a SUCCESS back |
| `SuccessShownIsEarned` | `IngestionRetry.cfg`, `RunsOutliveClaim = TRUE`, a third worker, `Deletable = {}`, `Channels = {}`, `MaxFaults = 0`, no symmetry | a third run has loaded its job as SUCCESS; the late failure of the first makes it RETRY, and the third one's commit shows the document as processed |
| `QueuedHasWork` | `IngestionRetry.cfg` | a document is shown as queued on the strength of a dead job |
| `DeletedIsNotServed` | `IngestionRetry.cfg` | a run activates chunks of a document deleted meanwhile |
| `AttemptsBounded` | `IngestionRetry.cfg`, `MaxFaults = 2` | a job that kills its worker is claimed without end |
| `CompleteBuildsValidate` | `GenerationsPromote.cfg` | a resumed build adds to the collection of the first attempt, and fails its validation |
| `FindableIsKept` | `GenerationsPromote.cfg`, `IndexSpec` | chunks ingested during a build are not found after the promotion |
| `ActiveIsRecorded`, `ActiveIsPresent`, `PromotedIsComplete` | `GenerationsPromote.cfg`, without the exemption of `contested` | a generation just promoted is built again by the other process: it is marked FAILED and dropped, or its active collection holds chunks twice; two builds that meet can balance what one inserts twice with what a deletion has removed, or promote on a view that is no longer current |
| `ActiveIsSpared` | `Reconcile.cfg`, `IndexSpec` | the vectors of an ingestion that commits between two reads are deleted as orphans |
| `OneGenerationServed` | `PipelineEngine.cfg` | requests of the API have the generation "v1": a repeated run leaves the old rows ACTIVE beside the new ones; runs that overlap do not see each other's |
| `PredecessorsFirst` | `PipelineEngine.cfg`, `Plain = {P, Q}`, `Runs = {r1}`, `Fresh = {}`, `Leniencies = {{}}` | of two paths to a node the shorter one starts it |
| `StopFindsStream`, `EveryAnswerHasCase` | `Chat.cfg` | the end of one stream removes the entry of another one of the conversation; of two questions that overlap, one answer has no case (`models/__init__.py:118`) |
| `NothingOutlivesAnswer` | `Retrieval.cfg`, part request | the count of term mappings, shielded provider requests and searches in threads go on behind the answer (`rag/rewrite.py:175`, `llm/embedding.py:77`) |
| `OutageIsReported` | `Retrieval.cfg`, part request | vector channels catch every exception and return nothing (`rag/pipeline.py:313`, against `rag/governance.py:73`) |
| `LimitIsKept` | `Retrieval.cfg`, part limiter | requests that are checked together pass together |
| `HolderWrites` | `Jobs.cfg`, part evaluations | a worker that stalls between its check and its commit writes over its successor's run |
| `ContentIsNeverTwice` | `Jobs.cfg`, part batch | a batch of more than 15 minutes is worked on twice |
| `SuccessIsTrue` | `Jobs.cfg`, part batch | files whose knowledge base is gone are not counted as failed |
| `AbandonedIsClaimable` | `Jobs.cfg`, part batch, `MaxClaims = 3` | a late begin leaves a running job without a claim |
| `EveryChangeIsServed` | `Jobs.cfg`, part urls | when the headers return to those of the creation, the hash stored there hides the change (`services/url_refresh_scheduler.py:119`) |
| `IdleHoldsNoLock` | `Jobs.cfg`, part schedules | a schedule deleted between the poll and its second reading leaves the advisory lock taken (`services/schedule/scheduler.py:160`) |
| `NextRunAdvances` | `Jobs.cfg`, part schedules | nothing of the schedule's loop is committed |
| `UnchangedIsSkipped`, `DisabledIsNotRefreshed` | `Jobs.cfg`, part urls | the hash of a refresh is never saved; the URL loop ignores the schedule's switch |
| `StaleDoesNotHide` | `Content.cfg`, part evidence | near duplicates are dropped before it is known what is available (`rag/pipeline.py:1500`): an old version pushes the new one out |
| `TwinsDoNotHide`, `EvidenceIsActive` | `Content.cfg`, part evidence | metadata are resolved by content: the row of a twin is taken, and refused; neighbours are added whatever their status |
| `QuotasFit` | `Content.cfg`, part selection | neighbours fill the context and no quota evicts them, so what the quotas ask for exceeds `final_top_k` (`rag/governance.py:319`) |
| `ContextFits`, `WindowIsKept` | `Content.cfg`, part selection | what a quota puts in may be longer than what it takes out; a budget below zero switches to characters |
| `EveryKbHeard` | `Content.cfg`, part selection, `Ranks = {1, 2, 3, 4, 5}` | with a quota of two, replacements for one knowledge base take from another one |
| `BridgesAlwaysMend`, `OneBridgePerPair` | `Content.cfg`, part graph | a repeated call does not know the old names of the one that failed; a backfill adds bridges of an old scan |
| `NothingIsEverForgotten` | `Content.cfg`, part memories, `Topics = {"a", "b"}` | two tasks store in one second under the same keys, and retiring what one has stored deletes what the other has (`memory/mem0_client.py:633`) |
| `OneMemoryPerTopic`, `KeywordsDoNotHide` | `Content.cfg`, part memories | two tasks read the same memories; one keyword hit weighs all others down below the threshold |
| `ProfileCountsOnce`, `CompletedIsFinal`, `ReviewIsOfAnswer` | `Content.cfg`, part sessions | a double submit counts twice; an abandonment overwrites COMPLETED (`api/interview.py:824` says it cannot); an answer saved during the scoring is never scored |
| `ResumeIsNamed` | `Content.cfg`, part scoring | no sentence of a resume may be a signal, and then no question names it (`services/interview.py:106`) |
| `NothingScoresNothing` | `Content.cfg`, part scoring | dimension scores of a reply are not held against its reviews |
| `DownvotedStaysInactive` | `Content.cfg`, part cases | a case that one user voted down is active again after the vote of another (`models/__init__.py:118`) |
| `GoldenStaysEarned` | `Content.cfg`, part cases | a promotion that has loaded the case before a down-vote makes it active after it: each commits its own columns |
| `PerfectScoresFull`, `PerfectScoresIdeal` | `Content.cfg`, part scores | cases promoted from production have no grades, so a perfect retrieval has a gain of 0; grades of chunks that are not expected count for the ideal |

Without a property, noticed while modelling:

- Ingestion: a repair job of a dead worker stays RUNNING and hides that vectors are
  missing (`services/index_repair.py:113`; excused in `MissingIsRepaired`).
- Chunking: headings after the last content are lost with `heading_as_path`; the path is the
  last four headings whatever their level; a separator without outer bars splits a table;
  each blank after a URL is doubled.
- Pipeline engine: rows of failed attempts stay PENDING; `stop_on_error` of a lenient node
  leaks to the nodes after it; checks for running tasks never see one.
- Memories: the docstring "the old memory is deleted before inserting the new one" is the
  other way round in the code.
- Retrieval: speculative results are merged for a rewritten query even if the
  collection changed; a cancelled request leaves tasks running; one failing agent step fails
  the question.
- Breakers: a half-open one lets any number of probes through, and a stale success closes it.
- Evaluation: cases with equal questions share the scope of the later one
  (`services/evaluation_jobs.py:392`); a refusal case whose retrieval raised counts as refused.
- Semantic backfills extract disabled chunks again.
