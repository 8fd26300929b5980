--------------------------- MODULE IngestionJobs ---------------------------
(***************************************************************************)
(* The outbox of ingestion jobs (services/ingestion_jobs.py), the workers  *)
(* that claim and run them, and the ingestion transaction they execute     *)
(* (services/ingestion_executor.py, ingestion/pipeline.py).                *)
(*                                                                         *)
(* A job is identified by its idempotency key; the job owns one chunk      *)
(* generation, so a job also names its generation.  Every claim starts a   *)
(* run <<job, n>>, n being the job's attempts after the claim; the chunk   *)
(* rows a run writes are one unit, named by the run.                       *)
(*                                                                         *)
(* Concurrency is that of PostgreSQL at READ COMMITTED: what a transaction *)
(* writes is visible when it commits, and a transaction that updated the   *)
(* row of a document keeps the others from updating it until it ends       *)
(* (variable lock).  Milvus, Elasticsearch and the graph are written       *)
(* outside the transaction.                                                *)
(***************************************************************************)
EXTENDS Naturals, FiniteSets

CONSTANTS
    Docs,            \* documents
    Jobs,            \* idempotency keys, hence also generations
    DocOf,           \* Jobs -> Docs
    Deletable,       \* documents that a user may delete
    Uploads,         \* jobs enqueued by the upload that creates the document
    Workers,         \* worker processes
    Channels,        \* enabled channels besides Milvus
    Required,        \* channels whose failure fails the ingestion
    Concurrency,     \* settings.ingestion_worker_concurrency
    MaxAttempts,     \* settings.ingestion_job_max_attempts
    MaxClaims,       \* bound: claims of one job that are explored
    MaxFaults,       \* bound: process crashes and failed commits explored
    RunsOutliveClaim,\* can a live run last longer than the claim timeout?
    NoRun, NoJob

Runs == Jobs \X (1..MaxClaims)
RunJob(r) == r[1]
RunDoc(r) == DocOf[r[1]]
Stores == {"milvus"} \cup Channels

ASSUME ConstantsAssumption ==
    /\ DocOf \in [Jobs -> Docs]
    /\ Uploads \subseteq Jobs
    /\ Deletable \subseteq Docs
    /\ Channels \subseteq {"elasticsearch", "graph"}
    /\ Required \subseteq Channels
    /\ Concurrency \in Nat \ {0}
    /\ MaxAttempts \in Nat \ {0}
    /\ MaxClaims \in Nat \ {0}
    /\ MaxFaults \in Nat
    /\ RunsOutliveClaim \in BOOLEAN
    /\ NoRun \notin Runs
    /\ NoJob \notin Jobs

VARIABLES
    \* t_ingestion_job
    status,      \* Jobs -> status, "NONE" while there is no row
    attempts,    \* Jobs -> claims so far
    ripe,        \* jobs whose next_retry_time, or claim timeout, has passed
    \* t_knowledge_document
    docStatus,   \* Docs -> status, "absent" before the upload
    deleted,     \* Docs -> BOOLEAN
    active,      \* Docs -> active_generation
    pending,     \* Docs -> pending_generation
    lock,        \* Docs -> the run whose transaction holds the document's row
    \* t_knowledge_chunk, t_index_repair_job, t_index_sync_job
    chunks,      \* Runs -> state of the committed chunk rows of the run
    repairs,     \* <<generation, channel>> recorded for the repair worker
    cleanup,     \* Docs -> stores a deletion has still to be retried on
    \* external indexes
    index,       \* Stores -> the runs whose chunks the store holds
    \* worker processes
    pc,          \* Runs -> progress of the run
    indexed,     \* Runs -> channels on which the run succeeded
    previous,    \* Runs -> runs whose chunks the run is about to supersede
    same,        \* Runs -> fields the run read with the value its commit assigns
    running,     \* Workers -> runs that are tasks of the process
    awaited,     \* runs a poll loop is gathering
    faults       \* crashes and failed commits so far

jobVars  == <<status, attempts, ripe>>
docVars  == <<docStatus, deleted, active, pending>>
rowVars  == <<chunks, repairs, cleanup>>
runData  == <<indexed, previous, same>>
taskVars == <<running, awaited, faults>>
vars == <<jobVars, docVars, lock, rowVars, index, pc, runData, taskVars>>

JobStatus == {"NONE", "QUEUED", "RUNNING", "RETRY", "SUCCESS", "DEAD"}
DocStatus == {"absent", "queued", "success", "failed"}
\* NONE: no committed row.  DELETED: rows the deletion of the document saw.
ChunkState == {"NONE", "ACTIVE", "SUPERSEDED", "DELETED"}
\* fields of the document and the job that a commit assigns
Fields == {"active", "pending", "status"}
\* saved: PENDING rows flushed; stored: vectors in Milvus; mirrored: channels
\* tried; swapping: activation under way; failed and rejected: rolled back, the
\* failure not yet recorded.
RunState == {"none", "claimed", "loaded", "saved", "stored", "mirrored",
             "swapping", "failed", "rejected", "ended"}

LiveRun(r) == pc[r] \notin {"none", "ended"}
Locking(r) == pc[r] \in {"saved", "stored", "mirrored", "swapping"}
RunsOfDoc(d) == {r \in Runs : RunDoc(r) = d}

\* retrieval keeps the rows that are ACTIVE and not deleted
Served(d) == {r \in RunsOfDoc(d) : chunks[r] = "ACTIVE"}
Generation(d) == {RunJob(r) : r \in Served(d)}

Init ==
    /\ status = [j \in Jobs |-> "NONE"]
    /\ attempts = [j \in Jobs |-> 0]
    /\ ripe = {}
    /\ docStatus = [d \in Docs |-> "absent"]
    /\ deleted = [d \in Docs |-> FALSE]
    /\ active = [d \in Docs |-> NoJob]
    /\ pending = [d \in Docs |-> NoJob]
    /\ lock = [d \in Docs |-> NoRun]
    /\ chunks = [r \in Runs |-> "NONE"]
    /\ repairs = {}
    /\ cleanup = [d \in Docs |-> {}]
    /\ index = [s \in Stores |-> {}]
    /\ pc = [r \in Runs |-> "none"]
    /\ indexed = [r \in Runs |-> {}]
    /\ previous = [r \in Runs |-> {}]
    /\ same = [r \in Runs |-> {}]
    /\ running = [w \in Workers |-> {}]
    /\ awaited = {}
    /\ faults = 0

-----------------------------------------------------------------------------
(***************************************************************************)
(* Requests.  Each is one transaction; it waits for the document's row.    *)
(***************************************************************************)

\* Variant with a bug: a known key always shows the document as processed.
EnqueueJobShowsSuccess(j) ==
    LET d == DocOf[j] IN
    IF status[j] # "NONE"
    THEN docStatus' = [docStatus EXCEPT ![d] = "success"] /\ UNCHANGED <<status, pending>>
    ELSE /\ status' = [status EXCEPT ![j] = "QUEUED"]
         /\ pending' = [pending EXCEPT ![d] = j]
         /\ docStatus' = [docStatus EXCEPT ![d] = "queued"]

\* enqueue_ingestion_job: a known key only sets the status of the document
EnqueueJob(j) ==
    LET d == DocOf[j] IN
    IF status[j] # "NONE"
    THEN /\ docStatus' = [docStatus EXCEPT ![d] =
                            IF status[j] = "SUCCESS" THEN "success" ELSE "queued"]
         /\ UNCHANGED <<status, pending>>
    ELSE /\ status' = [status EXCEPT ![j] = "QUEUED"]
         /\ pending' = [pending EXCEPT ![d] = j]
         /\ docStatus' = [docStatus EXCEPT ![d] = "queued"]

Upload(j) ==
    /\ j \in Uploads
    /\ docStatus[DocOf[j]] = "absent"
    /\ EnqueueJob(j)
    /\ UNCHANGED <<attempts, ripe, deleted, active, lock, rowVars, index, pc,
                   runData, taskVars>>

Reprocess(j) ==
    /\ j \notin Uploads
    /\ docStatus[DocOf[j]] # "absent"
    /\ ~deleted[DocOf[j]]
    /\ lock[DocOf[j]] = NoRun
    /\ EnqueueJob(j)
    /\ UNCHANGED <<attempts, ripe, deleted, active, lock, rowVars, index, pc,
                   runData, taskVars>>

\* Deletion removes the rows it knows of, and the whole document from the graph.
Erased(s, d, known) == IF s = "graph" THEN RunsOfDoc(d) ELSE known

\* One pass of IndexSyncService over the stores, which fails on some of them.
Clean(d, known) ==
    \E fails \in SUBSET Stores :
        /\ index' = [s \in Stores |-> IF s \in fails THEN index[s]
                                      ELSE index[s] \ Erased(s, d, known)]
        /\ cleanup' = [cleanup EXCEPT ![d] = fails]

DeleteDocument(d) ==
    /\ d \in Deletable
    /\ docStatus[d] # "absent"
    /\ ~deleted[d]
    /\ lock[d] = NoRun
    /\ deleted' = [deleted EXCEPT ![d] = TRUE]
    /\ chunks' = [r \in Runs |-> IF RunDoc(r) = d /\ chunks[r] # "NONE"
                                 THEN "DELETED" ELSE chunks[r]]
    /\ Clean(d, {r \in RunsOfDoc(d) : chunks[r] # "NONE"})
    /\ UNCHANGED <<jobVars, docStatus, active, pending, lock, repairs, pc,
                   runData, taskVars>>

\* IndexSyncRetryScheduler: the payload holds the chunk ids of the deletion
RetryCleanup(d) ==
    /\ cleanup[d] # {}
    /\ Clean(d, {r \in RunsOfDoc(d) : chunks[r] = "DELETED"})
    /\ UNCHANGED <<jobVars, docVars, lock, chunks, repairs, pc, runData, taskVars>>

-----------------------------------------------------------------------------
(***************************************************************************)
(* The poll loop and the clock.                                            *)
(***************************************************************************)

\* next_retry_time <= now, or claimed_at <= now - ingestion_job_claim_timeout
TimePasses(j) ==
    /\ j \notin ripe
    /\ \/ status[j] = "RETRY"
       \/ /\ status[j] = "RUNNING"
          /\ RunsOutliveClaim \/ \A r \in Runs : RunJob(r) = j => ~LiveRun(r)
    /\ ripe' = ripe \cup {j}
    /\ UNCHANGED <<status, attempts, docVars, lock, rowVars, index, pc, runData,
                   taskVars>>

\* Variants with a bug: the age of a claim is not looked at; a claim never ages.
ClaimableAtOnce == {j \in Jobs : /\ \/ status[j] \in {"QUEUED", "RUNNING"}
                                    \/ status[j] = "RETRY" /\ j \in ripe
                                 /\ attempts[j] < MaxClaims}
ClaimableOnce == {j \in Jobs : /\ \/ status[j] = "QUEUED"
                                  \/ status[j] = "RETRY" /\ j \in ripe
                               /\ attempts[j] < MaxClaims}

Claimable == {j \in Jobs : /\ \/ status[j] = "QUEUED"
                              \/ status[j] \in {"RETRY", "RUNNING"} /\ j \in ripe
                           /\ attempts[j] < MaxClaims}

\* Variant with a bug: the run keeps the number the job had before the claim.
NextRunStale(j) == <<j, attempts[j]>>
NextRun(j) == <<j, attempts[j] + 1>>

\* _claim_jobs: up to Concurrency due jobs, rows of other claims being skipped
Claim(w) ==
    /\ running[w] \cap awaited = {}
    /\ \E batch \in SUBSET Claimable :
        LET new == {NextRun(j) : j \in batch} IN
        /\ batch # {}
        /\ \/ Cardinality(batch) = Concurrency
           \/ batch = Claimable /\ Cardinality(batch) < Concurrency
        /\ status' = [j \in Jobs |-> IF j \in batch THEN "RUNNING" ELSE status[j]]
        /\ attempts' = [j \in Jobs |-> IF j \in batch THEN attempts[j] + 1
                                                      ELSE attempts[j]]
        /\ ripe' = ripe \ batch
        /\ pc' = [r \in Runs |-> IF r \in new THEN "claimed" ELSE pc[r]]
        /\ running' = [running EXCEPT ![w] = @ \cup new]
        /\ awaited' = awaited \cup new
    /\ UNCHANGED <<docVars, lock, rowVars, index, runData, faults>>

-----------------------------------------------------------------------------
(***************************************************************************)
(* _process_job.                                                           *)
(***************************************************************************)

Goto(r, s) == pc' = [pc EXCEPT ![r] = s]
Forget(rs) == /\ indexed' = [q \in Runs |-> IF q \in rs THEN {} ELSE indexed[q]]
              /\ previous' = [q \in Runs |-> IF q \in rs THEN {} ELSE previous[q]]
              /\ same' = [q \in Runs |-> IF q \in rs THEN {} ELSE same[q]]
Release(r) == lock' = [d \in Docs |-> IF lock[d] = r THEN NoRun ELSE lock[d]]

\* The task of run r returns: the loop no longer waits for it.
Return(r) ==
    /\ Goto(r, "ended")
    /\ Forget({r})
    /\ running' = [w \in Workers |-> running[w] \ {r}]
    /\ awaited' = awaited \ {r}
    /\ UNCHANGED faults

AsRead(r) == [active |-> active[RunDoc(r)], pending |-> pending[RunDoc(r)],
              status |-> status[RunJob(r)]]
AsAssigned(r) == [active |-> RunJob(r), pending |-> NoJob, status |-> "SUCCESS"]

\* The job and the document are looked up once, when the run begins; a missing
\* knowledge base or source file is permanent as well.
Load(r) ==
    /\ pc[r] = "claimed"
    /\ \/ /\ ~deleted[RunDoc(r)]
          /\ Goto(r, "loaded")
          /\ same' = [same EXCEPT ![r] =
                        {f \in Fields : AsRead(r)[f] = AsAssigned(r)[f]}]
       \/ Goto(r, "rejected") /\ UNCHANGED same
    /\ UNCHANGED <<jobVars, docVars, lock, rowVars, index, indexed, previous, taskVars>>

\* Variant with a bug: the run does not update the document before its commit, so
\* that nothing keeps another run of the document away.
SaveUnlocked(r) ==
    /\ pc[r] = "loaded"
    /\ lock' = [lock EXCEPT ![RunDoc(r)] = r]
    /\ Goto(r, "saved")
    /\ UNCHANGED <<jobVars, docVars, rowVars, index, runData, taskVars>>

\* Parsed, chunked and embedded; the first flush updates the document's row
\* (status running) and inserts the PENDING chunk rows.
Save(r) ==
    /\ pc[r] = "loaded"
    /\ lock[RunDoc(r)] = NoRun
    /\ lock' = [lock EXCEPT ![RunDoc(r)] = r]
    /\ Goto(r, "saved")
    /\ UNCHANGED <<jobVars, docVars, rowVars, index, runData, taskVars>>

\* The session writes a field only if it assigns another value than it read.
SetSuccess(r) == status' = IF "status" \in same[r] THEN status
                           ELSE [status EXCEPT ![RunJob(r)] = "SUCCESS"]

\* The parser found no chunk: the run succeeds and activates nothing.
FinishEmpty(r) ==
    /\ pc[r] = "loaded"
    /\ lock[RunDoc(r)] = NoRun
    /\ docStatus' = [docStatus EXCEPT ![RunDoc(r)] = "success"]
    /\ SetSuccess(r)
    /\ Return(r)
    /\ UNCHANGED <<attempts, ripe, deleted, active, pending, lock, rowVars, index>>

InsertVectors(r) ==
    /\ pc[r] = "saved"
    /\ index' = [index EXCEPT !["milvus"] = @ \cup {r}]
    /\ Goto(r, "stored")
    /\ UNCHANGED <<jobVars, docVars, lock, rowVars, runData, taskVars>>

\* What the stores hold once the channels were tried: some channels hold the
\* chunks of r, and the graph may first have lost the document's entities.
Mirrored(r, written, cleared) ==
    [s \in Stores |->
        LET left == IF s \in cleared THEN index[s] \ RunsOfDoc(RunDoc(r)) ELSE index[s]
        IN  IF s \in written THEN left \cup {r} ELSE left]

\* Variant with a bug: a required channel is treated like an optional one.
IndexChannelsBestEffort(r) ==
    /\ pc[r] = "stored"
    /\ \E written \in SUBSET Channels :
       \E ok \in SUBSET written, cleared \in SUBSET (Channels \cap {"graph"}) :
        /\ written \cap {"graph"} \subseteq cleared
        /\ index' = Mirrored(r, written, cleared)
        /\ Goto(r, "mirrored")
        /\ indexed' = [indexed EXCEPT ![r] = ok]
    /\ UNCHANGED <<jobVars, docVars, lock, rowVars, previous, same, taskVars>>

\* Elasticsearch, then the graph; the run fails when a required one does.  A
\* failing channel may have been written (ok is what reported success).  The graph
\* deletes the document's entities in a transaction of its own before it inserts
\* those of the run.
IndexChannels(r) ==
    /\ pc[r] = "stored"
    /\ \E written \in SUBSET Channels :
       \E ok \in SUBSET written, cleared \in SUBSET (Channels \cap {"graph"}) :
        /\ written \cap {"graph"} \subseteq cleared
        /\ cleared # {} => Required \cap {"elasticsearch"} \subseteq ok
        /\ index' = Mirrored(r, written, cleared)
        /\ IF Required \subseteq ok
           THEN /\ Goto(r, "mirrored")
                /\ indexed' = [indexed EXCEPT ![r] = ok]
                /\ UNCHANGED <<lock, previous, same>>
           ELSE Goto(r, "failed") /\ Release(r) /\ Forget({r})
    /\ UNCHANGED <<jobVars, docVars, rowVars, taskVars>>

\* Chunks of the document's other generations that are ACTIVE
Superseded(r, q) == /\ RunDoc(q) = RunDoc(r)
                    /\ RunJob(q) # RunJob(r)
                    /\ chunks[q] = "ACTIVE"

\* Variant with a bug: superseding is committed before the new chunks are.
SelectPreviousEager(r) ==
    /\ pc[r] = "mirrored"
    /\ previous' = [previous EXCEPT ![r] = {q \in Runs : Superseded(r, q)}]
    /\ chunks' = [q \in Runs |-> IF Superseded(r, q) THEN "SUPERSEDED" ELSE chunks[q]]
    /\ Goto(r, "swapping")
    /\ UNCHANGED <<jobVars, docVars, lock, repairs, cleanup, index, indexed, same, taskVars>>

\* The select of the chunks to supersede, at the committed state of that moment.
SelectPrevious(r) ==
    /\ pc[r] = "mirrored"
    /\ previous' = [previous EXCEPT ![r] = {q \in Runs : Superseded(r, q)}]
    /\ Goto(r, "swapping")
    /\ UNCHANGED <<jobVars, docVars, lock, rowVars, index, indexed, same, taskVars>>

\* The commit of the transaction makes all its updates visible at once.  A run
\* that read its own generation as the active one does not write it again.
Activate(r) ==
    LET d == RunDoc(r) IN
    /\ pc[r] = "swapping"
    /\ chunks' = [q \in Runs |-> IF q = r THEN "ACTIVE"
                                 ELSE IF q \in previous[r] THEN "SUPERSEDED"
                                 ELSE chunks[q]]
    /\ active' = IF "active" \in same[r] THEN active
                 ELSE [active EXCEPT ![d] = RunJob(r)]
    /\ pending' = IF "pending" \in same[r] THEN pending
                  ELSE [pending EXCEPT ![d] = NoJob]
    /\ docStatus' = [docStatus EXCEPT ![d] = "success"]
    /\ repairs' = repairs \cup {<<RunJob(r), c>> : c \in Channels \ indexed[r]}
    /\ SetSuccess(r)
    /\ Release(r)
    /\ Return(r)
    /\ UNCHANGED <<attempts, ripe, deleted, cleanup, index>>

\* Any exception inside the try block: the transaction is rolled back.  A
\* failing Milvus call may have stored its vectors, a later one leaves them.
Fail(r) ==
    /\ pc[r] \in {"loaded", "saved", "stored", "mirrored", "swapping"}
    /\ Goto(r, "failed")
    /\ Release(r)
    /\ Forget({r})
    /\ UNCHANGED <<jobVars, docVars, rowVars, index, taskVars>>

\* _mark_failure, whose update of the document waits for the row's holder
MarkFailure(r) ==
    LET j == RunJob(r)
        d == RunDoc(r)
        dead == pc[r] = "rejected" \/ attempts[j] >= MaxAttempts
        shown == IF dead THEN "failed" ELSE "queued"
    IN
    /\ pc[r] \in {"failed", "rejected"}
    /\ docStatus[d] = shown \/ lock[d] = NoRun
    /\ status' = [status EXCEPT ![j] = IF dead THEN "DEAD" ELSE "RETRY"]
    /\ ripe' = ripe \ {j}
    /\ docStatus' = [docStatus EXCEPT ![d] = shown]
    /\ Return(r)
    /\ UNCHANGED <<attempts, deleted, active, pending, lock, rowVars, index>>

-----------------------------------------------------------------------------
(***************************************************************************)
(* Faults.                                                                 *)
(***************************************************************************)

\* The final commit is outside the try block: its exception leaves gather,
\* the loop stops waiting for the whole batch, whose other tasks go on.
FailCommit(w, r) ==
    /\ faults < MaxFaults
    /\ r \in running[w]
    /\ pc[r] \in {"swapping", "failed", "rejected"}
    /\ faults' = faults + 1
    /\ Goto(r, "ended")
    /\ Forget({r})
    /\ Release(r)
    /\ running' = [running EXCEPT ![w] = @ \ {r}]
    /\ awaited' = awaited \ running[w]
    /\ UNCHANGED <<jobVars, docVars, rowVars, index>>

\* The process dies: its transactions roll back, its jobs stay RUNNING.
Crash(w) ==
    /\ faults < MaxFaults
    /\ running[w] # {}
    /\ faults' = faults + 1
    /\ pc' = [r \in Runs |-> IF r \in running[w] THEN "ended" ELSE pc[r]]
    /\ Forget(running[w])
    /\ lock' = [d \in Docs |-> IF lock[d] \in running[w] THEN NoRun ELSE lock[d]]
    /\ running' = [running EXCEPT ![w] = {}]
    /\ awaited' = awaited \ running[w]
    /\ UNCHANGED <<jobVars, docVars, rowVars, index>>

-----------------------------------------------------------------------------

RunStep(r) ==
    \/ Load(r)
    \/ Save(r)
    \/ FinishEmpty(r)
    \/ InsertVectors(r)
    \/ IndexChannels(r)
    \/ SelectPrevious(r)
    \/ Activate(r)
    \/ Fail(r)
    \/ MarkFailure(r)

Next ==
    \/ \E j \in Jobs : Upload(j) \/ Reprocess(j) \/ TimePasses(j)
    \/ \E d \in Docs : DeleteDocument(d) \/ RetryCleanup(d)
    \/ \E w \in Workers : Claim(w) \/ Crash(w)
    \/ \E r \in Runs : RunStep(r)
    \/ \E w \in Workers, r \in Runs : FailCommit(w, r)

Spec == Init /\ [][Next]_vars

\* The event loop keeps every task running, the poll loop keeps polling and
\* the clock advances; requests and faults are never forced.
Fairness ==
    /\ \A w \in Workers : WF_vars(Claim(w))
    /\ \A r \in Runs : WF_vars(RunStep(r))
    /\ \A j \in Jobs : WF_vars(TimePasses(j))

FairSpec == Spec /\ Fairness

-----------------------------------------------------------------------------
(***************************************************************************)
(* Properties.                                                             *)
(***************************************************************************)

\* Every variable stays in its domain.
TypeOK ==
    /\ status \in [Jobs -> JobStatus]
    /\ attempts \in [Jobs -> Nat]
    /\ ripe \subseteq Jobs
    /\ docStatus \in [Docs -> DocStatus]
    /\ deleted \in [Docs -> BOOLEAN]
    /\ active \in [Docs -> Jobs \cup {NoJob}]
    /\ pending \in [Docs -> Jobs \cup {NoJob}]
    /\ lock \in [Docs -> Runs \cup {NoRun}]
    /\ chunks \in [Runs -> ChunkState]
    /\ repairs \subseteq Jobs \X Channels
    /\ cleanup \in [Docs -> SUBSET Stores]
    /\ index \in [Stores -> SUBSET Runs]
    /\ pc \in [Runs -> RunState]
    /\ indexed \in [Runs -> SUBSET Channels]
    /\ previous \in [Runs -> SUBSET Runs]
    /\ same \in [Runs -> SUBSET Fields]
    /\ running \in [Workers -> SUBSET Runs]
    /\ awaited \subseteq Runs
    /\ faults \in Nat

\* Whatever the interleaving of workers, crashes, requests and runs that outlive
\* their claim, retrieval never sees chunks of two generations of a document.
OneServedGeneration ==
    \A d \in Docs : \A r, q \in Served(d) : RunJob(r) = RunJob(q)

\* A run that was to write the document to the graph and has not committed.
Displaces(q, d) == /\ RunDoc(q) = d
                   /\ chunks[q] = "NONE"
                   /\ pc[q] \notin {"none", "claimed", "loaded", "saved", "stored"}

\* Served chunks were stored in Milvus and in Elasticsearch, where a channel that is
\* not required may miss them with a repair record.  The graph holds entities of the
\* served generation too, unless it has a repair record, or another run has displaced
\* them that is still to commit or failed: then nothing records the loss.  Deleting
\* a document removes its entries from the stores and is excluded.
ServedIsIndexed ==
    \A d \in Docs : ~deleted[d] => \A r \in Served(d) :
        /\ r \in index["milvus"]
        /\ \A c \in Channels :
               \/ c # "graph" /\ r \in index[c]
               \/ c = "graph" /\ \E q \in Served(d) : q \in index[c]
               \/ c \notin Required /\ <<RunJob(r), c>> \in repairs
               \/ c = "graph" /\ \E q \in Runs : Displaces(q, d)

\* What one would expect of the graph, and what a failed reprocessing refutes: what
\* is served is in the graph, or a repair of it is recorded.
GraphKeepsServed ==
    \A d \in Docs : ~deleted[d] /\ "graph" \in Channels => \A r \in Served(d) :
        \/ \E q \in Served(d) : q \in index["graph"]
        \/ <<RunJob(r), "graph">> \in repairs
        \/ \E q \in RunsOfDoc(d) : pc[q] \in {"mirrored", "swapping"}

\* The served chunks are of the generation the document records.  A late second run
\* of a job that had read its generation as the active one refutes it.
RecordedIsServed == \A d \in Docs : \A r \in Served(d) : RunJob(r) = active[d]

\* The chunks of one run only are served: repeating a job, after a failure or
\* after the crash of its worker, does not duplicate the chunks of the document.
NoDuplicateChunks ==
    \A d \in Docs : \A r, q \in Served(d) : r = q

\* A document that was served is served in the next state too, from the same
\* run or from a newer generation, unless it is deleted: a reprocessing that
\* fails at any point leaves the old generation in place.
ServedUntilReplaced ==
    [][\A d \in Docs : Served(d) # {} => Served(d)' # {} \/ deleted'[d]]_vars

\* A job that reached SUCCESS or DEAD is never run or changed again.
SettledIsFinal ==
    [][\A j \in Jobs : status[j] \in {"SUCCESS", "DEAD"} => status'[j] = status[j]]_vars

\* A document shown as successfully processed has a job that succeeded: a late
\* failure of another run of the same job takes the status of both back.
SuccessShownIsEarned ==
    \A d \in Docs : docStatus[d] = "success" =>
        \E j \in Jobs : DocOf[j] = d /\ status[j] = "SUCCESS"

\* A document shown as queued has a job that the workers still have to finish.
QueuedHasWork ==
    \A d \in Docs : docStatus[d] = "queued" =>
        \E j \in Jobs : DocOf[j] = d /\ status[j] \in {"QUEUED", "RETRY", "RUNNING"}

\* A deleted document has no chunk that retrieval would return.
DeletedIsNotServed == \A d \in Docs : deleted[d] => Served(d) = {}

\* No job is started more often than max_attempts allows.
AttemptsBounded == \A j \in Jobs : attempts[j] <= MaxAttempts

\* Every enqueued job ends in SUCCESS or DEAD although processes crash and
\* runs fail, for as long as both happen finitely often.
EveryJobSettles ==
    \A j \in Jobs : status[j] # "NONE" ~> status[j] \in {"SUCCESS", "DEAD"}

-----------------------------------------------------------------------------
(***************************************************************************)
(* The strengthening that makes the safety invariants inductive.           *)
(***************************************************************************)

\* A transaction that changes chunks holds the row of its document.
LockHeld == \A r \in Runs : Locking(r) => lock[RunDoc(r)] = r

\* While it holds it, what it read of the chunks to supersede stays current.
PreviousIsCurrent ==
    \A r \in Runs : pc[r] = "swapping" =>
        previous[r] = {q \in Runs : Superseded(r, q)}

\* A store keeps what a run wrote to it until its document is deleted; the graph
\* does as long as the run holds the row of the document.
WritesAreKept ==
    \A r \in Runs : ~deleted[RunDoc(r)] =>
        /\ pc[r] \in {"stored", "mirrored", "swapping"} => r \in index["milvus"]
        /\ pc[r] \in {"mirrored", "swapping"} =>
               /\ Required \subseteq indexed[r]
               /\ \A c \in indexed[r] : r \in index[c]

\* Runs have the numbers of past claims, and committed rows are of ended runs.
RunsAreClaimed ==
    /\ \A r \in Runs : pc[r] # "none" => r[2] <= attempts[RunJob(r)]
    /\ \A w \in Workers : \A r \in running[w] : pc[r] # "none"
    /\ \A r \in Runs : chunks[r] # "NONE" => pc[r] = "ended"

\* Clean-ups are retried for deleted documents only.
CleanupOfDeleted == \A d \in Docs : cleanup[d] # {} => deleted[d]

IInv ==
    /\ TypeOK
    /\ LockHeld
    /\ PreviousIsCurrent
    /\ OneServedGeneration
    /\ CleanupOfDeleted
    /\ WritesAreKept
    /\ RunsAreClaimed
    /\ ServedIsIndexed

\* As long as no run outlives its claim, a job has one live run at most: the run
\* of the last claim, whose claim has not timed out.
OneLiveRun ==
    \A r \in Runs : LiveRun(r) =>
        /\ status[RunJob(r)] = "RUNNING"
        /\ attempts[RunJob(r)] = r[2]
        /\ RunJob(r) \notin ripe

\* Chunk rows are committed together with the success of their job.
RowsOfSuccess == \A r \in Runs : chunks[r] # "NONE" => status[RunJob(r)] = "SUCCESS"

\* One run of a job commits chunk rows.
OneRunCommits ==
    \A r, q \in Runs :
        RunJob(r) = RunJob(q) /\ chunks[r] # "NONE" /\ chunks[q] # "NONE" => r = q

\* A recorded generation is settled, and no run has read that its own is recorded
\* or its job settled.
RunsReadUnsettled ==
    /\ \A d \in Docs : active[d] # NoJob => status[active[d]] = "SUCCESS"
    /\ \A r \in Runs : same[r] \subseteq {"pending"}

\* What IInv is strengthened by when ~RunsOutliveClaim.
PunctualInv ==
    /\ OneLiveRun
    /\ RowsOfSuccess
    /\ OneRunCommits
    /\ RunsReadUnsettled
    /\ SuccessShownIsEarned

\* The queue implements the promise made to retrieval, as long as no run
\* outlives its claim: a document goes from one generation to a new one in one
\* step, which records it, never back to a generation it was served from, and is only taken out
\* of retrieval by its deletion.
GS == INSTANCE GenerationStore WITH
        Generations <- Jobs,
        NoGeneration <- NoJob,
        served <- [d \in Docs |-> Generation(d)],
        recorded <- active,
        published <- {j \in Jobs : \E r \in Runs : RunJob(r) = j /\ chunks[r] # "NONE"},
        removed <- deleted
ImplementsGenerationStore == GS!Spec
=============================================================================
