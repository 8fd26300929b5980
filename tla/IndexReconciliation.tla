------------------------ MODULE IndexReconciliation ------------------------
(***************************************************************************)
(* Keeping the active Milvus collection in agreement with the chunk rows:  *)
(* the reconciler (services/index_reconciliation.py) compares both, removes *)
(* orphans and queues repairs; the repair workers (services/index_repair.py) *)
(* replace the vectors of what is missing.  Ingestions and deletions write  *)
(* to both stores at the same time, in one transaction and outside of it.   *)
(*                                                                         *)
(* An item is a generation of a document; its chunk rows are inserted,      *)
(* activated and removed together, as are the vectors of one call.  Vectors *)
(* are counted: Milvus accepts a chunk id twice.                            *)
(***************************************************************************)
EXTENDS Naturals, FiniteSets

CONSTANTS
    Items,         \* <<document, generation>>
    DocOf,         \* Items -> documents
    Workers,       \* processes that run an IndexRepairWorker
    Records,       \* bound: job records of an item that are kept apart
    BatchSize,     \* jobs claimed at once (4 in the code)
    MaxAttempts,   \* max_attempts of a repair job
    MaxFaults,     \* bound: exceptions, aborted requests and crashes explored
    WorkersCrash,  \* may a repair worker die?
    NoJob

Jobs == Items \X Records
Item(j) == j[1]
MinOf(a, b) == IF a < b THEN a ELSE b

ReconcileAssumption ==
    /\ IsFiniteSet(Items)
    /\ IsFiniteSet(Records)
    /\ BatchSize \in Nat \ {0}
    /\ MaxAttempts \in Nat \ {0}
    /\ MaxFaults \in Nat
    /\ WorkersCrash \in BOOLEAN
    /\ NoJob \notin Jobs

VARIABLES
    ingest,    \* Items -> progress of the ingestion transaction
    rows,      \* Items -> index_status and deleted of the committed rows
    cleaning,  \* items whose vectors an uncommitted deletion has removed
    copies,    \* Items -> vectors in the active collection
    rpc,       \* progress of the reconciler, one at a time (advisory lock)
    seen,      \* items whose ACTIVE rows it read
    missing,   \* those among them it found no vector of
    orphans,   \* items with vectors it did not read rows of
    jobStatus, \* Jobs -> status of t_index_repair_job, "NONE" if there is none
    attempts,  \* Jobs -> claims of the job
    wpc,       \* Workers -> progress of _process
    batch,     \* Workers -> claimed jobs not processed yet
    job,       \* Workers -> the job being processed
    found,     \* Workers -> did it find ACTIVE rows for the job?
    faults

ingestVars == <<ingest, rows, cleaning>>
recVars == <<rpc, seen, missing, orphans>>
jobVars == <<jobStatus, attempts>>
workVars == <<wpc, batch, job, found>>
vars == <<ingestVars, copies, recVars, jobVars, workVars, faults>>

RowState == {"none", "ACTIVE", "gone"}
IngestState == {"new", "stored", "ended"}
RecState == {"idle", "read", "compared", "scanned", "cleaned"}
PendingStatus == {"QUEUED", "RUNNING", "RETRY"}
JobStatus == PendingStatus \cup {"NONE", "SUCCESS", "DEAD"}
WorkState == {"idle", "loaded", "removed", "inserted"}

Active == {i \in Items : rows[i] = "ACTIVE"}
Stored == {i \in Items : copies[i] > 0}

Init ==
    /\ ingest = [i \in Items |-> "new"]
    /\ rows = [i \in Items |-> "none"]
    /\ cleaning = {}
    /\ copies = [i \in Items |-> 0]
    /\ rpc = "idle"
    /\ seen = {} /\ missing = {} /\ orphans = {}
    /\ jobStatus = [j \in Jobs |-> "NONE"]
    /\ attempts = [j \in Jobs |-> 0]
    /\ wpc = [w \in Workers |-> "idle"]
    /\ batch = [w \in Workers |-> {}]
    /\ job = [w \in Workers |-> NoJob]
    /\ found = [w \in Workers |-> FALSE]
    /\ faults = 0

Fault == faults < MaxFaults /\ faults' = faults + 1

-----------------------------------------------------------------------------
(***************************************************************************)
(* Ingestion and deletion: vectors first, then the commit.                 *)
(***************************************************************************)

StoreVectors(i) ==
    /\ ingest[i] = "new"
    /\ ingest' = [ingest EXCEPT ![i] = "stored"]
    /\ copies' = [copies EXCEPT ![i] = @ + 1]
    /\ UNCHANGED <<rows, cleaning, recVars, jobVars, workVars, faults>>

\* The commit activates the rows and supersedes those of other generations.
CommitRows(i) ==
    /\ ingest[i] = "stored"
    /\ ingest' = [ingest EXCEPT ![i] = "ended"]
    /\ rows' = [k \in Items |-> IF k = i THEN "ACTIVE"
                                ELSE IF DocOf[k] = DocOf[i] /\ k \in Active THEN "gone"
                                ELSE rows[k]]
    /\ UNCHANGED <<cleaning, copies, recVars, jobVars, workVars, faults>>

\* A failure after the insertion rolls the rows back, not the vectors.
RollBack(i) ==
    /\ ingest[i] = "stored"
    /\ ingest' = [ingest EXCEPT ![i] = "ended"]
    /\ UNCHANGED <<rows, cleaning, copies, recVars, jobVars, workVars, faults>>

\* delete_document removes the vectors of all rows of the document, or fails to,
\* before the commit.
CleanVectors(i) ==
    /\ i \in Active \ cleaning
    /\ cleaning' = cleaning \cup {i}
    /\ \/ UNCHANGED copies
       \/ copies' = [k \in Items |-> IF DocOf[k] = DocOf[i] /\ rows[k] # "none"
                                     THEN 0 ELSE copies[k]]
    /\ UNCHANGED <<ingest, rows, recVars, jobVars, workVars, faults>>

CommitDeletion(i) ==
    /\ i \in cleaning
    /\ cleaning' = cleaning \ {i}
    /\ rows' = [rows EXCEPT ![i] = "gone"]
    /\ UNCHANGED <<ingest, copies, recVars, jobVars, workVars, faults>>

AbortDeletion(i) ==
    /\ i \in cleaning
    /\ Fault
    /\ cleaning' = cleaning \ {i}
    /\ UNCHANGED <<ingest, rows, copies, recVars, jobVars, workVars>>

-----------------------------------------------------------------------------
(***************************************************************************)
(* IndexReconciliationWorker.run_once, one read or write after the other.  *)
(***************************************************************************)

ReadRows ==
    /\ rpc = "idle"
    /\ rpc' = "read"
    /\ seen' = Active
    /\ UNCHANGED <<ingestVars, copies, missing, orphans, jobVars, workVars, faults>>

ReadExisting ==
    /\ rpc = "read"
    /\ rpc' = "compared"
    /\ missing' = seen \ Stored
    /\ UNCHANGED <<ingestVars, copies, seen, orphans, jobVars, workVars, faults>>

\* Variant with a bug: superseded and deleted items are not seen as orphans.
ReadPhysicalOfRows ==
    /\ rpc = "compared"
    /\ rpc' = "scanned"
    /\ orphans' = {i \in Stored \ seen : rows[i] = "none"}
    /\ UNCHANGED <<ingestVars, copies, seen, missing, jobVars, workVars, faults>>

ReadPhysical ==
    /\ rpc = "compared"
    /\ rpc' = "scanned"
    /\ orphans' = Stored \ seen
    /\ UNCHANGED <<ingestVars, copies, seen, missing, jobVars, workVars, faults>>

DeleteOrphans ==
    /\ rpc = "scanned"
    /\ rpc' = "cleaned"
    /\ copies' = [i \in Items |-> IF i \in orphans THEN 0 ELSE copies[i]]
    /\ UNCHANGED <<ingestVars, seen, missing, orphans, jobVars, workVars, faults>>

\* Variant with a bug: a repair under way is not seen as pending.
PendingWaiting(i) == \E j \in Jobs : Item(j) = i /\ jobStatus[j] \in {"QUEUED", "RETRY"}
Pending(i) == \E j \in Jobs : Item(j) = i /\ jobStatus[j] \in PendingStatus

Stop == rpc' = "idle" /\ seen' = {} /\ missing' = {} /\ orphans' = {}

\* A REPLACE_DOCUMENT job for what is missing; records of ended jobs are reused
\* here, new ones are created in the code.
QueueRepairs ==
    /\ rpc = "cleaned"
    /\ \E new \in SUBSET {j \in Jobs : jobStatus[j] \notin PendingStatus} :
        /\ \A j \in new : Item(j) \in missing /\ ~Pending(Item(j))
        /\ \A i \in missing : Pending(i) \/ Cardinality({j \in new : Item(j) = i}) = 1
        /\ jobStatus' = [j \in Jobs |-> IF j \in new THEN "QUEUED" ELSE jobStatus[j]]
        /\ attempts' = [j \in Jobs |-> IF j \in new THEN 0 ELSE attempts[j]]
    /\ Stop
    /\ UNCHANGED <<ingestVars, copies, workVars, faults>>

\* An exception or the death of the process: nothing is queued.
AbortReconciliation ==
    /\ rpc # "idle"
    /\ Fault
    /\ Stop
    /\ UNCHANGED <<ingestVars, copies, jobVars, workVars>>

-----------------------------------------------------------------------------
(***************************************************************************)
(* IndexRepairWorker.                                                      *)
(***************************************************************************)

Goto(w, s) == wpc' = [wpc EXCEPT ![w] = s]

\* Variant with a bug: jobs that failed before are not claimed again.
ClaimableOnce == {j \in Jobs : jobStatus[j] = "QUEUED"}

\* A RETRY waits for its next_retry_time, that is, for some time.
Claimable == {j \in Jobs : jobStatus[j] \in {"QUEUED", "RETRY"}}

Claim(w) ==
    /\ wpc[w] = "idle" /\ batch[w] = {}
    /\ \E b \in SUBSET Claimable :
        /\ b # {}
        /\ Cardinality(b) = MinOf(BatchSize, Cardinality(Claimable))
        /\ jobStatus' = [j \in Jobs |-> IF j \in b THEN "RUNNING" ELSE jobStatus[j]]
        /\ attempts' = [j \in Jobs |-> IF j \in b THEN attempts[j] + 1 ELSE attempts[j]]
        /\ batch' = [batch EXCEPT ![w] = b]
    /\ UNCHANGED <<ingestVars, copies, recVars, wpc, job, found, faults>>

\* Variant with a bug: the job is not looked up.
LoadRows(w) ==
    /\ wpc[w] = "idle"
    /\ \E j \in batch[w] :
        /\ batch' = [batch EXCEPT ![w] = @ \ {j}]
        /\ found' = [found EXCEPT ![w] = FALSE]
    /\ Goto(w, "loaded")
    /\ UNCHANGED <<ingestVars, copies, recVars, jobVars, job, faults>>

\* _process: the job and the ACTIVE rows of its document and generation
LoadJob(w) ==
    /\ wpc[w] = "idle"
    /\ \E j \in batch[w] :
        /\ job' = [job EXCEPT ![w] = j]
        /\ batch' = [batch EXCEPT ![w] = @ \ {j}]
        /\ found' = [found EXCEPT ![w] = Item(j) \in Active]
    /\ Goto(w, "loaded")
    /\ UNCHANGED <<ingestVars, copies, recVars, jobVars, faults>>

RemoveVectors(w) ==
    /\ wpc[w] = "loaded"
    /\ copies' = IF found[w] THEN [copies EXCEPT ![Item(job[w])] = 0] ELSE copies
    /\ Goto(w, "removed")
    /\ UNCHANGED <<ingestVars, recVars, jobVars, batch, job, found, faults>>

InsertVectors(w) ==
    /\ wpc[w] = "removed"
    /\ copies' = IF found[w] THEN [copies EXCEPT ![Item(job[w])] = @ + 1] ELSE copies
    /\ Goto(w, "inserted")
    /\ UNCHANGED <<ingestVars, recVars, jobVars, batch, job, found, faults>>

EndJob(w, s) ==
    /\ jobStatus' = [jobStatus EXCEPT ![job[w]] = s]
    /\ Goto(w, "idle")
    /\ job' = [job EXCEPT ![w] = NoJob]
    /\ found' = [found EXCEPT ![w] = FALSE]

Finish(w) ==
    /\ wpc[w] = "inserted"
    /\ EndJob(w, "SUCCESS")
    /\ UNCHANGED <<ingestVars, copies, recVars, attempts, batch, faults>>

RepairFails(w) ==
    /\ wpc[w] \in {"loaded", "removed"}
    /\ Fault
    /\ EndJob(w, IF attempts[job[w]] >= MaxAttempts THEN "DEAD" ELSE "RETRY")
    /\ UNCHANGED <<ingestVars, copies, recVars, attempts, batch>>

\* The process dies or is stopped, or the commit of a job raises: what was
\* claimed stays RUNNING.
Crash(w) ==
    /\ WorkersCrash
    /\ wpc[w] # "idle" \/ batch[w] # {}
    /\ Fault
    /\ Goto(w, "idle")
    /\ batch' = [batch EXCEPT ![w] = {}]
    /\ job' = [job EXCEPT ![w] = NoJob]
    /\ found' = [found EXCEPT ![w] = FALSE]
    /\ UNCHANGED <<ingestVars, copies, recVars, jobVars>>

-----------------------------------------------------------------------------

Reconcile == ReadRows \/ ReadExisting \/ ReadPhysical \/ DeleteOrphans \/ QueueRepairs
Repair(w) == Claim(w) \/ LoadJob(w) \/ RemoveVectors(w) \/ InsertVectors(w) \/ Finish(w)

Next ==
    \/ \E i \in Items : \/ StoreVectors(i) \/ CommitRows(i) \/ RollBack(i)
                        \/ CleanVectors(i) \/ CommitDeletion(i) \/ AbortDeletion(i)
    \/ Reconcile \/ AbortReconciliation
    \/ \E w \in Workers : Repair(w) \/ RepairFails(w) \/ Crash(w)

Spec == Init /\ [][Next]_vars

\* Both loops keep polling, and requests end one way or the other.
Fairness ==
    /\ WF_vars(Reconcile)
    /\ \A w \in Workers : WF_vars(Repair(w))
    /\ \A i \in Items : WF_vars(CommitDeletion(i))

FairSpec == Spec /\ Fairness

-----------------------------------------------------------------------------
(***************************************************************************)
(* Properties.                                                             *)
(***************************************************************************)

\* Every variable stays in its domain; a worker that processes has a job.
TypeOK ==
    /\ ingest \in [Items -> IngestState]
    /\ rows \in [Items -> RowState]
    /\ cleaning \subseteq Items
    /\ copies \in [Items -> Nat]
    /\ rpc \in RecState
    /\ seen \subseteq Items /\ missing \subseteq Items /\ orphans \subseteq Items
    /\ jobStatus \in [Jobs -> JobStatus]
    /\ attempts \in [Jobs -> Nat]
    /\ wpc \in [Workers -> WorkState]
    /\ batch \in [Workers -> SUBSET Jobs]
    /\ job \in [Workers -> Jobs \cup {NoJob}]
    /\ found \in [Workers -> BOOLEAN]
    /\ faults \in Nat
    /\ \A w \in Workers : wpc[w] # "idle" => job[w] # NoJob

\* The collection never holds a chunk twice, although ingestions, two repair
\* workers and the reconciler delete and insert the same ids.
NoDuplicateVectors == \A i \in Items : copies[i] <= 1

\* A job whose worker has stopped or died since the claim: nobody will end it.
Abandoned(j) ==
    /\ jobStatus[j] = "RUNNING"
    /\ \A w \in Workers : j \notin batch[w] /\ job[w] # j

\* An item that has ACTIVE rows and no vectors gets them, or loses its rows, unless
\* the repair of its document was abandoned, which the reconciler takes for pending.
MissingIsRepaired ==
    \A i \in Items :
        (i \in Active \ Stored)
            ~> \/ i \notin Active \/ i \in Stored
               \/ \E j \in Jobs : Abandoned(j) /\ DocOf[Item(j)] = DocOf[i]

\* Vectors without ACTIVE rows are removed, or get rows.
OrphansAreRemoved ==
    \A i \in Items : (i \in Stored \ Active) ~> (i \notin Stored \/ i \in Active)

\* Only a repair or a deletion takes the vectors of an item with ACTIVE rows: what
\* the reconciler removes are orphans.
ActiveIsSpared ==
    [][\A i \in Items : (i \in Active \cap Stored /\ i \notin Stored') =>
          \/ i \in cleaning'
          \/ \E w \in Workers : job[w] # NoJob /\ Item(job[w]) = i]_vars
=============================================================================
