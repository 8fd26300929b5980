------------------------------ MODULE MCIndexes ------------------------------
(***************************************************************************)
(* The vector index of a knowledge base: the generations that are built    *)
(* and promoted (IndexGenerations), and the agreement of the active        *)
(* collection with the chunk rows (IndexReconciliation).  Two parts that   *)
(* look at the collection from two sides, a set of vectors in one and a    *)
(* count of them in the other, and are explored one at a time: the initial *)
(* state chooses the part, the other rests.                                *)
(***************************************************************************)
EXTENDS IndexGenerations, TLC

CONSTANTS
    Parts, \* those that a run explores
    c1, c2, c3,
    Items, DocOf, Repairers, Records, BatchSize, MaxAttempts, MaxRepairFaults,
    WorkersCrash, NoJob

VARIABLES
    part,
    ingest, rows, cleaning, copies, rpc, seen, missing, orphans, jobStatus, attempts,
    wpc, batch, job, found, failures

Recon == INSTANCE IndexReconciliation
             WITH Workers <- Repairers, MaxFaults <- MaxRepairFaults, faults <- failures

reconciliationVars == <<ingest, rows, cleaning, copies, rpc, seen, missing, orphans, jobStatus,
                        attempts, wpc, batch, job, found, failures>>
indexVars == <<part, vars, reconciliationVars>>

ASSUME ReconciliationAssumption == Recon!ReconcileAssumption

\* values for the run: two chunks of one knowledge base, one of them ingested meanwhile, and
\* one of another; the document of each generation
TwoAndOne == [c \in Chunks |-> IF c = c2 THEN 2 ELSE 1]
OneDocument == [i \in Items |-> "document"]

IndexInit == /\ part \in Parts
             /\ Init /\ Recon!Init

InGenerations(A) == part = "generations" /\ A /\ UNCHANGED <<part, reconciliationVars>>
InReconciliation(A) == part = "reconciliation" /\ A /\ UNCHANGED <<part, vars>>

IndexNext == InGenerations(Next) \/ InReconciliation(Recon!Next)

IndexSpec == IndexInit /\ [][IndexNext]_indexVars

\* the fairness of each part: only the part explored has enabled actions
FairGenerations == IndexSpec /\ \A w \in Workers : WF_indexVars(InGenerations(Work(w)))

FairReconciliation ==
    /\ IndexSpec
    /\ WF_indexVars(InReconciliation(Recon!Reconcile))
    /\ \A w \in Repairers : WF_indexVars(InReconciliation(Recon!Repair(w)))
    /\ \A i \in Items : WF_indexVars(InReconciliation(Recon!CommitDeletion(i)))

\* Type correctness of both parts: a worker that builds has a generation, one that repairs a job.
IndexTypes == TypeOK /\ Recon!TypeOK

\* IndexReconciliation: the collection never holds a chunk twice, although ingestions, two
\* repair workers and the reconciler delete and insert the same ids.
NoDuplicateVectors == Recon!NoDuplicateVectors

\* IndexReconciliation: what has rows and no vectors gets vectors, unless its repair was
\* abandoned by a worker that died.
MissingIsRepaired == Recon!MissingIsRepaired

\* IndexReconciliation: vectors without rows are removed, or get rows.
OrphansAreRemoved == Recon!OrphansAreRemoved
=============================================================================
