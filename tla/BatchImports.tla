------------------------------ MODULE BatchImports -----------------------------
(***************************************************************************)
(* One batch of uploaded files (services/batch_import.py).  Workers claim  *)
(* the job by its row, and once more when it has been running for 15       *)
(* minutes: a claim is not renewed.  Every file is one transaction, with   *)
(* its document and its record; a document of the same content makes the   *)
(* file a duplicate (ingestion/dedup.py).                                  *)
(***************************************************************************)
EXTENDS Naturals, FiniteSets

CONSTANTS Workers, Files, Contents,
          MaxAttempts, \* of a job that cannot be started: 3
          MaxClaims,   \* bound: times the job is claimed
          None

BatchAssumption ==
    /\ MaxAttempts \in Nat \ {0} /\ MaxClaims \in Nat \ {0}
    /\ IsFiniteSet(Files) /\ None \notin Files

VARIABLES
    content,   \* of a file
    punctual,  \* no claim of a working worker grows old
    status, claimed, stale, attempts, \* the job: claimed when claimed_at is set, stale 15 minutes later
    owner, kb, \* the user and the knowledge base exist
    record,    \* BatchImportFileRecord.status
    documents, \* committed documents by content
    at, todo, file, success, failed

vars == <<content, punctual, status, claimed, stale, attempts, owner, kb, record, documents,
          at, todo, file, success, failed>>
jobVars == <<status, claimed, stale, attempts>>
outside == <<content, punctual, owner, kb>>

Final == {"success", "partial", "error"}

TypeOK ==
    /\ content \in [Files -> Contents] /\ {punctual, claimed, stale, owner, kb} \subseteq BOOLEAN
    /\ status \in Final \cup {"queued", "running", "retry"} /\ attempts \in 0 .. MaxClaims
    /\ record \in [Files -> {"queued", "success", "duplicate", "error"}]
    /\ documents \in [Contents -> Nat]
    /\ at \in [Workers -> {"idle", "loading", "starting", "working", "ingesting"}]
    /\ todo \in [Workers -> SUBSET Files] /\ file \in [Workers -> Files \cup {None}]
    /\ success \in [Workers -> 0 .. Cardinality(Files)] /\ failed \in [Workers -> 0 .. Cardinality(Files)]

\* create_job; a document of some content may be there already
Init ==
    /\ content \in [Files -> Contents] /\ punctual \in BOOLEAN
    /\ status = "queued" /\ claimed = FALSE /\ stale = FALSE /\ attempts = 0
    /\ owner = TRUE /\ kb = TRUE
    /\ record = [f \in Files |-> "queued"]
    /\ documents \in [Contents -> {0, 1}]
    /\ at = [w \in Workers |-> "idle"] /\ todo = [w \in Workers |-> {}]
    /\ file = [w \in Workers |-> None]
    /\ success = [w \in Workers |-> 0] /\ failed = [w \in Workers |-> 0]

Goes(w, from, to) == at[w] = from /\ at' = [at EXCEPT ![w] = to]
Forgets(w) ==
    /\ todo' = [todo EXCEPT ![w] = {}] /\ file' = [file EXCEPT ![w] = None]
    /\ success' = [success EXCEPT ![w] = 0] /\ failed' = [failed EXCEPT ![w] = 0]

Claim(w) ==
    /\ status \in {"queued", "retry"} \/ (status = "running" /\ claimed /\ stale)
    /\ attempts < MaxClaims /\ Goes(w, "idle", "loading")
    /\ status' = "running" /\ claimed' = TRUE /\ stale' = FALSE /\ attempts' = attempts + 1
    /\ UNCHANGED <<outside, record, documents, todo, file, success, failed>>

Load(w) ==
    /\ owner /\ Goes(w, "loading", "starting")
    /\ todo' = [todo EXCEPT ![w] = Files]
    /\ UNCHANGED <<outside, jobVars, record, documents, file, success, failed>>

\* the job cannot be started: later again, or never
LoadFails(w) ==
    /\ ~owner /\ Goes(w, "loading", "idle")
    /\ status' = IF attempts < MaxAttempts THEN "retry" ELSE "error"
    /\ UNCHANGED <<outside, claimed, stale, attempts, record, documents, todo, file, success, failed>>

\* whatever the status is by now
Begin(w) ==
    /\ Goes(w, "starting", "working")
    /\ status' = "running"
    /\ UNCHANGED <<outside, claimed, stale, attempts, record, documents, todo, file, success, failed>>

\* variant: no file is a duplicate
TakeAny(w, f) ==
    /\ f \in todo[w] /\ kb /\ Goes(w, "working", "ingesting")
    /\ todo' = [todo EXCEPT ![w] = @ \ {f}] /\ file' = [file EXCEPT ![w] = f]
    /\ UNCHANGED <<outside, jobVars, record, documents, success, failed>>

Take(w, f) ==
    /\ f \in todo[w] /\ kb /\ documents[content[f]] = 0 /\ Goes(w, "working", "ingesting")
    /\ todo' = [todo EXCEPT ![w] = @ \ {f}] /\ file' = [file EXCEPT ![w] = f]
    /\ UNCHANGED <<outside, jobVars, record, documents, success, failed>>

Skip(w, f) ==
    /\ at[w] = "working" /\ f \in todo[w] /\ kb /\ documents[content[f]] > 0
    /\ todo' = [todo EXCEPT ![w] = @ \ {f}]
    /\ record' = [record EXCEPT ![f] = "duplicate"]
    /\ UNCHANGED <<outside, jobVars, documents, at, file, success, failed>>

\* the result "error" is returned, not raised: it is not counted, and the record is left
NoBase(w, f) ==
    /\ at[w] = "working" /\ f \in todo[w] /\ ~kb
    /\ todo' = [todo EXCEPT ![w] = @ \ {f}]
    /\ UNCHANGED <<outside, jobVars, record, documents, at, file, success, failed>>

Ingest(w) ==
    /\ Goes(w, "ingesting", "working")
    /\ documents' = [documents EXCEPT ![content[file[w]]] = @ + 1]
    /\ record' = [record EXCEPT ![file[w]] = "success"]
    /\ success' = [success EXCEPT ![w] = @ + 1] /\ file' = [file EXCEPT ![w] = None]
    /\ UNCHANGED <<outside, jobVars, todo, failed>>

\* variant: the error ends the batch, as it would outside the try
IngestFailsBatch(w) ==
    /\ Goes(w, "ingesting", "idle") /\ Forgets(w)
    /\ UNCHANGED <<outside, jobVars, record, documents>>

IngestFails(w) ==
    /\ Goes(w, "ingesting", "working")
    /\ record' \in {record, [record EXCEPT ![file[w]] = "error"]}
    /\ failed' = [failed EXCEPT ![w] = @ + 1] /\ file' = [file EXCEPT ![w] = None]
    /\ UNCHANGED <<outside, jobVars, documents, todo, success>>

Finish(w) ==
    /\ todo[w] = {} /\ Goes(w, "working", "idle")
    /\ status' = IF failed[w] = 0 THEN "success" ELSE IF success[w] > 0 THEN "partial" ELSE "error"
    /\ claimed' = FALSE /\ stale' = FALSE
    /\ Forgets(w) /\ UNCHANGED <<outside, attempts, record, documents>>

Crash(w) ==
    /\ at[w] # "idle" /\ attempts < MaxClaims
    /\ at' = [at EXCEPT ![w] = "idle"] /\ Forgets(w)
    /\ UNCHANGED <<outside, jobVars, record, documents>>

GrowStale ==
    /\ claimed /\ ~stale /\ (punctual => \A w \in Workers : at[w] = "idle")
    /\ stale' = TRUE
    /\ UNCHANGED <<outside, status, claimed, attempts, record, documents, at, todo, file, success, failed>>

Delete ==
    /\ \/ owner /\ owner' = FALSE /\ UNCHANGED kb
       \/ kb /\ kb' = FALSE /\ UNCHANGED owner
    /\ UNCHANGED <<content, punctual, jobVars, record, documents, at, todo, file, success, failed>>

Work(w) ==
    \/ Claim(w) \/ Load(w) \/ LoadFails(w) \/ Begin(w) \/ Ingest(w) \/ IngestFails(w) \/ Finish(w)
    \/ \E f \in Files : Take(w, f) \/ Skip(w, f) \/ NoBase(w, f)

Next == (\E w \in Workers : Work(w) \/ Crash(w)) \/ GrowStale \/ Delete

\* workers poll and time passes
Spec == Init /\ [][Next]_vars /\ WF_vars(GrowStale) /\ \A w \in Workers : WF_vars(Work(w))

-----------------------------------------------------------------------------
(* Properties. *)

\* A crash between two files costs nothing: while no batch outlives its claim, no content is
\* ingested twice, however often the job is claimed, and a file said to be imported, or to be
\* a duplicate, has a document.
ContentIsImportedOnce ==
    /\ punctual => \A c \in Contents : documents[c] <= 1
    /\ \A f \in Files : record[f] \in {"success", "duplicate"} => documents[content[f]] > 0

\* "Claim persisted batch jobs so request-process loss is recoverable": while no batch outlives
\* its claim, the job ends, whatever crashes and whatever is deleted meanwhile.
BatchEnds == punctual => <>[](status \in Final)

\* Refuted: a batch of more than 15 minutes is claimed while it is still worked on.
ContentIsNeverTwice == \A c \in Contents : documents[c] <= 1

\* Refuted: files that found no knowledge base are not counted as failed.
SuccessIsTrue == status = "success" => \A f \in Files : record[f] \in {"success", "duplicate"}

\* Refuted: a worker that begins after another has finished makes the job running again without
\* a claim, which nobody takes over when that worker dies.
AbandonedIsClaimable ==
    (\A w \in Workers : at[w] = "idle") /\ status = "running" => claimed
=============================================================================
