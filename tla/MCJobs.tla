-------------------------------- MODULE MCJobs --------------------------------
(***************************************************************************)
(* The jobs that outlive a request and the workers that take them: parts   *)
(* without common state, explored one at a time.  The initial state        *)
(* chooses the part; the others stay in an initial state of theirs.  The   *)
(* two loops of DocumentSchedules, neither of which reads what the other   *)
(* writes, are two parts.                                                  *)
(***************************************************************************)
EXTENDS Naturals

CONSTANTS
    None, Workers, MaxAttempts,
    Runs, MaxCrashes, MaxStalls,
    Files, Contents, BatchAttempts, MaxClaims,
    MaxVersion, Headers(_)

VARIABLES
    part,
    statusR, holder, lease, dueR, attemptsR, atR, work, tries, crashes, stalls,
    content, punctual, status, claimed, stale, attempts, owner, kb, record, documents,
    at, todo, file, success, failed,
    source, contentS, hashed, queued, schedule, loopOn, due, docLock, leaderLock, atS, url, got,
    lost

Evals == INSTANCE EvaluationRuns
             WITH status <- statusR, due <- dueR, attempts <- attemptsR, at <- atR
Batch == INSTANCE BatchImports WITH MaxAttempts <- BatchAttempts
Schedules == INSTANCE DocumentSchedules
                 WITH Replicas <- Workers, content <- contentS, at <- atS

evalVars == <<statusR, holder, lease, dueR, attemptsR, atR, work, tries, crashes, stalls>>
batchVars == <<content, punctual, status, claimed, stale, attempts, owner, kb, record,
               documents,
               at, todo, file, success, failed>>
scheduleVars == <<source, contentS, hashed, queued, schedule, loopOn, due, docLock, leaderLock,
                  atS, url, got, lost>>
vars == <<part, evalVars, batchVars, scheduleVars>>

\* the headers of the run: each version has its own
VersionOf(v) == v

ASSUME JobsAssumption ==
    Evals!RunsAssumption /\ Batch!BatchAssumption /\ Schedules!ScheduleAssumption

\* one initial state for a part that is not explored
Resting ==
    /\ part # "batch" => /\ content = [f \in Files |-> CHOOSE c \in Contents : TRUE]
                         /\ punctual = FALSE /\ documents = [c \in Contents |-> 0]
    /\ part \notin {"schedules", "urls"} => loopOn = FALSE

Init == /\ part \in {"evaluations", "batch", "schedules", "urls"}
        /\ Resting
        /\ Evals!Init /\ Batch!Init /\ Schedules!Init
        \* contents are alike: some file has some one of them
        /\ content[CHOOSE f \in Files : TRUE] = CHOOSE c \in Contents : TRUE

InEvals(A) == part = "evaluations" /\ A /\ UNCHANGED <<part, batchVars, scheduleVars>>
InBatch(A) == part = "batch" /\ A /\ UNCHANGED <<part, evalVars, scheduleVars>>
InSchedules(A) == part = "schedules" /\ A /\ UNCHANGED <<part, evalVars, batchVars, source,
                                                         queued, url>>
InUrls(A) == part = "urls" /\ A /\ UNCHANGED <<part, evalVars, batchVars, atS>>

Next == \/ InEvals(Evals!Next) \/ InBatch(Batch!Next)
        \/ InSchedules(Schedules!Next) \/ InUrls(Schedules!Next)

\* the fairness of the three modules; only the part that is explored has enabled actions
Fairness ==
    /\ \A w \in Workers :
         /\ WF_vars(\/ InEvals(Evals!Process(w)) \/ InBatch(Batch!Work(w))
                    \/ InUrls(Schedules!Check(w)))
         /\ SF_vars(InUrls(Schedules!Fetch(w)))
         /\ SF_vars(InUrls(Schedules!Commit(w)))
    /\ \A r \in Runs : WF_vars(InEvals(Evals!Time(r)) \/ InBatch(Batch!GrowStale))

Spec == Init /\ [][Next]_vars /\ Fairness

\* Type correctness of the three modules.
TypeOK == Evals!TypeOK /\ Batch!TypeOK /\ Schedules!TypeOK

\* What one worker has taken no other has: a run while leases are renewed in time, the content
\* of a batch while no batch outlives its claim, a document while no session of a lock is lost.
JobsAreExclusive == /\ Evals!ExclusiveWithoutStalls
                    /\ Batch!ContentIsImportedOnce
                    /\ Schedules!OneScheduledRefresh

\* Every job ends, and every change behind a URL is served in the end, across crashes,
\* failures and lost leases; and a completed run stays completed.
EveryJobEnds == /\ Evals!CompletedStays /\ Evals!EveryRunSettles
                /\ Batch!BatchEnds /\ Schedules!ChangesAreServed
=============================================================================
