---------------------------- MODULE MCJobs_proofs ----------------------------
(***************************************************************************)
(* The jobs that outlive a request, for any number of workers, runs, files *)
(* and replicas: EvaluationRuns, BatchImports and DocumentSchedules, each  *)
(* on its own, and then the three as MCJobs puts them side by side.        *)
(***************************************************************************)
EXTENDS MCJobs, FiniteSetTheorems, WellFoundedInduction, TLAPS

-----------------------------------------------------------------------------
(***************************************************************************)
(* EvaluationRuns.  As long as no live worker has failed to renew its      *)
(* lease, each of them holds a fresh one on the run it works on            *)
(* (LeaseIsHeld).  The sweep and the claim only look at waiting runs and   *)
(* expired leases, so they never meet such a run.                          *)
(***************************************************************************)
LeaseIsHeld ==
    stalls = 0 =>
        \A w \in Workers : atR[w] # "idle" =>
            /\ statusR[work[w]] = "running" /\ holder[work[w]] = w /\ lease[work[w]] = "fresh"

EvalsInv == Evals!TypeOK /\ LeaseIsHeld

\* The claim takes one of the runs that wait.
LEMMA OldestWaits ==
  ASSUME NEW S \in SUBSET Nat, S # {}
  PROVE  Evals!Oldest(S) \in S
  <1> DEFINE Less == {p \in Nat \X Nat : p[1] < p[2]}
  <1>1. IsWellFoundedOn(Less, Nat)
    BY NatLessThanWellFounded DEF OpToRel
  <1> HIDE DEF Less
  <1>2. PICK r \in S : \A q \in S : <<q, r>> \notin Less
    BY <1>1, WFMin
  <1>3. \A q \in S : ~(q < r)
    BY <1>2 DEF Less
  <1>4. \A q \in S : r <= q
    BY <1>3
  <1> QED BY <1>4 DEF Evals!Oldest

\* A worker that has a run goes on with it or leaves it.
LEMMA MoveType ==
  ASSUME Evals!TypeOK, NEW w \in Workers, atR[w] # "idle",
         NEW p \in {"idle", "evaluating", "writing", "failing"}, Evals!Move(w, p)
  PROVE  /\ atR' \in [Workers -> {"idle", "claimed", "evaluating", "writing", "failing"}]
         /\ work' \in [Workers -> Runs \cup {None}] /\ tries' \in [Workers -> Nat]
         /\ \A v \in Workers : atR'[v] # "idle" => work'[v] \in Runs
         /\ \A v \in Workers \ {w} : atR'[v] = atR[v] /\ work'[v] = work[v]
         /\ UNCHANGED <<crashes, stalls>>
  <1>1. work' \in [Workers -> Runs \cup {None}]
    BY DEF Evals!TypeOK, Evals!Move
  <1>2. tries' \in [Workers -> Nat]
    BY DEF Evals!TypeOK, Evals!Move
  <1>3. atR' \in [Workers -> {"idle", "claimed", "evaluating", "writing", "failing"}]
    BY DEF Evals!TypeOK, Evals!Move
  <1>4. \A v \in Workers : atR'[v] # "idle" => work'[v] \in Runs
    BY DEF Evals!TypeOK, Evals!Move
  <1> QED BY <1>1, <1>2, <1>3, <1>4 DEF Evals!TypeOK, Evals!Move

\* The initial state.
LEMMA EvalsInitInv == Evals!RunsAssumption /\ Evals!Init => EvalsInv
  BY DEF Evals!RunsAssumption, Evals!Init, EvalsInv, Evals!TypeOK, LeaseIsHeld

\* Every step keeps the types and the leases.
LEMMA EvalsNextInv == Evals!RunsAssumption /\ EvalsInv /\ [Evals!Next]_Evals!vars => EvalsInv'
  <1> SUFFICES ASSUME Evals!RunsAssumption, EvalsInv, [Evals!Next]_Evals!vars PROVE EvalsInv'
    OBVIOUS
  <1> USE DEF EvalsInv, Evals!row, Evals!worker
  <1>1. ASSUME NEW r \in Runs, Evals!Submit(r) PROVE EvalsInv'
    <2>1. Evals!TypeOK'
      BY <1>1 DEF Evals!TypeOK, Evals!Submit
    <2>2. LeaseIsHeld'
      BY <1>1 DEF Evals!TypeOK, LeaseIsHeld, Evals!Submit
    <2> QED BY <2>1, <2>2
  <1>2. ASSUME NEW r \in Runs, Evals!LeaseExpires(r) PROVE EvalsInv'
    <2>1. Evals!TypeOK'
      BY <1>2 DEF Evals!RunsAssumption, Evals!TypeOK, Evals!LeaseExpires
    <2>2. LeaseIsHeld'
      <3>1. CASE Evals!WorksOn(holder[r], r)
        <4>1. stalls' # 0
          BY <1>2, <3>1 DEF Evals!TypeOK, Evals!LeaseExpires
        <4> QED BY <4>1 DEF LeaseIsHeld
      <3>2. CASE ~Evals!WorksOn(holder[r], r)
        <4>1. stalls' = stalls
          BY <1>2, <3>2 DEF Evals!LeaseExpires
        <4>2. stalls = 0 => \A w \in Workers : atR[w] # "idle" => work[w] # r
          BY <3>2 DEF LeaseIsHeld, Evals!WorksOn
        <4> QED BY <1>2, <4>1, <4>2 DEF Evals!TypeOK, LeaseIsHeld, Evals!LeaseExpires
      <3> QED BY <3>1, <3>2
    <2> QED BY <2>1, <2>2
  <1>3. ASSUME NEW r \in Runs, Evals!RetryTimeComes(r) PROVE EvalsInv'
    BY <1>3 DEF Evals!TypeOK, LeaseIsHeld, Evals!RetryTimeComes
  <1>4. ASSUME NEW w \in Workers, Evals!SweepAndClaim(w) PROVE EvalsInv'
    <2> DEFINE run == Evals!Oldest(Evals!Waiting)  swept == Evals!Expired \ {run}
    <2>1. run \in Evals!Waiting /\ run \in Runs /\ swept \subseteq Evals!Expired
      <3>1. Evals!Waiting \in SUBSET Nat /\ Evals!Waiting # {} /\ Evals!Waiting \subseteq Runs
        BY <1>4 DEF Evals!SweepAndClaim, Evals!Waiting, Evals!Expired, Evals!RunsAssumption
      <3> QED BY <3>1, OldestWaits
    <2> HIDE DEF run
    <2>2. /\ statusR' = [r \in Runs |-> IF r = run THEN "running"
                                      ELSE IF r \in swept THEN "retry" ELSE statusR[r]]
          /\ holder' = [r \in Runs |-> IF r = run THEN w
                                      ELSE IF r \in swept THEN None ELSE holder[r]]
          /\ lease' = [r \in Runs |-> IF r = run THEN "fresh"
                                     ELSE IF r \in swept THEN "none" ELSE lease[r]]
          /\ dueR' = [r \in Runs |-> dueR[r] \/ r \in swept]
          /\ attemptsR' = [attemptsR EXCEPT ![run] = @ + 1]
          /\ work' = [work EXCEPT ![w] = run]
          /\ tries' = [tries EXCEPT ![w] = attemptsR'[run]]
          /\ atR' = [atR EXCEPT ![w] = "claimed"] /\ UNCHANGED <<crashes, stalls>>
          /\ atR[w] = "idle"
      BY <1>4 DEF Evals!SweepAndClaim, run
    <2>3. dueR' \in [Runs -> BOOLEAN]
      BY <2>2
    <2>4. attemptsR' \in [Runs -> Nat] /\ tries' \in [Workers -> Nat]
      BY <2>1, <2>2 DEF Evals!TypeOK
    <2>5. Evals!TypeOK'
      BY <2>1, <2>2, <2>3, <2>4 DEF Evals!TypeOK
    <2>6. LeaseIsHeld'
      <3>1. \A v \in Workers \ {w} : stalls = 0 /\ atR[v] # "idle" =>
               work[v] \in Runs /\ work[v] # run /\ work[v] \notin swept
        BY <2>1 DEF Evals!TypeOK, LeaseIsHeld, Evals!Waiting, Evals!Expired
      <3> QED BY <2>1, <2>2, <3>1 DEF Evals!TypeOK, LeaseIsHeld
    <2> QED BY <2>5, <2>6
  <1>5. ASSUME NEW w \in Workers, Evals!Load(w) \/ Evals!Evaluate(w) \/ Evals!Fail(w)
        PROVE  EvalsInv'
    <2>1. PICK p \in {"idle", "evaluating", "writing", "failing"} :
            Evals!Move(w, p) /\ UNCHANGED Evals!row
      BY <1>5 DEF Evals!Load, Evals!Evaluate, Evals!Fail
    <2>2. atR[w] # "idle"
      BY <1>5 DEF Evals!Load, Evals!Evaluate, Evals!Fail
    <2>3. Evals!TypeOK'
      BY <2>1, <2>2, MoveType DEF Evals!TypeOK
    <2>4. LeaseIsHeld'
      BY <2>1, <2>2 DEF Evals!TypeOK, LeaseIsHeld, Evals!Move
    <2> QED BY <2>3, <2>4
  <1>6. ASSUME NEW w \in Workers, Evals!WriteResult(w) PROVE EvalsInv'
    <2>1. work[w] \in Runs
      BY <1>6 DEF Evals!TypeOK, Evals!WriteResult
    <2>2. Evals!TypeOK'
      <3>1. Evals!Move(w, "idle") /\ atR[w] # "idle"
        BY <1>6 DEF Evals!WriteResult
      <3> QED BY <1>6, <2>1, <3>1, MoveType DEF Evals!TypeOK, Evals!WriteResult, Evals!Settled
    <2>3. \A v \in Workers \ {w} : stalls = 0 /\ atR[v] # "idle" => work[v] # work[w]
      BY <1>6 DEF LeaseIsHeld, Evals!WriteResult
    <2>4. LeaseIsHeld'
      BY <1>6, <2>1, <2>3 DEF Evals!TypeOK, LeaseIsHeld, Evals!WriteResult, Evals!Move
    <2> QED BY <2>2, <2>4
  <1>7. ASSUME NEW w \in Workers, Evals!RecordFailure(w) PROVE EvalsInv'
    <2>1. work[w] \in Runs
      BY <1>7 DEF Evals!TypeOK, Evals!RecordFailure
    <2>2. CASE Evals!Owns(w)
      <3> DEFINE retrying == tries[w] < MaxAttempts
      <3>1. /\ statusR' = [statusR EXCEPT ![work[w]] = IF retrying THEN "retry" ELSE "failed"]
            /\ holder' = [holder EXCEPT ![work[w]] = None]
            /\ lease' = [lease EXCEPT ![work[w]] = "none"]
            /\ dueR' = [dueR EXCEPT ![work[w]] = ~retrying]
            /\ UNCHANGED attemptsR /\ Evals!Move(w, "idle")
        BY <1>7, <2>2 DEF Evals!RecordFailure
      <3>3. dueR' \in [Runs -> BOOLEAN]
        <4>1. CASE retrying
          BY <3>1, <4>1 DEF Evals!TypeOK
        <4>2. CASE ~retrying
          BY <3>1, <4>2 DEF Evals!TypeOK
        <4> QED BY <4>1, <4>2
      <3> HIDE DEF retrying
      <3>4. Evals!TypeOK'
        <4>1. atR[w] # "idle"
          BY <1>7 DEF Evals!RecordFailure
        <4> QED BY <2>1, <3>1, <3>3, <4>1, MoveType DEF Evals!TypeOK, Evals!Settled
      <3>5. \A v \in Workers \ {w} : stalls = 0 /\ atR[v] # "idle" => work[v] # work[w]
        BY <1>7 DEF LeaseIsHeld, Evals!RecordFailure
      <3>6. LeaseIsHeld'
        BY <2>1, <3>1, <3>5 DEF Evals!TypeOK, LeaseIsHeld, Evals!Move
      <3> QED BY <3>4, <3>6
    <2>3. CASE ~Evals!Owns(w)
      BY <1>7, <2>3 DEF Evals!TypeOK, LeaseIsHeld, Evals!RecordFailure, Evals!Move
    <2> QED BY <2>2, <2>3
  <1>8. ASSUME NEW w \in Workers, Evals!Heartbeat(w) PROVE EvalsInv'
    BY <1>8 DEF Evals!TypeOK, LeaseIsHeld, Evals!Heartbeat
  <1>9. ASSUME NEW w \in Workers, Evals!Crash(w) PROVE EvalsInv'
    BY <1>9 DEF Evals!RunsAssumption, Evals!TypeOK, LeaseIsHeld, Evals!Crash
  <1>10. CASE UNCHANGED Evals!vars
    BY <1>10 DEF Evals!vars, Evals!TypeOK, LeaseIsHeld
  <1> QED
    BY <1>1, <1>2, <1>3, <1>4, <1>5, <1>6, <1>7, <1>8, <1>9, <1>10 DEF Evals!Next, Evals!Time,
                                                                       Evals!Process

\* What the theorems rest on, in every reachable state.
LEMMA EvalsInvariant ==
  ASSUME Evals!RunsAssumption
  PROVE  Evals!Spec => []EvalsInv
  <1>1. Evals!Init => EvalsInv
    BY EvalsInitInv
  <1>2. EvalsInv /\ [Evals!Next]_Evals!vars => EvalsInv'
    BY EvalsNextInv
  <1> QED BY <1>1, <1>2, PTL DEF Evals!Spec

\* While no live worker has failed to renew its lease, two workers never evaluate one run,
\* whatever other workers die.
THEOREM OneWorkerWithoutStalls ==
  ASSUME Evals!RunsAssumption
  PROVE  Evals!Spec => []Evals!ExclusiveWithoutStalls
  <1>1. EvalsInv => Evals!ExclusiveWithoutStalls
    BY DEF EvalsInv, LeaseIsHeld, Evals!ExclusiveWithoutStalls
  <1>2. Evals!Spec => []EvalsInv
    BY EvalsInvariant
  <1> QED BY <1>1, <1>2, PTL

\* A completed run stays completed, with any number of lost leases.
THEOREM CompletedRunsStay ==
  ASSUME Evals!RunsAssumption
  PROVE  Evals!Spec => Evals!CompletedStays
  <1>1. ASSUME EvalsInv, [Evals!Next]_Evals!vars, NEW r \in Runs, statusR[r] = "completed"
        PROVE  statusR'[r] = "completed"
    <2> USE <1>1 DEF EvalsInv, Evals!row
    <2>1. ASSUME NEW w \in Workers, Evals!SweepAndClaim(w) PROVE statusR'[r] = "completed"
      <3> DEFINE run == Evals!Oldest(Evals!Waiting)
      <3>1. Evals!Waiting \in SUBSET Nat /\ Evals!Waiting # {}
        BY <2>1 DEF Evals!SweepAndClaim, Evals!Waiting, Evals!Expired, Evals!RunsAssumption
      <3>2. run \in Evals!Waiting
        BY <3>1, OldestWaits
      <3>3. r # run /\ r \notin Evals!Expired
        BY <3>2 DEF Evals!Waiting, Evals!Expired
      <3> QED BY <2>1, <3>3 DEF Evals!SweepAndClaim
    <2>2. ASSUME NEW w \in Workers, Evals!WriteResult(w) \/ Evals!RecordFailure(w)
          PROVE  statusR'[r] = "completed"
      BY <2>2 DEF Evals!TypeOK, Evals!WriteResult, Evals!RecordFailure, Evals!Owns
    <2>3. ASSUME NEW q \in Runs, Evals!Submit(q) PROVE statusR'[r] = "completed"
      BY <2>3 DEF Evals!TypeOK, Evals!Submit
    <2>4. CASE UNCHANGED statusR
      BY <2>4
    <2> QED BY <2>1, <2>2, <2>3, <2>4 DEF Evals!Next, Evals!Time, Evals!Process,
                                          Evals!LeaseExpires, Evals!RetryTimeComes,
                                          Evals!Heartbeat, Evals!Load, Evals!Evaluate,
                                          Evals!Fail, Evals!Crash, Evals!vars
  <1>2. EvalsInv /\ [Evals!Next]_Evals!vars =>
          [\A r \in Runs : statusR[r] = "completed" => statusR'[r] = "completed"]_Evals!vars
    BY <1>1
  <1>3. Evals!Spec => []EvalsInv
    BY EvalsInvariant
  <1> QED BY <1>2, <1>3, PTL DEF Evals!Spec, Evals!CompletedStays

-----------------------------------------------------------------------------
(***************************************************************************)
(* BatchImports.  The duplicate check and the transaction of a file are    *)
(* two steps, so what protects a content between them is only that nobody  *)
(* else works: a claim grows stale when all workers are idle, and a worker *)
(* that has the job keeps it running and fresh (ClaimIsHeld).              *)
(***************************************************************************)

\* The types that the argument needs.
Types ==
    /\ content \in [Files -> Contents] /\ punctual \in BOOLEAN
    /\ record \in [Files -> {"queued", "success", "duplicate", "error"}]
    /\ documents \in [Contents -> Nat]
    /\ at \in [Workers -> {"idle", "loading", "starting", "working", "ingesting"}]
    /\ todo \in [Workers -> SUBSET Files] /\ file \in [Workers -> Files \cup {None}]
    /\ \A w \in Workers : at[w] = "ingesting" => file[w] \in Files

\* Without late batches a worker that has the job is alone and its claim is fresh.
ClaimIsHeld ==
    punctual => \A w \in Workers : at[w] # "idle" =>
        /\ status = "running" /\ ~stale
        /\ \A v \in Workers \ {w} : at[v] = "idle"

\* What is being ingested is not there yet.
IngestedIsNew ==
    punctual => \A w \in Workers : at[w] = "ingesting" => documents[content[file[w]]] = 0

BatchInv == Types /\ ClaimIsHeld /\ IngestedIsNew /\ Batch!ContentIsImportedOnce

LEMMA BatchInitInv == Batch!Init => BatchInv
  BY DEF Batch!Init, BatchInv, Types, ClaimIsHeld, IngestedIsNew, Batch!ContentIsImportedOnce

\* Steps that neither take nor ingest a file.
LEMMA QuietInv ==
  ASSUME BatchInv, NEW w \in Workers,
         \/ Batch!Claim(w) \/ Batch!Load(w) \/ Batch!LoadFails(w) \/ Batch!Begin(w)
         \/ Batch!IngestFails(w) \/ Batch!Finish(w) \/ Batch!Crash(w)
  PROVE  BatchInv'
  <1> USE DEF Batch!Goes, Batch!Forgets, Batch!outside, Batch!jobVars
  <1>1. /\ UNCHANGED <<content, punctual, documents>>
        /\ \A v \in Workers \ {w} : at'[v] = at[v] /\ file'[v] = file[v]
        /\ at'[w] # "ingesting"
    BY DEF BatchInv, Types, Batch!Claim, Batch!Load, Batch!LoadFails, Batch!Begin,
           Batch!IngestFails, Batch!Finish, Batch!Crash
  <1>2. Types'
    <2>1. at' \in [Workers -> {"idle", "loading", "starting", "working", "ingesting"}]
      BY DEF BatchInv, Types, Batch!Claim, Batch!Load, Batch!LoadFails, Batch!Begin,
             Batch!IngestFails, Batch!Finish, Batch!Crash
    <2>2. todo' \in [Workers -> SUBSET Files] /\ file' \in [Workers -> Files \cup {None}]
      BY DEF BatchInv, Types, Batch!Claim, Batch!Load, Batch!LoadFails, Batch!Begin,
             Batch!IngestFails, Batch!Finish, Batch!Crash
    <2>3. record' \in [Files -> {"queued", "success", "duplicate", "error"}]
      BY DEF BatchInv, Types, Batch!Claim, Batch!Load, Batch!LoadFails, Batch!Begin,
             Batch!IngestFails, Batch!Finish, Batch!Crash
    <2> QED BY <1>1, <2>1, <2>2, <2>3 DEF BatchInv, Types
  <1>3. ClaimIsHeld'
    <2>1. CASE Batch!Claim(w)
      <3>1. punctual => \A v \in Workers : at[v] = "idle"
        BY <2>1 DEF BatchInv, ClaimIsHeld, Batch!Claim
      <3> QED BY <1>1, <2>1, <3>1 DEF ClaimIsHeld, Batch!Claim
    <2>2. CASE Batch!Load(w) \/ Batch!Begin(w) \/ Batch!IngestFails(w)
      <3>1. stale' = stale /\ status' \in {status, "running"} /\ at[w] # "idle"
        BY <2>2 DEF Batch!Load, Batch!Begin, Batch!IngestFails
      <3> QED BY <1>1, <3>1 DEF BatchInv, ClaimIsHeld
    <2>3. CASE Batch!LoadFails(w) \/ Batch!Finish(w) \/ Batch!Crash(w)
      <3>1. at[w] # "idle" /\ at'[w] = "idle"
        BY <2>3 DEF Batch!LoadFails, Batch!Finish, Batch!Crash, BatchInv, Types
      <3> QED BY <1>1, <3>1 DEF BatchInv, ClaimIsHeld
    <2> QED BY <2>1, <2>2, <2>3
  <1>4. IngestedIsNew'
    BY <1>1 DEF BatchInv, IngestedIsNew
  <1>5. Batch!ContentIsImportedOnce'
    <2>1. \A f \in Files : record'[f] \in {record[f], "error"}
      BY DEF BatchInv, Types, Batch!Claim, Batch!Load, Batch!LoadFails, Batch!Begin,
             Batch!IngestFails, Batch!Finish, Batch!Crash
    <2> QED BY <1>1, <2>1 DEF BatchInv, Batch!ContentIsImportedOnce
  <1> QED BY <1>2, <1>3, <1>4, <1>5 DEF BatchInv

\* A file is taken when its content is not there, skipped when it is.
LEMMA FileInv ==
  ASSUME BatchInv, NEW w \in Workers, NEW f \in Files,
         Batch!Take(w, f) \/ Batch!Skip(w, f) \/ Batch!NoBase(w, f)
  PROVE  BatchInv'
  <1> USE DEF Batch!Goes, Batch!outside, Batch!jobVars
  <1>1. /\ UNCHANGED <<content, punctual, documents, status, stale>>
        /\ \A v \in Workers \ {w} : at'[v] = at[v] /\ file'[v] = file[v]
        /\ at[w] = "working"
    BY DEF BatchInv, Types, Batch!Take, Batch!Skip, Batch!NoBase
  <1>2. at'[w] = "ingesting" => file'[w] = f /\ documents[content[f]] = 0
    BY DEF BatchInv, Types, Batch!Take, Batch!Skip, Batch!NoBase
  <1>3. Types'
    <2>1. at' \in [Workers -> {"idle", "loading", "starting", "working", "ingesting"}]
      BY DEF BatchInv, Types, Batch!Take, Batch!Skip, Batch!NoBase
    <2>2. todo' \in [Workers -> SUBSET Files] /\ file' \in [Workers -> Files \cup {None}]
      BY DEF BatchInv, Types, Batch!Take, Batch!Skip, Batch!NoBase
    <2>3. record' \in [Files -> {"queued", "success", "duplicate", "error"}]
      BY DEF BatchInv, Types, Batch!Take, Batch!Skip, Batch!NoBase
    <2> QED BY <1>1, <1>2, <2>1, <2>2, <2>3 DEF BatchInv, Types
  <1>4. ClaimIsHeld'
    BY <1>1 DEF BatchInv, ClaimIsHeld
  <1>5. IngestedIsNew'
    BY <1>1, <1>2 DEF BatchInv, IngestedIsNew
  <1>6. Batch!ContentIsImportedOnce'
    <2>1. \A g \in Files : record'[g] = record[g] \/ (g = f /\ documents[content[f]] > 0)
      BY DEF BatchInv, Types, Batch!Take, Batch!Skip, Batch!NoBase
    <2> QED BY <1>1, <2>1 DEF BatchInv, Batch!ContentIsImportedOnce
  <1> QED BY <1>3, <1>4, <1>5, <1>6 DEF BatchInv

\* The one worker that ingests adds the first document of its content.
LEMMA IngestInv ==
  ASSUME BatchInv, NEW w \in Workers, Batch!Ingest(w)
  PROVE  BatchInv'
  <1> DEFINE f == file[w]
             c == content[f]
  <1>1. /\ at[w] = "ingesting" /\ at' = [at EXCEPT ![w] = "working"]
        /\ documents' = [documents EXCEPT ![c] = @ + 1]
        /\ record' = [record EXCEPT ![f] = "success"]
        /\ file' = [file EXCEPT ![w] = None]
        /\ UNCHANGED <<content, punctual, status, stale, todo>>
    BY DEF Batch!Ingest, Batch!Goes, Batch!outside, Batch!jobVars
  <1>2. f \in Files /\ c \in Contents
    BY <1>1 DEF BatchInv, Types
  <1>3. documents'[c] = documents[c] + 1 /\ \A d \in Contents \ {c} : documents'[d] = documents[d]
    BY <1>1, <1>2 DEF BatchInv, Types
  <1>4. at'[w] = "working" /\ \A v \in Workers \ {w} : at'[v] = at[v] /\ file'[v] = file[v]
    BY <1>1 DEF BatchInv, Types
  <1>5. documents[c] \in Nat
    BY <1>2 DEF BatchInv, Types
  <1>6. Types'
    <2>1. documents' \in [Contents -> Nat]
      BY <1>1, <1>2, <1>5 DEF BatchInv, Types
    <2> QED BY <1>1, <1>4, <2>1 DEF BatchInv, Types
  <1>7. ClaimIsHeld'
    BY <1>1, <1>4 DEF BatchInv, ClaimIsHeld
  <1>8. IngestedIsNew'
    BY <1>1, <1>4 DEF BatchInv, ClaimIsHeld, IngestedIsNew
  <1>9. Batch!ContentIsImportedOnce'
    <2>1. punctual => documents[c] = 0
      BY <1>1 DEF BatchInv, IngestedIsNew
    <2>2. punctual' => \A d \in Contents : documents'[d] <= 1
      BY <1>1, <1>3, <2>1 DEF BatchInv, Batch!ContentIsImportedOnce
    <2>3. \A g \in Files : record'[g] \in {"success", "duplicate"} => documents'[content'[g]] > 0
      <3> SUFFICES ASSUME NEW g \in Files, record'[g] \in {"success", "duplicate"}
                   PROVE  documents'[content[g]] > 0
        BY <1>1
      <3>1. CASE content[g] = c
        BY <1>3, <1>5, <3>1
      <3>2. CASE content[g] # c
        <4>1. g # f /\ content[g] \in Contents
          BY <3>2 DEF BatchInv, Types
        <4>2. record[g] \in {"success", "duplicate"}
          BY <1>1, <4>1 DEF BatchInv, Types
        <4> QED BY <1>3, <3>2, <4>1, <4>2 DEF BatchInv, Batch!ContentIsImportedOnce
      <3> QED BY <3>1, <3>2
    <2> QED BY <2>2, <2>3 DEF Batch!ContentIsImportedOnce
  <1> QED BY <1>6, <1>7, <1>8, <1>9 DEF BatchInv

LEMMA BatchNextInv == BatchInv /\ [Batch!Next]_Batch!vars => BatchInv'
  <1> SUFFICES ASSUME BatchInv, [Batch!Next]_Batch!vars PROVE BatchInv'
    OBVIOUS
  <1>1. CASE \E w \in Workers : Batch!Work(w) \/ Batch!Crash(w)
    BY <1>1, QuietInv, FileInv, IngestInv DEF Batch!Work
  <1>2. CASE Batch!GrowStale
    BY <1>2 DEF Batch!GrowStale, Batch!outside, BatchInv, Types, ClaimIsHeld, IngestedIsNew,
                Batch!ContentIsImportedOnce
  <1>3. CASE Batch!Delete
    BY <1>3 DEF Batch!Delete, Batch!jobVars, BatchInv, Types, ClaimIsHeld, IngestedIsNew,
                Batch!ContentIsImportedOnce
  <1>4. CASE UNCHANGED Batch!vars
    BY <1>4 DEF Batch!vars, BatchInv, Types, ClaimIsHeld, IngestedIsNew,
                Batch!ContentIsImportedOnce
  <1> QED BY <1>1, <1>2, <1>3, <1>4 DEF Batch!Next

\* However often a batch is claimed, and whatever crashes between its files: while it never
\* outlives its claim no content has two documents, and what its records say was imported, or
\* was a duplicate, has a document in any case.
THEOREM ImportedOnce == Batch!Spec => []Batch!ContentIsImportedOnce
  <1>1. BatchInv => Batch!ContentIsImportedOnce
    BY DEF BatchInv
  <1> QED BY <1>1, BatchInitInv, BatchNextInv, PTL DEF Batch!Spec

\* Finite sets mean the same in BatchImports and here.
LEMMA SameCardinality ==
    /\ Batch!IsFiniteSet(Files) <=> IsFiniteSet(Files)
    /\ Batch!Cardinality(Files) = Cardinality(Files)
  <1>1. Batch!IsFiniteSet(Files) <=> IsFiniteSet(Files)
    BY DEF Batch!IsFiniteSet, IsFiniteSet
  <1>2. Batch!Cardinality(Files) = Cardinality(Files)
    BY DEF Batch!Cardinality, Cardinality
  <1> QED BY <1>1, <1>2

LEMMA FilesAreFinite ==
  ASSUME Batch!BatchAssumption
  PROVE  /\ IsFiniteSet(Files) /\ Cardinality(Files) \in Nat
         /\ \A T \in SUBSET Files : /\ IsFiniteSet(T)
                                    /\ Cardinality(T) \in Nat
                                    /\ Cardinality(T) <= Cardinality(Files)
  <1>1. IsFiniteSet(Files)
    BY SameCardinality DEF Batch!BatchAssumption
  <1> QED BY <1>1, FS_CardinalityType, FS_Subset

\* The row of the job, and what of the files is counted, left, or in hand.
RowTypes ==
    /\ {claimed, stale, owner, kb} \subseteq BOOLEAN
    /\ status \in Batch!Final \cup {"queued", "running", "retry"}
    /\ attempts \in 0 .. MaxClaims

InHand(w) == IF at[w] = "ingesting" THEN 1 ELSE 0

\* A worker counts a file once, after it has taken it off its list.
CountsFit ==
    \A w \in Workers :
        /\ success[w] \in Nat /\ failed[w] \in Nat
        /\ at[w] \in {"idle", "loading", "starting"} => success[w] = 0 /\ failed[w] = 0
        /\ Cardinality(todo[w]) + InHand(w) + success[w] + failed[w] <= Cardinality(Files)

CountTypes == success \in [Workers -> Nat] /\ failed \in [Workers -> Nat]

CountInv == Types /\ RowTypes /\ CountTypes /\ CountsFit

LEMMA NextRowTypes == Batch!BatchAssumption /\ RowTypes /\ [Batch!Next]_Batch!vars => RowTypes'
  <1> SUFFICES ASSUME Batch!BatchAssumption, RowTypes, [Batch!Next]_Batch!vars PROVE RowTypes'
    OBVIOUS
  <1> USE DEF RowTypes, Batch!BatchAssumption, Batch!jobVars, Batch!outside, Batch!Final
  <1>1. ASSUME NEW w \in Workers, Batch!Claim(w) PROVE RowTypes'
    <2>1. attempts' \in 0 .. MaxClaims /\ status' = "running"
      BY <1>1 DEF Batch!Claim
    <2>2. {claimed, stale, owner, kb}' \subseteq BOOLEAN
      BY <1>1 DEF Batch!Claim
    <2> QED BY <2>1, <2>2
  <1>2. ASSUME NEW w \in Workers, Batch!Finish(w) \/ Batch!LoadFails(w) \/ Batch!Begin(w)
        PROVE  RowTypes'
    BY <1>2 DEF Batch!Finish, Batch!LoadFails, Batch!Begin
  <1>3. CASE Batch!GrowStale \/ Batch!Delete
    BY <1>3 DEF Batch!GrowStale, Batch!Delete
  <1>4. CASE UNCHANGED <<claimed, stale, owner, kb, status, attempts>>
    BY <1>4
  <1> QED BY <1>1, <1>2, <1>3, <1>4
          DEF Batch!Next, Batch!Work, Batch!Load, Batch!Ingest, Batch!IngestFails, Batch!Take,
              Batch!Skip, Batch!NoBase, Batch!Crash, Batch!vars

LEMMA NextCounts ==
  ASSUME Batch!BatchAssumption, BatchInv, CountInv, [Batch!Next]_Batch!vars
  PROVE  CountTypes' /\ CountsFit'
  <1> USE DEF Batch!Goes, Batch!Forgets
  <1> DEFINE Sum(w) == Cardinality(todo[w]) + InHand(w) + success[w] + failed[w]
  <1>0. /\ Cardinality(Files) \in Nat /\ Cardinality({}) = 0
        /\ \A T \in SUBSET Files : Cardinality(T) \in Nat /\ Cardinality(T) <= Cardinality(Files)
    BY FilesAreFinite, FS_EmptySet
  <1>1. ASSUME NEW w \in Workers, NEW f \in todo[w]
        PROVE  Cardinality(todo[w] \ {f}) = Cardinality(todo[w]) - 1
    BY <1>1, FilesAreFinite, FS_RemoveElement DEF CountInv, Types
  <1>2. ASSUME NEW w \in Workers, Batch!Claim(w) \/ Batch!Load(w) \/ Batch!Begin(w)
        PROVE  CountTypes' /\ CountsFit'
    <2>1. /\ UNCHANGED <<success, failed>> /\ success[w] = 0 /\ failed[w] = 0
          /\ at'[w] \in {"loading", "starting", "working"} /\ at[w] # "ingesting"
          /\ \A v \in Workers \ {w} : at'[v] = at[v] /\ todo'[v] = todo[v]
      BY <1>2 DEF Batch!Claim, Batch!Load, Batch!Begin, CountInv, Types, CountsFit
    <2>2. todo'[w] \in SUBSET Files
      BY <1>2 DEF Batch!Claim, Batch!Load, Batch!Begin, CountInv, Types
    <2> QED BY <1>0, <2>1, <2>2 DEF CountInv, CountTypes, CountsFit, InHand
  <1>3. ASSUME NEW w \in Workers, Batch!LoadFails(w) \/ Batch!Finish(w) \/ Batch!Crash(w)
        PROVE  CountTypes' /\ CountsFit'
    <2>1. /\ at'[w] = "idle" /\ success'[w] = 0 /\ failed'[w] = 0 /\ todo'[w] \in SUBSET Files
          /\ \A v \in Workers \ {w} : /\ at'[v] = at[v] /\ todo'[v] = todo[v]
                                       /\ success'[v] = success[v] /\ failed'[v] = failed[v]
      BY <1>3 DEF Batch!LoadFails, Batch!Finish, Batch!Crash, CountInv, Types, CountTypes,
                  CountsFit
    <2>2. CountTypes'
      BY <1>3 DEF Batch!LoadFails, Batch!Finish, Batch!Crash, CountInv, CountTypes
    <2> QED BY <1>0, <2>1, <2>2 DEF CountInv, CountsFit, InHand
  <1>4. ASSUME NEW w \in Workers, NEW f \in Files,
               Batch!Take(w, f) \/ Batch!Skip(w, f) \/ Batch!NoBase(w, f)
        PROVE  CountTypes' /\ CountsFit'
    <2>1. /\ f \in todo[w] /\ UNCHANGED <<success, failed>> /\ at[w] = "working"
          /\ todo'[w] = todo[w] \ {f} /\ at'[w] \in {"working", "ingesting"}
          /\ \A v \in Workers \ {w} : at'[v] = at[v] /\ todo'[v] = todo[v]
      BY <1>4 DEF Batch!Take, Batch!Skip, Batch!NoBase, CountInv, Types
    <2>2. Cardinality(todo[w]) \in Nat /\ Cardinality(todo'[w]) = Cardinality(todo[w]) - 1
      BY <1>0, <1>1, <2>1 DEF CountInv, Types
    <2>3. \A v \in Workers : success[v] \in Nat /\ failed[v] \in Nat
      BY DEF CountInv, CountsFit
    <2>4. ASSUME NEW v \in Workers \ {w} PROVE Sum(v)' = Sum(v)
      BY <2>1 DEF InHand
    <2>5. Sum(w)' <= Sum(w)
      BY <2>1, <2>2, <2>3 DEF InHand
    <2>6. Sum(w) \in Int /\ Sum(w)' \in Int
      BY <2>1, <2>2, <2>3, <1>0 DEF InHand
    <2>7. ASSUME NEW v \in Workers PROVE Sum(v)' <= Cardinality(Files)
      <3>1. Sum(v) <= Cardinality(Files)
        BY DEF CountInv, CountsFit
      <3> HIDE DEF Sum
      <3> QED BY <1>0, <2>4, <2>5, <2>6, <3>1
    <2>8. CountsFit'
      BY <2>1, <2>3, <2>7 DEF CountInv, CountsFit
    <2> QED BY <2>1, <2>8 DEF CountInv, CountTypes
  <1>5. ASSUME NEW w \in Workers, Batch!Ingest(w) \/ Batch!IngestFails(w)
        PROVE  CountTypes' /\ CountsFit'
    <2>1. /\ at[w] = "ingesting" /\ at'[w] = "working" /\ todo' = todo
          /\ \/ success'[w] = success[w] + 1 /\ failed'[w] = failed[w]
             \/ success'[w] = success[w] /\ failed'[w] = failed[w] + 1
          /\ \A v \in Workers \ {w} : /\ at'[v] = at[v]
                                       /\ success'[v] = success[v] /\ failed'[v] = failed[v]
      BY <1>5 DEF Batch!Ingest, Batch!IngestFails, CountInv, Types, CountTypes
    <2>2. CountTypes'
      BY <1>5 DEF Batch!Ingest, Batch!IngestFails, CountInv, CountTypes
    <2>3. Cardinality(todo[w]) \in Nat
      BY <1>0 DEF CountInv, Types
    <2> QED BY <1>0, <2>1, <2>2, <2>3 DEF CountInv, CountTypes, CountsFit, InHand
  <1>6. CASE UNCHANGED <<at, todo, success, failed>>
    BY <1>6 DEF CountInv, CountTypes, CountsFit, InHand
  <1> QED BY <1>2, <1>3, <1>4, <1>5, <1>6
          DEF Batch!Next, Batch!Work, Batch!GrowStale, Batch!Delete, Batch!vars

LEMMA InitCounts == Batch!BatchAssumption /\ Batch!Init => CountInv
  <1> SUFFICES ASSUME Batch!BatchAssumption, Batch!Init PROVE CountInv
    OBVIOUS
  <1>1. Cardinality(Files) \in Nat /\ Cardinality({}) = 0
    BY FilesAreFinite, FS_EmptySet
  <1>2. Types
    BY DEF Batch!Init, Types
  <1>3. RowTypes
    <2>1. {claimed, stale, owner, kb} \subseteq BOOLEAN
      BY DEF Batch!Init
    <2>2. attempts \in 0 .. MaxClaims /\ status = "queued"
      BY DEF Batch!BatchAssumption, Batch!Init
    <2> QED BY <2>1, <2>2 DEF RowTypes
  <1>4. CountTypes
    BY DEF Batch!Init, CountTypes
  <1>5. CountsFit
    BY <1>1 DEF Batch!Init, CountsFit, InHand
  <1> QED BY <1>2, <1>3, <1>4, <1>5 DEF CountInv

LEMMA CountsAreTyped == Batch!BatchAssumption /\ CountInv => Batch!TypeOK
  <1> SUFFICES ASSUME Batch!BatchAssumption, CountInv PROVE Batch!TypeOK
    OBVIOUS
  <1>1. ASSUME NEW w \in Workers
        PROVE  success[w] \in 0 .. Cardinality(Files) /\ failed[w] \in 0 .. Cardinality(Files)
    <2>1. Cardinality(Files) \in Nat /\ Cardinality(todo[w]) \in Nat
      BY FilesAreFinite DEF CountInv, Types
    <2>2. /\ success[w] \in Nat /\ failed[w] \in Nat /\ InHand(w) \in {0, 1}
          /\ Cardinality(todo[w]) + InHand(w) + success[w] + failed[w] <= Cardinality(Files)
      BY DEF CountInv, CountsFit, InHand
    <2> QED BY <2>1, <2>2
  <1>2. /\ success \in [Workers -> 0 .. Cardinality(Files)]
        /\ failed \in [Workers -> 0 .. Cardinality(Files)]
    BY <1>1 DEF CountInv, CountTypes
  <1>3. /\ {punctual, claimed, stale, owner, kb} \subseteq BOOLEAN
        /\ status \in Batch!Final \cup {"queued", "running", "retry"}
        /\ attempts \in 0 .. MaxClaims
    BY DEF CountInv, Types, RowTypes
  <1>4. /\ content \in [Files -> Contents]
        /\ record \in [Files -> {"queued", "success", "duplicate", "error"}]
        /\ documents \in [Contents -> Nat]
        /\ at \in [Workers -> {"idle", "loading", "starting", "working", "ingesting"}]
        /\ todo \in [Workers -> SUBSET Files] /\ file \in [Workers -> Files \cup {None}]
    BY DEF CountInv, Types
  <1> QED BY <1>2, <1>3, <1>4, SameCardinality DEF Batch!TypeOK

-----------------------------------------------------------------------------
(***************************************************************************)
(* DocumentSchedules.  Until a session is lost, a replica between the lock *)
(* and its release has the lock of the document.                           *)
(***************************************************************************)
LockIsHeld ==
    ~lost => \A r \in Workers : atS[r] \in {"locked", "refreshing", "releasing"} => docLock = r

ScheduleInv == Schedules!TypeOK /\ LockIsHeld

LEMMA ScheduleInitInv == Schedules!ScheduleAssumption /\ Schedules!Init => ScheduleInv
  <1> SUFFICES ASSUME Schedules!ScheduleAssumption, Schedules!Init PROVE ScheduleInv
    OBVIOUS
  <1>1. Schedules!TypeOK
    <2>1. source \in 0 .. MaxVersion /\ contentS \in 0 .. MaxVersion
      BY DEF Schedules!ScheduleAssumption, Schedules!Init
    <2>2. got \in [Workers -> 0 .. MaxVersion]
      BY DEF Schedules!ScheduleAssumption, Schedules!Init
    <2> QED BY <2>1, <2>2 DEF Schedules!Init, Schedules!TypeOK
  <1>2. LockIsHeld
    BY DEF Schedules!Init, LockIsHeld
  <1> QED BY <1>1, <1>2 DEF ScheduleInv

\* The steps of the schedule's loop of one replica.
LEMMA LoopInv ==
  ASSUME Schedules!ScheduleAssumption, ScheduleInv, NEW r \in Workers,
         \/ Schedules!Poll(r) \/ Schedules!Acquire(r) \/ Schedules!Refresh(r)
         \/ Schedules!FinishRefresh(r) \/ Schedules!Release(r)
  PROVE  ScheduleInv'
  <1> USE DEF Schedules!Goes, Schedules!rowVars, ScheduleInv
  <1>1. CASE Schedules!Poll(r) \/ Schedules!Refresh(r) \/ Schedules!FinishRefresh(r)
    BY <1>1 DEF Schedules!Poll, Schedules!Refresh, Schedules!FinishRefresh, Schedules!TypeOK,
                LockIsHeld
  <1>2. CASE Schedules!Acquire(r)
    BY <1>2 DEF Schedules!ScheduleAssumption, Schedules!Acquire, Schedules!TypeOK, LockIsHeld
  <1>3. CASE Schedules!Release(r)
    BY <1>3 DEF Schedules!ScheduleAssumption, Schedules!Release, Schedules!TypeOK, LockIsHeld
  <1> QED BY <1>1, <1>2, <1>3

\* The steps of the URL loop, and the crash of a replica.
LEMMA UrlInv ==
  ASSUME Schedules!ScheduleAssumption, ScheduleInv, NEW r \in Workers,
         \/ Schedules!Start(r) \/ Schedules!Stop(r) \/ Schedules!Check(r)
         \/ Schedules!Fetch(r) \/ Schedules!Commit(r) \/ Schedules!RefreshFails(r)
         \/ Schedules!Crash(r)
  PROVE  ScheduleInv'
  <1> USE DEF Schedules!ScheduleAssumption, Schedules!Forgets, Schedules!rowVars, ScheduleInv,
              Schedules!TypeOK
  <1>1. CASE Schedules!Start(r) \/ Schedules!Stop(r)
    BY <1>1 DEF Schedules!Start, Schedules!Stop, LockIsHeld
  <1>4. CASE Schedules!Check(r) \/ Schedules!Fetch(r)
    BY <1>4 DEF Schedules!Check, Schedules!Fetch, LockIsHeld
  <1>2. CASE Schedules!Commit(r) \/ Schedules!RefreshFails(r)
    BY <1>2 DEF Schedules!Commit, Schedules!RefreshFails, LockIsHeld
  <1>3. CASE Schedules!Crash(r)
    BY <1>3 DEF Schedules!Crash, LockIsHeld
  <1> QED BY <1>1, <1>2, <1>3, <1>4

LEMMA ScheduleNextInv ==
  ASSUME Schedules!ScheduleAssumption, ScheduleInv, [Schedules!Next]_Schedules!vars
  PROVE  ScheduleInv'
  <1> USE DEF ScheduleInv, Schedules!TypeOK, LockIsHeld
  <1>1. CASE Schedules!SourceChanges
    BY <1>1 DEF Schedules!ScheduleAssumption, Schedules!SourceChanges, Schedules!rowVars
  <1>6. CASE Schedules!Reprocess \/ Schedules!Reprocessed
    BY <1>6 DEF Schedules!Reprocess, Schedules!Reprocessed
  <1>4. CASE Schedules!TimePasses
    BY <1>4 DEF Schedules!TimePasses
  <1>5. CASE Schedules!LoseSession
    BY <1>5 DEF Schedules!LoseSession, Schedules!rowVars
  <1>2. CASE \/ Schedules!CreateSchedule \/ Schedules!UpdateSchedule
             \/ Schedules!DeleteSchedule
    BY <1>2 DEF Schedules!CreateSchedule, Schedules!UpdateSchedule, Schedules!DeleteSchedule
  <1>3. CASE UNCHANGED Schedules!vars
    BY <1>3 DEF Schedules!vars, Schedules!rowVars
  <1> QED BY <1>1, <1>2, <1>3, <1>4, <1>5, <1>6, LoopInv, UrlInv DEF Schedules!Next

-----------------------------------------------------------------------------
(***************************************************************************)
(* The three together.  A step of MCJobs is a step of one of them and      *)
(* leaves the variables of the others alone.                               *)
(***************************************************************************)
JobsInv == EvalsInv /\ BatchInv /\ CountInv /\ ScheduleInv

LEMMA PartsStep ==
  ASSUME [Next]_vars
  PROVE  /\ [Evals!Next]_Evals!vars
         /\ [Batch!Next]_Batch!vars
         /\ [Schedules!Next]_Schedules!vars
  BY DEF Next, InEvals, InBatch, InSchedules, InUrls, vars, evalVars, batchVars, scheduleVars,
         Evals!vars, Evals!row, Evals!worker, Batch!vars, Batch!jobVars, Batch!outside,
         Schedules!vars, Schedules!rowVars

LEMMA JobsInvariant == Spec => []JobsInv
  <1>1. Init => JobsInv
    BY JobsAssumption, EvalsInitInv, BatchInitInv, InitCounts, ScheduleInitInv
    DEF Init, JobsInv
  <1>2. JobsInv /\ [Next]_vars => JobsInv'
    <2> SUFFICES ASSUME JobsInv, [Next]_vars PROVE JobsInv'
      OBVIOUS
    <2> USE JobsAssumption, PartsStep DEF JobsInv
    <2>1. EvalsInv'
      BY EvalsNextInv
    <2>2. BatchInv'
      BY BatchNextInv
    <2>3. CountInv'
      <3>1. CountTypes' /\ CountsFit'
        BY NextCounts
      <3>2. RowTypes'
        BY NextRowTypes DEF CountInv
      <3> QED BY <2>2, <3>1, <3>2 DEF CountInv, BatchInv
    <2>4. ScheduleInv'
      BY ScheduleNextInv
    <2> QED BY <2>1, <2>2, <2>3, <2>4
  <1> QED BY <1>1, <1>2, PTL DEF Spec

\* Every variable of the three modules stays in its domain; no worker counts more files of a
\* batch than the batch has.
THEOREM TypeCorrect == Spec => []TypeOK
  <1>1. JobsInv => TypeOK
    BY JobsAssumption, CountsAreTyped DEF JobsInv, EvalsInv, ScheduleInv, TypeOK
  <1> QED BY <1>1, JobsInvariant, PTL

\* What one worker has taken no other has: a run while leases are renewed in time, the content
\* of a batch while no batch outlives its claim, a document while no session of a lock is lost.
THEOREM TakenByOne == Spec => []JobsAreExclusive
  <1>1. JobsInv => JobsAreExclusive
    BY DEF JobsInv, EvalsInv, LeaseIsHeld, Evals!ExclusiveWithoutStalls, BatchInv, ScheduleInv,
           LockIsHeld, Schedules!OneScheduledRefresh, JobsAreExclusive
  <1> QED BY <1>1, JobsInvariant, PTL

=============================================================================
