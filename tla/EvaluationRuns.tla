--------------------------- MODULE EvaluationRuns ---------------------------
(***************************************************************************)
(* Evaluation runs are rows that several worker processes claim            *)
(* (services/evaluation_jobs.py).  A claim is a lease: the worker renews   *)
(* it with a heartbeat, any poll takes an expired one back, and a worker   *)
(* looks at the row again before it writes its result, in a transaction    *)
(* that does not lock the row.                                             *)
(***************************************************************************)
EXTENDS Naturals

CONSTANTS
    Runs,        \* numbers, in the order of create_time
    Workers,
    MaxAttempts, \* 3 in the code
    MaxCrashes,  \* bound: crashes of workers
    MaxStalls,   \* bound: leases a live worker fails to renew
    None

RunsAssumption ==
    /\ Runs \subseteq Nat
    /\ MaxAttempts \in Nat \ {0} /\ MaxCrashes \in Nat /\ MaxStalls \in Nat
    /\ None \notin Workers /\ None \notin Runs

VARIABLES
    status,   \* EvaluationRun.status; "absent" before the request
    holder,   \* claimed_by
    lease,    \* claimed_at: within the lease time-out, or before it
    due,      \* next_retry_time is past
    attempts,
    at,       \* where a worker stands in run_once
    work,     \* the run it has claimed
    tries,    \* attempts as it read it in its claim
    crashes, stalls

row == <<status, holder, lease, due, attempts>>
worker == <<at, work, tries>>
vars == <<row, worker, crashes, stalls>>

Settled == {"completed", "failed"}

TypeOK ==
    /\ status \in [Runs -> {"absent", "queued", "running", "retry"} \cup Settled]
    /\ holder \in [Runs -> Workers \cup {None}]
    /\ lease \in [Runs -> {"none", "fresh", "expired"}]
    /\ due \in [Runs -> BOOLEAN]
    /\ attempts \in [Runs -> Nat]
    /\ at \in [Workers -> {"idle", "claimed", "evaluating", "writing", "failing"}]
    /\ work \in [Workers -> Runs \cup {None}]
    /\ tries \in [Workers -> Nat]
    /\ \A w \in Workers : at[w] # "idle" => work[w] \in Runs
    /\ crashes \in 0 .. MaxCrashes /\ stalls \in 0 .. MaxStalls

Init ==
    /\ status = [r \in Runs |-> "absent"]
    /\ holder = [r \in Runs |-> None]
    /\ lease = [r \in Runs |-> "none"]
    /\ due = [r \in Runs |-> TRUE]
    /\ attempts = [r \in Runs |-> 0]
    /\ at = [w \in Workers |-> "idle"]
    /\ work = [w \in Workers |-> None]
    /\ tries = [w \in Workers |-> 0]
    /\ crashes = 0 /\ stalls = 0

\* POST /evaluation/run: the scope and the data set are checked, the run is queued.
Submit(r) ==
    /\ status[r] = "absent"
    /\ status' = [status EXCEPT ![r] = "queued"]
    /\ UNCHANGED <<holder, lease, due, attempts, worker, crashes, stalls>>

-----------------------------------------------------------------------------
(* Time. *)

WorksOn(w, r) == at[w] # "idle" /\ work[w] = r

\* The lease of a worker that is gone expires; that of a live one when its heartbeats
\* do not get through.
LeaseExpires(r) ==
    /\ status[r] = "running" /\ lease[r] = "fresh"
    /\ lease' = [lease EXCEPT ![r] = "expired"]
    /\ IF WorksOn(holder[r], r) THEN stalls < MaxStalls /\ stalls' = stalls + 1
       ELSE UNCHANGED stalls
    /\ UNCHANGED <<status, holder, due, attempts, worker, crashes>>

Heartbeat(w) ==
    /\ at[w] # "idle"
    /\ status[work[w]] = "running" /\ holder[work[w]] = w /\ lease[work[w]] = "expired"
    /\ lease' = [lease EXCEPT ![work[w]] = "fresh"]
    /\ UNCHANGED <<status, holder, due, attempts, worker, crashes, stalls>>

RetryTimeComes(r) ==
    /\ status[r] = "retry" /\ ~due[r]
    /\ due' = [due EXCEPT ![r] = TRUE]
    /\ UNCHANGED <<status, holder, lease, attempts, worker, crashes, stalls>>

-----------------------------------------------------------------------------
(* run_once: sweep and claim in one transaction. *)

\* variant: every running run is swept, whatever its lease
AllRunning == {r \in Runs : status[r] = "running"}

Expired == {r \in Runs : status[r] = "running" /\ lease[r] = "expired"}
\* variant: expired leases are not taken back
NeverSwept == {r \in Runs : status[r] \in {"queued", "retry"} /\ due[r]}

Waiting == {r \in Runs : status[r] \in {"queued", "retry"} /\ due[r]} \cup Expired
Oldest(S) == CHOOSE r \in S : \A q \in S : r <= q

SweepAndClaim(w) ==
    /\ at[w] = "idle"
    /\ Waiting # {}
    /\ LET run == Oldest(Waiting)
           swept == Expired \ {run}
       IN /\ status' = [r \in Runs |-> IF r = run THEN "running"
                                       ELSE IF r \in swept THEN "retry" ELSE status[r]]
          /\ holder' = [r \in Runs |-> IF r = run THEN w
                                       ELSE IF r \in swept THEN None ELSE holder[r]]
          /\ lease' = [r \in Runs |-> IF r = run THEN "fresh"
                                      ELSE IF r \in swept THEN "none" ELSE lease[r]]
          /\ due' = [r \in Runs |-> due[r] \/ r \in swept]
          /\ attempts' = [attempts EXCEPT ![run] = @ + 1]
          /\ work' = [work EXCEPT ![w] = run]
          /\ tries' = [tries EXCEPT ![w] = attempts'[run]]
    /\ at' = [at EXCEPT ![w] = "claimed"]
    /\ UNCHANGED <<crashes, stalls>>

-----------------------------------------------------------------------------
(* execute_evaluation_run. *)

Owns(w) == status[work[w]] = "running" /\ holder[work[w]] = w

\* variant: a worker forgets its run when it begins to record a failure
MoveForgetful(w, p) ==
    /\ at' = [at EXCEPT ![w] = p]
    /\ work' = [work EXCEPT ![w] = IF p \in {"idle", "failing"} THEN None ELSE @]
    /\ tries' = [tries EXCEPT ![w] = IF p = "idle" THEN 0 ELSE @]
    /\ UNCHANGED <<crashes, stalls>>

Move(w, p) ==
    /\ at' = [at EXCEPT ![w] = p]
    /\ work' = [work EXCEPT ![w] = IF p = "idle" THEN None ELSE @]
    /\ tries' = [tries EXCEPT ![w] = IF p = "idle" THEN 0 ELSE @]
    /\ UNCHANGED <<crashes, stalls>>

\* reads the run, its scopes and the cases
Load(w) ==
    /\ at[w] = "claimed"
    /\ Move(w, IF Owns(w) THEN "evaluating" ELSE "idle")
    /\ UNCHANGED row

\* runs the cases, then looks whether the run is still its own
Evaluate(w) ==
    /\ at[w] = "evaluating"
    /\ Move(w, IF Owns(w) THEN "writing" ELSE "idle")
    /\ UNCHANGED row

\* commits the result by the primary key: nothing fences this update
WriteResult(w) ==
    /\ at[w] = "writing"
    /\ LET r == work[w]
       IN /\ status' = [status EXCEPT ![r] = "completed"]
          /\ holder' = [holder EXCEPT ![r] = None]
          /\ lease' = [lease EXCEPT ![r] = "none"]
    /\ Move(w, "idle")
    /\ UNCHANGED <<due, attempts>>

\* a missing scope, a data set or a database error
Fail(w) ==
    /\ at[w] \in {"claimed", "evaluating", "writing"}
    /\ Move(w, "failing")
    /\ UNCHANGED row

\* variant: without the fence
RecordFailureUnfenced(w) ==
    /\ at[w] = "failing"
    /\ LET r == work[w]
           retrying == tries[w] < MaxAttempts
       IN /\ status' = [status EXCEPT ![r] = IF retrying THEN "retry" ELSE "failed"]
          /\ holder' = [holder EXCEPT ![r] = None]
          /\ lease' = [lease EXCEPT ![r] = "none"]
          /\ due' = [due EXCEPT ![r] = ~retrying]
    /\ Move(w, "idle")
    /\ UNCHANGED attempts

\* retry with a delay, or failed after the third attempt; fenced by claimed_by
RecordFailure(w) ==
    /\ at[w] = "failing"
    /\ IF Owns(w)
       THEN LET r == work[w]
                retrying == tries[w] < MaxAttempts
            IN /\ status' = [status EXCEPT ![r] = IF retrying THEN "retry" ELSE "failed"]
               /\ holder' = [holder EXCEPT ![r] = None]
               /\ lease' = [lease EXCEPT ![r] = "none"]
               /\ due' = [due EXCEPT ![r] = ~retrying]
       ELSE UNCHANGED <<status, holder, lease, due>>
    /\ Move(w, "idle")
    /\ UNCHANGED attempts

Crash(w) ==
    /\ at[w] # "idle" /\ crashes < MaxCrashes
    /\ at' = [at EXCEPT ![w] = "idle"]
    /\ work' = [work EXCEPT ![w] = None]
    /\ tries' = [tries EXCEPT ![w] = 0]
    /\ crashes' = crashes + 1
    /\ UNCHANGED <<row, stalls>>

Process(w) == SweepAndClaim(w) \/ Load(w) \/ Evaluate(w) \/ WriteResult(w) \/ RecordFailure(w)
Time(r) == LeaseExpires(r) \/ RetryTimeComes(r)

Next ==
    \/ \E r \in Runs : Submit(r) \/ Time(r)
    \/ \E w \in Workers : Process(w) \/ Heartbeat(w) \/ Fail(w) \/ Crash(w)

\* the workers poll and go on, time passes
Fairness == /\ \A w \in Workers : WF_vars(Process(w))
            /\ \A r \in Runs : WF_vars(Time(r))

Spec == Init /\ [][Next]_vars /\ Fairness

-----------------------------------------------------------------------------
(* Properties. *)

\* A completed run stays completed, whatever a worker that lost its lease still does
\* with it (the fence of the failure update, the statuses that the sweep and the claim
\* look for).
CompletedStays ==
    [][\A r \in Runs : status[r] = "completed" => status'[r] = "completed"]_vars

\* While every live worker renews its lease in time, no run is evaluated by two of them:
\* the sweep takes back only what a dead worker held.
ExclusiveWithoutStalls ==
    stalls = 0 => \A v, w \in Workers : at[v] # "idle" /\ at[w] # "idle" /\ work[v] = work[w]
                    => v = w

\* Every queued run is completed or failed in the end, across crashes, lost leases and
\* failures.
EveryRunSettles ==
    \A r \in Runs : status[r] = "queued" ~> status[r] \in Settled

\* The warning "evaluation_result_discarded_after_lease_loss" says that a worker which
\* has lost its lease does not write: refuted with a stall between its check and its commit.
HolderWrites ==
    [][\A r \in Runs : status[r] # "completed" /\ status'[r] = "completed"
        => \E w \in Workers : holder[r] = w /\ at[w] = "writing" /\ at'[w] = "idle"]_vars
=============================================================================
