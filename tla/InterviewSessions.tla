--------------------------- MODULE InterviewSessions ---------------------------
(***************************************************************************)
(* The interviews of one user (api/interview.py).  A request is one        *)
(* transaction, committed when its handler returns: it reads committed     *)
(* rows, and a row it has updated is locked until it ends.  SCORING is     *)
(* flushed only, so no other request ever sees it.                         *)
(***************************************************************************)
EXTENDS Integers, Sequences, FiniteSetsExt

CONSTANTS Tasks,      \* requests handled at the same time
          Interviews,
          Grades,     \* results of the scoring, in tenths of a point
          MaxSaves,   \* bound: times the answers of an interview are saved
          MaxCounted, \* bound: submissions between two clearings
          None

InterviewAssumption ==
    /\ Grades \subseteq 0 .. 100 /\ Grades # {} /\ MaxSaves \in Nat \ {0} /\ MaxCounted \in Nat \ {0}
    /\ Interviews # {} /\ None \notin Tasks

VARIABLES
    status, answers, \* of an interview: answers is the version saved last, 0 if one is missing
    scored,          \* the version its reviews are about
    base,            \* the user has a UserProfile
    profile,         \* InterviewProfile: [count, score]
    results,         \* the grades committed since the profile was last deleted
    rowLock, baseLock, \* the requests that have updated these rows
    at, of, got, seen, picked

vars == <<status, answers, scored, base, profile, results, rowLock, baseLock,
          at, of, got, seen, picked>>
rows == <<status, answers, scored, base, profile, results>>
locals == <<of, got, seen, picked>>

NoProfile == [count |-> 0, score |-> 0]
Profiles == [count : 0 .. MaxCounted, score : 0 .. 100]

TypeOK ==
    /\ status \in [Interviews -> {"none", "IN_PROGRESS", "COMPLETED", "ABANDONED"}]
    /\ answers \in [Interviews -> 0 .. MaxSaves] /\ scored \in [Interviews -> 0 .. MaxSaves]
    /\ base \in BOOLEAN /\ profile \in Profiles /\ results \in Seq(Grades)
    /\ rowLock \in [Interviews -> Tasks \cup {None}] /\ baseLock \in Tasks \cup {None}
    /\ at \in [Tasks -> {"idle", "submitting", "scoring", "counting", "saving", "leaving", "clearing"}]
    /\ of \in [Tasks -> Interviews] /\ got \in [Tasks -> 0 .. MaxSaves]
    /\ seen \in [Tasks -> Profiles] /\ picked \in [Tasks -> SUBSET Interviews]

Init ==
    /\ status = [i \in Interviews |-> "none"]
    /\ answers = [i \in Interviews |-> 0] /\ scored = [i \in Interviews |-> 0]
    /\ base \in BOOLEAN /\ profile = NoProfile /\ results = <<>>
    /\ rowLock = [i \in Interviews |-> None] /\ baseLock = None
    /\ at = [t \in Tasks |-> "idle"]
    /\ of = [t \in Tasks |-> CHOOSE i \in Interviews : TRUE]
    /\ got = [t \in Tasks |-> 0] /\ seen = [t \in Tasks |-> NoProfile]
    /\ picked = [t \in Tasks |-> {}]

\* the transaction of a request ends, and its locals are forgotten
Ends(t) ==
    /\ at' = [at EXCEPT ![t] = "idle"]
    /\ rowLock' = [i \in Interviews |-> IF rowLock[i] = t THEN None ELSE rowLock[i]]
    /\ baseLock' = IF baseLock = t THEN None ELSE baseLock
    /\ of' = [of EXCEPT ![t] = CHOOSE i \in Interviews : TRUE]
    /\ got' = [got EXCEPT ![t] = 0] /\ seen' = [seen EXCEPT ![t] = NoProfile]
    /\ picked' = [picked EXCEPT ![t] = {}]

\* an error, a statement that finds no row, a client that leaves: rolled back
Fails(t) == at[t] # "idle" /\ Ends(t) /\ UNCHANGED rows

-----------------------------------------------------------------------------
(* Handlers. *)

\* materials, retrieval, questions
Start(i) ==
    /\ status[i] = "none"
    /\ status' = [status EXCEPT ![i] = "IN_PROGRESS"]
    /\ answers' = [answers EXCEPT ![i] = 0] /\ scored' = [scored EXCEPT ![i] = 0]
    /\ UNCHANGED <<base, profile, results, rowLock, baseLock, at, locals>>

\* the status is read, and looked at here only
Reads(t, i, next) ==
    /\ at[t] = "idle" /\ status[i] = "IN_PROGRESS"
    /\ at' = [at EXCEPT ![t] = next] /\ of' = [of EXCEPT ![t] = i]
    /\ UNCHANGED <<rows, rowLock, baseLock, seen, picked>>

Save(t, i) == answers[i] < MaxSaves /\ Reads(t, i, "saving") /\ UNCHANGED got

CommitSave(t) ==
    /\ at[t] = "saving" /\ status[of[t]] # "none" /\ answers[of[t]] < MaxSaves
    /\ answers' = [answers EXCEPT ![of[t]] = @ + 1]
    /\ Ends(t) /\ UNCHANGED <<status, scored, base, profile, results>>

Abandon(t, i) == Reads(t, i, "leaving") /\ UNCHANGED got

CommitAbandon(t) ==
    /\ at[t] = "leaving" /\ status[of[t]] # "none" /\ rowLock[of[t]] = None
    /\ status' = [status EXCEPT ![of[t]] = "ABANDONED"]
    /\ Ends(t) /\ UNCHANGED <<answers, scored, base, profile, results>>

\* every question must have an answer
Submit(t, i) ==
    /\ answers[i] # 0 /\ Reads(t, i, "submitting") /\ got' = [got EXCEPT ![t] = answers[i]]

\* the flush of SCORING locks the row of the interview
FlushScoring(t) ==
    /\ at[t] = "submitting" /\ status[of[t]] # "none" /\ rowLock[of[t]] = None
    /\ rowLock' = [rowLock EXCEPT ![of[t]] = t]
    /\ at' = [at EXCEPT ![t] = "scoring"]
    /\ UNCHANGED <<rows, baseLock, locals>>

\* variant: the activity of the user is not recorded, and nothing locks
ReadProfileUnlocked(t) ==
    /\ at[t] = "scoring"
    /\ at' = [at EXCEPT ![t] = "counting"] /\ seen' = [seen EXCEPT ![t] = profile]
    /\ UNCHANGED <<rows, rowLock, baseLock, of, got, picked>>

\* last_active_time is flushed before the profile is read: that row is a lock of the user's
ReadProfile(t) ==
    /\ at[t] = "scoring" /\ baseLock = None
    /\ baseLock' = t
    /\ at' = [at EXCEPT ![t] = "counting"] /\ seen' = [seen EXCEPT ![t] = profile]
    /\ UNCHANGED <<rows, rowLock, of, got, picked>>

\* the first UserProfile is inserted: whoever waited for that finds a duplicate and fails
DuplicateBase(t) ==
    /\ at[t] = "scoring" /\ ~base /\ baseLock # None
    /\ Ends(t) /\ UNCHANGED rows

\* round(previous * 0.65 + current * 0.35, 1); halves either way, as binary fractions fall
EmaAdding(previous, current, count) == {
    IF count = 0 THEN current ELSE (previous * 65 + current * 45 + 50) \div 100}

Ema(previous, current, count) ==
    LET sum == previous * 65 + current * 35
    IN  IF count = 0 THEN {current} ELSE {(sum + 49) \div 100, (sum + 50) \div 100}

\* the profile read must still be there, or none must be
CommitScores(t) ==
    /\ at[t] = "counting" /\ Len(results) < MaxCounted
    /\ (seen[t].count = 0) = (profile.count = 0)
    /\ LET i == of[t]
       IN  /\ status' = [status EXCEPT ![i] = "COMPLETED"]
           /\ scored' = [scored EXCEPT ![i] = got[t]]
    /\ \E g \in Grades :
         /\ results' = Append(results, g)
         /\ \E s \in Ema(seen[t].score, g, seen[t].count) :
              profile' = [count |-> seen[t].count + 1, score |-> s]
    /\ base' = TRUE
    /\ Ends(t) /\ UNCHANGED answers

Clear(t) ==
    /\ at[t] = "idle" /\ at' = [at EXCEPT ![t] = "clearing"]
    /\ picked' = [picked EXCEPT ![t] = {i \in Interviews : status[i] \in {"COMPLETED", "ABANDONED"}}]
    /\ UNCHANGED <<rows, rowLock, baseLock, of, got, seen>>

CommitClear(t) ==
    /\ at[t] = "clearing" /\ \A i \in picked[t] : rowLock[i] = None
    /\ status' = [i \in Interviews |-> IF i \in picked[t] THEN "none" ELSE status[i]]
    /\ answers' = [i \in Interviews |-> IF i \in picked[t] THEN 0 ELSE answers[i]]
    /\ scored' = [i \in Interviews |-> IF i \in picked[t] THEN 0 ELSE scored[i]]
    /\ profile' = NoProfile /\ results' = <<>>
    /\ Ends(t) /\ UNCHANGED base

Next ==
    \/ \E i \in Interviews : Start(i) \/ \E t \in Tasks : Save(t, i) \/ Abandon(t, i) \/ Submit(t, i)
    \/ \E t \in Tasks :
         \/ CommitSave(t) \/ CommitAbandon(t) \/ FlushScoring(t) \/ ReadProfile(t)
         \/ DuplicateBase(t) \/ CommitScores(t) \/ Clear(t) \/ CommitClear(t) \/ Fails(t)

Spec == Init /\ [][Next]_vars

-----------------------------------------------------------------------------
(* Properties. *)

\* No result is lost: the profile counts every submission committed since it was deleted, and
\* its score lies between the results it was made of.
ProfileKeepsResults ==
    /\ profile.count = Len(results)
    /\ results # <<>> =>
         /\ \E n \in 1 .. Len(results) : profile.score >= results[n]
         /\ \E n \in 1 .. Len(results) : profile.score <= results[n]

\* Refuted: two submissions of one interview both find it in progress, and it counts twice.
ProfileCountsOnce ==
    profile.count <= Cardinality({i \in Interviews : status[i] = "COMPLETED"})

\* Refuted: an abandonment that read IN_PROGRESS waits for the submission, and overwrites it.
CompletedIsFinal ==
    [][\A i \in Interviews : status[i] = "COMPLETED" => status'[i] \in {"COMPLETED", "none"}]_vars

\* Refuted: an answer saved while the interview is scored is never scored.
ReviewIsOfAnswer ==
    \A i \in Interviews : status[i] = "COMPLETED" => scored[i] = answers[i]
-----------------------------------------------------------------------------
(* What they rest on. *)

\* Who counts a result holds the row of the user, and has seen the profile that there still is,
\* unless it was cleared.
CounterHoldsTheLock ==
    \A t \in Tasks : at[t] = "counting" =>
        baseLock = t /\ (seen[t] = profile \/ profile = NoProfile)

NothingCountedIsNoProfile ==
    /\ profile.count = 0 => profile = NoProfile
    /\ \A t \in Tasks : seen[t].count = 0 => seen[t] = NoProfile
=============================================================================
