--------------------------- MODULE DocumentSchedules ---------------------------
(***************************************************************************)
(* The two loops that refresh a document fetched from a URL, in every      *)
(* process of the server: DocumentScheduleScheduler runs the row of        *)
(* t_knowledge_document_schedule under an advisory lock of the document,   *)
(* and URLRefreshScheduler runs in the process that was the leader when    *)
(* it started.  Neither knows of the other.                                *)
(*                                                                         *)
(* What the schedule's loop writes is only flushed: closing its two        *)
(* sessions rolls everything back.  The URL loop commits, but for the hash *)
(* it changes inside chunk_config, a plain JSON column, which goes         *)
(* unnoticed: until a reprocessing replaces chunk_config, the document     *)
(* keeps the hash of the headers it was created with, and every poll       *)
(* compares with that.                                                     *)
(***************************************************************************)
EXTENDS Naturals, FiniteSets

CONSTANTS Replicas,
          MaxVersion, \* bound: versions of the content behind the URL
          Headers(_), \* ETag and Last-Modified of a version, if the server sends them
          None

ScheduleAssumption == MaxVersion \in Nat /\ None \notin Replicas

VARIABLES
    source,    \* the version served now
    content,   \* the version of the active chunks
    hashed,    \* chunk_config has the hash of the creation
    queued,    \* a reprocessing under way: the version of the file it was given, or None
    schedule,  \* the schedule's row: "none", "on", "off"
    loopOn,    \* KnowledgeDocument.schedule_enabled
    due,       \* next_run_time has passed
    docLock, leaderLock, \* the replica whose session holds the advisory lock
    at,        \* the schedule's loop of a replica
    url, got,  \* its URL loop, and the version it fetched
    lost       \* a lock has been lost with its session

vars == <<source, content, hashed, queued, schedule, loopOn, due, docLock, leaderLock, at, url,
          got, lost>>
rowVars == <<hashed, queued, schedule, loopOn, due>>

TypeOK ==
    /\ source \in 0 .. MaxVersion /\ content \in 0 .. MaxVersion
    /\ hashed \in BOOLEAN /\ queued \in (0 .. MaxVersion) \cup {None}
    /\ schedule \in {"none", "on", "off"} /\ loopOn \in BOOLEAN /\ due \in BOOLEAN
    /\ {docLock, leaderLock} \subseteq Replicas \cup {None}
    /\ at \in [Replicas -> {"idle", "polled", "locked", "refreshing", "releasing"}]
    /\ url \in [Replicas -> {"off", "idle", "changed", "fetched"}]
    /\ got \in [Replicas -> 0 .. MaxVersion]
    /\ lost \in BOOLEAN

\* a document from a URL is created with or without the URL loop, and has no schedule
Init ==
    /\ source = 0 /\ content = 0 /\ hashed = TRUE /\ queued = None
    /\ schedule = "none" /\ loopOn \in BOOLEAN /\ due = FALSE
    /\ docLock = None /\ leaderLock = None
    /\ at = [r \in Replicas |-> "idle"]
    /\ url = [r \in Replicas |-> "off"] /\ got = [r \in Replicas |-> 0]
    /\ lost = FALSE

\* also back to an earlier version
SourceChanges ==
    /\ source' \in (0 .. MaxVersion) \ {source}
    /\ UNCHANGED <<content, rowVars, docLock, leaderLock, at, url, got, lost>>

\* chunk_config is replaced, and a job is queued for the file that was downloaded last, whether
\* that refresh has succeeded or not
Reprocess ==
    /\ queued = None /\ queued' \in 0 .. MaxVersion /\ hashed' = FALSE
    /\ UNCHANGED <<source, content, schedule, loopOn, due, docLock, leaderLock, at, url, got,
                   lost>>

\* it succeeds or fails
Reprocessed ==
    /\ queued # None /\ queued' = None /\ content' \in {queued, content}
    /\ UNCHANGED <<source, hashed, schedule, loopOn, due, docLock, leaderLock, at, url, got,
                   lost>>

-----------------------------------------------------------------------------
(* The schedule's row. *)

CreateSchedule ==
    /\ schedule = "none"
    /\ \E e \in {"on", "off"} : schedule' = e /\ loopOn' = (e = "on")
    /\ due' = FALSE
    /\ UNCHANGED <<source, content, hashed, queued, docLock, leaderLock, at, url, got, lost>>

\* a new expression moves the next run; the document's flag is not touched
UpdateSchedule ==
    /\ schedule # "none"
    /\ schedule' \in {"on", "off"} /\ due' \in {due, FALSE}
    /\ UNCHANGED <<source, content, hashed, queued, loopOn, docLock, leaderLock, at, url, got,
                   lost>>

DeleteSchedule ==
    /\ schedule # "none"
    /\ schedule' = "none" /\ loopOn' = FALSE /\ due' = FALSE
    /\ UNCHANGED <<source, content, hashed, queued, docLock, leaderLock, at, url, got, lost>>

TimePasses ==
    /\ schedule # "none" /\ ~due /\ due' = TRUE
    /\ UNCHANGED <<source, content, hashed, queued, schedule, loopOn, docLock, leaderLock, at,
                   url, got, lost>>

-----------------------------------------------------------------------------
(* The loop of the schedules. *)

Goes(r, from, to) == at[r] = from /\ at' = [at EXCEPT ![r] = to]

Poll(r) ==
    /\ schedule = "on" /\ due /\ Goes(r, "idle", "polled")
    /\ UNCHANGED <<source, content, rowVars, docLock, leaderLock, url, got, lost>>

\* variant: an error of the lock lets the refresh run
AcquireOpen(r) ==
    /\ \/ Goes(r, "polled", IF docLock = None THEN "locked" ELSE "idle")
          /\ docLock' = IF docLock = None THEN r ELSE docLock
       \/ Goes(r, "polled", "locked") /\ UNCHANGED docLock
    /\ UNCHANGED <<source, content, rowVars, leaderLock, url, got, lost>>

Acquire(r) ==
    /\ \/ Goes(r, "polled", IF docLock = None THEN "locked" ELSE "idle")
          /\ docLock' = IF docLock = None THEN r ELSE docLock
       \/ Goes(r, "polled", "idle") /\ UNCHANGED docLock  \* an error: fails closed
    /\ UNCHANGED <<source, content, rowVars, leaderLock, url, got, lost>>

\* Reads the row again, whatever its flag is now.  If it is gone, the finally block reads an
\* attribute of None before it releases the lock: the session that holds it stays open.
Refresh(r) ==
    /\ Goes(r, "locked", IF schedule = "none" THEN "idle" ELSE "refreshing")
    /\ UNCHANGED <<source, content, rowVars, docLock, leaderLock, url, got, lost>>

\* the pending generation, the records and the next run time are rolled back
FinishRefresh(r) ==
    /\ Goes(r, "refreshing", "releasing")
    /\ UNCHANGED <<source, content, rowVars, docLock, leaderLock, url, got, lost>>

Release(r) ==
    /\ Goes(r, "releasing", "idle")
    /\ docLock' = IF docLock = r THEN None ELSE docLock
    /\ UNCHANGED <<source, content, rowVars, leaderLock, url, got, lost>>

-----------------------------------------------------------------------------
(* The loop of the URLs. *)

Start(r) ==
    /\ url[r] = "off" /\ leaderLock = None
    /\ leaderLock' = r /\ url' = [url EXCEPT ![r] = "idle"]
    /\ UNCHANGED <<source, content, rowVars, docLock, at, got, lost>>

Forgets(r) == got' = [got EXCEPT ![r] = 0]

Stop(r) ==
    /\ url[r] # "off" /\ url' = [url EXCEPT ![r] = "off"] /\ Forgets(r)
    /\ leaderLock' = IF leaderLock = r THEN None ELSE leaderLock
    /\ UNCHANGED <<source, content, rowVars, docLock, at, lost>>

\* the headers are those of the creation, as far as the document still knows them
Unchanged == hashed /\ Headers(source) = Headers(0)

\* HEAD, and the comparison
Check(r) ==
    /\ url[r] = "idle" /\ loopOn /\ ~Unchanged
    /\ url' = [url EXCEPT ![r] = "changed"]
    /\ UNCHANGED <<source, content, rowVars, docLock, leaderLock, at, got, lost>>

\* GET: what is there now
Fetch(r) ==
    /\ url[r] = "changed"
    /\ url' = [url EXCEPT ![r] = "fetched"] /\ got' = [got EXCEPT ![r] = source]
    /\ UNCHANGED <<source, content, rowVars, docLock, leaderLock, at, lost>>

\* variant: the session is flushed only, as in the other loop
CommitFlushed(r) ==
    /\ url[r] = "fetched" /\ url' = [url EXCEPT ![r] = "idle"] /\ Forgets(r)
    /\ UNCHANGED <<source, content, rowVars, docLock, leaderLock, at, lost>>

Commit(r) ==
    /\ url[r] = "fetched" /\ url' = [url EXCEPT ![r] = "idle"]
    /\ content' = got[r] /\ Forgets(r)
    /\ UNCHANGED <<source, rowVars, docLock, leaderLock, at, lost>>

RefreshFails(r) ==
    /\ url[r] \in {"changed", "fetched"} /\ url' = [url EXCEPT ![r] = "idle"] /\ Forgets(r)
    /\ UNCHANGED <<source, content, rowVars, docLock, leaderLock, at, lost>>

\* the database drops the connection of a lock; its holder goes on
LoseSession ==
    /\ \/ docLock # None /\ docLock' = None /\ UNCHANGED leaderLock
       \/ leaderLock # None /\ leaderLock' = None /\ UNCHANGED docLock
    /\ lost' = TRUE
    /\ UNCHANGED <<source, content, rowVars, at, url, got>>

Crash(r) ==
    /\ <<at[r], url[r]>> # <<"idle", "off">>
    /\ at' = [at EXCEPT ![r] = "idle"] /\ url' = [url EXCEPT ![r] = "off"] /\ Forgets(r)
    /\ docLock' = IF docLock = r THEN None ELSE docLock
    /\ leaderLock' = IF leaderLock = r THEN None ELSE leaderLock
    /\ UNCHANGED <<source, content, rowVars, lost>>

Next ==
    \/ SourceChanges \/ Reprocess \/ Reprocessed \/ LoseSession
    \/ CreateSchedule \/ UpdateSchedule \/ DeleteSchedule \/ TimePasses
    \/ \E r \in Replicas :
         \/ Poll(r) \/ Acquire(r) \/ Refresh(r) \/ FinishRefresh(r) \/ Release(r)
         \/ Start(r) \/ Stop(r) \/ Check(r) \/ Fetch(r) \/ Commit(r) \/ RefreshFails(r)
         \/ Crash(r)

\* the loops poll; a changed document is downloaded and ingested some time or other
Fairness == \A r \in Replicas : WF_vars(Check(r)) /\ SF_vars(Fetch(r)) /\ SF_vars(Commit(r))

Spec == Init /\ [][Next]_vars /\ Fairness

-----------------------------------------------------------------------------
(* Properties. *)

\* "Lock subsystem failures fail closed to prevent duplicate execution": the schedule of a
\* document is refreshed by one process at a time while no session of a lock is lost.
OneScheduledRefresh ==
    ~lost => \A r, q \in Replicas : at[r] = "refreshing" /\ at[q] = "refreshing" => r = q

\* the URL loop runs in one process
OneLeader == \E r \in Replicas : {q \in Replicas : url[q] # "off"} = {r}

\* While one process stays the leader of the URL loop and the document stays in the loop, what
\* is served ends up being the version that stays behind the URL, whatever refreshes of it fail
\* and whatever reprocessing brings an older file back, unless its headers are the ones the
\* document was created with.
ChangesAreServed ==
    \A v \in 0 .. MaxVersion :
        <>[](loopOn /\ OneLeader /\ source = v /\ ~Unchanged /\ queued = None)
            => <>[](content = v)

\* Refuted: where the server sends no headers, or goes back to the first version, the hash of
\* the creation hides it.
EveryChangeIsServed ==
    \A v \in 0 .. MaxVersion :
        <>[](loopOn /\ OneLeader /\ source = v /\ queued = None) => <>[](content = v)

\* Refuted: a schedule deleted between the poll and the second reading leaves its lock behind.
IdleHoldsNoLock == \A r \in Replicas : at[r] = "idle" => docLock # r

\* Refuted: a refresh that ran leaves the schedule due, since nothing of it is committed.
NextRunAdvances ==
    [][\A r \in Replicas : at[r] = "refreshing" /\ at'[r] = "releasing" => ~due']_vars

\* Refuted: a version once refreshed is refreshed at every poll, for its hash is not saved.
UnchangedIsSkipped ==
    [][\A r \in Replicas : url[r] = "idle" /\ url'[r] = "changed" => content # source]_vars

\* Refuted: the URL loop does not look at the schedule that has been switched off.
DisabledIsNotRefreshed ==
    [][\A r \in Replicas : url[r] = "idle" /\ url'[r] = "changed" => schedule # "off"]_vars
=============================================================================
