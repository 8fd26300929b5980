------------------------------ MODULE RateLimiter ------------------------------
(***************************************************************************)
(* The sliding window of rag/rate_limiter.py: a sorted set of request      *)
(* times in Redis.  The check reads its size and adds the request in two   *)
(* commands; without Redis every request passes.                           *)
(***************************************************************************)
EXTENDS Naturals, FiniteSets

CONSTANTS Checks,  \* tasks that check requests at the same time
          Limit,   \* user_limit
          Window,  \* window_sec, in ticks
          MaxTime  \* bound

LimiterAssumption ==
    /\ IsFiniteSet(Checks)
    /\ Limit \in Nat \ {0} /\ Window \in Nat \ {0} /\ MaxTime \in Nat

VARIABLES
    now,
    window,  \* the sorted set: pairs of a time and the check that added it
    allowed, \* requests that Redis has let through, as such pairs
    at, started, count,
    redis

vars == <<now, window, allowed, at, started, count, redis>>

TypeOK ==
    /\ now \in 0 .. MaxTime
    /\ window \subseteq (0 .. MaxTime) \X Checks /\ allowed \subseteq (0 .. MaxTime) \X Checks
    /\ at \in [Checks -> {"idle", "trimming", "counting", "adding"}]
    /\ started \in [Checks -> 0 .. MaxTime]
    /\ count \in [Checks -> Nat]
    /\ redis \in BOOLEAN

Init ==
    /\ now = 0 /\ window = {} /\ allowed = {}
    /\ at = [c \in Checks |-> "idle"]
    /\ started = [c \in Checks |-> 0]
    /\ count = [c \in Checks |-> 0]
    /\ redis = TRUE

Go(c, from, to) == at[c] = from /\ at' = [at EXCEPT ![c] = to]

\* one request of a check in each tick; the clock is read once
Check(c) ==
    /\ Go(c, "idle", "trimming") /\ \A p \in allowed : p # <<now, c>>
    /\ started' = [started EXCEPT ![c] = now]
    /\ UNCHANGED <<now, window, allowed, count, redis>>

Trim(c) ==
    /\ redis /\ Go(c, "trimming", "counting")
    /\ window' = {p \in window : p[1] + Window > started[c]}
    /\ UNCHANGED <<now, allowed, started, count, redis>>

Count(c) ==
    /\ redis /\ at[c] = "counting"
    /\ count' = [count EXCEPT ![c] = Cardinality(window)]
    /\ at' = [at EXCEPT ![c] = IF count'[c] < Limit THEN "adding" ELSE "idle"]
    /\ UNCHANGED <<now, window, allowed, started, redis>>

\* variant: the request is not recorded
AddNothing(c) ==
    /\ redis /\ Go(c, "adding", "idle")
    /\ allowed' = allowed \cup {<<started[c], c>>}
    /\ UNCHANGED <<now, window, started, count, redis>>

Add(c) ==
    /\ redis /\ Go(c, "adding", "idle")
    /\ window' = window \cup {<<started[c], c>>}
    /\ allowed' = allowed \cup {<<started[c], c>>}
    /\ UNCHANGED <<now, started, count, redis>>

\* an error of any command allows the request
Degrade(c) ==
    /\ ~redis /\ at[c] # "idle" /\ at' = [at EXCEPT ![c] = "idle"]
    /\ UNCHANGED <<now, window, allowed, started, count, redis>>

\* Bound: a check takes less than a tick.
Tick ==
    /\ now < MaxTime /\ \A c \in Checks : at[c] = "idle"
    /\ now' = now + 1
    /\ UNCHANGED <<window, allowed, at, started, count, redis>>

RedisTurns ==
    /\ redis' = ~redis
    /\ UNCHANGED <<now, window, allowed, at, started, count>>

Next ==
    \/ \E c \in Checks : Check(c) \/ Trim(c) \/ Count(c) \/ Add(c) \/ Degrade(c)
    \/ Tick \/ RedisTurns

Spec == Init /\ [][Next]_vars

-----------------------------------------------------------------------------
(* Properties. *)

InWindow(t) == {p \in allowed : t - Window < p[1] /\ p[1] <= t}

\* While Redis answers, the requests let through in any window exceed the limit by less than
\* the number of requests that are checked at the same time.
OvershootIsBounded ==
    \A t \in Window .. MaxTime : Cardinality(InWindow(t)) <= Limit + Cardinality(Checks) - 1

\* "Max requests per window for a user".  Refuted: the checks of concurrent requests count
\* before any of them has been added.
LimitIsKept == \A t \in Window .. MaxTime : Cardinality(InWindow(t)) <= Limit
=============================================================================
