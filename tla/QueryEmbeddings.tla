---------------------------- MODULE QueryEmbeddings ----------------------------
(***************************************************************************)
(* EmbeddingClient.embed_query (llm/embedding.py): callers with the same   *)
(* text share one provider request and its cached vector.  The cache and   *)
(* the table of requests in flight are guarded by one asyncio lock, so a   *)
(* step is a critical section; the callback that takes a finished request  *)
(* out of the table is a task of its own.                                  *)
(***************************************************************************)
EXTENDS Naturals, FiniteSets

CONSTANTS Callers,
          Texts,
          CacheSize,   \* _QUERY_CACHE_MAX_SIZE
          MaxRequests, \* bound: provider requests
          None

Requests == 1 .. MaxRequests

EmbeddingAssumption ==
    CacheSize \in Nat \ {0} /\ MaxRequests \in Nat \ {0} /\ None \notin Requests

VARIABLES
    cache,    \* texts with a vector
    inflight, \* _query_inflight: text -> request
    request,  \* its state
    at, text, joined

vars == <<cache, inflight, request, at, text, joined>>

TypeOK ==
    /\ cache \subseteq Texts /\ Cardinality(cache) <= CacheSize
    /\ inflight \in [Texts -> Requests \cup {None}]
    /\ request \in [Requests -> {"unused", "running", "vector", "error"}]
    /\ at \in [Callers -> {"idle", "waiting", "storing", "vector", "error", "cancelled"}]
    /\ text \in [Callers -> Texts]
    /\ joined \in [Callers -> Requests \cup {None}]

Init ==
    /\ cache = {}
    /\ inflight = [t \in Texts |-> None]
    /\ request = [r \in Requests |-> "unused"]
    /\ at = [c \in Callers |-> "idle"]
    /\ text \in [Callers -> Texts]
    /\ joined = [c \in Callers |-> None]

Moved(c, s) == at' = [at EXCEPT ![c] = s]

Hit(c) ==
    /\ at[c] = "idle" /\ text[c] \in cache
    /\ Moved(c, "vector")
    /\ UNCHANGED <<cache, inflight, request, text, joined>>

Join(c) ==
    /\ at[c] = "idle" /\ text[c] \notin cache /\ inflight[text[c]] # None
    /\ Moved(c, "waiting")
    /\ joined' = [joined EXCEPT ![c] = inflight[text[c]]]
    /\ UNCHANGED <<cache, inflight, request, text>>

\* variant: every caller asks the provider
SendAlways(c) ==
    /\ at[c] = "idle" /\ text[c] \notin cache
    /\ \E r \in Requests :
         /\ request[r] = "unused" /\ \A q \in 1 .. r - 1 : request[q] # "unused"
         /\ request' = [request EXCEPT ![r] = "running"]
         /\ inflight' = [inflight EXCEPT ![text[c]] = r]
         /\ joined' = [joined EXCEPT ![c] = r]
    /\ Moved(c, "waiting")
    /\ UNCHANGED <<cache, text>>

Send(c) ==
    /\ at[c] = "idle" /\ text[c] \notin cache /\ inflight[text[c]] = None
    /\ \E r \in Requests :
         /\ request[r] = "unused" /\ \A q \in 1 .. r - 1 : request[q] # "unused"
         /\ request' = [request EXCEPT ![r] = "running"]
         /\ inflight' = [inflight EXCEPT ![text[c]] = r]
         /\ joined' = [joined EXCEPT ![c] = r]
    /\ Moved(c, "waiting")
    /\ UNCHANGED <<cache, text>>

\* all attempts of _call_with_retry, each with a time limit
Provider(r) ==
    /\ request[r] = "running"
    /\ \E s \in {"vector", "error"} : request' = [request EXCEPT ![r] = s]
    /\ UNCHANGED <<cache, inflight, at, text, joined>>

\* _discard_inflight_query
Discard(r) ==
    /\ request[r] \notin {"unused", "running"}
    /\ \E t \in Texts : inflight[t] = r /\ inflight' = [inflight EXCEPT ![t] = None]
    /\ UNCHANGED <<cache, request, at, text, joined>>

Wake(c) ==
    /\ at[c] = "waiting" /\ request[joined[c]] # "running"
    /\ Moved(c, IF request[joined[c]] = "vector" THEN "storing" ELSE "error")
    /\ UNCHANGED <<cache, inflight, request, text, joined>>

\* variant: nothing leaves the cache
StoreKeepingAll(c) ==
    /\ at[c] = "storing"
    /\ Moved(c, "vector")
    /\ cache' = cache \cup {text[c]}
    /\ UNCHANGED <<inflight, request, text, joined>>

\* the oldest entries leave; which they are depends on all calls before
Store(c) ==
    /\ at[c] = "storing"
    /\ Moved(c, "vector")
    /\ \E kept \in SUBSET (cache \ {text[c]}) :
         /\ Cardinality(kept) = IF Cardinality(cache \ {text[c]}) < CacheSize
                                THEN Cardinality(cache \ {text[c]}) ELSE CacheSize - 1
         /\ cache' = kept \cup {text[c]}
    /\ UNCHANGED <<inflight, request, text, joined>>

\* the search of the caller is cancelled: not the request, which others may share
Cancel(c) ==
    /\ at[c] \in {"waiting", "storing"}
    /\ Moved(c, "cancelled")
    /\ UNCHANGED <<cache, inflight, request, text, joined>>

Again(c) ==
    /\ at[c] \in {"vector", "error", "cancelled"}
    /\ Moved(c, "idle")
    /\ text' \in {[text EXCEPT ![c] = t] : t \in Texts}
    /\ joined' = [joined EXCEPT ![c] = None]
    /\ UNCHANGED <<cache, inflight, request>>

Next ==
    \/ \E c \in Callers :
         \/ Hit(c) \/ Join(c) \/ Send(c) \/ Wake(c) \/ Store(c) \/ Cancel(c) \/ Again(c)
    \/ \E r \in Requests : Provider(r) \/ Discard(r)

Spec == Init /\ [][Next]_vars

-----------------------------------------------------------------------------
(* Properties. *)

\* One text is never embedded by two provider requests at the same time, whoever joins, is
\* cancelled or comes back meanwhile.
SingleFlight ==
    \A t \in Texts : Cardinality({r \in Requests : request[r] = "running" /\
        (inflight[t] = r \/ \E c \in Callers : joined[c] = r /\ text[c] = t)}) <= 1
=============================================================================
