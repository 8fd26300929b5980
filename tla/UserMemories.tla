------------------------------ MODULE UserMemories ------------------------------
(***************************************************************************)
(* Mem0Manager (memory/mem0_client.py): the memories of one user in        *)
(* Milvus and, for keywords, in Elasticsearch.  After each answer a        *)
(* background task extracts facts, lets a model decide what to add and     *)
(* what to supersede, and stores the result; questions search meanwhile.   *)
(* The model is taken to judge rightly: what it supersedes, or takes for   *)
(* known, is about the same topic.  Scores are percentages.                *)
(***************************************************************************)
EXTENDS Integers, FiniteSets, Functions

CONSTANTS Tasks, Topics,
          Seconds,                     \* bound: at which facts are stored
          VectorScores, KeywordScores, \* of memories that are found
          MinRelevance,                \* mem0_min_relevance_score
          None

MemoryAssumption ==
    /\ VectorScores \subseteq 1 .. 100 /\ KeywordScores \subseteq 1 .. 100
    /\ MinRelevance \in 0 .. 100 /\ "first" \notin Tasks

\* a memory_id is fresh
Memories == (Tasks \cup {"first"}) \X Topics
TopicOf(m) == m[2]

VARIABLES
    store, es,  \* the memories in Milvus and in Elasticsearch
    at, facts, known, adds, retire, \* of the tasks
    key,        \* primary keys in Milvus, also of those deleted: the second and the position
    kept,       \* the topics that have been stored, and not deleted since by an administrator
    found,      \* what the vector search has found, or None before it
    recalled    \* what the last search has returned, or {} during the next

vars == <<store, es, at, facts, known, adds, retire, key, kept, found, recalled>>
search == <<found, recalled>>

TypeOK ==
    /\ store \subseteq Memories /\ es \subseteq Memories
    /\ at \in [Tasks -> {"idle", "resolving", "embedding", "indexing", "retiring", "done"}]
    /\ facts \in [Tasks -> SUBSET Topics] /\ adds \in [Tasks -> SUBSET Topics]
    /\ known \in [Tasks -> SUBSET Memories] /\ retire \in [Tasks -> SUBSET Memories]
    /\ key \in [Memories -> (Seconds \X Nat) \cup {None}] /\ kept \subseteq Topics

Init ==
    /\ store \in {{"first"} \X T : T \in SUBSET Topics}
    /\ es = store /\ kept = {TopicOf(m) : m \in store}
    /\ key = [m \in Memories |-> None] \* the first ones have keys of their own
    /\ at = [c \in Tasks |-> "idle"]
    /\ facts = [c \in Tasks |-> {}] /\ adds = [c \in Tasks |-> {}]
    /\ known = [c \in Tasks |-> {}] /\ retire = [c \in Tasks |-> {}]
    /\ found = None /\ recalled = {}

Goes(c, from, to) == at[c] = from /\ at' = [at EXCEPT ![c] = to]
New(c) == {<<c, t>> : t \in adds[c]}
Twins(m, n) == key[m] # None /\ key[m] = key[n]

-----------------------------------------------------------------------------
(* add *)

\* get_all: at most 200 memories, none after an error
Extract(c) ==
    /\ Goes(c, "idle", "resolving")
    /\ \E f \in SUBSET Topics \ {{}} : facts' = [facts EXCEPT ![c] = f]
    /\ \E r \in SUBSET store : known' = [known EXCEPT ![c] = r]
    /\ UNCHANGED <<store, es, adds, retire, key, kept, search>>

\* ADD, UPDATE or NOOP for each fact; an UPDATE without an id is neither
Resolve(c) ==
    /\ Goes(c, "resolving", "embedding")
    /\ \E a \in SUBSET facts[c] : \E r \in SUBSET {m \in known[c] : TopicOf(m) \in a} :
         /\ known[c] = {} => a = facts[c]
         /\ \A t \in facts[c] \ a : \E m \in known[c] : TopicOf(m) = t
         /\ adds' = [adds EXCEPT ![c] = a] /\ retire' = [retire EXCEPT ![c] = r]
    /\ facts' = [facts EXCEPT ![c] = {}] /\ known' = [known EXCEPT ![c] = {}] \* not read again
    /\ UNCHANGED <<store, es, key, kept, search>>

\* variant: "the old memory is deleted before inserting the new one"
InsertAfterDeletion(c) ==
    /\ at[c] = "embedding"
    /\ IF retire[c] \cap store # {}
       THEN /\ store' = store \ retire[c] /\ UNCHANGED <<at, kept>>
       ELSE /\ at' = [at EXCEPT ![c] = "indexing"]
            /\ store' = store \cup New(c) /\ kept' = kept \cup adds[c]
    /\ UNCHANGED <<es, facts, known, adds, retire, key, search>>

\* Insertion and flush.  Milvus does not refuse a key that it has; two tasks can store in one
\* second, in two processes or one after the other.
Insert(c) ==
    /\ Goes(c, "embedding", "indexing")
    /\ store' = store \cup New(c) /\ kept' = kept \cup adds[c]
    /\ \E second \in Seconds, place \in Bijection(adds[c], 0 .. Cardinality(adds[c]) - 1) :
         key' = [m \in Memories |-> IF m \in New(c) THEN <<second, place[TopicOf(m)]>> ELSE key[m]]
    /\ UNCHANGED <<es, facts, known, adds, retire, search>>

\* errors are only logged
IndexToEs(c) ==
    /\ Goes(c, "indexing", "retiring")
    /\ \E m \in SUBSET New(c) : es' = es \cup m
    /\ UNCHANGED <<store, facts, known, adds, retire, key, kept, search>>

\* Milvus deletes by the key of what the expression has found.  Elasticsearch only if Milvus has
\* deleted it, and its errors are ignored.
Delete(m) ==
    \E gone \in SUBSET {"milvus", "es"} :
        /\ "es" \in gone => "milvus" \in gone
        /\ store' = IF "milvus" \in gone THEN {n \in store : n # m /\ ~Twins(m, n)} ELSE store
        /\ es' = IF "es" \in gone THEN es \ {m} ELSE es

Retire(c) ==
    /\ at[c] = "retiring"
    /\ \E m \in retire[c] : Delete(m) /\ retire' = [retire EXCEPT ![c] = @ \ {m}]
    /\ UNCHANGED <<at, facts, known, adds, key, kept, search>>

Forget(c) ==
    /\ facts' = [facts EXCEPT ![c] = {}] /\ known' = [known EXCEPT ![c] = {}]
    /\ adds' = [adds EXCEPT ![c] = {}] /\ retire' = [retire EXCEPT ![c] = {}]

Finish(c) ==
    /\ retire[c] = {} /\ Goes(c, "retiring", "done")
    /\ Forget(c) /\ UNCHANGED <<store, es, key, kept, search>>

\* The model, the embeddings, Milvus (perhaps after it has stored the records) or the process.
Fail(c) ==
    /\ at[c] \notin {"idle", "done"} /\ at' = [at EXCEPT ![c] = "done"]
    /\ Forget(c) /\ UNCHANGED <<store, es, key, kept, search>>

AdminDelete ==
    /\ \E m \in store : Delete(m) /\ kept' = IF m \in store' THEN kept ELSE kept \ {TopicOf(m)}
    /\ UNCHANGED <<at, facts, known, adds, retire, key, search>>

-----------------------------------------------------------------------------
(* search *)

\* an error counts as nothing found
SearchVectors ==
    /\ found = None
    /\ \E M \in SUBSET store : found' \in [M -> VectorScores]
    /\ recalled' = {}
    /\ UNCHANGED <<store, es, at, facts, known, adds, retire, key, kept>>

ScoreOf(f, m) == IF m \in DOMAIN f THEN f[m] ELSE 0

\* variant: the weights are swapped
FusedForKeywords(v, k) == 3 * v + 7 * k

\* in tenths of a percent: _fuse_results
Fused(v, k) == 7 * v + 3 * k

\* without keywords the vector scores stand
Relevant(k) ==
    IF k = <<>>
    THEN {m \in DOMAIN found : found[m] >= MinRelevance}
    ELSE {m \in DOMAIN found \cup DOMAIN k :
            Fused(ScoreOf(found, m), ScoreOf(k, m)) >= 10 * MinRelevance}

\* Elasticsearch disabled, failing or empty: no keywords
SearchKeywords ==
    /\ found # None
    /\ \E M \in SUBSET es : \E k \in [M -> KeywordScores] :
         recalled' = Relevant(IF M = {} THEN <<>> ELSE k)
    /\ found' = None
    /\ UNCHANGED <<store, es, at, facts, known, adds, retire, key, kept>>

Step(c) == \/ Extract(c) \/ Resolve(c) \/ Insert(c) \/ IndexToEs(c) \/ Retire(c) \/ Finish(c)
           \/ Fail(c)

Next == (\E c \in Tasks : Step(c)) \/ AdminDelete \/ SearchVectors \/ SearchKeywords

Spec == Init /\ [][Next]_vars

-----------------------------------------------------------------------------
(* Properties. *)

Known == {TopicOf(m) : m \in store}

\* The topics of which a memory shares its key with another one.
Confused == {TopicOf(m) : m \in {m \in Memories : \E n \in Memories \ {m} : Twins(m, n)}}

\* "Replacements are inserted before superseded facts are retired": whatever fails and whichever
\* tasks overlap, a topic that has been stored stays known unless an administrator deletes it, or
\* one of its memories has got the key of another one.
NothingIsForgotten == kept \subseteq Known \cup Confused

\* The same for all topics.  Refuted: two tasks store in one second, and the deletion of what one
\* of them has stored deletes what the other has at the same position.
NothingIsEverForgotten == kept \subseteq Known

\* A memory that is superseded or deleted is not recalled, although Elasticsearch may keep it: all
\* that is recalled was in Milvus during the search, because the weight of the keywords alone does
\* not reach the relevance that is asked for.
RecallsWhatIsKept == found # None /\ found' = None => recalled' \subseteq DOMAIN found
DeletedIsNotRecalled == [][RecallsWhatIsKept]_vars

\* "prevents memory inflation".  Refuted: two tasks read the same memories, or none after an error.
OneMemoryPerTopic == \A m, n \in store : TopicOf(m) = TopicOf(n) => m = n

\* Refuted: as soon as one keyword is found, memories that are relevant by themselves fall below
\* the relevance that is asked for.
KeywordsDoNotHide ==
    [][found # None /\ found' = None =>
        {m \in DOMAIN found : found[m] >= MinRelevance} \subseteq recalled']_vars
-----------------------------------------------------------------------------
(* What they rest on. *)

\* A memory is known to others only after its task has inserted it.
KnownIsInserted ==
    \A c \in Tasks, t \in Topics :
        <<c, t>> \in store \/ (\E d \in Tasks : <<c, t>> \in known[d] \cup retire[d])
                \/ key[<<c, t>>] # None
            => at[c] \in {"indexing", "retiring", "done"}

\* What a task retires it has a replacement for.
RetiredIsReplaced == \A c \in Tasks : \A m \in retire[c] : TopicOf(m) \in adds[c]

\* Of every topic, unless it is confused, there is a memory that no task will retire which has
\* inserted its own: the one inserted last is unknown to those that were inserted before.
NewestIsKept ==
    \A t \in kept \ Confused : \E m \in store :
        /\ TopicOf(m) = t
        /\ \A c \in Tasks : at[c] \in {"indexing", "retiring"} => m \notin retire[c]
=============================================================================
