-------------------------- MODULE RetrievalEvidence --------------------------
(***************************************************************************)
(* From the hits of the search channels to the evidence of an answer       *)
(* (rag/pipeline.py, rag/postprocess/fusion.py, security/service.py): the  *)
(* indexes know neither what was disabled nor who may read what, so each   *)
(* step looks at the rows again, in a transaction of its own, while users  *)
(* and workers change them.                                                *)
(***************************************************************************)
EXTENDS Naturals, FiniteSets

CONSTANTS
    Rows,       \* ids of KnowledgeChunk
    Hashes,     \* content hashes; rows with the same content have the same
    Kbs,        \* knowledge bases, each of one document
    Scope,      \* those the question is about, all readable to the user at first
    Orphan,     \* id of an index entry that has no row
    MaxChanges, \* bound: changes of rows while the question is answered
    MaxHits     \* bound: entries the channels have found

EvidenceAssumption ==
    /\ Scope \subseteq Kbs /\ Scope # {}
    /\ Orphan \notin Rows
    /\ MaxChanges \in Nat /\ MaxHits \in Nat

VARIABLES
    rows,     \* kb, hash, active, enabled, deleted
    readable, \* documents the user may read
    options,  \* kb_id given (one knowledge base), neighbour expansion
    at,
    alike,    \* pairs of contents of which fusion sees one as a near duplicate of the other
    hits,     \* the index entries that the channels have found
    found,    \* results: index entry, and the chunk it stands for
    seen,     \* rows that the user could see at some time since the question
    changes, faults

vars == <<rows, readable, options, at, found, hits, seen, changes, faults, alike>>

Row == [kb : Kbs, hash : Hashes, active : BOOLEAN, enabled : BOOLEAN, deleted : BOOLEAN]
Result == [id : Rows \cup {Orphan}, hash : Hashes, chunk : Rows \cup {Orphan}]

\* not transitive, as a threshold of similarity makes it
NearDuplicates ==
    {E \in SUBSET (Hashes \X Hashes) :
        \A g, h \in Hashes : <<h, h>> \in E /\ (<<g, h>> \in E => <<h, g>> \in E)}

TypeOK ==
    /\ rows \in [Rows -> Row]
    /\ readable \subseteq Kbs
    /\ options \in [single : BOOLEAN, neighbours : BOOLEAN]
    /\ at \in {"searched", "fused", "filtered", "resolved", "expanded", "done", "failed"}
    /\ found \subseteq Result /\ hits \subseteq Result /\ alike \in NearDuplicates
    /\ seen \subseteq Rows
    /\ changes \in 0 .. MaxChanges /\ faults \in 0 .. 1

Available(c) == rows[c].enabled /\ ~rows[c].deleted
Visible(c) == Available(c) /\ rows[c].kb \in Scope \cap readable

Entry(i, h) == [id |-> i, hash |-> h, chunk |-> i]

Init ==
    /\ rows \in {r \in [Rows -> Row] : \A c \in Rows : ~r[c].deleted}
    /\ readable = Scope
    /\ options \in [single : BOOLEAN, neighbours : BOOLEAN]
    /\ options.single => Cardinality(Scope) = 1
    /\ at = "searched"
    /\ \E ids \in SUBSET (Rows \cup {Orphan}) :
         /\ Cardinality(ids) <= MaxHits
         /\ \E h \in [ids -> Hashes] : found = {Entry(i, h[i]) : i \in ids}
    /\ hits = found /\ alike \in NearDuplicates
    /\ seen = {c \in Rows : Visible(c)}
    /\ changes = 0 /\ faults = 0

-----------------------------------------------------------------------------
(* What happens to the rows meanwhile. *)

Change ==
    /\ at \notin {"done", "failed"} /\ changes < MaxChanges
    /\ changes' = changes + 1
    /\ UNCHANGED <<options, at, found, hits, faults, alike>>
    /\ seen' = seen \cup {c \in Rows : Visible(c)'}

\* the user interface switches a chunk off or on
Toggle(c) ==
    /\ rows' = [rows EXCEPT ![c].enabled = ~@]
    /\ UNCHANGED readable /\ Change

Delete(c) ==
    /\ ~rows[c].deleted
    /\ rows' = [rows EXCEPT ![c].deleted = TRUE, ![c].active = FALSE]
    /\ UNCHANGED readable /\ Change

\* an ingestion activates the chunk that replaces another
Supersede(c, d) ==
    /\ rows[c].active /\ ~rows[d].active /\ ~rows[d].deleted /\ rows[c].kb = rows[d].kb
    /\ rows' = [rows EXCEPT ![c].active = FALSE, ![c].deleted = TRUE, ![d].active = TRUE]
    /\ UNCHANGED readable /\ Change

\* a document is shared or no longer shared
Share(k) ==
    /\ readable' = IF k \in readable THEN readable \ {k} ELSE readable \cup {k}
    /\ UNCHANGED rows /\ Change

-----------------------------------------------------------------------------
(* The request. *)

Go(from, to) ==
    /\ at = from /\ at' = to
    /\ UNCHANGED <<rows, readable, options, hits, seen, changes, alike>>
Fault == faults = 0 /\ faults' = 1
Fine == UNCHANGED faults

Alike(r, s) == <<r.hash, s.hash>> \in alike

\* rrf_fusion and deduplicate, in any order of ranks: an entry is dropped whose content is much
\* like that of one which is kept, before anybody has looked whether that one is available.
Fuse ==
    /\ Go("searched", "fused") /\ Fine
    /\ \E kept \in SUBSET found :
         /\ \A r, s \in kept : Alike(r, s) => r = s
         /\ \A r \in found : \E s \in kept : Alike(r, s)
         /\ found' = kept

\* variant: a chunk is recognised by its content only
KeptByContent(r) == \E c \in Rows : rows[c].active /\ Available(c) /\ rows[c].hash = r.hash

\* by id, or by the content of any available chunk
Kept(r) ==
    \E c \in Rows : rows[c].active /\ Available(c) /\ (c = r.id \/ rows[c].hash = r.hash)

FilterUnavailable ==
    /\ Go("fused", "filtered")
    /\ \/ Fine /\ found' = {r \in found : Kept(r)}
       \/ Fault /\ found' = {}

\* The rows that may give a result its chunk: its own, and those of its content whose ids no
\* other result has.  The last one in the order of the database wins.
Owners(r) ==
    {c \in Rows :
        /\ rows[c].active /\ ~rows[c].deleted
        /\ options.single => rows[c].kb \in Scope
        /\ c = r.id \/ (rows[c].hash = r.hash /\ \A s \in found : s.id # c)}

ResolveMetadata ==
    /\ Go("filtered", "resolved")
    /\ \/ /\ Fine
          /\ \E owner \in [found -> Rows \cup {Orphan}] :
               /\ \A r \in found : owner[r] \in IF Owners(r) = {} THEN {r.id} ELSE Owners(r)
               /\ found' = {[r EXCEPT !.chunk = owner[r]] : r \in found}
       \/ Fault /\ UNCHANGED found

\* the chunks next to those found, whatever their index status; without a content of interest
Neighbours ==
    {d \in Rows :
        /\ Available(d)
        /\ options.single => rows[d].kb \in Scope
        /\ \E r \in found : r.chunk \in Rows /\ rows[r.chunk].kb = rows[d].kb
        /\ \A r \in found : r.chunk # d}

ExpandNeighbours ==
    /\ Go("resolved", "expanded")
    /\ \/ /\ options.neighbours /\ Fine
          /\ found' = found \cup {Entry(d, rows[d].hash) : d \in Neighbours}
       \/ options.neighbours /\ Fault /\ UNCHANGED found
       \/ ~options.neighbours /\ Fine /\ UNCHANGED found

\* variant: what is disabled was filtered before
AllowedOnceFiltered(c) ==
    /\ c \in Rows
    /\ ~rows[c].deleted /\ rows[c].kb \in Scope \cap readable

Allowed(c) ==
    /\ c \in Rows
    /\ Available(c) /\ rows[c].kb \in Scope \cap readable

\* filter_authorized_results: an error is one of the request
Authorize ==
    \/ Go("expanded", "done") /\ Fine /\ found' = {r \in found : Allowed(r.chunk)}
    \/ Go("expanded", "failed") /\ Fault /\ found' = {}

Request == Fuse \/ FilterUnavailable \/ ResolveMetadata \/ ExpandNeighbours \/ Authorize

Next ==
    \/ Request
    \/ \E c \in Rows : Toggle(c) \/ Delete(c) \/ \E d \in Rows : Supersede(c, d)
    \/ \E k \in Kbs : Share(k)

Spec == Init /\ [][Next]_vars

-----------------------------------------------------------------------------
(* Properties. *)

Evidence == {r.chunk : r \in found}

\* Whatever changes while the question is answered, whatever the indexes still hold and
\* whichever reads fail: the evidence has only chunks that the user could see at some time
\* since the question: enabled, not deleted, readable and in scope; and it shows their content,
\* or what the index holds under their own ids, never that of another chunk.
EvidenceWasVisible ==
    at = "done" => \A r \in found :
        r.chunk \in seen /\ (r.chunk = r.id \/ rows[r.chunk].hash = r.hash)

\* When nothing changes and no read fails, of each found entry and those that fusion takes for
\* near duplicates of it one is evidence, if all of them are entries of active and visible
\* chunks whose content no other active chunk has.
Settled == at = "done" /\ changes = 0 /\ faults = 0
Found(r) == r.id \in Rows /\ rows[r.id].active /\ Visible(r.id)
Sole(r) == Found(r) /\ \A d \in Rows \ {r.id} : rows[d].active => rows[d].hash # r.hash
Rivals(r) == {s \in hits : Alike(r, s)}

EvidenceSurvives ==
    Settled => \A r \in hits :
        (\A s \in Rivals(r) : Sole(s)) => \E s \in Rivals(r) : s.id \in Evidence

\* A found entry that is stale pushes no active chunk out.  Refuted: near duplicates are dropped
\* before it is known what is available, and an old version of a text is much like the new one.
StaleDoesNotHide ==
    Settled => \A r \in hits : Sole(r) => \E s \in Rivals(r) : s.id \in Evidence

\* A visible chunk with a disabled or unreadable twin is evidence as well.  Refuted: the twin
\* may take its place when the metadata are resolved, and is then refused.
TwinsDoNotHide ==
    Settled => \A r \in hits : Rivals(r) = {r} /\ Found(r) =>
        r.id \in Evidence \/ \E d \in Evidence : rows[d].hash = rows[r.id].hash

\* The evidence belongs to the active version.  Refuted: neighbours are looked up whatever
\* their index status, and an entry kept for its content may keep its inactive row.
EvidenceIsActive == Settled => \A c \in Evidence : rows[c].active
-----------------------------------------------------------------------------
(* What they rest on. *)

VisibleIsSeen == \A c \in Rows : Visible(c) => c \in seen

\* Until its metadata are resolved a result stands for its own chunk.
ResultsAreEntries == at \in {"searched", "fused", "filtered"} => \A r \in found : r.chunk = r.id

\* What a result shows is the content of its chunk, or of the index entry of that chunk.
ShownIsOfChunk ==
    \A r \in found : r.chunk = r.id \/ (r.chunk \in Rows /\ rows[r.chunk].hash = r.hash)

\* One of the near duplicates goes through every filter.
FoundGoesOn ==
    /\ at = "searched" => found = hits
    /\ changes = 0 /\ faults = 0 => \A r \in hits : (\A s \in Rivals(r) : Sole(s)) =>
          /\ at \in {"fused", "filtered"} => \E s \in Rivals(r) : s \in found
          /\ at \in {"resolved", "expanded", "done"} => \E s \in Rivals(r) : s.id \in Evidence
=============================================================================
