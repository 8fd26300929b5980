--------------------------- MODULE SemanticExtraction ---------------------------
(***************************************************************************)
(* extract_and_store_semantic_graph (rag/graph/semantic_extractor.py): the *)
(* chunks of a document are put to a model in batches, with a fallback to  *)
(* other providers; what the answers claim is checked against the chunks,  *)
(* and stored when every batch has been answered.  A text is the set of    *)
(* the names in it; evidence is a piece of text.                           *)
(***************************************************************************)
EXTENDS Naturals, Sequences, FiniteSets

CONSTANTS Batches,   \* sequence of sets of chunks
          Providers, \* 1 .. n
          Source, Target, \* the names
          Asked,     \* bound: chunks that an answer refers to
          None

Names == {Source, Target}
Chunks == UNION {Batches[i] : i \in DOMAIN Batches}

ExtractionAssumption ==
    /\ Batches \in Seq(SUBSET Nat) /\ Providers = 1 .. Cardinality(Providers) /\ IsFiniteSet(Providers)
    /\ Asked \subseteq Nat /\ Source # Target

VARIABLES
    text,     \* of each chunk
    at, batch, provider,
    disabled, \* providers that have refused the key
    entities, relations,  \* of the batches so far
    stored    \* what the graph store is given, or None

vars == <<text, at, batch, provider, disabled, entities, relations, stored>>

TypeOK ==
    /\ text \in [Chunks -> SUBSET Names] /\ at \in {"asking", "stored", "raised"}
    /\ batch \in 1 .. Len(Batches) + 1 /\ provider \in Providers \cup {Cardinality(Providers) + 1}
    /\ disabled \subseteq Providers
    /\ entities \in [Names -> Chunks \cup {None}]

Init ==
    /\ text \in [Chunks -> SUBSET Names]
    /\ at = "asking" /\ batch = 1 /\ provider = 1 /\ disabled = {}
    /\ entities = [n \in Names |-> None] /\ relations = {} /\ stored = None

-----------------------------------------------------------------------------
(* validate_extraction: what a model may claim, and what is kept of it. *)

Evidence == SUBSET Names \ {{}}
Relation(c, e) == [source |-> Source, target |-> Target, chunk |-> c, evidence |-> e]
\* names with a chunk, in any of the allowed types, and a relation between them
Answers == [entities : [Names -> Asked \cup {None}],
            relations : {{}} \cup {{Relation(c, e)} : c \in Asked, e \in Evidence}]

\* an unknown chunk is looked for in the batch
Candidates(c, i) == IF c \in Batches[i] THEN {c} ELSE Batches[i]
Matches(answer, n, i) ==
    {c \in Candidates(answer.entities[n], i) : answer.entities[n] # None /\ n \in text[c]}

\* the first chunk with the name
Matched(answer, i) ==
    [n \in Names |-> IF Matches(answer, n, i) = {} THEN None
                     ELSE CHOOSE c \in Matches(answer, n, i) : \A d \in Matches(answer, n, i) : c <= d]

\* variant: the evidence may be of any chunk of the batch
IsEvidencedSomewhere(r, i) ==
    /\ \E c \in Batches[i] : r.evidence \subseteq text[c]
    /\ {r.source, r.target} \subseteq r.evidence

\* a quotation of its chunk that names both ends
IsEvidenced(r, i) ==
    /\ r.chunk \in Batches[i] /\ r.evidence \subseteq text[r.chunk]
    /\ {r.source, r.target} \subseteq r.evidence

Validated(answer, i) ==
    {r \in answer.relations : /\ Matched(answer, i)[r.source] # None
                              /\ Matched(answer, i)[r.target] # None
                              /\ IsEvidenced(r, i)}

-----------------------------------------------------------------------------
(* The calls. *)

Asking == at = "asking" /\ batch <= Len(Batches) /\ provider \in Providers

\* an entity that an earlier batch has seen stays as it is
First(known, new) == IF known # None THEN known ELSE new

Answered ==
    /\ Asking /\ provider \notin disabled
    /\ \E answer \in Answers :
         /\ entities' = [n \in Names |-> First(entities[n], Matched(answer, batch)[n])]
         /\ relations' = relations \cup Validated(answer, batch)
    /\ batch' = batch + 1 /\ provider' = 1
    /\ UNCHANGED <<text, at, disabled, stored>>

\* an error, a timeout or an answer that is no JSON: the next provider
ProviderFails ==
    /\ Asking /\ provider \notin disabled
    /\ provider' = provider + 1
    /\ disabled' \in {disabled, disabled \cup {provider}}
    /\ UNCHANGED <<text, at, batch, entities, relations, stored>>

SkipDisabled ==
    /\ Asking /\ provider \in disabled
    /\ provider' = provider + 1
    /\ UNCHANGED <<text, at, batch, disabled, entities, relations, stored>>

\* variant: what there is so far is stored
StorePart ==
    /\ at = "asking" /\ provider \notin Providers
    /\ at' = "stored" /\ stored' = [entities |-> entities, relations |-> relations]
    /\ UNCHANGED <<text, batch, provider, disabled, entities, relations>>

\* no provider has answered: the graph stays as it was
Raise ==
    /\ at = "asking" /\ provider \notin Providers
    /\ at' = "raised"
    /\ UNCHANGED <<text, batch, provider, disabled, entities, relations, stored>>

Store ==
    /\ at = "asking" /\ batch > Len(Batches)
    /\ at' = "stored" /\ stored' = [entities |-> entities, relations |-> relations]
    /\ UNCHANGED <<text, batch, provider, disabled, entities, relations>>

Next == Answered \/ ProviderFails \/ SkipDisabled \/ Raise \/ Store

Spec == Init /\ [][Next]_vars

-----------------------------------------------------------------------------
(* Properties. *)

\* Whatever the models claim, and whichever provider answers which batch: what is stored is in
\* the chunks it refers to, a relation is between entities that are stored, and every batch has
\* been answered.
StoredIsGrounded == stored # None =>
    /\ batch > Len(Batches)
    /\ \A n \in Names : stored.entities[n] # None => n \in text[stored.entities[n]]
    /\ \A r \in stored.relations :
         /\ r.evidence \subseteq text[r.chunk]
         /\ stored.entities[r.source] # None /\ stored.entities[r.target] # None
-----------------------------------------------------------------------------
(* What they rest on. *)

\* The same of the batches that have been answered so far.
SoFarIsGrounded ==
    /\ \A n \in Names : entities[n] # None => n \in text[entities[n]]
    /\ \A r \in relations :
         /\ r.source \in Names /\ r.target \in Names /\ r.evidence \subseteq text[r.chunk]
         /\ entities[r.source] # None /\ entities[r.target] # None

StoredAtTheEnd == stored # None =>
    /\ at = "stored" /\ batch > Len(Batches)
    /\ stored = [entities |-> entities, relations |-> relations]
=============================================================================
