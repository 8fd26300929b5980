--------------------------- MODULE ContextSelection ---------------------------
(***************************************************************************)
(* The token budget of the evidence (rag/pipeline.py) and select_context   *)
(* (rag/governance.py), which takes the ranked candidates in falling order *)
(* of their scores while they fit, and then gives every knowledge base its *)
(* quota, in place of the weakest candidates of those that have more.      *)
(***************************************************************************)
EXTENDS Integers, Sequences, FiniteSets, FiniteSetsExt, Functions

CONSTANTS
    Candidates, \* numbers: the score of a candidate, all different
    Kbs,
    Sizes,      \* tokens of a candidate
    MaxTokens,  \* context_max_tokens
    MaxChars,   \* context_max_chars, in tokens
    Window,     \* llm_context_window_tokens
    Reserves,   \* tokens of question, history, memories and the answer
    PerChunk,   \* the tokens a chunk is expected to have
    TopK,       \* final_top_k
    Quotas,     \* retrieval_kb_min_quota, 0 for none
    None        \* the knowledge base of a neighbour: its metadata name none

SelectionAssumption ==
    /\ Candidates \subseteq Nat /\ IsFiniteSet(Candidates) /\ Sizes \subseteq Nat \ {0}
    /\ MaxTokens \in Nat /\ MaxChars \in Nat /\ Window \in Nat /\ Reserves \subseteq Nat
    /\ PerChunk \in Nat /\ TopK \in Nat \ {0} /\ Quotas \subseteq Nat
    /\ None \notin Kbs

VARIABLES
    eligible, \* those that reach the threshold
    kb, size, quota, reserved,
    selected  \* the result, or the empty tuple before it is computed

vars == <<eligible, kb, size, quota, reserved, selected>>

\* the i-th is the one that i - 1 others are above, or below
Falling(S) ==
    [i \in 1 .. Cardinality(S) |-> CHOOSE c \in S : Cardinality({d \in S : d > c}) = i - 1]
Rising(S) ==
    [i \in 1 .. Cardinality(S) |-> CHOOSE c \in S : Cardinality({d \in S : d < c}) = i - 1]
Tokens(S) == MapThenSumSet(LAMBDA c : size[c], S)
CountOf(k, S) == Cardinality({c \in S : kb[c] = k})
KbsOf(S) == {kb[c] : c \in S} \ {None}
Neighbours(S) == {c \in S : kb[c] = None}

Smaller(a, b) == IF a < b THEN a ELSE b
Larger(a, b) == IF a < b THEN b ELSE a

\* variant: grown to TopK chunks after the window has been looked at
TokenBudgetGrown ==
    Larger(Larger(1, Smaller(MaxTokens, Window - reserved)), TopK * PerChunk)

\* grown to TopK chunks, but never beyond what the window leaves
TokenBudget ==
    Smaller(Larger(Larger(1, Smaller(MaxTokens, Window - reserved)), TopK * PerChunk),
            Window - reserved)

\* A budget that is not positive means that characters are counted instead.
Fits(S, c) == Tokens(S) + size[c] <= IF TokenBudget > 0 THEN TokenBudget ELSE MaxChars

\* a candidate that does not fit is passed over, smaller ones after it are taken
Take(S, c) == IF Cardinality(S) < TopK /\ Fits(S, c) THEN S \cup {c} ELSE S

FirstFit ==
    LET ranked == Falling(eligible)
        taken[n \in 0 .. Len(ranked)] == IF n = 0 THEN {} ELSE Take(taken[n - 1], ranked[n])
    IN taken[Len(ranked)]

\* The candidates a knowledge base lacks, the best first, and those it may replace, the
\* weakest first: both are listed once, before the replacements.
Lacking(k, S) == quota - CountOf(k, S)
Backfill(k, S) ==
    LET more == Falling({c \in eligible \ S : kb[c] = k})
    IN SubSeq(more, 1, IF Lacking(k, S) < Len(more) THEN Lacking(k, S) ELSE Len(more))
\* variant: of every other knowledge base
EvictableAny(k, S) == Rising({c \in S : kb[c] # k})

\* neighbours are not counted, and never replaced
Evictable(k, S) == Rising({c \in S : kb[c] # None /\ CountOf(kb[c], S) > quota})

\* The i-th candidate replaces the i-th victim; with nothing left to replace it is added.
Fill(S, k) ==
    IF Lacking(k, S) <= 0 THEN S
    ELSE LET fills == Backfill(k, S)
             victims == Evictable(k, S)
         IN (S \ {victims[i] : i \in DOMAIN fills \cap DOMAIN victims}) \cup Range(fills)

\* The knowledge bases are a Python set: their order is any.
SelectContext(order) ==
    LET served[n \in 0 .. Len(order)] ==
            IF n = 0 THEN FirstFit ELSE Fill(served[n - 1], order[n])
    IN IF quota > 0 /\ Len(order) > 1 THEN served[Len(order)] ELSE FirstFit

Init ==
    /\ eligible \in SUBSET Candidates
    /\ kb \in [eligible -> Kbs \cup {None}]
    /\ size \in [eligible -> Sizes]
    /\ quota \in Quotas
    /\ reserved \in Reserves
    /\ selected = <<>>

Select ==
    /\ selected = <<>>
    /\ \E order \in Bijection(1 .. Cardinality(KbsOf(eligible)), KbsOf(eligible)) :
         selected' = <<Falling(SelectContext(order))>>
    /\ UNCHANGED <<eligible, kb, size, quota, reserved>>

Next == Select
Spec == Init /\ [][Next]_vars

-----------------------------------------------------------------------------
(* Properties of a selection. *)

Chosen == Range(selected[1])

\* Without quotas, and unless the reserved tokens fill the window alone, the prompt fits into
\* the window; and nothing is left out for something worse, unless it did not fit next to
\* what is better.
BudgetIsKept ==
    selected # <<>> /\ quota = 0 =>
        /\ Cardinality(Chosen) <= TopK
        /\ reserved < Window => reserved + Tokens(Chosen) <= Window
        /\ Cardinality(Chosen) < TopK => \A c \in eligible \ Chosen :
              ~Fits({d \in Chosen : d > c}, c)

\* With a quota of one every one of several knowledge bases that have an eligible candidate is
\* heard, in whatever order they are served and even where nothing of it fits; and where the
\* quotas of all fit into final_top_k, next to the neighbours that are taken, so does the context.
QuotaIsKept ==
    selected # <<>> /\ quota > 0 =>
        /\ quota = 1 /\ Cardinality(KbsOf(eligible)) > 1 => KbsOf(Chosen) = KbsOf(eligible)
        /\ quota * Cardinality(KbsOf(eligible)) + Cardinality(Neighbours(Chosen)) <= TopK
              => Cardinality(Chosen) <= TopK

\* The same for the quotas alone.  Refuted: neighbours that fill the context are replaced by
\* nobody, and what a quota asks for is added to them.
QuotasFit ==
    selected # <<>> /\ quota > 0 /\ quota * Cardinality(KbsOf(eligible)) <= TopK
        => Cardinality(Chosen) <= TopK

\* The comment in select_context: "This keeps the total count within final_top_k (no
\* token-budget overflow)".  Refuted: what replaces may be longer, and what finds nothing to
\* replace is added.
ContextFits ==
    selected # <<>> =>
        /\ Cardinality(Chosen) <= TopK
        /\ reserved < Window => reserved + Tokens(Chosen) <= Window

\* The comment at the budget: "Never exceed the LLM context window minus already-reserved
\* space."  Refuted: a budget below zero switches to characters.
WindowIsKept == selected # <<>> => Tokens(Chosen) <= Larger(0, Window - reserved)

\* Every knowledge base has its quota, as far as it has candidates.  Refuted for a quota of
\* two: the list of what may be replaced is not looked at again.
EveryKbHeard ==
    selected # <<>> /\ quota > 0 /\ Cardinality(KbsOf(eligible)) > 1 =>
        \A k \in KbsOf(eligible) :
            CountOf(k, Chosen) >= quota \/ \A c \in eligible : kb[c] = k => c \in Chosen
-----------------------------------------------------------------------------
(* What they rest on. *)

SelectionTypes ==
    /\ eligible \subseteq Candidates /\ kb \in [eligible -> Kbs \cup {None}]
    /\ size \in [eligible -> Sizes] /\ quota \in Quotas /\ reserved \in Reserves

\* What has been selected is what the inputs make it, for some order of the knowledge bases.
SelectionInv ==
    /\ SelectionTypes
    /\ selected # <<>> =>
          \E order \in Bijection(1 .. Cardinality(KbsOf(eligible)), KbsOf(eligible)) :
             selected = <<Falling(SelectContext(order))>>
=============================================================================
