--------------------------- MODULE FixedWindowChunks ----------------------------
(***************************************************************************)
(* _FixedSizeChunker (ingestion/chunker.py): a text is normalized, one     *)
(* round of the loop for a step, and then cut into windows.  Characters    *)
(* are of a few kinds; "url" stands for a whole "http://" and "item" for   *)
(* the beginning of a list item, like "1.".                                *)
(***************************************************************************)
EXTENDS Integers, Sequences, FiniteSets, FiniteSetsExt, Functions

CONSTANTS MaxLength,      \* bound: of texts
          Sizes, Overlaps \* chunk_size and overlap_size

Kinds == {"url", "letter", "item", "dot", "cjk", "space", "newline"}
Blanks == {"space", "newline"}
Texts == UNION {[1 .. n -> Kinds] : n \in 0 .. MaxLength}

ChunkAssumption == MaxLength \in Nat /\ Sizes \subseteq Nat \ {0} /\ Overlaps \subseteq Nat

VARIABLES text, size, overlap, at,
          i, inUrl, out,  \* of _normalize_text
          start, windows  \* <<start, end>>: [start, end), from 0

vars == <<text, size, overlap, at, i, inUrl, out, start, windows>>

TypeOK ==
    /\ text \in Texts /\ size \in Sizes
    /\ at \in {"normalizing", "cutting", "done"}
    /\ i \in 1 .. Len(text) + 1 /\ inUrl \in BOOLEAN /\ out \in Seq(Kinds)
    /\ start \in 0 .. Len(out)

Init ==
    /\ text \in Texts /\ size \in Sizes
    /\ overlap \in {IF size > 1 THEN Min({o, size - 1}) ELSE 0 : o \in Overlaps}
    /\ at = "normalizing" /\ i = 1 /\ inUrl = FALSE /\ out = <<>>
    /\ start = 0 /\ windows = <<>>

-----------------------------------------------------------------------------
(* Normalization. *)

At(p) == IF p \in DOMAIN text THEN text[p] ELSE "none"

\* the first that is not blank
NextVisible == Min({p \in i .. Len(text) + 1 : At(p) \notin Blanks})
Newlines == {p \in i .. NextVisible - 1 : text[p] = "newline"}

\* a URL goes on after a break; the end of "http://" is a slash, a list item never continues it
JoinsUrl(prev, nxt) ==
    /\ nxt \notin {"none", "item"}
    /\ prev = "url" \/ (prev = "dot" /\ nxt \in {"letter", "cjk", "url"})

\* variant: with the blanks the character after them is passed over
BlankInUrlSkipping ==
    /\ i' = Min({NextVisible + 1, Len(text) + 1}) /\ inUrl' = FALSE
    /\ out' = out \o SubSeq(text, i, NextVisible - 1)

\* as in the for loop that this comes from: the last blank is looked at again
BlankInUrl ==
    IF Cardinality(Newlines) = 1 /\ JoinsUrl(At(i - 1), At(NextVisible))
    THEN /\ i' = NextVisible - 1 /\ inUrl' = TRUE /\ UNCHANGED out
    ELSE /\ i' = NextVisible - 1 /\ inUrl' = FALSE
         /\ out' = out \o SubSeq(text, i, NextVisible - 1)

VisibleInUrl ==
    /\ i' = i + 1 /\ inUrl' = (text[i] # "cjk") /\ out' = Append(out, text[i])

\* a line break within a Chinese word disappears
Outside ==
    /\ i' = i + 1 /\ UNCHANGED inUrl
    /\ out' = IF text[i] = "newline" /\ At(i - 1) = "cjk" /\ At(i + 1) = "cjk"
              THEN out ELSE Append(out, text[i])

Normalize ==
    /\ at = "normalizing" /\ i <= Len(text)
    /\ IF inUrl \/ text[i] = "url"
       THEN IF text[i] \in Blanks THEN BlankInUrl ELSE VisibleInUrl
       ELSE Outside
    /\ UNCHANGED <<text, size, overlap, at, start, windows>>

Normalized ==
    /\ at = "normalizing" /\ i = Len(text) + 1
    /\ at' = "cutting"
    /\ UNCHANGED <<text, size, overlap, i, inUrl, out, start, windows>>

-----------------------------------------------------------------------------
(* Windows: the text is out[1], out[2], ... at the offsets 0, 1, ... *)

TargetEnd == Min({start + size, Len(out)})

\* the ends after a character of a kind within the lookback, the last one first
EndsAfter(kind) ==
    {p \in TargetEnd - Min({overlap, TargetEnd - start}) + 1 .. TargetEnd :
        p - 1 > start /\ out[p] = kind}

\* _adjust_to_boundary: after a newline, else after a full stop before a blank or the end
Stops == {p \in EndsAfter("dot") : p = Len(out) \/ out[p + 1] \in Blanks}
Adjusted == IF EndsAfter("newline") # {} THEN Max(EndsAfter("newline"))
            ELSE IF Stops # {} THEN Max(Stops) ELSE TargetEnd

LastEnd == IF windows = <<>> THEN -1 ELSE windows[Len(windows)][2]

\* variant: nothing forces the windows on
EndUnforced == Adjusted

End == IF Adjusted <= start \/ Adjusted <= LastEnd THEN TargetEnd ELSE Adjusted

\* variant: the overlap is left out of the next window too
NextStartApart == IF End + overlap <= Len(out) THEN End + overlap ELSE Len(out)

NextStart == IF Max({0, End - overlap}) <= start THEN End ELSE Max({0, End - overlap})

Cut ==
    /\ at = "cutting" /\ start < Len(out)
    /\ windows' = Append(windows, <<start, End>>)
    /\ start' = NextStart
    /\ at' = IF End >= Len(out) THEN "done" ELSE "cutting"
    /\ UNCHANGED <<text, size, overlap, i, inUrl, out>>

NothingToCut ==
    /\ at = "cutting" /\ start >= Len(out) /\ at' = "done"
    /\ UNCHANGED <<text, size, overlap, i, inUrl, out, start, windows>>

Next == Normalize \/ Normalized \/ Cut \/ NothingToCut

\* a loop goes on
Spec == Init /\ [][Next]_vars /\ WF_vars(Next)

-----------------------------------------------------------------------------
(* Properties. *)

Visible(s) ==
    LET seen[n \in 0 .. Len(s)] ==
            IF n = 0 THEN <<>>
            ELSE IF s[n] \in Blanks THEN seen[n - 1] ELSE Append(seen[n - 1], s[n])
    IN seen[Len(s)]

\* Whatever is joined or repeated: normalization keeps all that is visible, in its order.
NormalizationKeepsText == Visible(out) = Visible(SubSeq(text, 1, i - 1))

\* The windows leave out nothing, none is longer than asked for or within another, and no two
\* neighbours share more than the overlap.
WindowsCoverText == at = "done" =>
    /\ \A p \in 0 .. Len(out) - 1 : \E w \in Range(windows) : w[1] <= p /\ p < w[2]
    /\ \A w \in Range(windows) : w[1] < w[2] /\ w[2] - w[1] <= size
    /\ \A k \in 1 .. Len(windows) - 1 :
         /\ windows[k][1] < windows[k + 1][1] /\ windows[k][2] < windows[k + 1][2]
         /\ windows[k][2] - windows[k + 1][1] <= overlap

\* A text without URLs is cut to the end: every round of the two loops comes nearer to it.
RoundAdvances == "url" \notin Range(text) => at' # at \/ i' > i \/ start' > start
RoundsAdvance == [][RoundAdvances]_vars

\* "normalize: fix broken URLs".  Refuted: at a line break within a URL the loop stays for ever.
EveryTextIsChunked == <>(at = "done")
-----------------------------------------------------------------------------
(* What they rest on. *)

WindowTypes ==
    /\ text \in Seq(Kinds) /\ out \in Seq(Kinds)
    /\ size \in Nat \ {0} /\ overlap \in 0 .. size - 1
    /\ at \in {"normalizing", "cutting", "done"}
    /\ i \in 1 .. Len(text) + 1 /\ inUrl \in BOOLEAN
    /\ start \in Nat /\ windows \in Seq(Nat \X Nat)

\* Outside URLs the loop of the normalization looks at every character once.
NoUrlIsEntered == "url" \notin Range(text) => ~inUrl

\* The next window starts behind the start of the last one and, but for the overlap, at its end.
NextIsClose ==
    /\ windows = <<>> => start = 0
    /\ windows # <<>> =>
          /\ windows[Len(windows)][1] < start /\ start <= LastEnd
          /\ LastEnd - start <= overlap /\ LastEnd <= Len(out)
    /\ at = "normalizing" => windows = <<>>
    /\ at = "cutting" => LastEnd < Len(out)
    /\ at = "done" => LastEnd >= Len(out) \/ Len(out) = 0

\* So far the windows are as they should be in the end.
CoveredSoFar == \A p \in 0 .. LastEnd - 1 : \E w \in Range(windows) : w[1] <= p /\ p < w[2]
SizesSoFar == \A w \in Range(windows) : w[1] < w[2] /\ w[2] - w[1] <= size
NeighboursSoFar == \A k \in 1 .. Len(windows) - 1 :
    /\ windows[k][1] < windows[k + 1][1] /\ windows[k][2] < windows[k + 1][2]
    /\ windows[k][2] - windows[k + 1][1] <= overlap

WindowInv ==
    /\ WindowTypes /\ NoUrlIsEntered /\ NextIsClose
    /\ CoveredSoFar /\ SizesSoFar /\ NeighboursSoFar
=============================================================================
