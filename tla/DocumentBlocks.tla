----------------------------- MODULE DocumentBlocks -----------------------------
(***************************************************************************)
(* The chunkers that look at the lines of a document (ingestion/           *)
(* chunker.py): BLOCK_AWARE, and SEMANTIC, which groups paragraphs by      *)
(* their similarity and leaves a text of one paragraph to                  *)
(* _StructureAwareChunker.  A text is a sequence of kinds of lines, and    *)
(* sizes count lines.                                                      *)
(***************************************************************************)
EXTENDS Integers, Sequences, FiniteSets, FiniteSetsExt, Functions

CONSTANTS MaxLines,                      \* bound: of texts
          Targets, MinSize, MaxSize,     \* target_chars, min_chars and max_chars
          TableRows, CodeLines, ListItems, \* the most in a chunk
          PathDepth                      \* headings in a path: 4

\* "rule" is a separator of table columns without the outer bars; for SEMANTIC what belongs to
\* tables and lists is text
Kinds(m) == {"fence", "blank", "heading", "image", "text"}
            \cup (IF m = "blocks" THEN {"row", "sep", "rule", "item"} ELSE {})
Texts(m) == UNION {[1 .. n -> Kinds(m)] : n \in 0 .. MaxLines}

BlockAssumption ==
    /\ {MaxLines, MinSize, MaxSize} \subseteq Nat
    /\ {TableRows, CodeLines, ListItems, PathDepth} \cup Targets \subseteq Nat \ {0}

VARIABLES lines, mode, target, at,
          pos, open, from, blocks, \* the scan
          next, path, chunks,      \* blocks or paragraphs done, the headings, and what comes out
          buffer, packed           \* of _pack_chunks

vars == <<lines, mode, target, at, pos, open, from, blocks, next, path, chunks, buffer, packed>>
textVars == <<lines, mode, target>>
scanVars == <<pos, open, from, blocks>>
packVars == <<next, path, chunks, buffer, packed>>

ChunkTypes == {"para", "code", "table", "list", "image", "SEMANTIC", "SECTION"}
Chunk == [lines : Seq(Nat), type : ChunkTypes, path : Seq(Nat)]

TypeOK ==
    /\ mode \in {"blocks", "semantic"} /\ target \in Targets
    /\ lines \in Texts(mode)
    /\ at \in {"grouping", "scanning", "cutting", "packing", "done"}
    /\ open \in {"none", "para", "code", "table"} /\ pos \in 1 .. Len(lines) + 1
    /\ chunks \in Seq(Chunk) /\ packed \in Seq(Chunk)

NotBlank == {p \in DOMAIN lines : lines[p] # "blank"}

\* runs of lines that are not blank
Paragraphs == {r \in NotBlank \X NotBlank :
                 /\ r[1] <= r[2] /\ r[1] .. r[2] \subseteq NotBlank
                 /\ r[1] - 1 \notin NotBlank /\ r[2] + 1 \notin NotBlank}

Init ==
    /\ mode \in {"blocks", "semantic"} /\ target \in Targets
    /\ lines \in Texts(mode) /\ NotBlank # {}
    /\ at = IF mode = "semantic" /\ Cardinality(Paragraphs) > 1 THEN "grouping" ELSE "scanning"
    /\ pos = 1 /\ open = "none" /\ from = 0 /\ blocks = <<>>
    /\ next = 1 /\ path = <<>> /\ chunks = <<>> /\ buffer = <<>> /\ packed = <<>>

LinesOf(a, b) == [k \in 1 .. b - a + 1 |-> a + k - 1]
\* the lines of a set in their order: the i-th is the one that i - 1 others are before
Rising(S) ==
    [i \in 1 .. Cardinality(S) |-> CHOOSE c \in S : Cardinality({d \in S : d < c}) = i - 1]
Piece(s, type) == [lines |-> s, type |-> type, path |-> path]
LinesIn(cs) ==
    LET upto[n \in 0 .. Len(cs)] == IF n = 0 THEN <<>> ELSE upto[n - 1] \o cs[n].lines
    IN upto[Len(cs)]

-----------------------------------------------------------------------------
(* chunk_semantic: a paragraph joins the group unless that is full, or long enough and the   *)
(* two embeddings differ.                                                                    *)

Paragraph ==
    CHOOSE r \in Paragraphs : Cardinality({q \in Paragraphs : q[1] < r[1]}) = next - 1
Largest == target + target \div 2

Group ==
    /\ at = "grouping" /\ next <= Cardinality(Paragraphs)
    /\ \E alike \in BOOLEAN :
         LET part == LinesOf(Paragraph[1], Paragraph[2])
             size == IF chunks = <<>> THEN 0 ELSE Len(chunks[Len(chunks)].lines)
             boundary == (size >= target /\ ~alike) \/ size + Len(part) > Largest
         IN chunks' = IF chunks = <<>> \/ boundary
                      THEN Append(chunks, Piece(part, "SEMANTIC"))
                      ELSE [chunks EXCEPT ![Len(chunks)].lines = @ \o part]
    /\ next' = next + 1
    /\ UNCHANGED <<textVars, at, scanVars, path, buffer, packed>>

Grouped ==
    /\ at = "grouping" /\ next > Cardinality(Paragraphs)
    /\ at' = "done" /\ packed' = chunks
    /\ UNCHANGED <<textVars, scanVars, next, path, chunks, buffer>>

-----------------------------------------------------------------------------
(* The scan for blocks, _parse_blocks and _segment_to_blocks: a line in each step. *)

Block(k, a, b) == [kind |-> k, from |-> a, to |-> b]
Closed == IF open = "none" THEN blocks ELSE Append(blocks, Block(open, from, pos - 1))
Line == lines[pos]
Scans(kinds) == at = "scanning" /\ pos <= Len(lines) /\ Line \in kinds
Free == open \in {"none", "para"}

\* the list ends before a line that is neither an item nor a blank with an item after it
ListEnd == Min({p \in pos .. Len(lines) + 1 :
                  \/ p = Len(lines) + 1
                  \/ lines[p] # "item" /\ lines[p] # "blank"
                  \/ p > pos /\ lines[p - 1] = "blank" /\ lines[p] # "item"})

Fence ==
    /\ Scans({"fence"})
    /\ pos' = pos + 1
    /\ IF open = "code"
       THEN /\ blocks' = Append(blocks, Block("code", from, pos))
            /\ open' = "none" /\ UNCHANGED from
       ELSE blocks' = Closed /\ open' = "code" /\ from' = pos
    /\ UNCHANGED <<textVars, at, packVars>>

InCode ==
    /\ Scans(Kinds(mode) \ {"fence"}) /\ open = "code"
    /\ pos' = pos + 1
    /\ UNCHANGED <<textVars, at, open, from, blocks, packVars>>

\* blank lines do not end a table; what does is looked at again
InTable ==
    /\ Scans(Kinds(mode) \ {"fence"}) /\ open = "table"
    /\ IF Line \in {"row", "sep", "blank"}
       THEN pos' = pos + 1 /\ UNCHANGED <<blocks, open>>
       ELSE blocks' = Closed /\ open' = "none" /\ UNCHANGED pos
    /\ UNCHANGED <<textVars, at, from, packVars>>

\* a line that begins a table, ends a paragraph, stands alone, begins a list, or is text
StartTable ==
    /\ Scans({"row", "sep", "rule"}) /\ Free
    /\ blocks' = Closed /\ open' = "table" /\ from' = pos /\ pos' = pos + 1
    /\ UNCHANGED <<textVars, at, packVars>>

Blank ==
    /\ Scans({"blank"}) /\ Free
    /\ blocks' = Closed /\ open' = "none" /\ pos' = pos + 1
    /\ UNCHANGED <<textVars, at, from, packVars>>

Single ==
    /\ Scans({"heading", "image"}) /\ Free
    /\ blocks' = Append(Closed, Block(Line, pos, pos)) /\ open' = "none" /\ pos' = pos + 1
    /\ UNCHANGED <<textVars, at, from, packVars>>

List ==
    /\ Scans({"item"}) /\ Free
    /\ blocks' = Append(Closed, Block("list", pos, ListEnd - 1)) /\ open' = "none"
    /\ pos' = ListEnd
    /\ UNCHANGED <<textVars, at, from, packVars>>

Text ==
    /\ Scans({"text"}) /\ Free
    /\ from' = (IF open = "para" THEN from ELSE pos) /\ open' = "para" /\ pos' = pos + 1
    /\ UNCHANGED <<textVars, at, blocks, packVars>>

\* variant: a paragraph or a table at the end of the document is forgotten
FlushCode ==
    /\ at = "scanning" /\ pos > Len(lines)
    /\ blocks' = (IF open = "code" THEN Closed ELSE blocks)
    /\ at' = "cutting" /\ open' = "none"
    /\ UNCHANGED <<textVars, pos, from, packVars>>

Flush ==
    /\ at = "scanning" /\ pos > Len(lines)
    /\ blocks' = Closed /\ at' = "cutting" /\ open' = "none"
    /\ UNCHANGED <<textVars, pos, from, packVars>>

-----------------------------------------------------------------------------
(* _StructureAwareChunker. *)

\* _coalesce_trailing_blanks: where nothing but blanks lies between two blocks the earlier one
\* grows up to the later one, which is not kept
Coalesced ==
    LET kept[i \in 0 .. Len(blocks)] ==
          IF i = 0 THEN <<>>
          ELSE LET before == kept[i - 1] IN
               IF before # <<>> /\ NotBlank \cap
                       before[Len(before)].to + 1 .. blocks[i].from - 1 = {}
               THEN [before EXCEPT ![Len(before)].to = blocks[i].from - 1]
               ELSE Append(before, blocks[i])
    IN kept[Len(blocks)]

\* the last block of the range that begins with block i
LastInRange(bs, i) ==
    LET over == {j \in i + 1 .. Len(bs) : bs[j].to - bs[i].from + 1 > MaxSize} IN
    IF over = {} THEN Len(bs)
    ELSE IF bs[Min(over) - 1].to - bs[i].from + 1 < MinSize THEN Min(over) ELSE Min(over) - 1

Size(c) == Len(c.lines) + (IF c.path = <<>> THEN 0 ELSE 1)

TakeRange ==
    /\ at = "cutting" /\ mode = "semantic" /\ next <= Len(Coalesced)
    /\ LET last == LastInRange(Coalesced, next) IN
         /\ chunks' = Append(chunks, Piece(LinesOf(Coalesced[next].from, Coalesced[last].to),
                                           "SECTION"))
         /\ next' = last + 1
    /\ UNCHANGED <<textVars, at, scanVars, path, buffer, packed>>

\* a small last one goes to the one before it, with what was dropped between them
LastRange ==
    /\ at = "cutting" /\ mode = "semantic" /\ next > Len(Coalesced)
    /\ at' = "done"
    /\ LET previous == chunks[Len(chunks) - 1].lines[1]
           last == chunks[Len(chunks)]
           end == last.lines[Len(last.lines)]
       IN packed' =
            IF /\ Len(chunks) > 1
               /\ Size(last) < Min({MinSize, target \div 2})
               /\ end - previous + 1 <= 2 * MaxSize
            THEN Append(SubSeq(chunks, 1, Len(chunks) - 2), Piece(LinesOf(previous, end), "SECTION"))
            ELSE chunks
    /\ UNCHANGED <<textVars, scanVars, next, path, chunks, buffer>>

-----------------------------------------------------------------------------
(* _BlockAwareChunker: a chunker for each kind of block. *)

Split(s, n) == [k \in 1 .. (Len(s) + n - 1) \div n |->
                  SubSeq(s, (k - 1) * n + 1, Min({k * n, Len(s)}))]

OfKinds(b, kinds) == {p \in b.from .. b.to : lines[p] \in kinds}
Rules(b) == OfKinds(b, {"sep", "rule"})

HeaderOf(b) ==
    Rising({p \in OfKinds(b, {"row"}) : Rules(b) = {} \/ p < Min(Rules(b))})
DataOf(b) ==
    Rising({p \in OfKinds(b, {"row"}) : Rules(b) # {} /\ p > Min(Rules(b))})

\* variant: only the first chunk of a table is preceded by its header
TablePiecesOnce(b) ==
    IF DataOf(b) = <<>> THEN <<LinesOf(b.from, b.to)>>
    ELSE [k \in DOMAIN Split(DataOf(b), TableRows) |->
            (IF k = 1 THEN HeaderOf(b) \o <<Max(Rules(b))>> ELSE <<>>)
            \o Split(DataOf(b), TableRows)[k]]

\* the rows after the first separator, the header and the last separator before each of them
TablePieces(b) ==
    IF DataOf(b) = <<>> THEN <<LinesOf(b.from, b.to)>>
    ELSE [k \in DOMAIN Split(DataOf(b), TableRows) |->
            HeaderOf(b) \o <<Max(Rules(b))>> \o Split(DataOf(b), TableRows)[k]]

CodePieces(b) == Split(LinesOf(b.from, b.to), CodeLines)

ListPieces(b) ==
    IF Cardinality(OfKinds(b, {"item"})) <= ListItems THEN <<LinesOf(b.from, b.to)>>
    ELSE Split(Rising(OfKinds(b, {"item"})), ListItems)

\* a paragraph ends a chunk at some sentence or line from target to max, or at target
ParaPieces(b) ==
    IF b.to - b.from + 1 <= MaxSize THEN {<<LinesOf(b.from, b.to)>>}
    ELSE {[k \in DOMAIN ends |-> LinesOf(IF k = 1 THEN b.from ELSE ends[k - 1] + 1, ends[k])] :
            ends \in {e \in {Rising(S \cup {b.to}) : S \in SUBSET (b.from .. b.to)} :
                        \A k \in DOMAIN e :
                          LET n == e[k] - (IF k = 1 THEN b.from - 1 ELSE e[k - 1]) IN
                          n <= Max({target, MaxSize}) /\ (e[k] # b.to => n >= target)}}

PiecesOf(b) ==
    CASE b.kind = "table" -> {TablePieces(b)}
      [] b.kind = "code" -> {CodePieces(b)}
      [] b.kind = "list" -> {ListPieces(b)}
      [] b.kind = "image" -> {<<LinesOf(b.from, b.to)>>}
      [] OTHER -> ParaPieces(b)

\* a heading joins the path, whatever its level
Dispatch ==
    /\ at = "cutting" /\ mode = "blocks" /\ next <= Len(blocks)
    /\ LET b == blocks[next] IN
         IF b.kind = "heading"
         THEN /\ path' = (IF Len(path) = PathDepth THEN Append(Tail(path), b.from)
                          ELSE Append(path, b.from))
              /\ UNCHANGED chunks
         ELSE /\ \E pieces \in PiecesOf(b) :
                   chunks' = chunks \o [k \in DOMAIN pieces |-> Piece(pieces[k], b.kind)]
              /\ UNCHANGED path
    /\ next' = next + 1
    /\ UNCHANGED <<textVars, at, scanVars, buffer, packed>>

Dispatched ==
    /\ at = "cutting" /\ mode = "blocks" /\ next > Len(blocks)
    /\ IF Len(chunks) <= 1 THEN at' = "done" /\ packed' = chunks
                           ELSE at' = "packing" /\ UNCHANGED packed
    /\ next' = 1
    /\ UNCHANGED <<textVars, scanVars, path, chunks, buffer>>

-----------------------------------------------------------------------------
(* _pack_chunks: small chunks of text are put together. *)

Mergeable == {"para", "list", "image"}

SizeOf(cs) ==
    LET upto[n \in 0 .. Len(cs)] == IF n = 0 THEN 0 ELSE upto[n - 1] + Size(cs[n])
    IN upto[Len(cs)]

CommonPath(cs) ==
    SubSeq(cs[1].path, 1, Max({n \in 0 .. Len(cs[1].path) : \A c \in Range(cs) :
        n <= Len(c.path) /\ SubSeq(c.path, 1, n) = SubSeq(cs[1].path, 1, n)}))

Merged(cs) ==
    IF Len(cs) = 1 THEN cs[1]
    ELSE [lines |-> LinesIn(cs),
          type |-> IF \A c \in Range(cs) : c.type = cs[1].type THEN cs[1].type ELSE "para",
          path |-> CommonPath(cs)]

Out(cs) == IF cs = <<>> THEN packed ELSE Append(packed, Merged(cs))

\* variant: an atomic chunk passes the ones that wait before it
PackPassing ==
    /\ at = "packing" /\ next <= Len(chunks)
    /\ LET c == chunks[next] IN
         IF c.type \notin Mergeable THEN packed' = Append(packed, c) /\ UNCHANGED buffer
         ELSE packed' = packed /\ buffer' = Append(buffer, c)
    /\ next' = next + 1
    /\ UNCHANGED <<textVars, at, scanVars, path, chunks>>

Pack ==
    /\ at = "packing" /\ next <= Len(chunks)
    /\ LET c == chunks[next]
           more == Append(buffer, c)
       IN IF c.type \notin Mergeable \/ Size(c) >= MinSize
          THEN packed' = Append(Out(buffer), c) /\ buffer' = <<>>
          ELSE IF buffer # <<>> /\ SizeOf(more) >= MinSize
          THEN packed' = Out(more) /\ buffer' = <<>>
          ELSE packed' = packed /\ buffer' = more
    /\ next' = next + 1
    /\ UNCHANGED <<textVars, at, scanVars, path, chunks>>

Packed ==
    /\ at = "packing" /\ next > Len(chunks)
    /\ packed' = Out(buffer) /\ buffer' = <<>> /\ at' = "done"
    /\ UNCHANGED <<textVars, scanVars, next, path, chunks>>

Next ==
    \/ Group \/ Grouped
    \/ Fence \/ InCode \/ InTable \/ StartTable \/ Blank \/ Single \/ List \/ Text \/ Flush
    \/ TakeRange \/ LastRange
    \/ Dispatch \/ Dispatched \/ Pack \/ Packed

Spec == Init /\ [][Next]_vars

-----------------------------------------------------------------------------
(* Properties. *)

\* headings and the separators of tables do not count, and the header of a table is repeated
Repeated(p) == \E b \in Range(blocks) : b.kind = "table" /\ p \in Range(HeaderOf(b))
Counts(p) == lines[p] \notin {"blank", "heading", "sep", "rule"} /\ ~Repeated(p)

\* Blocks: every line that counts is in one chunk, in the order of the text, and the rows of a
\* table have its header before them.
BlocksKeepText == at = "done" /\ mode = "blocks" =>
    /\ LET kept == LinesIn(packed) IN
         /\ {p \in DOMAIN lines : Counts(p)} \subseteq Range(kept)
         /\ \A i, j \in DOMAIN kept :
              i < j /\ Counts(kept[i]) /\ Counts(kept[j]) => kept[i] < kept[j]
    /\ \A b \in Range(blocks) : b.kind = "table" =>
         \A c \in Range(packed) :
           Range(c.lines) \cap (b.from .. b.to) # {} => Range(HeaderOf(b)) \subseteq Range(c.lines)

\* Blocks: tables and code stay apart, no chunk is above the bounds of its kind, and its path
\* names headings before it.
BlocksFit == at = "done" /\ mode = "blocks" =>
    \A c \in Range(packed) :
      /\ c.type = "code" => Len(c.lines) <= CodeLines
      /\ c.type \in Mergeable =>
           Len(c.lines) <= Max({target, MaxSize, 2 * ListItems, 2 * MinSize})
      /\ \A h \in Range(c.path) : lines[h] = "heading" /\ h < c.lines[1]

\* Paragraphs grouped by their similarity: all of them, in order.
GroupsKeepText == at = "done" /\ mode = "semantic" /\ Cardinality(Paragraphs) > 1 =>
    LinesIn(packed) = Rising(NotBlank)

\* "SEMANTIC (structure_aware): ... keeps the Markdown structure (headings, code, images,
\* paragraphs)".  Refuted: of two neighbouring blocks only the first is kept.
SectionsKeepText == at = "done" /\ mode = "semantic" => NotBlank \subseteq Range(LinesIn(packed))
=============================================================================
