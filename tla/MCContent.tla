------------------------------ MODULE MCContent ------------------------------
(***************************************************************************)
(* What becomes of content: of texts that are cut, of graphs and memories  *)
(* that are drawn from them, of the evidence that is chosen, and of the    *)
(* grades that are given.  Eleven parts without common state, explored one *)
(* at a time: the initial state chooses the part, whose variables are held *)
(* in slots.                                                               *)
(***************************************************************************)
EXTENDS Naturals, Sequences, TLC

CONSTANTS
    None, Tasks,
    MaxLength, ChunkSizes, ChunkOverlaps, MaxLines,
    Targets, MinSize, MaxSize, TableRows, CodeLines, ListItems, PathDepth,
    Docs, Writers,
    Batches, Providers, Source, Target, Asked,
    Topics, Seconds, VectorScores, KeywordScores, MinRelevance,
    Rows, Hashes, Kbs, Scope, Orphan, MaxChanges, MaxHits,
    Ranks, TokenSizes, MaxTokens, MaxChars, ContextWindow, Reserves, PerChunk, TopK, Quotas,
    Interviews, Results, MaxSaves, MaxCounted,
    MinQuestions, MaxQuestions, KnowledgeQuota, ProfileQuota, Sources, Algorithms,
    Users, Asker, Reviewers, Lister, MaxOpen,
    Ids, IdHashes, CaseGrades, ScoredTopK, Discount

VARIABLES part, s1, s2, s3, s4, s5, s6, s7, s8, s9, s10, s11, s12, s13

Windows == INSTANCE FixedWindowChunks WITH
    Sizes <- ChunkSizes, Overlaps <- ChunkOverlaps,
    text <- s1, size <- s2, overlap <- s3, at <- s4, i <- s5, inUrl <- s6, out <- s7,
    start <- s8, windows <- s9
Blocks == INSTANCE DocumentBlocks WITH
    lines <- s1, mode <- s2, target <- s3, at <- s4, pos <- s5, open <- s6, from <- s7,
    blocks <- s8, next <- s9, path <- s10, chunks <- s11, buffer <- s12, packed <- s13
Graph == INSTANCE EntityGraph WITH
    node <- s1, bridges <- s2, at <- s3, call <- s4, old <- s5, plan <- s6, lone <- s7,
    broken <- s8
Extraction == INSTANCE SemanticExtraction WITH
    text <- s1, at <- s2, batch <- s3, provider <- s4, disabled <- s5, entities <- s6,
    relations <- s7, stored <- s8
Memories == INSTANCE UserMemories WITH
    store <- s1, es <- s2, at <- s3, facts <- s4, known <- s5, adds <- s6, retire <- s7,
    kept <- s8, found <- s9, recalled <- s10, key <- s11
Evidence == INSTANCE RetrievalEvidence WITH
    rows <- s1, readable <- s2, options <- s3, at <- s4, found <- s5, hits <- s6, seen <- s7,
    changes <- s8, faults <- s9, alike <- s10
Selection == INSTANCE ContextSelection WITH
    Candidates <- Ranks, Sizes <- TokenSizes, Window <- ContextWindow,
    eligible <- s1, kb <- s2, size <- s3, quota <- s4, reserved <- s5, selected <- s6
Sessions == INSTANCE InterviewSessions WITH
    Grades <- Results,
    status <- s1, answers <- s2, scored <- s3, base <- s4, profile <- s5, results <- s6,
    rowLock <- s7, baseLock <- s8, at <- s9, of <- s10, got <- s11, seen <- s12, picked <- s13
Scoring == INSTANCE InterviewScoring WITH
    at <- s1, request <- s2, script <- s3, answers <- s4, grade <- s5
Cases == INSTANCE EvaluationCases WITH
    answered <- s1, evidence <- s2, votes <- s3, case <- s4, loaded <- s5, contested <- s6
Scores == INSTANCE EvaluationMetrics WITH
    Hashes <- IdHashes, Grades <- CaseGrades, TopK <- ScoredTopK, NoHash <- None,
    expected <- s1, hashOf <- s2, grade <- s3, answerable <- s4, returned <- s5, claimed <- s6,
    failed <- s7, metrics <- s8

slots == <<s1, s2, s3, s4, s5, s6, s7, s8, s9, s10, s11, s12, s13>>
vars == <<part, slots>>

ASSUME ContentAssumption ==
    /\ Windows!ChunkAssumption /\ Blocks!BlockAssumption
    /\ Graph!GraphAssumption /\ Extraction!ExtractionAssumption /\ Memories!MemoryAssumption
    /\ Evidence!EvidenceAssumption /\ Selection!SelectionAssumption
    /\ Sessions!InterviewAssumption /\ Scoring!ScriptAssumption
    /\ Cases!CasesAssumption /\ Scores!MetricsAssumption

\* values for the run: documents by knowledge base and number, the batches of a document, and
\* the gain of a hit at the first and at the second position
ThreeDocs == {<<1, 1>>, <<1, 2>>, <<2, 1>>}
TwoBatches == <<{1, 2}, {3}>>
TwoGains == <<6, 4>>

\* the slots after the n-th, which a part of n variables leaves alone
after11 == <<s12, s13>>
after10 == <<s11, after11>>
after9 == <<s10, after10>>
after8 == <<s9, after9>>
after6 == <<s7, s8, after8>>
after5 == <<s6, after6>>
IdleAfter11 == s12 = None /\ s13 = None
IdleAfter10 == s11 = None /\ IdleAfter11
IdleAfter9 == s10 = None /\ IdleAfter10
IdleAfter8 == s9 = None /\ IdleAfter9
IdleAfter6 == s7 = None /\ s8 = None /\ IdleAfter8
IdleAfter5 == s6 = None /\ IdleAfter6

Init ==
    \/ part = "windows" /\ Windows!Init /\ IdleAfter9
    \/ part = "blocks" /\ Blocks!Init
    \/ part = "graph" /\ Graph!Init /\ IdleAfter8
    \/ part = "extraction" /\ Extraction!Init /\ IdleAfter8
    \/ part = "memories" /\ Memories!Init /\ IdleAfter11
    \/ part = "evidence" /\ Evidence!Init /\ IdleAfter10
    \/ part = "selection" /\ Selection!Init /\ IdleAfter6
    \/ part = "sessions" /\ Sessions!Init
    \/ part = "scoring" /\ Scoring!Init /\ IdleAfter5
    \/ part = "cases" /\ Cases!Init /\ IdleAfter6
    \/ part = "scores" /\ Scores!Init /\ IdleAfter8

Next ==
    /\ UNCHANGED part
    /\ \/ part = "windows" /\ Windows!Next /\ UNCHANGED after9
       \/ part = "blocks" /\ Blocks!Next
       \/ part = "graph" /\ Graph!Next /\ UNCHANGED after8
       \/ part = "extraction" /\ Extraction!Next /\ UNCHANGED after8
       \/ part = "memories" /\ Memories!Next /\ UNCHANGED after11
       \/ part = "evidence" /\ Evidence!Next /\ UNCHANGED after10
       \/ part = "selection" /\ Selection!Next /\ UNCHANGED after6
       \/ part = "sessions" /\ Sessions!Next
       \/ part = "scoring" /\ Scoring!Next /\ UNCHANGED after5
       \/ part = "cases" /\ Cases!Next /\ UNCHANGED after6
       \/ part = "scores" /\ Scores!Next /\ UNCHANGED after8

Spec == Init /\ [][Next]_vars

-----------------------------------------------------------------------------
(* Properties.  Each is the conjunction of those of the parts it is about. *)

\* Type correctness of the modules: among others, the grades and averages of interviews stay
\* on their scale.
TypeOK ==
    /\ part = "windows" => Windows!TypeOK
    /\ part = "blocks" => Blocks!TypeOK
    /\ part = "graph" => Graph!TypeOK
    /\ part = "extraction" => Extraction!TypeOK
    /\ part = "memories" => Memories!TypeOK
    /\ part = "evidence" => Evidence!TypeOK
    /\ part = "sessions" => Sessions!TypeOK
    /\ part = "scoring" => Scoring!TypeOK
    /\ part = "cases" => Cases!TypeOK

\* What is computed from all of the data at once is right: the chunkers lose nothing, as
\* normalisation only drops white space and the pieces of the blocks make up the blocks in order
\* and fit, like the groups of paragraphs; the context that is chosen fits its budget and hears
\* every knowledge base it promises to hear; the metrics of what was returned are ratios.
AlgorithmsAreRight ==
    /\ part = "windows" => Windows!NormalizationKeepsText
    /\ part = "blocks" => Blocks!BlocksKeepText /\ Blocks!BlocksFit /\ Blocks!GroupsKeepText
    /\ part = "selection" => Selection!BudgetIsKept /\ Selection!QuotaIsKept
    /\ part = "scores" => Scores!ScoresAreRatios

\* What is drawn from texts is true of them: windows cover the text, wherever the boundaries are
\* that they are moved to; when no call on the graph is under way its bridges are those of its
\* nodes; a relation is stored with the chunks that show it; and a topic that a user has
\* mentioned is not forgotten when it is updated.
StoresAreSound ==
    /\ part = "windows" => Windows!WindowsCoverText
    /\ part = "graph" => Graph!BridgesAreThoseOfNodes
    /\ part = "extraction" => Extraction!StoredIsGrounded
    /\ part = "memories" => Memories!NothingIsForgotten

\* The evidence of an answer is visible to the user and reaches the answer.
EvidenceIsSound == part = "evidence" => Evidence!EvidenceWasVisible /\ Evidence!EvidenceSurvives

\* Grades are earned: the profile has every result that is counted, the questions and their
\* grades are those of the interview's script, a skipped question earns nothing, and a case
\* becomes golden by votes or reviews.
GradesAreFair ==
    /\ part = "sessions" => Sessions!ProfileKeepsResults
    /\ part = "scoring" => Scoring!ScriptIsScaffold /\ Scoring!SkippedScoresNothing
    /\ part = "cases" => Cases!GoldenIsEarned

\* No step goes back: a text without URLs comes nearer to its end in every round of the two
\* loops, and a search recalls no memory that had been deleted before it.
NoStepGoesBack ==
    [][/\ part = "windows" => Windows!RoundAdvances
       /\ part = "memories" => Memories!RecallsWhatIsKept]_vars
=============================================================================
