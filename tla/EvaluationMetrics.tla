-------------------------- MODULE EvaluationMetrics --------------------------
(***************************************************************************)
(* How one evaluation case is scored (evaluation/runner.py): returned      *)
(* chunks are matched with the expected ones by id or by content hash,     *)
(* each expected chunk counts once, and the discounted gain is compared    *)
(* with the ideal one.  Ratios are kept as numerator and denominator, the  *)
(* logarithmic discount is any decreasing one.                             *)
(***************************************************************************)
EXTENDS Integers, Sequences, FiniteSets, FiniteSetsExt, Functions

CONSTANTS
    Ids,      \* chunk ids
    Hashes,   \* content hashes
    Grades,   \* values of relevance_grades
    TopK,     \* chunks that count, and are returned at most
    Discount, \* gain of a hit at each position, times a common factor
    NoHash

MetricsAssumption ==
    /\ IsFiniteSet(Ids) /\ Grades \subseteq Nat /\ TopK \in Nat \ {0}
    /\ Discount \in [1 .. TopK -> Nat]
    /\ \A i, j \in 1 .. TopK : i < j => Discount[i] > Discount[j]
    /\ NoHash \notin Hashes

VARIABLES
    expected, \* the case: expected chunk ids, without repetition
    hashOf,   \* content hash of a chunk, or none
    grade,    \* relevance_grades, 0 where there is none; load_dataset asks nothing of their ids
    answerable,
    returned, \* the chunks that the retrieval has returned, repetitions included
    claimed,  \* the pipeline's answerable
    failed,   \* the retrieval timed out or raised
    metrics   \* the result, or the empty tuple before it is computed

vars == <<expected, hashOf, grade, answerable, returned, claimed, failed, metrics>>

Wanted == Range(expected)

\* The hash-to-id map of the case: of two expected chunks with one hash the last wins.
IdOfHash(h) == expected[CHOOSE i \in DOMAIN expected :
                    hashOf[expected[i]] = h /\ \A j \in DOMAIN expected :
                        hashOf[expected[j]] = h => j <= i]

\* The expected chunk that a returned one stands for.
Matches(c) ==
    IF c \in Wanted THEN {c}
    ELSE IF hashOf[c] # NoHash /\ \E e \in Wanted : hashOf[e] = hashOf[c]
         THEN {IdOfHash(hashOf[c])} ELSE {}

MatchedBefore(i) == UNION {Matches(returned[j]) : j \in 1 .. i - 1}

\* variant: a chunk that is returned twice counts twice
NewHitRepeated(i) == Matches(returned[i])

NewHit(i) == Matches(returned[i]) \ MatchedBefore(i)

HitPositions == {i \in DOMAIN returned : NewHit(i) # {}}

Gain(i) == MapThenSumSet(LAMBDA e : grade[e] * Discount[i], NewHit(i))
DCG == MapThenSumSet(Gain, DOMAIN returned)

\* all of the grades in falling order, at the first positions
Graded == Wanted \cup {c \in Ids : grade[c] > 0}
IdealOrder == CHOOSE s \in Bijection(1 .. Cardinality(Graded), Graded) :
    \A i, j \in DOMAIN s : i < j => grade[s[i]] >= grade[s[j]]
IDCG == MapThenSumSet(LAMBDA i : grade[IdealOrder[i]] * Discount[i],
                      1 .. IF Cardinality(Graded) < TopK THEN Cardinality(Graded) ELSE TopK)

Passed(hits) ==
    /\ ~failed
    /\ (answerable /\ hits > 0 /\ claimed) \/ (~answerable /\ ~claimed)

CalculateCaseMetrics ==
    LET hits == Cardinality(HitPositions)
    IN [hits |-> hits,
        recall |-> IF expected = <<>> THEN <<0, 1>> ELSE <<hits, Len(expected)>>,
        firstRank |-> IF hits = 0 THEN 0 ELSE Min(HitPositions),
        dcg |-> DCG, idcg |-> IDCG,
        passed |-> Passed(hits)]

SeqsUpTo(S, n) == UNION {[1 .. k -> S] : k \in 0 .. n}

\* run_evaluation: a case that fails returns nothing and is not answerable.
Init ==
    /\ expected \in {s \in SeqsUpTo(Ids, 2) : \A i, j \in DOMAIN s : s[i] = s[j] => i = j}
    /\ hashOf \in [Ids -> Hashes \cup {NoHash}]
    /\ grade \in [Ids -> Grades \cup {0}]
    /\ answerable \in BOOLEAN
    /\ failed \in BOOLEAN
    /\ returned \in IF failed THEN {<<>>} ELSE SeqsUpTo(Ids, TopK)
    /\ claimed \in IF failed THEN {FALSE} ELSE BOOLEAN
    /\ metrics = <<>>

Score ==
    /\ metrics = <<>>
    /\ metrics' = CalculateCaseMetrics
    /\ UNCHANGED <<expected, hashOf, grade, answerable, returned, claimed, failed>>

Next == Score
Spec == Init /\ [][Next]_vars

-----------------------------------------------------------------------------
(* Properties of a scored case. *)

\* Whatever is returned twice or stands for another chunk by its hash, the hits are the
\* expected chunks that were found, recall and normalised gain are at most one, and what has
\* grades, returned in their falling order, has the ideal gain if all of it is expected.
ScoresAreRatios ==
    metrics # <<>> =>
        /\ metrics.hits = Cardinality(UNION {Matches(returned[i]) : i \in DOMAIN returned})
        /\ metrics.recall[1] <= metrics.recall[2]
        /\ metrics.dcg <= metrics.idcg
        /\ returned = IdealOrder /\ Graded = Wanted => metrics.dcg = metrics.idcg

\* A retrieval that returns the expected chunks, and only those, has the ideal gain.
\* Refuted for the cases promoted from production, which have no grades.
PerfectScoresFull ==
    metrics # <<>> /\ Range(returned) = Wanted /\ Wanted # {} => metrics.dcg > 0

\* Refuted as well when chunks that are not expected have grades.
PerfectScoresIdeal == metrics # <<>> /\ returned = IdealOrder => metrics.dcg = metrics.idcg
-----------------------------------------------------------------------------
(* What they rest on. *)

CaseTypes ==
    /\ expected \in Seq(Ids) /\ \A i, j \in DOMAIN expected : expected[i] = expected[j] => i = j
    /\ grade \in [Ids -> Nat]
    /\ returned \in Seq(Ids) /\ Len(returned) <= TopK

MetricsInv == CaseTypes /\ (metrics = <<>> \/ metrics = CalculateCaseMetrics)
=============================================================================
