--------------------------- MODULE InterviewScoring ----------------------------
(***************************************************************************)
(* How an interview is put together and graded (services/interview.py):    *)
(* a scaffold of questions, which a language model may reword; answers;    *)
(* a grade from the language model where its reply is valid, else the      *)
(* deterministic one.  Scores are in tenths of a point, rounded down.      *)
(* Algorithm questions come from a fixed list and are not reworded.        *)
(***************************************************************************)
EXTENDS Integers, Sequences, FiniteSetsExt, Functions

CONSTANTS MinQuestions, MaxQuestions, \* 10 and 20
          KnowledgeQuota, ProfileQuota, \* 7 and 3
          Sources,                    \* bound: retrieved sources are 1 .. n, n \in Sources
          Algorithms                  \* bound: numbers of algorithm questions

ScriptAssumption ==
    /\ {KnowledgeQuota, ProfileQuota, MaxQuestions} \subseteq Nat /\ MinQuestions \in Nat \ {0}
    /\ KnowledgeQuota + ProfileQuota <= MinQuestions /\ MinQuestions <= MaxQuestions
    /\ Sources \subseteq Nat /\ Algorithms \subseteq Nat

VARIABLES at, request, script, answers, grade

vars == <<at, request, script, answers, grade>>

\* signals: extract_resume_signals finds sentences that tell of projects, numbers or techniques
Requests ==
    {r \in [count : 0 .. MaxQuestions + 1, resume : BOOLEAN, signals : BOOLEAN, jd : BOOLEAN,
            sources : Sources, algorithms : Algorithms] : r.signals => r.resume}
NoGrade == [by |-> "nobody", scores |-> <<>>, overall |-> 0]

Init ==
    /\ at = "requested" /\ request \in Requests
    /\ script = <<>> /\ answers = <<>> /\ grade = NoGrade

-----------------------------------------------------------------------------
(* Questions. *)

Quota(r) ==
    LET count == Max({MinQuestions, Min({MaxQuestions, r.count})})
        knowledge == Min({KnowledgeQuota, count})
        profile == IF r.resume \/ r.jd THEN Min({ProfileQuota, count - knowledge}) ELSE 0
    IN  [knowledge |-> knowledge, profile |-> profile, scenario |-> count - knowledge - profile]

\* sources are used in turn, and so are the signals of the resume as anchors of the questions
Scaffold(r) ==
    LET q == Quota(r)
    IN  [n \in 1 .. q.knowledge + q.profile + q.scenario |->
            [category |-> IF n <= q.knowledge THEN "knowledge"
                          ELSE IF n <= q.knowledge + q.profile THEN "profile" ELSE "scenario",
             source |-> IF r.sources = 0 THEN 0 ELSE 1 + ((n - 1) % r.sources),
             anchored |-> r.signals]]

\* variant: the model's item replaces the question
RefinedFreely(s, items) ==
    [n \in DOMAIN s |-> [s[n] EXCEPT !.category = items[n].category, !.anchored = items[n].anchored]]

\* A rewording that loses the anchor of the resume gets it back as a prefix.  (A question is cut at
\* 1500 characters; here none is longer.)
Refined(s, items) ==
    [n \in DOMAIN s |-> [s[n] EXCEPT !.anchored = items[n].anchored \/ s[n].anchored]]

AlgorithmQuestion == [category |-> "algorithm", source |-> 0, anchored |-> FALSE]

\* a reply with an item missing or malformed, and an error, leave the scaffold
Ask ==
    /\ at = "requested" /\ at' = "asked"
    /\ LET s == Scaffold(request)
           items == [DOMAIN s -> [category : {"knowledge", "scenario"}, anchored : BOOLEAN]]
       IN  \E asked \in {s} \cup {Refined(s, i) : i \in items} :
             script' = asked \o [n \in 1 .. request.algorithms |-> AlgorithmQuestion]
    /\ UNCHANGED <<request, answers, grade>>

Answer ==
    /\ at = "asked" /\ at' = "answered"
    /\ answers' \in [DOMAIN script -> [text : BOOLEAN, skipped : BOOLEAN]]
    /\ UNCHANGED <<request, script, grade>>

-----------------------------------------------------------------------------
(* Grades. *)

\* the bounds of _answer_quality and _algorithm_answer_quality
LocalScores(n) ==
    IF answers[n].skipped \/ ~answers[n].text THEN {0}
    ELSE IF script[n].category = "algorithm" THEN {25, 85} ELSE {20, 100}

Average(scores, S) == MapThenSumSet(LAMBDA n : scores[n], S) \div Cardinality(S)

\* score_interview_answers; Terms is what min(2.5, ...) adds for the words of all answers
Overall(scores, terms) ==
    LET all == DOMAIN script
        base == Average(scores, all)
        In(c) == {n \in all : script[n].category = c}
        Of(c) == IF In(c) = {} THEN base ELSE Average(scores, In(c))
        knowledge == Of("knowledge")
        scenario == Of("scenario")
        profile == Of("profile")
        algorithm == Of("algorithm")
        technical == IF In("algorithm") # {}
                     THEN knowledge * 45 + scenario * 35 + algorithm * 20
                     ELSE knowledge * 55 + scenario * 45
        practical == scenario * 65 + profile * 35
        solving == IF In("algorithm") # {}
                   THEN algorithm * 55 + scenario * 30 + knowledge * 15
                   ELSE scenario * 75 + knowledge * 25
        communication == Min({10000, base * 75 + terms * 100})
        fit == IF request.resume \/ request.jd
               THEN profile * 60 + knowledge * 20 + scenario * 20
               ELSE knowledge * 45 + scenario * 55
    IN  (knowledge * 2500 + technical * 20 + practical * 20 + solving * 15
            + communication * 10 + fit * 10) \div 10000

\* the words of skipped answers count
Terms == IF \E n \in DOMAIN answers : answers[n].text THEN {1, 25} ELSE {0}

GradeLocally ==
    /\ at = "answered" /\ at' = "graded"
    /\ \E best \in BOOLEAN, terms \in Terms :
         LET scores == [n \in DOMAIN script |->
                          IF best THEN Max(LocalScores(n)) ELSE Min(LocalScores(n))]
         IN  grade' = [by |-> "local", scores |-> scores, overall |-> Overall(scores, terms)]
    /\ UNCHANGED <<request, script, answers>>

\* variant: a score below zero is passed on
ClampedAbove(value) == Min({100, value})

\* _score_value: what is no number makes the reply invalid; NaN ends as 10, like a value above
Clamped(value) == Max({0, Min({100, value})})

\* variant: the reply's score stands for skipped questions too
AgentScoreKept(n, value) == Clamped(value)

AgentScore(n, value) == IF answers[n].skipped THEN 0 ELSE Clamped(value)

\* a valid reply: a score for every dimension, a review for every question
GradeByAgent ==
    /\ at = "answered" /\ at' = "graded"
    /\ \E values \in [DOMAIN script -> {0 - 10, 120}], overall \in {0, 100} :
         grade' = [by |-> "agent", scores |-> [n \in DOMAIN script |-> AgentScore(n, values[n])],
                   overall |-> overall]
    /\ UNCHANGED <<request, script, answers>>

Next == Ask \/ Answer \/ GradeLocally \/ GradeByAgent

Spec == Init /\ [][Next]_vars

-----------------------------------------------------------------------------
(* Properties. *)

TypeOK ==
    /\ at \in {"requested", "asked", "answered", "graded"} /\ request \in Requests
    /\ grade.by \in {"nobody", "local", "agent"} /\ grade.overall \in 0 .. 100
    /\ Range(grade.scores) \subseteq 0 .. 100

\* "Refine wording with an LLM without letting it alter quotas/provenance": whatever it replies,
\* the questions asked have the categories and sources of the scaffold, the number of them is
\* in its limits, and what a resume tells is named in each, if it tells anything.
ScriptIsScaffold ==
    at # "requested" =>
        LET s == Scaffold(request)
        IN  /\ Len(s) \in MinQuestions .. MaxQuestions
            /\ Len(script) = Len(s) + request.algorithms
            /\ \A n \in DOMAIN s : script[n].category = s[n].category /\ script[n].source = s[n].source
            /\ request.signals => \A n \in DOMAIN s : script[n].anchored

\* Every question names the resume.  Refuted: no sentence of it may be a signal.
ResumeIsNamed ==
    at # "requested" /\ request.resume => \A n \in DOMAIN Scaffold(request) : script[n].anchored

\* A skipped question scores nothing, whoever grades it.
SkippedScoresNothing ==
    at = "graded" => \A n \in DOMAIN script : answers[n].skipped => grade.scores[n] = 0

\* Refuted: the dimensions of the model's reply are not held against its reviews, and the text
\* of a skipped answer counts for communication.
NothingScoresNothing ==
    at = "graded" /\ (\A n \in DOMAIN script : answers[n].skipped) => grade.overall = 0
=============================================================================
