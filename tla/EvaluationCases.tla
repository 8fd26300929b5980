--------------------------- MODULE EvaluationCases ---------------------------
(***************************************************************************)
(* The evaluation case of a user question (evaluation/cases.py): created   *)
(* with its answer, changed by votes on that answer                        *)
(* (api/conversation.py) and promoted to the golden set by a reviewer      *)
(* (api/evaluation.py).  Each is a transaction that loads the rows, and    *)
(* at its commit updates the columns it has changed: two that overlap can  *)
(* leave a row that neither of them has written.                           *)
(***************************************************************************)
EXTENDS Naturals, FiniteSets

CONSTANTS
    Users,      \* those who vote on the answer: the asker and the others
    Asker,
    Reviewers,  \* transactions that promote the case
    Lister,     \* one that lists the questions
    MaxOpen     \* bound: transactions that are open at once

CasesAssumption ==
    /\ Asker \in Users /\ Reviewers \cap Users = {} /\ Lister \notin Reviewers \cup Users
    /\ MaxOpen \in Nat

VARIABLES
    answered,  \* the answer is saved
    evidence,  \* the answer has sources in a knowledge base
    votes,     \* MessageFeedback.vote of the users
    case,      \* the row EvaluationDatasetCase
    loaded,    \* the case and the vote that the transactions have loaded
    contested  \* the last promotion or down-vote has overlapped, or one that has followed it

vars == <<answered, evidence, votes, case, loaded, contested>>

Votes == {"none", "down", "other"} \* an up-vote, or a vote of neither kind
Case == [exists : BOOLEAN, type : {"base", "golden"}, active : BOOLEAN,
         review : {"generated", "needs_review", "approved"}, vote : Votes,
         expected : BOOLEAN]
NoCase == [exists |-> FALSE, type |-> "base", active |-> FALSE, review |-> "generated",
           vote |-> "none", expected |-> FALSE]

\* who has a transaction on the case; alone, as long as nobody else has one
Clients == Reviewers \cup Users \cup {Lister}
Nothing == [open |-> FALSE, alone |-> FALSE, case |-> NoCase, vote |-> "none"]
Quiet == \A c \in Clients : ~loaded[c].open

TypeOK ==
    /\ answered \in BOOLEAN /\ evidence \in BOOLEAN
    /\ votes \in [Users -> Votes]
    /\ case \in Case
    /\ loaded \in [Clients -> [open : BOOLEAN, alone : BOOLEAN, case : Case, vote : Votes]]
    /\ contested \in BOOLEAN

Init ==
    /\ answered = FALSE
    /\ evidence \in BOOLEAN
    /\ votes = [u \in Users |-> "none"]
    /\ case = NoCase
    /\ loaded = [c \in Clients |-> Nothing] /\ contested = FALSE

-----------------------------------------------------------------------------

\* ensure_base_case: the columns of a base or golden case are refreshed from the answer;
\* only a base case is made inactive.
Refreshed(row, vote) ==
    [row EXCEPT !.exists = TRUE, !.vote = vote,
                !.active = IF row.type = "golden" THEN @ ELSE FALSE,
                !.expected = IF row.type = "golden" THEN @ ELSE FALSE]

\* variant: a case without evidence is approved as well
PromotedBlindly(row) ==
    IF row.vote = "down"
    THEN [row EXCEPT !.type = "golden", !.review = "needs_review", !.active = FALSE,
                     !.expected = FALSE]
    ELSE [row EXCEPT !.type = "golden", !.review = "approved", !.active = TRUE,
                     !.expected = evidence]

\* promote_to_golden: fails closed for a bad answer or one without evidence.
Promoted(row) ==
    IF row.vote = "down"
    THEN [row EXCEPT !.type = "golden", !.review = "needs_review", !.active = FALSE,
                     !.expected = FALSE]
    ELSE IF ~evidence
    THEN [row EXCEPT !.type = "golden", !.review = "needs_review", !.active = FALSE]
    ELSE [row EXCEPT !.type = "golden", !.review = "approved", !.active = TRUE,
                     !.expected = TRUE]

\* sync_case_feedback: a down-vote takes a case out of use, an up-vote does not bring it back.
Voted(row, vote) ==
    IF vote = "down"
    THEN [row EXCEPT !.vote = vote, !.active = FALSE, !.review = "needs_review",
                     !.expected = FALSE]
    ELSE [row EXCEPT !.vote = vote]

\* The update of a transaction sets the columns that differ from what it has loaded.
Merge(old, new) == [f \in DOMAIN new |-> IF new[f] = old[f] THEN case[f] ELSE new[f]]

Begin(c, vote) ==
    /\ answered /\ ~loaded[c].open
    /\ Cardinality({d \in Clients : loaded[d].open}) < MaxOpen
    /\ loaded' = [d \in Clients |->
                    IF d = c THEN [open |-> TRUE, alone |-> Quiet, case |-> case, vote |-> vote]
                    ELSE [loaded[d] EXCEPT !.alone = FALSE]]
    /\ UNCHANGED <<answered, evidence, votes, case, contested>>

\* decides: whether what comes before it no longer matters
Finish(c, decides) ==
    /\ loaded[c].open
    /\ loaded' = [loaded EXCEPT ![c] = Nothing]
    /\ contested' = (~loaded[c].alone \/ (contested /\ ~decides))
    /\ UNCHANGED <<answered, evidence>>

-----------------------------------------------------------------------------

\* The answer is saved, with its base case; the pairing may have given it to another
\* question (ChatStreams), and answers from before the feature have none.
SaveAnswer ==
    /\ ~answered
    /\ answered' = TRUE
    /\ case' \in {case, Refreshed(case, "none")}
    /\ UNCHANGED <<evidence, votes, loaded, contested>>

\* GET /evaluation/questions makes up for a missing case.
BeginList == ~case.exists /\ Begin(Lister, votes[Asker])

\* ensure_base_case reads again; if a case has come meanwhile it is refreshed, or the insertion
\* fails at uq_evaluation_case_source_question.
CommitList ==
    /\ LET row == Refreshed(case, loaded[Lister].vote)
       IN case' \in IF case.exists THEN {case, row} ELSE {row}
    /\ Finish(Lister, FALSE)
    /\ UNCHANGED votes

\* POST /conversations/feedback, by anyone who can name the message
BeginVote(u) == \E v \in Votes \ {"none"} : Begin(u, v)

\* variant: the vote is stored, the case keeps its state
CommitVoteOnly(u) ==
    /\ votes' = [votes EXCEPT ![u] = loaded[u].vote]
    /\ case' = IF case.exists THEN [case EXCEPT !.vote = loaded[u].vote] ELSE case
    /\ Finish(u, loaded[u].vote = "down")

CommitVote(u) ==
    /\ LET old == loaded[u].case
           v == loaded[u].vote
       IN /\ votes' = [votes EXCEPT ![u] = v]
          /\ case' = IF old.exists THEN Merge(old, Voted(old, v)) ELSE case
    /\ Finish(u, loaded[u].vote = "down")

\* POST /evaluation/questions/{id}/golden: only the asker's vote is read
BeginPromotion(c) == Begin(c, votes[Asker])

CommitPromotion(c) ==
    /\ LET old == loaded[c].case
       IN case' = IF ~old.exists /\ case.exists THEN case
                  ELSE Merge(old, Promoted(Refreshed(old, loaded[c].vote)))
    /\ Finish(c, TRUE)
    /\ UNCHANGED votes

Next ==
    \/ SaveAnswer \/ BeginList \/ CommitList
    \/ \E u \in Users : BeginVote(u) \/ CommitVote(u)
    \/ \E c \in Reviewers : BeginPromotion(c) \/ CommitPromotion(c)

Spec == Init /\ [][Next]_vars

-----------------------------------------------------------------------------
(* Properties. *)

\* However votes, promotions and lists overlap, a case that evaluations use has been promoted and
\* has evidence.  It has been approved, and the asker's last word on its answer is not a down-vote,
\* if the last promotion or down-vote was alone, and so were those that have come after it:
\* neither their order nor the votes of others undo it.
GoldenIsEarned ==
    case.active =>
        /\ case.exists /\ case.type = "golden" /\ evidence
        /\ ~contested => case.review = "approved" /\ case.expected /\ votes[Asker] # "down"

\* The same whatever overlaps.  Refuted: a promotion that has loaded the case before a down-vote
\* makes it active after it.
GoldenStaysEarned == case.active => case.review = "approved" /\ votes[Asker] # "down"

\* The docstring of EvaluationDatasetCase: down-voted answers remain inactive.
DownvotedStaysInactive ==
    case.active => \A u \in Users : votes[u] # "down"
-----------------------------------------------------------------------------
(* What they rest on. *)

UnansweredHasNoCase == ~answered => case = NoCase

\* As long as a transaction is alone the rows are as it has loaded them; else they may only have
\* gone on.
LoadedIsCurrent ==
    \A c \in Clients : loaded[c].open =>
        /\ answered
        /\ loaded[c].case.exists => case.exists
        /\ loaded[c].case.type = "golden" => case.type = "golden"
        /\ loaded[c].alone =>
              /\ loaded[c].case = case
              /\ c \in Reviewers => loaded[c].vote = votes[Asker]
              /\ \A d \in Clients \ {c} : ~loaded[d].open
=============================================================================
