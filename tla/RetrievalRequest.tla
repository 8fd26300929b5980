--------------------------- MODULE RetrievalRequest ---------------------------
(***************************************************************************)
(* The tasks of one question (rag/pipeline.py, agent/): understanding it,  *)
(* by two model calls in turn or at once, next to a speculative vector     *)
(* search and a hypothetical document; then the search channels, each with *)
(* a time limit and a circuit breaker; and the loop of the agent, which    *)
(* may ask again.  What the channels find is a member of a small set here; *)
(* RetrievalEvidence says what becomes of it.                              *)
(***************************************************************************)
EXTENDS Naturals

CONSTANTS
    MaxSteps,   \* agent_max_steps
    Threshold,  \* circuit_breaker_failures
    Wanted      \* the sets of channels that settings and intents ask for

Channels == {"vector", "keyword", "graph", "hyde_vector"}

RequestAssumption ==
    /\ MaxSteps \in Nat \ {0} /\ Threshold \in Nat \ {0}
    /\ Wanted \subseteq SUBSET {"vector", "keyword", "graph"}

Early == {"rewrite", "intent", "speculative", "hyde"}

VARIABLES
    config,   \* of the request and the server
    at,       \* where the request stands
    task,     \* the asyncio tasks of the current retrieval
    asked,    \* what understanding has given: rewritten query, intent
    spec,     \* the speculative results that were collected
    result,   \* RAGResult of the last retrieval
    failures, \* of the breakers of this pipeline
    steps,    \* retrievals of the agent
    detached  \* whether work begun for a question runs that nothing awaits or cancels

vars == <<config, at, task, asked, spec, result, failures, steps, detached>>

TaskStates == {"absent", "running", "cancelled", "failed", "hits", "none",
               "swallowed", "error", "timeout"}
Failed == {"error", "timeout"}
Intents == {"plain", "routed", "guidance", "system"}
NoResult == [mode |-> "none", answerable |-> FALSE, reason |-> "none", steps |-> 0]

TypeOK ==
    /\ config \in [agentic : BOOLEAN, parallel : BOOLEAN, hyde : BOOLEAN,
                   wanted : Wanted]
    /\ at \in {"start", "rewriting", "classifying", "understanding", "routing", "joining",
               "hyde", "searching", "deciding", "planning", "returned", "failed"}
    /\ task \in [Early \cup Channels -> TaskStates]
    /\ asked \in [rewritten : BOOLEAN, intent : Intents]
    /\ spec \in BOOLEAN
    /\ result.steps \in 0 .. steps
    /\ failures \in [Channels -> 0 .. Threshold]
    /\ steps \in 0 .. MaxSteps
    /\ detached \in BOOLEAN

Idle == [t \in Early \cup Channels |-> "absent"]
Unasked == [rewritten |-> FALSE, intent |-> "plain"]

Init ==
    /\ config \in [agentic : BOOLEAN, parallel : BOOLEAN, hyde : BOOLEAN,
                   wanted : Wanted]
    /\ at = "start" /\ task = Idle /\ asked = Unasked /\ spec = FALSE
    /\ result = NoResult
    /\ failures = [c \in Channels |-> 0]
    /\ steps = 0 /\ detached = FALSE

Running(t) == task[t] = "running"

\* pipeline.run returns; the agent then plans its next step
Return(mode, answerable, reason) ==
    LET r == [mode |-> mode, answerable |-> answerable, reason |-> reason, steps |-> steps]
    IN /\ result' = r
       /\ at' = IF config.agentic THEN "planning" ELSE "returned"

-----------------------------------------------------------------------------
(* Understanding the question. *)

Ask ==
    /\ at = "start"
    /\ steps' = steps + 1
    /\ asked' = Unasked /\ spec' = FALSE
    /\ IF config.parallel \/ config.hyde
       THEN /\ at' = "understanding"
            /\ \E scoped \in BOOLEAN :
                 task' = [Idle EXCEPT !["rewrite"] = "running", !["intent"] = "running",
                            !["speculative"] = IF scoped THEN "running" ELSE "absent",
                            !["hyde"] = IF config.hyde THEN "running" ELSE "absent"]
       ELSE at' = "rewriting" /\ task' = Idle
    /\ UNCHANGED <<config, detached, result, failures>>

\* a reference without history: the user is asked what it refers to
Clarify ==
    /\ at = "start"
    /\ steps' = steps + 1
    /\ result' = [mode |-> "guidance", answerable |-> FALSE, reason |-> "ambiguous_reference",
                  steps |-> steps']
    /\ at' = IF config.agentic THEN "planning" ELSE "returned"
    /\ UNCHANGED <<config, detached, task, asked, spec, failures>>

\* in turn; a time-out or an error leaves the original query
RewriteInTurn ==
    /\ at = "rewriting"
    /\ at' = "classifying"
    /\ \E b \in BOOLEAN : asked' = [asked EXCEPT !.rewritten = b]
    /\ UNCHANGED <<config, detached, task, spec, result, failures, steps>>

ClassifyInTurn ==
    /\ at = "classifying"
    /\ at' = "routing"
    /\ \E i \in Intents : asked' = [asked EXCEPT !.intent = i]
    /\ UNCHANGED <<config, detached, task, spec, result, failures, steps>>

EarlyTaskEnds(t) ==
    /\ t \in Early /\ Running(t)
    /\ \E s \in IF t \in {"rewrite", "intent"} THEN {"hits", "failed"} ELSE {"hits", "none"} :
         task' = [task EXCEPT ![t] = s]
    /\ UNCHANGED <<config, detached, at, asked, spec, result, failures, steps>>

Understand ==
    /\ at = "understanding"
    /\ task["rewrite"] = "hits" /\ task["intent"] = "hits"
    /\ at' = "routing"
    /\ asked' \in [rewritten : BOOLEAN, intent : Intents]
    /\ UNCHANGED <<config, detached, task, spec, result, failures, steps>>

Cancelled(ts) == [t \in Early \cup Channels |-> IF t \in ts /\ Running(t) THEN "cancelled"
                                                ELSE task[t]]

\* the time-out of the pair, or the failure of one
FallBack ==
    /\ at = "understanding"
    /\ Running("rewrite") \/ Running("intent") \/ "failed" \in {task["rewrite"], task["intent"]}
    /\ at' = "routing"
    /\ asked' = Unasked
    /\ task' = Cancelled({"rewrite", "intent"})
    /\ UNCHANGED <<config, detached, spec, result, failures, steps>>

\* variant: the hypothetical document is still being written
LeaveEarlyForgetful ==
    /\ at = "routing" /\ asked.intent \in {"guidance", "system"}
    /\ task' = Cancelled({"speculative"})
    /\ Return(asked.intent, TRUE, "none")
    /\ UNCHANGED <<config, detached, asked, spec, failures, steps>>

\* small talk, or a question to the user
LeaveEarly ==
    /\ at = "routing" /\ asked.intent \in {"guidance", "system"}
    /\ task' = Cancelled({"speculative", "hyde"})
    /\ Return(asked.intent, TRUE, "none")
    /\ UNCHANGED <<config, detached, asked, spec, failures, steps>>

Route ==
    /\ at = "routing" /\ asked.intent \in {"plain", "routed"}
    /\ at' = IF task["speculative"] = "absent" THEN "hyde" ELSE "joining"
    /\ UNCHANGED <<config, detached, task, asked, spec, result, failures, steps>>

\* variant: without the time limit
CollectPatiently ==
    /\ at = "joining" /\ ~Running("speculative")
    /\ spec' = (task["speculative"] = "hits")
    /\ at' = "hyde"
    /\ UNCHANGED <<config, detached, task, asked, result, failures, steps>>

\* waits a tenth of a second for the speculative results, then cancels the search
CollectSpeculative ==
    /\ at = "joining"
    /\ spec' = (task["speculative"] = "hits")
    /\ task' = Cancelled({"speculative"})
    /\ at' = "hyde"
    /\ UNCHANGED <<config, detached, asked, result, failures, steps>>

-----------------------------------------------------------------------------
(* The search channels. *)

Used == config.wanted \cup IF task["hyde"] = "hits" THEN {"hyde_vector"} ELSE {}

\* The speculative results are the answer of the vector channel when neither the query
\* nor the collection has changed.
Reusable == spec /\ ~asked.rewritten /\ asked.intent = "plain"

\* A breaker that has opened refuses, unless its recovery time has passed.
StartChannels ==
    /\ at = "hyde" /\ ~Running("hyde")
    /\ at' = "searching"
    /\ \E refused \in SUBSET {c \in Used : failures[c] >= Threshold} :
         task' = [t \in Early \cup Channels |->
                    IF t \notin Used THEN task[t]
                    ELSE IF t \in refused THEN "error"
                    ELSE IF t = "vector" /\ Reusable THEN "hits" ELSE "running"]
    /\ failures' = [c \in Channels |-> IF c = "vector" /\ c \in Used /\ Reusable
                                          /\ task'[c] = "hits" THEN 0 ELSE failures[c]]
    /\ UNCHANGED <<config, detached, asked, spec, result, steps>>

\* The two vector channels turn the failure of a scope into an empty answer; speculative
\* results are put before those of a rewritten query.
Answers(c) ==
    IF c = "vector" /\ spec /\ asked.rewritten THEN {"hits"}
    ELSE IF c \in {"vector", "hyde_vector"} THEN {"hits", "none", "swallowed"}
    ELSE {"hits", "none", "error"}

ChannelAnswers(c) ==
    /\ c \in Channels /\ Running(c)
    /\ \E s \in Answers(c) :
         /\ task' = [task EXCEPT ![c] = s]
         /\ failures' = [failures EXCEPT ![c] =
                IF s # "error" THEN 0 ELSE IF @ < Threshold THEN @ + 1 ELSE @]
    /\ UNCHANGED <<config, detached, at, asked, spec, result, steps>>

\* the time limit of a channel, or of all: cancelled, which no breaker counts
ChannelTimesOut(c) ==
    /\ c \in Channels /\ Running(c)
    /\ task' = [task EXCEPT ![c] = "timeout"]
    /\ UNCHANGED <<config, detached, at, asked, spec, result, failures, steps>>

Gather ==
    /\ at = "searching"
    /\ \A c \in Channels : ~Running(c)
    /\ at' = "deciding"
    /\ UNCHANGED <<config, detached, task, asked, spec, result, failures, steps>>

\* variant: one failed channel is enough
AnyFailed == \E c \in Used : task[c] \in Failed

\* rejection_reason_for_channels
AllFailed == Used # {} /\ \A c \in Used : task[c] \in Failed

Reason(enough) == IF AllFailed THEN "retrieval_unavailable"
                  ELSE IF enough THEN "none" ELSE "insufficient_relevance"

\* fusion, filters, rerank and selection leave evidence or none
Decide ==
    /\ at = "deciding"
    /\ \E enough \in BOOLEAN :
         /\ enough => \E c \in Used : task[c] = "hits"
         /\ Return("rag", enough, Reason(enough))
    /\ UNCHANGED <<config, detached, task, asked, spec, failures, steps>>

\* an error of the access check is one of the request
AccessCheckFails ==
    /\ at = "deciding"
    /\ at' = "failed"
    /\ UNCHANGED <<config, detached, task, asked, spec, result, failures, steps>>

-----------------------------------------------------------------------------
(* Work that goes on by itself: no cancellation of the request reaches it. *)

\* A rewriting that applied terms counts them in a task of its own; a search by vector shares
\* its provider request with others, shielded from its own cancellation, and searches the
\* collection in a thread.
Detach ==
    /\ ~detached
    /\ \/ at = "rewriting"
       \/ \E t \in {"rewrite", "speculative", "vector", "hyde_vector"} : Running(t)
    /\ detached' = TRUE
    /\ UNCHANGED <<config, at, task, asked, spec, result, failures, steps>>

DetachedEnds ==
    /\ detached
    /\ detached' = FALSE
    /\ UNCHANGED <<config, at, task, asked, spec, result, failures, steps>>

-----------------------------------------------------------------------------
(* The agent. *)

\* variant: as often as the planner likes
RetrieveForEver ==
    /\ at = "planning" /\ ~result.answerable
    /\ at' = "start"
    /\ UNCHANGED <<config, detached, task, asked, spec, result, failures, steps>>

\* The planner retrieves again after a rejection, a limited number of times.
Retrieve ==
    /\ at = "planning" /\ ~result.answerable /\ steps < MaxSteps
    /\ at' = "start"
    /\ UNCHANGED <<config, detached, task, asked, spec, result, failures, steps>>

\* What other tools have found makes a rejected question answerable.
Finish ==
    /\ at = "planning"
    /\ at' = "returned"
    /\ \/ UNCHANGED result
       \/ ~result.answerable /\ result' = [result EXCEPT !.mode = "tools", !.answerable = TRUE,
                                                       !.reason = "none"]
    /\ UNCHANGED <<config, detached, task, asked, spec, failures, steps>>

\* The tool's time limit or a disconnect cancels what the request awaits: the pair of model
\* calls, the speculative search or the document while it is joined, but no search channel.
Awaited == CASE at = "understanding" -> {"rewrite", "intent"}
             [] at = "joining" -> {"speculative"}
             [] at = "hyde" -> {"hyde"}
             [] OTHER -> {}

Cancel ==
    /\ at \notin {"start", "returned", "failed"}
    /\ at' = "failed"
    /\ task' = Cancelled(Awaited)
    /\ UNCHANGED <<config, detached, asked, spec, result, failures, steps>>

Continue ==
    \/ Ask \/ RewriteInTurn \/ ClassifyInTurn \/ Understand \/ FallBack \/ LeaveEarly \/ Route
    \/ CollectSpeculative \/ StartChannels \/ Gather \/ Decide \/ Finish

Next ==
    \/ Continue \/ Clarify \/ AccessCheckFails \/ Retrieve \/ Cancel
    \/ \E t \in Early : EarlyTaskEnds(t)
    \/ \E c \in Channels : ChannelAnswers(c) \/ ChannelTimesOut(c)
    \/ Detach \/ DetachedEnds

\* the request goes on; a document is written or times out, a channel answers or times out
Fairness ==
    /\ WF_vars(Continue)
    /\ WF_vars(EarlyTaskEnds("hyde"))
    /\ \A c \in Channels : WF_vars(ChannelTimesOut(c))

Spec == Init /\ [][Next]_vars /\ Fairness

-----------------------------------------------------------------------------
(* Properties. *)

\* When a request has returned an answer, none of the model calls, searches and documents that
\* any of its retrievals has started as a task of its own is still running, whichever way it
\* has returned (not so when it is cancelled).
NoTaskOutlivesAnswer ==
    at = "returned" => \A t \in DOMAIN task : ~Running(t)

\* Refuted: the work that is detached from them goes on behind the answer.
NothingOutlivesAnswer == at = "returned" => ~detached

\* What is said of a rejected question is true: that retrieval was unavailable only when no
\* channel has answered, and sources only from a channel that has.
ReasonIsTrue ==
    at \in {"planning", "returned"} /\ result.mode = "rag" /\ result.steps = steps =>
        /\ result.reason = "retrieval_unavailable" =>
              \A c \in Used : task[c] \notin {"hits", "none", "swallowed"}
        /\ result.answerable => \E c \in Used : task[c] = "hits"

\* Every request returns or fails: no model call, search or document is waited for without
\* a time limit.
EveryRequestEnds == (at = "start") ~> (at \in {"returned", "failed"})

\* rejection_reason_for_channels: "Distinguish backend unavailability from a successful empty
\* retrieval."  Refuted: the vector channels swallow the failure.
OutageIsReported ==
    at \in {"planning", "returned"} /\ result.mode = "rag" /\ result.steps = steps
        /\ Used # {} /\ (\A c \in Used : task[c] \in Failed \cup {"swallowed"})
        => result.reason = "retrieval_unavailable"
=============================================================================
