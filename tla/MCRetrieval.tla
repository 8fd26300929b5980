----------------------------- MODULE MCRetrieval -----------------------------
(***************************************************************************)
(* A question on its way through retrieval, and the clients it goes        *)
(* through: the models, the embeddings and the limit of its user.  Four    *)
(* parts without common state, explored one at a time.  The initial state  *)
(* chooses the part; the others stay in an initial state of theirs.        *)
(***************************************************************************)
EXTENDS Naturals

CONSTANTS
    MaxSteps, Threshold, CallFailures, Wanted,
    Questions, Plan, Reliable, Recovery,
    Callers, Texts, CacheSize, MaxRequests, None,
    Checks, Limit, Window, MaxTime

VARIABLES
    part,
    config, at, task, asked, spec, result, failures, steps, detached,
    healthy, failuresM, opened, age, atM, attempt, tokens,
    cache, inflight, request, atQ, text, joined,
    now, window, allowed, atL, started, count, redis

Req == INSTANCE RetrievalRequest
Calls == INSTANCE ModelCalls
             WITH Requests <- Questions, Threshold <- CallFailures,
                  failures <- failuresM, at <- atM
Embeddings == INSTANCE QueryEmbeddings WITH at <- atQ
Limiter == INSTANCE RateLimiter WITH at <- atL

requestVars == <<config, at, task, asked, spec, result, failures, steps, detached>>
callVars == <<healthy, failuresM, opened, age, atM, attempt, tokens>>
embeddingVars == <<cache, inflight, request, atQ, text, joined>>
limiterVars == <<now, window, allowed, atL, started, count, redis>>
vars == <<part, requestVars, callVars, embeddingVars, limiterVars>>

ASSUME RetrievalAssumption ==
    /\ Req!RequestAssumption /\ Calls!CallsAssumption
    /\ Embeddings!EmbeddingAssumption /\ Limiter!LimiterAssumption

\* the attempts of the run: the primary model, once more, then the fallback
CallPlan == <<"primary", "primary", "fallback">>

\* one initial state for a part that is not explored
Resting ==
    /\ part # "request" =>
         config = [agentic |-> FALSE, parallel |-> FALSE, hyde |-> FALSE, wanted |-> {}]
    /\ part # "calls" => healthy = [m \in Calls!Models |-> TRUE]
    /\ part # "embeddings" => text = [c \in Callers |-> CHOOSE t \in Texts : TRUE]

Init == /\ part \in {"request", "calls", "embeddings", "limiter"}
        /\ Resting
        /\ Req!Init /\ Calls!Init /\ Embeddings!Init /\ Limiter!Init

InRequest(A) == part = "request" /\ A /\ UNCHANGED <<part, callVars, embeddingVars, limiterVars>>
InCalls(A) == part = "calls" /\ A /\ UNCHANGED <<part, requestVars, embeddingVars, limiterVars>>
InEmbeddings(A) ==
    part = "embeddings" /\ A /\ UNCHANGED <<part, requestVars, callVars, limiterVars>>
InLimiter(A) ==
    part = "limiter" /\ A /\ UNCHANGED <<part, requestVars, callVars, embeddingVars>>

Next == \/ InRequest(Req!Next) \/ InCalls(Calls!Next)
        \/ InEmbeddings(Embeddings!Next) \/ InLimiter(Limiter!Next)

\* the fairness of RetrievalRequest and ModelCalls; only the part explored has enabled actions
Fairness ==
    /\ WF_vars(InRequest(Req!Continue) \/ InCalls(Calls!Tick))
    /\ WF_vars(InRequest(Req!EarlyTaskEnds("hyde")))
    /\ \A c \in Req!Channels : WF_vars(InRequest(Req!ChannelTimesOut(c)))
    /\ \A r \in Questions : WF_vars(InCalls(Calls!Step(r)))

Spec == Init /\ [][Next]_vars /\ Fairness

\* Type correctness of the four modules, with the limit of the cache.
TypeOK == Req!TypeOK /\ Calls!TypeOK /\ Embeddings!TypeOK /\ Limiter!TypeOK

\* RetrievalRequest: an answer leaves no model call or search behind, but for the work that is
\* detached from them, and the reason given for a rejection is true.
RequestIsHonest == Req!NoTaskOutlivesAnswer /\ Req!ReasonIsTrue

\* The clients hold against failures and each other: an answer has the tokens of one attempt, a
\* model that works answers whatever becomes of others, a text has one request for its vector
\* at a time, and the rate of requests exceeds its limit by less than those checked together.
CallsAreSound == /\ Calls!AnswerIsWhole /\ Calls!ReliableModelAnswers
                 /\ Embeddings!SingleFlight /\ Limiter!OvershootIsBounded

\* Every request returns or fails, and the breaker of a model that works again closes.
EveryRequestEnds == (part = "request" => Req!EveryRequestEnds) /\ Calls!RecoversAfterHealing
=============================================================================
