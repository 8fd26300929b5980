------------------------------ MODULE ModelCalls ------------------------------
(***************************************************************************)
(* Answers of the language model (llm/client.py): a bounded plan of        *)
(* attempts, first at the primary and then at the fallback model, each     *)
(* behind a circuit breaker that all requests of the process share         *)
(* (rag/governance.py).                                                    *)
(***************************************************************************)
EXTENDS Naturals, Sequences, FiniteSets

CONSTANTS
    Requests,
    Plan,      \* the model of each attempt
    Reliable,  \* models that never fail
    Threshold, \* circuit_breaker_failures
    Recovery   \* circuit_breaker_recovery_sec, in ticks

Models == {Plan[i] : i \in DOMAIN Plan}

CallsAssumption ==
    /\ Plan \in Seq(Models) /\ Len(Plan) > 0 /\ Reliable \subseteq Models
    /\ Threshold \in Nat \ {0} /\ Recovery \in Nat \ {0}

VARIABLES
    healthy,  \* what the provider of a model does
    failures, \* of a breaker, up to Threshold
    opened,   \* _opened_at is set
    age,      \* ticks since
    at, attempt,
    tokens    \* the attempts whose tokens are buffered

vars == <<healthy, failures, opened, age, at, attempt, tokens>>
breakers == <<failures, opened, age>>

TypeOK ==
    /\ healthy \in [Models -> BOOLEAN]
    /\ failures \in [Models -> 0 .. Threshold]
    /\ opened \in [Models -> BOOLEAN]
    /\ age \in [Models -> 0 .. Recovery]
    /\ at \in [Requests -> {"idle", "calling", "streaming", "answered", "failed"}]
    /\ attempt \in [Requests -> DOMAIN Plan]
    /\ tokens \in [Requests -> SUBSET DOMAIN Plan]

Init ==
    /\ healthy \in {h \in [Models -> BOOLEAN] : \A m \in Reliable : h[m]}
    /\ failures = [m \in Models |-> 0]
    /\ opened = [m \in Models |-> FALSE]
    /\ age = [m \in Models |-> 0]
    /\ at = [r \in Requests |-> "idle"]
    /\ attempt = [r \in Requests |-> 1]
    /\ tokens = [r \in Requests |-> {}]

Model(r) == Plan[attempt[r]]

\* variant: one breaker for the provider of all models
OneBreaker(m) == Plan[1]

\* _model_breakers: one for each model
Breaker(m) == m

\* half-open once the recovery time is over: then every call passes
Refuses(b) == opened[b] /\ age[b] < Recovery

RecordFailure(b) ==
    /\ failures' = [failures EXCEPT ![b] = IF @ < Threshold THEN @ + 1 ELSE @]
    /\ IF failures'[b] >= Threshold
       THEN opened' = [opened EXCEPT ![b] = TRUE] /\ age' = [age EXCEPT ![b] = 0]
       ELSE UNCHANGED <<opened, age>>

RecordSuccess(b) ==
    /\ failures' = [failures EXCEPT ![b] = 0]
    /\ opened' = [opened EXCEPT ![b] = FALSE]
    /\ UNCHANGED age

\* after a pause the next attempt of the plan
AttemptFails(r) ==
    IF attempt[r] < Len(Plan)
    THEN at' = [at EXCEPT ![r] = "calling"] /\ attempt' = [attempt EXCEPT ![r] = @ + 1]
    ELSE at' = [at EXCEPT ![r] = "failed"] /\ UNCHANGED attempt

-----------------------------------------------------------------------------

Ask(r) ==
    /\ at[r] \in {"idle", "answered", "failed"}
    /\ at' = [at EXCEPT ![r] = "calling"]
    /\ attempt' = [attempt EXCEPT ![r] = 1]
    /\ tokens' = [tokens EXCEPT ![r] = {}]
    /\ UNCHANGED <<healthy, breakers>>

\* variant: a refusal counts as a failure of the model
RefusedAndCounted(r) ==
    /\ at[r] = "calling" /\ Refuses(Breaker(Model(r)))
    /\ RecordFailure(Breaker(Model(r)))
    /\ AttemptFails(r)
    /\ UNCHANGED <<healthy, tokens>>

\* before_call
Refused(r) ==
    /\ at[r] = "calling" /\ Refuses(Breaker(Model(r)))
    /\ AttemptFails(r)
    /\ UNCHANGED <<healthy, breakers, tokens>>

\* variant: the buffer of the failed attempt is kept
BeginAppending(r) ==
    /\ at[r] = "calling" /\ ~Refuses(Breaker(Model(r)))
    /\ at' = [at EXCEPT ![r] = "streaming"]
    /\ UNCHANGED <<healthy, breakers, attempt, tokens>>

Begin(r) ==
    /\ at[r] = "calling" /\ ~Refuses(Breaker(Model(r)))
    /\ at' = [at EXCEPT ![r] = "streaming"]
    /\ tokens' = [tokens EXCEPT ![r] = {}]
    /\ UNCHANGED <<healthy, breakers, attempt>>

Token(r) ==
    /\ at[r] = "streaming" /\ attempt[r] \notin tokens[r]
    /\ tokens' = [tokens EXCEPT ![r] = @ \cup {attempt[r]}]
    /\ UNCHANGED <<healthy, breakers, at, attempt>>

\* An empty stream is a success for the breaker and a failed attempt for the request.
StreamEnds(r) ==
    /\ at[r] = "streaming"
    /\ attempt[r] \in tokens[r] \/ ~healthy[Model(r)]
    /\ RecordSuccess(Breaker(Model(r)))
    /\ IF tokens[r] # {}
       THEN at' = [at EXCEPT ![r] = "answered"] /\ UNCHANGED attempt
       ELSE AttemptFails(r)
    /\ UNCHANGED <<healthy, tokens>>

StreamBreaks(r) ==
    /\ at[r] = "streaming" /\ ~healthy[Model(r)]
    /\ RecordFailure(Breaker(Model(r)))
    /\ AttemptFails(r)
    /\ UNCHANGED <<healthy, tokens>>

\* llm_generation_timeout_sec cancels the stream, which no breaker counts.
GenerationTimesOut(r) ==
    /\ at[r] = "streaming" /\ ~healthy[Model(r)]
    /\ AttemptFails(r)
    /\ UNCHANGED <<healthy, breakers, tokens>>

Tick ==
    /\ \E m \in Models : opened[m] /\ age[m] < Recovery
    /\ age' = [m \in Models |-> IF opened[m] /\ age[m] < Recovery THEN age[m] + 1 ELSE age[m]]
    /\ UNCHANGED <<healthy, failures, opened, at, attempt, tokens>>

Turns(m) ==
    /\ m \notin Reliable
    /\ healthy' = [healthy EXCEPT ![m] = ~@]
    /\ UNCHANGED <<breakers, at, attempt, tokens>>

Step(r) ==
    \/ Ask(r) \/ Refused(r) \/ Begin(r) \/ Token(r)
    \/ StreamEnds(r) \/ StreamBreaks(r) \/ GenerationTimesOut(r)

Next ==
    \/ \E r \in Requests : Step(r)
    \/ Tick
    \/ \E m \in Models : Turns(m)

\* every stream has a time limit, time passes, and users go on asking
Spec == Init /\ [][Next]_vars /\ WF_vars(Tick) /\ \A r \in Requests : WF_vars(Step(r))

-----------------------------------------------------------------------------
(* Properties. *)

\* An answer has the tokens of one attempt, the one that ended: nothing of a stream that
\* broke off is left in it.
AnswerIsWhole == \A r \in Requests : at[r] = "answered" => tokens[r] = {attempt[r]}

\* No outage of other models, and no other request that meets one, fails a question while
\* one model of the plan works.
ReliableModelAnswers == Reliable # {} => \A r \in Requests : at[r] # "failed"

\* Once the primary model works for good its breaker closes for good, however often it
\* refuses in the meantime.
RecoversAfterHealing == <>[]healthy[Plan[1]] => <>[]~opened[Breaker(Plan[1])]
=============================================================================
