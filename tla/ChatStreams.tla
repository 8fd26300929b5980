----------------------------- MODULE ChatStreams -----------------------------
(***************************************************************************)
(* The streaming chat endpoint (api/chat.py): a request opens a trace,     *)
(* registers its conversation for /chat/stop, saves the question,          *)
(* retrieves, generates, saves the answer with its evaluation case,        *)
(* summarises, finalises the trace and tells the client, each in its own   *)
(* transaction.  Requests of one conversation interleave at every await;   *)
(* a client may leave, a stop may arrive, a step may fail at any of them.  *)
(*                                                                         *)
(* A question and its answer are named by their request.  Texts, sources,  *)
(* prompts, citations, masking and metrics are data and left out.          *)
(***************************************************************************)
EXTENDS Naturals, Sequences, FiniteSets

CONSTANTS
    Requests,       \* questions asked
    Conversations,
    ConversationOf, \* the conversation a request names, or is given
    Agentic,        \* requests served by the agent: generated first, then replayed
    MaxTokens,      \* bound: tokens of an answer
    PlanLength,     \* attempts of collect_agentic_generation, primary and fallback
    Trigger, Keep,  \* conversation_summary_trigger_messages, .._keep_recent_messages
    MaxFaults,      \* bound: failures of a step or departures of a client
    None

ASSUME ChatAssumption ==
    /\ IsFiniteSet(Requests)
    /\ ConversationOf \in [Requests -> Conversations]
    /\ {MaxTokens, PlanLength, Trigger, Keep, MaxFaults} \subseteq Nat
    /\ PlanLength > 0 /\ Keep > 0
    /\ Agentic \subseteq Requests
    /\ None \notin Requests

\* the requests and their streams
VARIABLES
    phase,     \* where the handler or its generator stands
    outcome,   \* what retrieval decided: RAGResult.response_mode and answerable
    attempts,  \* failed attempts of the agentic generation
    sent,      \* tokens the client has received
    told,      \* the last event the client has received
    draft      \* what save_message and maybe_summarize read in the open transaction

\* the process: stream_control._active_streams
VARIABLE registry

\* the database
VARIABLES
    questions, \* user messages of a conversation, in order of creation
    answers,   \* assistant message saved for a request
    cases,     \* source_answer_id of the evaluation case of a question
    summary,   \* summary_message_count of a conversation
    deleted,   \* conversations with deleted = 1
    trace      \* RagTraceRun.status

\* the environment and history
VARIABLES
    faults,    \* failures and departures so far
    flagged,   \* requests whose stop was answered with "stopped": true
    overlapped \* requests that shared their conversation with another stream

stream == <<phase, outcome, attempts, sent, told, draft>>
rows == <<questions, answers, cases, summary, deleted>>
vars == <<stream, registry, rows, trace, faults, flagged, overlapped>>

Phases == {"idle", "traced", "accepted", "open", "asked", "generating", "buffered",
           "saving", "committing", "summarising", "counting", "finalising",
           "telling", "failed", "closing", "ended", "refused"}
Answers == {"none", "guidance", "refusal", "partial", "full"}
Statuses == {"none", "success", "guidance", "rejected", "stopped", "error"}

\* phases in which the generator runs and can be cut off or fail
Live == {"open", "asked", "generating", "buffered", "saving", "committing",
         "summarising", "counting", "finalising", "telling", "failed", "closing"}
Working == Live \ {"failed", "closing"}

Siblings(r) == {q \in Requests \ {r} : ConversationOf[q] = ConversationOf[r]}
Count(c) == Len(questions[c])
    + Cardinality({r \in Requests : ConversationOf[r] = c /\ answers[r] # "none"})

TypeOK ==
    /\ phase \in [Requests -> Phases]
    /\ outcome \in [Requests -> {"none", "guidance", "refusal", "partial", "full"}]
    /\ attempts \in [Requests -> 0 .. PlanLength]
    /\ sent \in [Requests -> 0 .. MaxTokens]
    /\ told \in [Requests -> {"nothing", "finish", "stopped", "error", "unavailable"}]
    /\ draft \in [Requests -> [question : Requests \cup {None}, seen : BOOLEAN, count : Nat]]
    /\ registry \in [Conversations -> [owner : Requests \cup {None}, stop : BOOLEAN]]
    /\ questions \in [Conversations -> Seq(Requests)]
    /\ answers \in [Requests -> Answers]
    /\ cases \in [Requests -> Requests \cup {None}]
    /\ summary \in [Conversations -> Nat]
    /\ deleted \subseteq Conversations
    /\ trace \in [Requests -> Statuses]
    /\ faults \in 0 .. MaxFaults
    /\ flagged \subseteq Requests
    /\ overlapped \subseteq Requests

NoDraft == [question |-> None, seen |-> FALSE, count |-> 0]
NoEntry == [owner |-> None, stop |-> FALSE]

Init ==
    /\ phase = [r \in Requests |-> "idle"]
    /\ outcome = [r \in Requests |-> "none"]
    /\ attempts = [r \in Requests |-> 0]
    /\ sent = [r \in Requests |-> 0]
    /\ told = [r \in Requests |-> "nothing"]
    /\ draft = [r \in Requests |-> NoDraft]
    /\ registry = [c \in Conversations |-> NoEntry]
    /\ questions = [c \in Conversations |-> <<>>]
    /\ answers = [r \in Requests |-> "none"]
    /\ cases = [r \in Requests |-> None]
    /\ summary = [c \in Conversations |-> 0]
    /\ deleted = {}
    /\ trace = [r \in Requests |-> "none"]
    /\ faults = 0
    /\ flagged = {}
    /\ overlapped = {}

-----------------------------------------------------------------------------
(* stream_control: one entry for each conversation, not for each stream. *)

Register(r) ==
    registry' = [registry EXCEPT ![ConversationOf[r]] = [owner |-> r, stop |-> FALSE]]

StopRequested(r) == registry[ConversationOf[r]].stop

\* variant: a stopped stream keeps its entry
UnregisterUnstopped(r) ==
    registry' = IF StopRequested(r) THEN registry
                ELSE [registry EXCEPT ![ConversationOf[r]] = NoEntry]

\* pops the key, whoever registered last
Unregister(r) == registry' = [registry EXCEPT ![ConversationOf[r]] = NoEntry]

Goto(r, p) == phase' = [phase EXCEPT ![r] = p]

-----------------------------------------------------------------------------
(* The handler: checks, trace, conversation. *)

\* Too long a question, a suspected injection, a rate limit: before any write.
Refuse(r) ==
    /\ phase[r] = "idle"
    /\ Goto(r, "refused")
    /\ UNCHANGED <<outcome, attempts, sent, told, draft, registry, rows, trace,
                   faults, flagged, overlapped>>

\* TraceLogger.trace_query commits the run with the default status.
OpenTrace(r) ==
    /\ phase[r] = "idle"
    /\ Goto(r, "traced")
    /\ trace' = [trace EXCEPT ![r] = "success"]
    /\ UNCHANGED <<outcome, attempts, sent, told, draft, registry, rows, faults,
                   flagged, overlapped>>

\* The conversation is created or its title set, and committed.
SetUp(r) ==
    /\ phase[r] = "traced"
    /\ Goto(r, "accepted")
    /\ UNCHANGED <<outcome, attempts, sent, told, draft, registry, rows, trace,
                   faults, flagged, overlapped>>

\* The set-up fails: rollback and 503; the trace run has been committed.
SetUpFails(r) ==
    /\ phase[r] = "traced"
    /\ faults < MaxFaults
    /\ faults' = faults + 1
    /\ Goto(r, "refused")
    /\ told' = [told EXCEPT ![r] = "unavailable"]
    /\ UNCHANGED <<outcome, attempts, sent, draft, registry, rows, trace, flagged,
                   overlapped>>

-----------------------------------------------------------------------------
(* The generator event_stream. *)

\* the first step of the generator: from here on it will unregister
Connect(r) ==
    /\ phase[r] = "accepted"
    /\ Goto(r, "open")
    /\ Register(r)
    /\ LET others == {q \in Siblings(r) : phase[q] \in Live}
       IN overlapped' = overlapped \cup others \cup (IF others = {} THEN {} ELSE {r})
    /\ UNCHANGED <<outcome, attempts, sent, told, draft, rows, trace, faults,
                   flagged>>

\* the history is read, the question saved and committed
Ask(r) ==
    /\ phase[r] = "open"
    /\ Goto(r, "asked")
    /\ questions' = [questions EXCEPT ![ConversationOf[r]] = Append(@, r)]
    /\ UNCHANGED <<outcome, attempts, sent, told, draft, registry, answers, cases,
                   summary, deleted, trace, faults, flagged, overlapped>>

Decide(r, kind, p) ==
    /\ outcome' = [outcome EXCEPT ![r] = kind]
    /\ Goto(r, p)

\* the question is too vague: a fixed answer asks for the scope
Guide(r) == Decide(r, "guidance", "saving")

\* nothing fit to answer from was found, or the search was down
Decline(r) == Decide(r, "refusal", "saving")

\* the prompt from context, profile, memories and history; a model is chosen
Prompt(r) == Decide(r, "full", "generating")

\* Scopes, profile and memories, the pipeline or the agent; the meta event.
Retrieve(r) ==
    /\ phase[r] = "asked"
    /\ Guide(r) \/ Decline(r) \/ Prompt(r)
    /\ UNCHANGED <<attempts, sent, told, draft, registry, rows, trace, faults, flagged,
                   overlapped>>

\* collect_agentic_generation: an attempt fails or is empty, its tokens are dropped
AttemptFails(r) ==
    /\ phase[r] = "generating" /\ r \in Agentic
    /\ attempts[r] < PlanLength
    /\ attempts' = [attempts EXCEPT ![r] = @ + 1]
    /\ Goto(r, IF attempts'[r] = PlanLength THEN "failed" ELSE "generating")
    /\ UNCHANGED <<outcome, sent, told, draft, registry, rows, trace, faults,
                   flagged, overlapped>>

\* ... or succeeds: the tokens are replayed from a buffer
AttemptSucceeds(r) ==
    /\ phase[r] = "generating" /\ r \in Agentic
    /\ Goto(r, "buffered")
    /\ UNCHANGED <<outcome, attempts, sent, told, draft, registry, rows, trace,
                   faults, flagged, overlapped>>

Streaming(r) == \/ phase[r] = "generating" /\ r \notin Agentic
                \/ phase[r] = "buffered"

\* A token arrives while no stop is requested and the client is there.
SendToken(r) ==
    /\ Streaming(r)
    /\ sent[r] < MaxTokens
    /\ ~StopRequested(r)
    /\ sent' = [sent EXCEPT ![r] = @ + 1]
    /\ UNCHANGED <<phase, outcome, attempts, told, draft, registry, rows, trace,
                   faults, flagged, overlapped>>

\* A token arrives and the stop is seen, or the client found gone: the answer is partial.
BreakOff(r) ==
    /\ Streaming(r)
    /\ sent[r] < MaxTokens
    /\ \/ StopRequested(r) /\ faults' = faults
       \/ ~StopRequested(r) /\ faults < MaxFaults /\ faults' = faults + 1
    /\ outcome' = [outcome EXCEPT ![r] = "partial"]
    /\ Goto(r, "saving")
    /\ UNCHANGED <<attempts, sent, told, draft, registry, rows, trace, flagged,
                   overlapped>>

\* The last token has been sent; citations and masking.
LastToken(r) ==
    /\ Streaming(r)
    /\ sent[r] = MaxTokens
    /\ Goto(r, "saving")
    /\ UNCHANGED <<outcome, attempts, sent, told, draft, registry, rows, trace,
                   faults, flagged, overlapped>>

\* variant: the first question of the conversation
SaveMessageOldest(r) ==
    /\ phase[r] = "saving"
    /\ LET oldest == Head(questions[ConversationOf[r]])
       IN draft' = [draft EXCEPT ![r] =
                      [question |-> oldest, seen |-> cases[oldest] # None, count |-> 0]]
    /\ Goto(r, "committing")
    /\ UNCHANGED <<outcome, attempts, sent, told, registry, rows, trace, faults, flagged,
                   overlapped>>

\* save_message: the newest question of the conversation, and whether it has a case
SaveMessage(r) ==
    /\ phase[r] = "saving"
    /\ LET asked == questions[ConversationOf[r]]
           newest == asked[Len(asked)]
       IN draft' = [draft EXCEPT ![r] =
                      [question |-> newest, seen |-> cases[newest] # None, count |-> 0]]
    /\ Goto(r, "committing")
    /\ UNCHANGED <<outcome, attempts, sent, told, registry, rows, trace, faults,
                   flagged, overlapped>>

\* The second insert for one question breaks uq_evaluation_case_source_question.
Duplicate(r) == ~draft[r].seen /\ cases[draft[r].question] # None

\* variant: the kind of the answer for the status of the run
StatusIsKind(kind) == kind

StatusOf(kind) ==
    CASE kind = "guidance" -> "guidance" [] kind = "refusal" -> "rejected"
      [] kind = "partial" -> "stopped" [] OTHER -> "success"

\* The answer and its case; TraceLogger.finalize commits them with the status when they
\* are in the request's session (guidance, refusal), else they are committed first.
CommitAnswer(r) ==
    /\ phase[r] = "committing"
    /\ ~Duplicate(r)
    /\ answers' = [answers EXCEPT ![r] = outcome[r]]
    /\ cases' = [cases EXCEPT ![draft[r].question] = r]
    /\ draft' = [draft EXCEPT ![r] = NoDraft]
    /\ IF outcome[r] \in {"guidance", "refusal"}
       THEN /\ trace' = [trace EXCEPT ![r] = StatusOf(outcome[r])]
            /\ Goto(r, "telling")
       ELSE /\ Goto(r, IF outcome[r] = "partial" THEN "finalising" ELSE "summarising")
            /\ UNCHANGED trace
    /\ UNCHANGED <<outcome, attempts, sent, told, registry, questions, summary,
                   deleted, faults, flagged, overlapped>>

\* variant: the handler tries the insert again
CommitFailsRetry(r) ==
    /\ phase[r] = "committing"
    /\ Duplicate(r)
    /\ UNCHANGED vars

CommitFails(r) ==
    /\ phase[r] = "committing"
    /\ Duplicate(r)
    /\ draft' = [draft EXCEPT ![r] = NoDraft]
    /\ Goto(r, "failed")
    /\ UNCHANGED <<outcome, attempts, sent, told, registry, rows, trace, faults,
                   flagged, overlapped>>

\* maybe_summarize reads the messages ...
CountMessages(r) ==
    /\ phase[r] = "summarising"
    /\ draft' = [draft EXCEPT ![r] = [question |-> None, seen |-> FALSE,
                                       count |-> Count(ConversationOf[r])]]
    /\ Goto(r, "counting")
    /\ UNCHANGED <<outcome, attempts, sent, told, registry, rows, trace, faults,
                   flagged, overlapped>>

\* variant: the messages up to the trigger stay out of the summary
SummariseLess(r) ==
    /\ phase[r] = "counting"
    /\ LET c == ConversationOf[r]
           n == draft[r].count
       IN summary' = IF n > Trigger /\ n > Keep /\ c \notin deleted
                     THEN [summary EXCEPT ![c] = n - Trigger] ELSE summary
    /\ draft' = [draft EXCEPT ![r] = NoDraft]
    /\ Goto(r, "finalising")
    /\ UNCHANGED <<outcome, attempts, sent, told, registry, questions, answers, cases,
                   deleted, trace, faults, flagged, overlapped>>

\* ... and commits the summary of all but the most recent of them
Summarise(r) ==
    /\ phase[r] = "counting"
    /\ LET c == ConversationOf[r]
           n == draft[r].count
       IN summary' = IF n > Trigger /\ n > Keep /\ c \notin deleted
                     THEN [summary EXCEPT ![c] = n - Keep] ELSE summary
    /\ draft' = [draft EXCEPT ![r] = NoDraft]
    /\ Goto(r, "finalising")
    /\ UNCHANGED <<outcome, attempts, sent, told, registry, questions, answers,
                   cases, deleted, trace, faults, flagged, overlapped>>

\* variant: a stopped stream is finalised with the default status
FinaliseTraceDefault(r) ==
    /\ phase[r] = "finalising"
    /\ trace' = [trace EXCEPT ![r] = "success"]
    /\ Goto(r, "telling")
    /\ UNCHANGED <<outcome, attempts, sent, told, draft, registry, rows, faults, flagged,
                   overlapped>>

FinaliseTrace(r) ==
    /\ phase[r] = "finalising"
    /\ trace' = [trace EXCEPT ![r] = StatusOf(outcome[r])]
    /\ Goto(r, "telling")
    /\ UNCHANGED <<outcome, attempts, sent, told, draft, registry, rows, faults,
                   flagged, overlapped>>

\* The audit record, the finish and done events; the memory task is external.
Tell(r) ==
    /\ phase[r] = "telling"
    /\ told' = [told EXCEPT ![r] = IF outcome[r] = "partial" THEN "stopped" ELSE "finish"]
    /\ Goto(r, "closing")
    /\ UNCHANGED <<outcome, attempts, sent, draft, registry, rows, trace, faults,
                   flagged, overlapped>>

\* Any step raises: its transaction is rolled back.  TraceLogger._commit swallows a
\* failed commit and rolls back, in the guidance and refusal branches with the message.
StepFails(r) ==
    /\ phase[r] \in Working
    /\ faults < MaxFaults
    /\ faults' = faults + 1
    /\ draft' = [draft EXCEPT ![r] = NoDraft]
    /\ \/ Goto(r, "failed")
       \/ phase[r] = "committing" /\ outcome[r] \in {"guidance", "refusal"}
          /\ Goto(r, "telling")
    /\ UNCHANGED <<outcome, attempts, sent, told, registry, rows, trace, flagged,
                   overlapped>>

\* except Exception: the trace becomes "error", in a session of its own that may fail
HandleError(r) ==
    /\ phase[r] = "failed"
    /\ \/ trace' = [trace EXCEPT ![r] = "error"] /\ faults' = faults
       \/ faults < MaxFaults /\ faults' = faults + 1 /\ trace' = trace
    /\ told' = [told EXCEPT ![r] = "error"]
    /\ Goto(r, "closing")
    /\ UNCHANGED <<outcome, attempts, sent, draft, registry, rows, flagged,
                   overlapped>>

\* The server cancels the generator of a client that has left: neither Exception nor
\* its handler, only finally.
Cancel(r) ==
    /\ phase[r] \in Working
    /\ faults < MaxFaults
    /\ faults' = faults + 1
    /\ draft' = [draft EXCEPT ![r] = NoDraft]
    /\ Goto(r, "closing")
    /\ UNCHANGED <<outcome, attempts, sent, told, registry, rows, trace, flagged,
                   overlapped>>

Close(r) ==
    /\ phase[r] = "closing"
    /\ Goto(r, "ended")
    /\ Unregister(r)
    /\ UNCHANGED <<outcome, attempts, sent, told, draft, rows, trace, faults,
                   flagged, overlapped>>

-----------------------------------------------------------------------------
(* Other endpoints. *)

\* variant: the stop takes the entry away
StopAndForget(c) ==
    /\ registry[c] # NoEntry
    /\ registry' = [registry EXCEPT ![c] = NoEntry]
    /\ flagged' = flagged \cup {r \in Requests : ConversationOf[r] = c /\ phase[r] \in Live}
    /\ UNCHANGED <<stream, rows, trace, faults, overlapped>>

\* POST /chat/stop: answers whether the conversation had an entry.
Stop(c) ==
    /\ registry[c] # NoEntry /\ ~registry[c].stop
    /\ registry' = [registry EXCEPT ![c].stop = TRUE]
    /\ flagged' = flagged \cup {r \in Requests : ConversationOf[r] = c /\ phase[r] \in Live}
    /\ UNCHANGED <<stream, rows, trace, faults, overlapped>>

\* DELETE /conversations: the row is marked, its streams go on.
DeleteConversation(c) ==
    /\ c \notin deleted
    /\ deleted' = deleted \cup {c}
    /\ UNCHANGED <<stream, registry, questions, answers, cases, summary, trace, faults,
                   flagged, overlapped>>

Serve(r) ==
    \/ SetUp(r) \/ Connect(r) \/ Ask(r) \/ Retrieve(r) \/ AttemptFails(r)
    \/ AttemptSucceeds(r) \/ SendToken(r) \/ BreakOff(r) \/ LastToken(r)
    \/ SaveMessage(r) \/ CommitAnswer(r) \/ CommitFails(r) \/ CountMessages(r)
    \/ Summarise(r) \/ FinaliseTrace(r) \/ Tell(r) \/ HandleError(r) \/ Close(r)

Next ==
    \/ \E r \in Requests :
        Refuse(r) \/ OpenTrace(r) \/ SetUpFails(r) \/ Serve(r) \/ StepFails(r) \/ Cancel(r)
    \/ \E c \in Conversations : Stop(c) \/ DeleteConversation(c)

Spec == Init /\ [][Next]_vars

\* the event loop runs a generator that can take a step, and every await in it has a
\* timeout
FairSpec == Spec /\ \A r \in Requests : WF_vars(Serve(r))

-----------------------------------------------------------------------------
(* Properties. *)

\* An entry of the stop registry belongs to a conversation with a stream that is still
\* running: the finally of event_stream leaves nothing behind, whatever ended it.
RegistryIsLive ==
    \A c \in Conversations : registry[c] # NoEntry =>
        \E r \in Requests : ConversationOf[r] = c /\ phase[r] \in Live

\* A stop that was answered with "stopped": true stays visible to the stream until it
\* ends, when no other stream of the conversation has run beside it (/chat/stop).
StopIsKept ==
    \A r \in Requests :
        r \in flagged /\ r \notin overlapped /\ phase[r] \in Live => StopRequested(r)

\* The stop registry serves the streams that run: an entry belongs to one of them, and a
\* stop that was confirmed stays visible to a stream that ran alone, until it ends.
StreamIsControlled == RegistryIsLive /\ StopIsKept

\* A client that was told the end of a generated answer, whole or stopped, can find it
\* in the conversation, and the trace says how it ended; no other status is shown for
\* it (the answer's commit, FinaliseTrace and Tell, in this order).
ToldIsSaved ==
    \A r \in Requests :
        told[r] \in {"finish", "stopped"} /\ outcome[r] \in {"full", "partial"} =>
            /\ answers[r] = outcome[r]
            /\ trace[r] = StatusOf(outcome[r])

\* The evaluation case of a question asked while no other stream of its conversation ran
\* is about the answer to that question (save_message pairs an answer with the newest
\* question before it).
LoneCaseIsItsOwn ==
    \A r \in Requests : r \notin overlapped /\ cases[r] # None => cases[r] = r

\* After an answered question without overlap, the summary and the messages that stay
\* recent cover the conversation: at most Keep messages are behind the summary, or there
\* are too few of them for one (maybe_summarize).
SummaryIsCurrent ==
    \A r \in Requests :
        LET c == ConversationOf[r]
        IN /\ phase[r] = "finalising" /\ outcome[r] = "full" /\ c \notin deleted
           /\ {r} \cup Siblings(r) \subseteq Requests \ overlapped
           => Count(c) <= Trigger \/ Count(c) - summary[c] <= Keep

\* What is saved is what happened: an answer that the client was told the end of is in the
\* conversation and its trace, the evaluation case of a question that was asked alone is
\* about its answer, and the summary keeps up with the answers.
RecordsAreTrue == ToldIsSaved /\ LoneCaseIsItsOwn /\ SummaryIsCurrent

\* Every request whose stream began comes to its end, with its entry removed, whatever
\* fails, stops or leaves.
EveryStreamEnds == \A r \in Requests : phase[r] \in Live ~> phase[r] = "ended"

\* The docstring of EvaluationDatasetCase: every completed answer receives one case.
EveryAnswerHasCase ==
    \A r \in Requests : answers[r] = "full" => \E q \in Requests : cases[q] = r

\* The docstring of /chat/stop, for a conversation whose stream is running.
StopFindsStream ==
    \A r \in Requests : phase[r] \in Live => registry[ConversationOf[r]] # NoEntry
=============================================================================
