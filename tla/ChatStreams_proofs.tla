------------------------- MODULE ChatStreams_proofs -------------------------
(***************************************************************************)
(* For any number of requests and conversations, and whatever fails, stops *)
(* or leaves: the stop registry serves the streams that run, what a client *)
(* was told is saved, and the case of a question asked alone is its own.   *)
(*                                                                         *)
(* The registry has one entry for a conversation, so the argument is about *)
(* its other streams: two that run at the same time have both overlapped   *)
(* (LiveOverlap), hence whoever registers or unregisters beside a stream   *)
(* spoils only promises that were not made.                                *)
(***************************************************************************)
EXTENDS ChatStreams, FiniteSetTheorems, TLAPS

LiveOverlap ==
    \A r \in Requests : \A q \in Siblings(r) :
        phase[r] \in Live /\ phase[q] \in Live => r \in overlapped

FlaggedBegan == \A r \in flagged : phase[r] \in Live \cup {"ended"}

ControlInv == LiveOverlap /\ FlaggedBegan /\ RegistryIsLive /\ StopIsKept

\* Questions that follow one which is being answered were asked beside it.
LaterAsked(r) ==
    LET asked == questions[ConversationOf[r]]
    IN \E i \in 1 .. Len(asked) :
        asked[i] = r /\ \A j \in 1 .. Len(asked) : j > i => asked[j] \in overlapped

LaterOverlap ==
    \A r \in Requests :
        phase[r] \in {"asked", "generating", "buffered", "saving"} => LaterAsked(r)

DraftIsOwn ==
    \A r \in Requests : phase[r] = "committing" =>
        draft[r].question \in {r} \cup overlapped

CaseInv == LaterOverlap /\ DraftIsOwn /\ LoneCaseIsItsOwn

\* The steps of a request, in the terms of Next.
Step(r) == Refuse(r) \/ OpenTrace(r) \/ SetUpFails(r) \/ Serve(r) \/ StepFails(r) \/ Cancel(r)

\* An answer is saved only where a question was.
AskedBefore ==
    \A r \in Requests :
        phase[r] \in {"asked", "generating", "buffered", "saving"} =>
            questions[ConversationOf[r]] # <<>>

TypeInv == TypeOK /\ AskedBefore

-----------------------------------------------------------------------------
\* The number of messages of a conversation is one.
LEMMA CountType ==
  ASSUME TypeOK, NEW c \in Conversations
  PROVE  Count(c) \in Nat
  <1> DEFINE A == {r \in Requests : ConversationOf[r] = c /\ answers[r] # "none"}
  <1>1. Cardinality(A) \in Nat
    BY FS_Subset, FS_CardinalityType, ChatAssumption, A \subseteq Requests DEF ChatAssumption
  <1>2. Len(questions[c]) \in Nat
    BY DEF TypeOK
  <1> QED BY <1>1, <1>2 DEF Count

LEMMA InitType == Init => TypeInv
  BY ChatAssumption DEF ChatAssumption, Init, TypeInv, AskedBefore, TypeOK, NoDraft, NoEntry,
                        Phases, Answers, Statuses

\* A step of a request moves no other one.
LEMMA PhaseMoves ==
  ASSUME TypeOK, NEW r \in Requests, Step(r)
  PROVE  phase' = phase \/ \E p \in Phases : phase' = [phase EXCEPT ![r] = p]
  BY DEF Phases, Step, Serve, Refuse, OpenTrace, SetUp, SetUpFails, Connect, Ask, Retrieve,
         Guide,
         Decline, Prompt, Decide, AttemptFails, AttemptSucceeds, SendToken, BreakOff, LastToken,
         SaveMessage, CommitAnswer, CommitFails, CountMessages, Summarise, FinaliseTrace, Tell,
         HandleError, Close, StepFails, Cancel, Goto, stream, rows

LEMMA OthersStay ==
  ASSUME TypeOK, NEW r \in Requests, Step(r)
  PROVE  /\ phase' \in [Requests -> Phases]
         /\ \A q \in Requests \ {r} : phase'[q] = phase[q]
  BY PhaseMoves DEF TypeOK

\* Every step of a request keeps the types, variable by variable.
LEMMA StepType ==
  ASSUME TypeInv, NEW r \in Requests, Step(r)
  PROVE  TypeOK'
  <1> USE ChatAssumption DEF ChatAssumption, TypeInv, Step, Serve, Refuse, OpenTrace, SetUp,
                             SetUpFails, Connect, Ask, Retrieve, Guide,
         Decline, Prompt, Decide, AttemptFails, AttemptSucceeds, SendToken, BreakOff, LastToken,
         SaveMessage, CommitAnswer, CommitFails, CountMessages, Summarise, FinaliseTrace, Tell,
         HandleError, Close, StepFails, Cancel, Goto, stream, rows
  <1>1. phase' \in [Requests -> Phases]
    BY OthersStay
  <1>2. outcome' \in [Requests -> {"none", "guidance", "refusal", "partial", "full"}]
    BY DEF TypeOK
  <1>3. attempts' \in [Requests -> 0 .. PlanLength]
    <2>1. CASE attempts' = attempts
      BY <2>1 DEF TypeOK
    <2>2. CASE attempts[r] < PlanLength /\ attempts' = [attempts EXCEPT ![r] = @ + 1]
      <3>1. PlanLength \in Nat /\ attempts[r] + 1 \in 0 .. PlanLength
        BY <2>2 DEF TypeOK
      <3> QED BY <2>2, <3>1 DEF TypeOK
    <2> QED BY <2>1, <2>2
  <1>4. sent' \in [Requests -> 0 .. MaxTokens]
    <2>1. CASE sent' = sent
      BY <2>1 DEF TypeOK
    <2>2. CASE sent[r] < MaxTokens /\ sent' = [sent EXCEPT ![r] = @ + 1]
      <3>1. MaxTokens \in Nat /\ sent[r] + 1 \in 0 .. MaxTokens
        BY <2>2 DEF TypeOK
      <3> QED BY <2>2, <3>1 DEF TypeOK
    <2> QED BY <2>1, <2>2
  <1>5. told' \in [Requests -> {"nothing", "finish", "stopped", "error", "unavailable"}]
    BY DEF TypeOK
  <1>6. draft' \in [Requests -> [question : Requests \cup {None}, seen : BOOLEAN, count : Nat]]
    <2> DEFINE Drafts == [question : Requests \cup {None}, seen : BOOLEAN, count : Nat]
    <2>1. CASE draft' = draft
      BY <2>1 DEF TypeOK
    <2>2. CASE draft' = [draft EXCEPT ![r] = NoDraft]
      BY <2>2 DEF TypeOK, NoDraft
    <2>3. CASE SaveMessage(r)
      <3> DEFINE asked == questions[ConversationOf[r]]
                 newest == asked[Len(asked)]
      <3>1. asked \in Seq(Requests) /\ asked # <<>>
        BY <2>3 DEF TypeOK, AskedBefore
      <3>2. newest \in Requests
        BY <3>1
      <3>3. draft' = [draft EXCEPT ![r] =
                       [question |-> newest, seen |-> cases[newest] # None, count |-> 0]]
        BY <2>3
      <3>4. (cases[newest] # None) \in BOOLEAN
        OBVIOUS
      <3>5. [question |-> newest, seen |-> cases[newest] # None, count |-> 0] \in Drafts
        BY <3>2, <3>4
      <3> QED BY <3>3, <3>5 DEF TypeOK
    <2>4. CASE CountMessages(r)
      <3>1. Count(ConversationOf[r]) \in Nat
        BY CountType
      <3>2. draft' = [draft EXCEPT ![r] =
                       [question |-> None, seen |-> FALSE, count |-> Count(ConversationOf[r])]]
        BY <2>4
      <3> HIDE DEF CountMessages
      <3> QED BY <3>1, <3>2 DEF TypeOK
    <2> QED BY <2>1, <2>2, <2>3, <2>4
  <1>7. registry' \in [Conversations -> [owner : Requests \cup {None}, stop : BOOLEAN]]
    <2>1. CASE registry' = registry
      BY <2>1 DEF TypeOK
    <2>2. CASE Register(r)
      BY <2>2 DEF TypeOK, Register
    <2>3. CASE Unregister(r)
      BY <2>3 DEF TypeOK, Unregister, NoEntry
    <2> QED BY <2>1, <2>2, <2>3
  <1>8. questions' \in [Conversations -> Seq(Requests)]
    <2>1. CASE questions' = questions
      BY <2>1 DEF TypeOK
    <2>2. CASE questions' = [questions EXCEPT ![ConversationOf[r]] = Append(@, r)]
      <3>1. Append(questions[ConversationOf[r]], r) \in Seq(Requests)
        BY DEF TypeOK
      <3> QED BY <2>2, <3>1 DEF TypeOK
    <2> QED BY <2>1, <2>2
  <1>9. answers' \in [Requests -> Answers]
    <2>1. CASE answers' = answers
      BY <2>1 DEF TypeOK
    <2>2. CASE answers' = [answers EXCEPT ![r] = outcome[r]]
      BY <2>2 DEF TypeOK, Answers
    <2> QED BY <2>1, <2>2
  <1>10. cases' \in [Requests -> Requests \cup {None}]
    <2>1. CASE cases' = cases
      BY <2>1 DEF TypeOK
    <2>2. CASE cases' = [cases EXCEPT ![draft[r].question] = r]
      BY <2>2 DEF TypeOK
    <2> QED BY <2>1, <2>2
  <1>11. summary' \in [Conversations -> Nat]
    <2>1. CASE summary' = summary
      BY <2>1 DEF TypeOK
    <2>2. CASE /\ draft[r].count > Keep
               /\ summary' = [summary EXCEPT ![ConversationOf[r]] = draft[r].count - Keep]
      <3>1. Keep \in Nat /\ draft[r].count - Keep \in Nat
        BY <2>2 DEF TypeOK
      <3> QED BY <2>2, <3>1 DEF TypeOK
    <2> QED BY <2>1, <2>2
  <1>12. deleted' \subseteq Conversations
    BY DEF TypeOK
  <1>13. trace' \in [Requests -> Statuses]
    BY DEF TypeOK, Statuses, StatusOf
  <1>14. faults' \in 0 .. MaxFaults
    <2>1. faults' = faults \/ (faults < MaxFaults /\ faults' = faults + 1)
      OBVIOUS
    <2>2. faults \in 0 .. MaxFaults /\ MaxFaults \in Nat
      BY DEF TypeOK
    <2> HIDE DEF Step
    <2> QED BY <2>1, <2>2
  <1>15. flagged' \subseteq Requests
    BY DEF TypeOK
  <1>16. overlapped' \subseteq Requests
    BY DEF TypeOK, Siblings
  <1> HIDE DEF Step
  <1> QED
    BY <1>1, <1>2, <1>3, <1>4, <1>5, <1>6, <1>7, <1>8, <1>9, <1>10, <1>11, <1>12, <1>13, <1>14,
       <1>15, <1>16 DEF TypeOK

\* Questions are only ever added.
LEMMA StepAsked ==
  ASSUME TypeInv, NEW r \in Requests, Step(r)
  PROVE  AskedBefore'
  <1>0. \A q \in Requests \ {r} : phase'[q] = phase[q]
    BY OthersStay DEF TypeInv
  <1>1. CASE questions' = [questions EXCEPT ![ConversationOf[r]] = Append(@, r)]
    <2>1. questions \in [Conversations -> Seq(Requests)] /\ ConversationOf[r] \in Conversations
      BY ChatAssumption DEF TypeInv, TypeOK, ChatAssumption
    <2>2. Append(questions[ConversationOf[r]], r) # <<>>
      BY <2>1
    <2>3. \A c \in Conversations :
            questions'[c] = questions[c] \/ (c = ConversationOf[r] /\ questions'[c] # <<>>)
      BY <1>1, <2>1, <2>2
    <2>4. questions'[ConversationOf[r]] # <<>>
      BY <1>1, <2>1, <2>2
    <2> QED BY <1>0, <2>3, <2>4, ChatAssumption DEF TypeInv, AskedBefore, ChatAssumption
  <1>2. CASE UNCHANGED questions /\ ~Ask(r)
    <2>1. phase'[r] \in {"asked", "generating", "buffered", "saving"} =>
            phase[r] \in {"asked", "generating", "buffered", "saving"}
      BY <1>2 DEF TypeInv, TypeOK, Streaming, Step, Serve, Refuse, OpenTrace, SetUp,
                  SetUpFails, Connect, Retrieve, Guide,
         Decline, Prompt, Decide, AttemptFails, AttemptSucceeds, SendToken, BreakOff, LastToken,
         SaveMessage, CommitAnswer, CommitFails, CountMessages, Summarise, FinaliseTrace, Tell,
         HandleError, Close, StepFails, Cancel, Goto, stream, rows
    <2> QED BY <1>0, <1>2, <2>1 DEF TypeInv, AskedBefore
  <1> QED
    BY <1>1, <1>2 DEF Step, Serve, Refuse, OpenTrace, SetUp, SetUpFails, Connect, Ask,
                      Retrieve, Guide,
         Decline, Prompt, Decide, AttemptFails, AttemptSucceeds, SendToken, BreakOff, LastToken,
         SaveMessage, CommitAnswer, CommitFails, CountMessages, Summarise, FinaliseTrace, Tell,
         HandleError, Close, StepFails, Cancel, Goto, stream, rows

LEMMA NextType == TypeInv /\ [Next]_vars => TypeInv'
  <1> SUFFICES ASSUME TypeInv, [Next]_vars PROVE TypeInv'
    OBVIOUS
  <1>1. CASE \E r \in Requests : Step(r)
    BY <1>1, StepType, StepAsked DEF TypeInv
  <1>2. CASE \E c \in Conversations : Stop(c)
    <2>1. PICK c \in Conversations : Stop(c)
      BY <1>2
    <2>2. /\ registry[c] \in [owner : Requests \cup {None}, stop : BOOLEAN]
          /\ registry' = [registry EXCEPT ![c] = [@ EXCEPT !.stop = TRUE]]
      BY <2>1 DEF Stop, TypeInv, TypeOK
    <2>3. [registry[c] EXCEPT !.stop = TRUE] \in [owner : Requests \cup {None}, stop : BOOLEAN]
      BY <2>2
    <2>4. registry' \in [Conversations -> [owner : Requests \cup {None}, stop : BOOLEAN]]
      BY <2>2, <2>3 DEF TypeInv, TypeOK
    <2>5. flagged' \subseteq Requests
      BY <2>1 DEF Stop, TypeInv, TypeOK
    <2> QED BY <2>1, <2>4, <2>5 DEF Stop, TypeInv, AskedBefore, TypeOK, stream, rows
  <1>3. CASE \E c \in Conversations : DeleteConversation(c)
    BY <1>3 DEF DeleteConversation, TypeInv, AskedBefore, TypeOK, stream
  <1>4. CASE UNCHANGED vars
    BY <1>4 DEF vars, stream, rows, TypeInv, AskedBefore, TypeOK
  <1> QED BY <1>1, <1>2, <1>3, <1>4 DEF Next, Step

\* Type correctness: among others, no stream sends more tokens than it has, and no plan of
\* attempts is exceeded.
THEOREM TypeCorrect == Spec => []TypeOK
  BY InitType, NextType, PTL DEF Spec, TypeInv

-----------------------------------------------------------------------------
\* Between its registration and its end a stream leaves the registry alone.
LEMMA QuietStep ==
  ASSUME TypeOK, NEW r \in Requests, Step(r), ~Connect(r), ~Close(r)
  PROVE  /\ UNCHANGED <<registry, flagged, overlapped>>
         /\ phase'[r] \in Live <=> phase[r] \in Live
         /\ phase[r] = "ended" => phase'[r] = "ended"
  <1>1. UNCHANGED <<registry, flagged, overlapped>>
    BY DEF Step, Serve, Refuse, OpenTrace, SetUp, SetUpFails, Ask, Retrieve, Guide,
         Decline, Prompt, Decide, AttemptFails, AttemptSucceeds, SendToken, BreakOff, LastToken,
         SaveMessage, CommitAnswer, CommitFails, CountMessages, Summarise, FinaliseTrace, Tell,
         HandleError, StepFails, Cancel, Goto, stream, rows
  <1>2. phase'[r] \in Live <=> phase[r] \in Live
    BY DEF TypeOK, Live, Working, Streaming, Step, Serve, Refuse, OpenTrace, SetUp, SetUpFails,
           Ask, Retrieve, Guide,
         Decline, Prompt, Decide, AttemptFails, AttemptSucceeds, SendToken, BreakOff, LastToken,
         SaveMessage, CommitAnswer, CommitFails, CountMessages, Summarise, FinaliseTrace, Tell,
         HandleError, StepFails, Cancel, Goto, stream, rows
  <1>3. phase[r] = "ended" => phase'[r] = "ended"
    BY DEF TypeOK, Live, Working, Streaming, Step, Serve, Refuse, OpenTrace, SetUp, SetUpFails,
           Ask, Retrieve, Guide,
         Decline, Prompt, Decide, AttemptFails, AttemptSucceeds, SendToken, BreakOff, LastToken,
         SaveMessage, CommitAnswer, CommitFails, CountMessages, Summarise, FinaliseTrace, Tell,
         HandleError, StepFails, Cancel, Goto, stream, rows
  <1> QED BY <1>1, <1>2, <1>3

LEMMA QuietControl ==
  ASSUME TypeOK, ControlInv, NEW r \in Requests, Step(r), ~Connect(r), ~Close(r)
  PROVE  ControlInv'
  <1>1. /\ UNCHANGED <<registry, flagged, overlapped>>
        /\ \A q \in Requests : phase'[q] \in Live <=> phase[q] \in Live
        /\ \A q \in Requests : phase[q] = "ended" => phase'[q] = "ended"
    BY QuietStep, OthersStay
  <1>2. LiveOverlap'
    BY <1>1 DEF ControlInv, LiveOverlap, Siblings
  <1>3. FlaggedBegan'
    BY <1>1 DEF ControlInv, FlaggedBegan, TypeOK
  <1>4. RegistryIsLive'
    BY <1>1 DEF ControlInv, RegistryIsLive
  <1>5. StopIsKept'
    BY <1>1 DEF ControlInv, StopIsKept, StopRequested
  <1> QED BY <1>2, <1>3, <1>4, <1>5 DEF ControlInv

\* Whoever registers overlaps with the streams whose entry it takes.
LEMMA ConnectControl ==
  ASSUME TypeOK, ControlInv, NEW r \in Requests, Connect(r)
  PROVE  ControlInv'
  <1> DEFINE others == {q \in Siblings(r) : phase[q] \in Live}
             c == ConversationOf[r]
  <1>1. /\ phase[r] = "accepted" /\ phase' = [phase EXCEPT ![r] = "open"]
        /\ registry' = [registry EXCEPT ![c] = [owner |-> r, stop |-> FALSE]]
        /\ overlapped' = overlapped \cup others \cup (IF others = {} THEN {} ELSE {r})
        /\ flagged' = flagged
    BY DEF Connect, Goto, Register
  <1>2. phase'[r] = "open" /\ \A q \in Requests \ {r} : phase'[q] = phase[q]
    BY <1>1 DEF TypeOK
  <1>3. c \in Conversations
    BY ChatAssumption DEF ChatAssumption
  <1>4. LiveOverlap'
    <2> SUFFICES ASSUME NEW p \in Requests, NEW q \in Siblings(p),
                        phase'[p] \in Live, phase'[q] \in Live
                 PROVE  p \in overlapped'
      BY DEF LiveOverlap, Siblings
    <2>1. q \in Requests \ {p} /\ ConversationOf[q] = ConversationOf[p]
      BY DEF Siblings
    <2>2. CASE p = r
      BY <1>1, <1>2, <2>1, <2>2 DEF Siblings
    <2>3. CASE q = r
      BY <1>1, <1>2, <2>1, <2>3 DEF Siblings
    <2>4. CASE p # r /\ q # r
      BY <1>1, <1>2, <2>1, <2>4 DEF ControlInv, LiveOverlap
    <2> QED BY <2>2, <2>3, <2>4
  <1>5. FlaggedBegan'
    BY <1>1, <1>2 DEF ControlInv, FlaggedBegan, TypeOK, Live
  <1>6. RegistryIsLive'
    <2>1. phase'[r] \in Live
      BY <1>2 DEF Live
    <2>2. phase[r] \notin Live
      BY <1>1 DEF Live
    <2>3. \A d \in Conversations \ {c} : registry'[d] = registry[d]
      BY <1>1, <1>3 DEF TypeOK
    <2> QED BY <1>2, <2>1, <2>2, <2>3 DEF ControlInv, RegistryIsLive
  <1>7. StopIsKept'
    <2> SUFFICES ASSUME NEW p \in Requests, p \in flagged', p \notin overlapped', phase'[p] \in Live
                 PROVE  StopRequested(p)'
      BY DEF StopIsKept
    <2>1. p # r
      BY <1>1 DEF ControlInv, FlaggedBegan, Live
    <2>2. p \notin Siblings(r)
      BY <1>1, <1>2, <2>1
    <2>3. ConversationOf[p] # c
      BY <2>1, <2>2 DEF Siblings
    <2>4. registry'[ConversationOf[p]] = registry[ConversationOf[p]]
      BY <1>1, <2>3, ChatAssumption DEF TypeOK, ChatAssumption
    <2>5. StopRequested(p)
      BY <1>1, <1>2, <2>1 DEF ControlInv, StopIsKept
    <2> QED BY <2>4, <2>5 DEF StopRequested
  <1> QED BY <1>4, <1>5, <1>6, <1>7 DEF ControlInv

\* Whoever unregisters takes the entry of streams it overlapped with.
LEMMA CloseControl ==
  ASSUME TypeOK, ControlInv, NEW r \in Requests, Close(r)
  PROVE  ControlInv'
  <1> DEFINE c == ConversationOf[r]
  <1>1. /\ phase[r] = "closing" /\ phase' = [phase EXCEPT ![r] = "ended"]
        /\ registry' = [registry EXCEPT ![c] = NoEntry]
        /\ UNCHANGED <<overlapped, flagged>>
    BY DEF Close, Goto, Unregister
  <1>2. phase'[r] = "ended" /\ \A q \in Requests \ {r} : phase'[q] = phase[q]
    BY <1>1 DEF TypeOK
  <1>3. phase'[r] \notin Live /\ phase[r] \in Live
    BY <1>1, <1>2 DEF Live
  <1>4. LiveOverlap'
    BY <1>1, <1>2, <1>3 DEF ControlInv, LiveOverlap, Siblings
  <1>5. FlaggedBegan'
    BY <1>1, <1>2 DEF ControlInv, FlaggedBegan, TypeOK
  <1>6. RegistryIsLive'
    <2>1. c \in Conversations
      BY ChatAssumption DEF ChatAssumption
    <2>2. registry'[c] = NoEntry /\ \A d \in Conversations \ {c} : registry'[d] = registry[d]
      BY <1>1, <2>1 DEF TypeOK
    <2> QED BY <1>2, <2>2 DEF ControlInv, RegistryIsLive
  <1>7. StopIsKept'
    <2> SUFFICES ASSUME NEW p \in Requests, p \in flagged', p \notin overlapped', phase'[p] \in Live
                 PROVE  StopRequested(p)'
      BY DEF StopIsKept
    <2>1. p # r /\ phase[p] \in Live
      BY <1>2, <1>3
    <2>2. ConversationOf[p] # c
      BY <1>1, <1>3, <2>1 DEF ControlInv, LiveOverlap, Siblings
    <2>3. registry'[ConversationOf[p]] = registry[ConversationOf[p]]
      BY <1>1, <2>2, ChatAssumption DEF TypeOK, ChatAssumption
    <2>4. StopRequested(p)
      BY <1>1, <2>1 DEF ControlInv, StopIsKept
    <2> QED BY <2>3, <2>4 DEF StopRequested
  <1> QED BY <1>4, <1>5, <1>6, <1>7 DEF ControlInv

\* A stop raises the flag of the entry and promises it to the streams that run.
LEMMA StopControl ==
  ASSUME TypeOK, ControlInv, NEW c \in Conversations, Stop(c)
  PROVE  ControlInv'
  <1>1. /\ registry[c] # NoEntry /\ registry' = [registry EXCEPT ![c] = [@ EXCEPT !.stop = TRUE]]
        /\ flagged' = flagged \cup {r \in Requests : ConversationOf[r] = c /\ phase[r] \in Live}
        /\ UNCHANGED <<phase, overlapped>>
    BY DEF Stop, stream
  <1>2. registry'[c].stop = TRUE /\ \A d \in Conversations \ {c} : registry'[d] = registry[d]
    BY <1>1 DEF TypeOK
  <1>3. LiveOverlap'
    BY <1>1 DEF ControlInv, LiveOverlap, Siblings
  <1>4. FlaggedBegan'
    BY <1>1 DEF ControlInv, FlaggedBegan
  <1>5. RegistryIsLive'
    BY <1>1, <1>2 DEF ControlInv, RegistryIsLive
  <1>6. StopIsKept'
    <2> SUFFICES ASSUME NEW p \in Requests, p \in flagged', p \notin overlapped', phase'[p] \in Live
                 PROVE  StopRequested(p)'
      BY DEF StopIsKept
    <2>1. CASE ConversationOf[p] = c
      BY <1>2, <2>1 DEF StopRequested
    <2>2. CASE ConversationOf[p] # c
      <3>1. p \in flagged /\ phase[p] \in Live /\ p \notin overlapped
        BY <1>1, <2>2
      <3>2. StopRequested(p)
        BY <3>1 DEF ControlInv, StopIsKept
      <3>3. registry'[ConversationOf[p]] = registry[ConversationOf[p]]
        BY <1>2, <2>2, ChatAssumption DEF ChatAssumption
      <3> QED BY <3>2, <3>3 DEF StopRequested
    <2> QED BY <2>1, <2>2
  <1> QED BY <1>3, <1>4, <1>5, <1>6 DEF ControlInv

LEMMA InitControl == Init => ControlInv
  BY DEF Init, ControlInv, LiveOverlap, FlaggedBegan, RegistryIsLive, StopIsKept, Siblings, Live

LEMMA NextControl == TypeOK /\ ControlInv /\ [Next]_vars => ControlInv'
  <1> SUFFICES ASSUME TypeOK, ControlInv, [Next]_vars PROVE ControlInv'
    OBVIOUS
  <1>1. CASE \E r \in Requests : Step(r)
    BY <1>1, QuietControl, ConnectControl, CloseControl
  <1>2. CASE \E c \in Conversations : Stop(c)
    BY <1>2, StopControl
  <1>3. CASE \E c \in Conversations : DeleteConversation(c)
    BY <1>3 DEF DeleteConversation, stream, ControlInv, LiveOverlap, FlaggedBegan,
                RegistryIsLive,
       StopIsKept, StopRequested, Siblings
  <1>4. CASE UNCHANGED vars
    BY <1>4 DEF vars, stream, ControlInv, LiveOverlap, FlaggedBegan, RegistryIsLive, StopIsKept,
       StopRequested, Siblings
  <1> QED BY <1>1, <1>2, <1>3, <1>4 DEF Next, Step

\* For any number of streams of a conversation: an entry of the stop registry belongs to a
\* stream that runs, and a stop that /chat/stop confirmed stays visible to a stream that
\* ran alone until it ends.
THEOREM StreamsAreControlled == Spec => []StreamIsControlled
  <1>1. Init => TypeInv /\ ControlInv
    BY InitType, InitControl
  <1>2. TypeInv /\ ControlInv /\ [Next]_vars => TypeInv' /\ ControlInv'
    BY NextType, NextControl DEF TypeInv
  <1>3. TypeInv /\ ControlInv => StreamIsControlled
    BY DEF ControlInv, StreamIsControlled
  <1> QED BY <1>1, <1>2, <1>3, PTL DEF Spec

-----------------------------------------------------------------------------
\* What a request was decided, answered, told and traced is its own.
LEMMA OthersKeep ==
  ASSUME TypeOK, NEW r \in Requests, Step(r), NEW q \in Requests \ {r}
  PROVE  /\ phase'[q] = phase[q] /\ outcome'[q] = outcome[q] /\ told'[q] = told[q]
         /\ answers'[q] = answers[q] /\ trace'[q] = trace[q] /\ draft'[q] = draft[q]
  <1>1. phase'[q] = phase[q]
    BY OthersStay
  <1>2. outcome'[q] = outcome[q]
    BY DEF TypeOK, Step, Serve, Refuse, OpenTrace, SetUp, SetUpFails, Connect, Ask, Retrieve,
           Guide,
         Decline, Prompt, Decide, AttemptFails, AttemptSucceeds, SendToken, BreakOff, LastToken,
         SaveMessage, CommitAnswer, CommitFails, CountMessages, Summarise, FinaliseTrace, Tell,
         HandleError, Close, StepFails, Cancel, Goto, stream, rows
  <1>3. told'[q] = told[q]
    BY DEF TypeOK, Step, Serve, Refuse, OpenTrace, SetUp, SetUpFails, Connect, Ask, Retrieve,
           Guide,
         Decline, Prompt, Decide, AttemptFails, AttemptSucceeds, SendToken, BreakOff, LastToken,
         SaveMessage, CommitAnswer, CommitFails, CountMessages, Summarise, FinaliseTrace, Tell,
         HandleError, Close, StepFails, Cancel, Goto, stream, rows
  <1>4. answers'[q] = answers[q]
    BY DEF TypeOK, Step, Serve, Refuse, OpenTrace, SetUp, SetUpFails, Connect, Ask, Retrieve,
           Guide,
         Decline, Prompt, Decide, AttemptFails, AttemptSucceeds, SendToken, BreakOff, LastToken,
         SaveMessage, CommitAnswer, CommitFails, CountMessages, Summarise, FinaliseTrace, Tell,
         HandleError, Close, StepFails, Cancel, Goto, stream, rows
  <1>5. trace'[q] = trace[q]
    BY DEF TypeOK, Step, Serve, Refuse, OpenTrace, SetUp, SetUpFails, Connect, Ask, Retrieve,
           Guide,
         Decline, Prompt, Decide, AttemptFails, AttemptSucceeds, SendToken, BreakOff, LastToken,
         SaveMessage, CommitAnswer, CommitFails, CountMessages, Summarise, FinaliseTrace, Tell,
         HandleError, Close, StepFails, Cancel, Goto, stream, rows
  <1>6. draft'[q] = draft[q]
    BY DEF TypeOK, Step, Serve, Refuse, OpenTrace, SetUp, SetUpFails, Connect, Ask, Retrieve,
           Guide,
         Decline, Prompt, Decide, AttemptFails, AttemptSucceeds, SendToken, BreakOff, LastToken,
         SaveMessage, CommitAnswer, CommitFails, CountMessages, Summarise, FinaliseTrace, Tell,
         HandleError, Close, StepFails, Cancel, Goto, stream, rows
  <1> QED BY <1>1, <1>2, <1>3, <1>4, <1>5, <1>6

\* The generated answer of a request is saved before its trace is finalised, and that before
\* the client hears of it.
InOrder(r) ==
    /\ phase[r] \in {"generating", "buffered", "saving", "committing"} => outcome[r] # "none"
    /\ phase[r] \in {"summarising", "counting", "finalising"} =>
        outcome[r] \in {"full", "partial"} /\ answers[r] = outcome[r]
    /\ phase[r] = "telling" /\ outcome[r] \in {"full", "partial"} =>
        answers[r] = outcome[r] /\ trace[r] = StatusOf(outcome[r])
    /\ told[r] \in {"finish", "stopped"} =>
        /\ phase[r] \in {"closing", "ended"}
        /\ outcome[r] \in {"full", "partial"} =>
            answers[r] = outcome[r] /\ trace[r] = StatusOf(outcome[r])

LEMMA StepInOrder ==
  ASSUME TypeOK, NEW r \in Requests, Step(r), InOrder(r)
  PROVE  InOrder(r)'
  <1> USE DEF InOrder, TypeOK, Goto, stream, rows
  <1>1. CASE Refuse(r) \/ OpenTrace(r) \/ SetUp(r) \/ SetUpFails(r) \/ Connect(r) \/ Ask(r)
    BY <1>1 DEF Refuse, OpenTrace, SetUp, SetUpFails, Connect, Ask
  <1>2. CASE Retrieve(r)
    BY <1>2 DEF Retrieve, Guide, Decline, Prompt, Decide
  <1>3. CASE \/ AttemptFails(r) \/ AttemptSucceeds(r) \/ SendToken(r) \/ BreakOff(r) \/ LastToken(r)
             \/ SaveMessage(r)
    BY <1>3 DEF AttemptFails, AttemptSucceeds, SendToken, BreakOff, LastToken, SaveMessage,
                Streaming
  <1>4. CASE CommitAnswer(r)
    <2>1. phase[r] = "committing" /\ answers' = [answers EXCEPT ![r] = outcome[r]] /\ outcome' = outcome
          /\ told' = told
      BY <1>4 DEF CommitAnswer
    <2>2. CASE outcome[r] \in {"guidance", "refusal"}
      <3>1. phase'[r] = "telling"
        BY <1>4, <2>2 DEF CommitAnswer
      <3> QED BY <2>1, <2>2, <3>1
    <2>3. CASE outcome[r] \notin {"guidance", "refusal"}
      <3>1. phase'[r] \in {"summarising", "finalising"}
        BY <1>4, <2>3 DEF CommitAnswer
      <3> QED BY <2>1, <2>3, <3>1
    <2> QED BY <2>2, <2>3
  <1>5. CASE CommitFails(r) \/ StepFails(r) \/ Cancel(r)
    BY <1>5 DEF CommitFails, StepFails, Cancel, Working, Live
  <1>6. CASE CountMessages(r) \/ Summarise(r)
    BY <1>6 DEF CountMessages, Summarise
  <1>7. CASE FinaliseTrace(r)
    <2>1. /\ phase'[r] = "telling" /\ trace'[r] = StatusOf(outcome[r])
          /\ UNCHANGED <<outcome, answers, told>> /\ phase[r] = "finalising"
      BY <1>7 DEF FinaliseTrace
    <2> QED BY <2>1
  <1>8. CASE Tell(r)
    BY <1>8 DEF Tell
  <1>9. CASE HandleError(r)
    BY <1>9 DEF HandleError
  <1>10. CASE Close(r)
    BY <1>10 DEF Close
  <1> QED
    BY <1>1, <1>2, <1>3, <1>4, <1>5, <1>6, <1>7, <1>8, <1>9, <1>10 DEF Step, Serve

SavedInOrder == \A r \in Requests : InOrder(r)

LEMMA NextSaved == TypeOK /\ SavedInOrder /\ [Next]_vars => SavedInOrder'
  <1> SUFFICES ASSUME TypeOK, SavedInOrder, [Next]_vars PROVE SavedInOrder'
    OBVIOUS
  <1>1. CASE \E r \in Requests : Step(r)
    <2>1. PICK r \in Requests : Step(r)
      BY <1>1
    <2>2. InOrder(r)'
      BY <2>1, StepInOrder DEF SavedInOrder
    <2>3. ASSUME NEW q \in Requests \ {r} PROVE InOrder(q)'
      BY <2>1, OthersKeep DEF SavedInOrder, InOrder
    <2> QED BY <2>2, <2>3 DEF SavedInOrder
  <1>2. CASE \E c \in Conversations : Stop(c) \/ DeleteConversation(c)
    BY <1>2 DEF Stop, DeleteConversation, stream, rows, SavedInOrder, InOrder
  <1>3. CASE UNCHANGED vars
    BY <1>3 DEF vars, stream, rows, SavedInOrder, InOrder
  <1> QED BY <1>1, <1>2, <1>3 DEF Next, Step

\* For any number of streams, whatever fails, stops or leaves: a client that was told the end
\* of a generated answer finds it in the conversation, and its trace says how it ended.
THEOREM ToldAnswersAreSaved == Spec => []ToldIsSaved
  <1>1. Init => TypeInv /\ SavedInOrder
    BY InitType DEF Init, SavedInOrder, InOrder
  <1>2. TypeInv /\ SavedInOrder /\ [Next]_vars => TypeInv' /\ SavedInOrder'
    BY NextType, NextSaved DEF TypeInv
  <1>3. SavedInOrder => ToldIsSaved
    BY DEF SavedInOrder, InOrder, ToldIsSaved
  <1> QED BY <1>1, <1>2, <1>3, PTL DEF Spec

-----------------------------------------------------------------------------
\* The overlap of a request is never taken back.
LEMMA OverlapGrows ==
  ASSUME NEW r \in Requests, Step(r)
  PROVE  overlapped \subseteq overlapped'
  BY DEF Step, Serve, Refuse, OpenTrace, SetUp, SetUpFails, Connect, Ask, Retrieve, Guide,
         Decline, Prompt, Decide, AttemptFails, AttemptSucceeds, SendToken, BreakOff, LastToken,
         SaveMessage, CommitAnswer, CommitFails, CountMessages, Summarise, FinaliseTrace, Tell,
         HandleError, Close, StepFails, Cancel, Goto, stream, rows

\* A question that is asked beside others is behind theirs, and overlaps with them.
LEMMA AskLater ==
  ASSUME TypeOK, ControlInv, LaterOverlap, NEW r \in Requests, Ask(r)
  PROVE  LaterOverlap'
  <1> DEFINE c == ConversationOf[r]
             n == Len(questions[c])
  <1>1. c \in Conversations /\ questions \in [Conversations -> Seq(Requests)]
    BY ChatAssumption DEF ChatAssumption, TypeOK
  <1>2. questions' = [questions EXCEPT ![c] = Append(@, r)] /\ overlapped' = overlapped
        /\ phase' = [phase EXCEPT ![r] = "asked"] /\ phase[r] = "open"
    BY DEF Ask, Goto
  <1>3. /\ n \in Nat /\ Len(questions'[c]) = n + 1 /\ questions'[c][n + 1] = r
        /\ \A i \in 1 .. n : questions'[c][i] = questions[c][i]
    BY <1>1, <1>2
  <1>4. LaterAsked(r)'
    <2>1. n + 1 \in 1 .. Len(questions'[c]) /\ questions'[c][n + 1] = r
      BY <1>3
    <2>2. \A j \in 1 .. Len(questions'[c]) : ~(j > n + 1)
      BY <1>3
    <2> QED BY <2>1, <2>2 DEF LaterAsked
  <1>5. ASSUME NEW q \in Requests \ {r},
               phase'[q] \in {"asked", "generating", "buffered", "saving"}
        PROVE  LaterAsked(q)'
    <2>1. phase[q] = phase'[q]
      BY <1>2 DEF TypeOK
    <2>2. LaterAsked(q)
      BY <1>5, <2>1 DEF LaterOverlap
    <2>3. CASE ConversationOf[q] # c
      <3>1. questions'[ConversationOf[q]] = questions[ConversationOf[q]]
        BY <1>1, <1>2, <2>3, ChatAssumption DEF ChatAssumption
      <3>2. overlapped' = overlapped
        BY <1>2
      <3> HIDE DEF c
      <3> QED BY <2>2, <3>1, <3>2 DEF LaterAsked
    <2>4. CASE ConversationOf[q] = c
      <3>1. r \in overlapped
        BY <1>2, <1>5, <2>1, <2>4 DEF ControlInv, LiveOverlap, Siblings, Live
      <3>2. PICK i \in 1 .. n : /\ questions[c][i] = q
                                /\ \A j \in 1 .. n : j > i => questions[c][j] \in overlapped
        BY <2>2, <2>4 DEF LaterAsked
      <3>3. i \in 1 .. Len(questions'[c]) /\ questions'[c][i] = q
        BY <1>3, <3>2
      <3>4. \A j \in 1 .. Len(questions'[c]) : j > i => questions'[c][j] \in overlapped'
        BY <1>2, <1>3, <3>1, <3>2
      <3> QED BY <2>4, <3>3, <3>4 DEF LaterAsked
    <2> QED BY <2>3, <2>4
  <1> QED BY <1>4, <1>5 DEF LaterOverlap

LEMMA StepLater ==
  ASSUME TypeOK, ControlInv, LaterOverlap, NEW r \in Requests, Step(r)
  PROVE  LaterOverlap'
  <1>1. CASE Ask(r)
    BY <1>1, AskLater
  <1>2. CASE ~Ask(r)
    <2>1. questions' = questions
      BY <1>2 DEF Step, Serve, Refuse, OpenTrace, SetUp, SetUpFails, Connect, Retrieve, Guide,
         Decline, Prompt, Decide, AttemptFails, AttemptSucceeds, SendToken, BreakOff, LastToken,
         SaveMessage, CommitAnswer, CommitFails, CountMessages, Summarise, FinaliseTrace, Tell,
         HandleError, Close, StepFails, Cancel, Goto, stream, rows
    <2>2. phase'[r] \in {"asked", "generating", "buffered", "saving"} =>
            phase[r] \in {"asked", "generating", "buffered", "saving"}
      BY <1>2 DEF TypeOK, Streaming, Step, Serve, Refuse, OpenTrace, SetUp, SetUpFails,
                  Connect, Retrieve, Guide,
         Decline, Prompt, Decide, AttemptFails, AttemptSucceeds, SendToken, BreakOff, LastToken,
         SaveMessage, CommitAnswer, CommitFails, CountMessages, Summarise, FinaliseTrace, Tell,
         HandleError, Close, StepFails, Cancel, Goto, stream, rows
    <2>3. \A q \in Requests : LaterAsked(q) => LaterAsked(q)'
      BY <2>1, OverlapGrows DEF LaterAsked
    <2> QED BY <2>2, <2>3, OthersStay DEF LaterOverlap
  <1> QED BY <1>1, <1>2

\* An answer is paired with the newest question: its own, or one that was asked beside it.
LEMMA StepDraft ==
  ASSUME TypeInv, CaseInv, NEW r \in Requests, Step(r)
  PROVE  DraftIsOwn'
  <1>1. CASE SaveMessage(r)
    <2> DEFINE asked == questions[ConversationOf[r]]
    <2>1. phase[r] = "saving" /\ overlapped' = overlapped
          /\ draft' = [draft EXCEPT ![r] = [question |-> asked[Len(asked)],
                          seen |-> cases[asked[Len(asked)]] # None, count |-> 0]]
      BY <1>1 DEF SaveMessage
    <2>2. PICK i \in 1 .. Len(asked) :
            asked[i] = r /\ \A j \in 1 .. Len(asked) : j > i => asked[j] \in overlapped
      BY <2>1 DEF CaseInv, LaterOverlap, LaterAsked
    <2>3. asked[Len(asked)] \in {r} \cup overlapped
      <3>1. Len(asked) \in Nat
        BY ChatAssumption DEF ChatAssumption, TypeInv, TypeOK
      <3>2. Len(asked) = i \/ (Len(asked) \in 1 .. Len(asked) /\ Len(asked) > i)
        BY <2>2, <3>1
      <3> QED BY <2>2, <3>2
    <2>4. draft'[r].question = asked[Len(asked)]
      BY <2>1 DEF TypeInv, TypeOK
    <2>5. \A q \in Requests \ {r} : phase'[q] = phase[q] /\ draft'[q] = draft[q]
      BY OthersKeep DEF TypeInv
    <2> QED BY <2>1, <2>3, <2>4, <2>5 DEF CaseInv, DraftIsOwn
  <1>2. CASE ~SaveMessage(r)
    <2>1. phase'[r] # "committing"
      BY <1>2 DEF TypeInv, TypeOK, Streaming, Step, Serve, Refuse, OpenTrace, SetUp,
                  SetUpFails, Connect, Ask, Retrieve, Guide,
         Decline, Prompt, Decide, AttemptFails, AttemptSucceeds, SendToken, BreakOff, LastToken,
         CommitAnswer, CommitFails, CountMessages, Summarise, FinaliseTrace, Tell,
         HandleError, Close, StepFails, Cancel, Goto, stream, rows
    <2>2. \A q \in Requests \ {r} : phase'[q] = phase[q] /\ draft'[q] = draft[q]
      BY OthersKeep DEF TypeInv
    <2> QED BY <2>1, <2>2, OverlapGrows DEF CaseInv, DraftIsOwn
  <1> QED BY <1>1, <1>2

LEMMA StepCase ==
  ASSUME TypeOK, CaseInv, NEW r \in Requests, Step(r)
  PROVE  LoneCaseIsItsOwn'
  <1>1. CASE cases' = cases
    BY <1>1, OverlapGrows DEF CaseInv, LoneCaseIsItsOwn
  <1>2. CASE phase[r] = "committing" /\ cases' = [cases EXCEPT ![draft[r].question] = r]
    <2>1. draft[r].question \in {r} \cup overlapped
      BY <1>2 DEF CaseInv, DraftIsOwn
    <2>2. overlapped \subseteq overlapped'
      BY OverlapGrows
    <2>3. ASSUME NEW q \in Requests, q \notin overlapped', cases'[q] # None
          PROVE  cases'[q] = q
      <3>1. CASE q = draft[r].question
        BY <1>2, <2>1, <2>2, <2>3, <3>1 DEF TypeOK
      <3>2. CASE q # draft[r].question
        BY <1>2, <2>2, <2>3, <3>2 DEF TypeOK, CaseInv, LoneCaseIsItsOwn
      <3> QED BY <3>1, <3>2
    <2> QED BY <2>3 DEF LoneCaseIsItsOwn
  <1> QED
    BY <1>1, <1>2 DEF Step, Serve, Refuse, OpenTrace, SetUp, SetUpFails, Connect, Ask,
                      Retrieve, Guide,
         Decline, Prompt, Decide, AttemptFails, AttemptSucceeds, SendToken, BreakOff, LastToken,
         SaveMessage, CommitAnswer, CommitFails, CountMessages, Summarise, FinaliseTrace, Tell,
         HandleError, Close, StepFails, Cancel, Goto, stream, rows

LEMMA NextCase == TypeInv /\ ControlInv /\ CaseInv /\ [Next]_vars => CaseInv'
  <1> SUFFICES ASSUME TypeInv, ControlInv, CaseInv, [Next]_vars PROVE CaseInv'
    OBVIOUS
  <1>1. CASE \E r \in Requests : Step(r)
    BY <1>1, StepLater, StepDraft, StepCase DEF TypeInv, CaseInv
  <1>2. CASE \E c \in Conversations : Stop(c) \/ DeleteConversation(c)
    BY <1>2 DEF Stop, DeleteConversation, stream, rows, CaseInv, LaterOverlap, LaterAsked,
                DraftIsOwn,
       LoneCaseIsItsOwn
  <1>3. CASE UNCHANGED vars
    BY <1>3 DEF vars, stream, rows, CaseInv, LaterOverlap, LaterAsked, DraftIsOwn,
                LoneCaseIsItsOwn
  <1> QED BY <1>1, <1>2, <1>3 DEF Next, Step

\* For any number of streams of a conversation: the evaluation case of a question that was asked
\* while no other stream of it ran is about the answer to that question.
THEOREM LoneCasesAreOwn == Spec => []LoneCaseIsItsOwn
  <1>1. Init => TypeInv /\ ControlInv /\ CaseInv
    BY InitType, InitControl DEF Init, CaseInv, LaterOverlap, DraftIsOwn, LoneCaseIsItsOwn
  <1>2. TypeInv /\ ControlInv /\ CaseInv /\ [Next]_vars => TypeInv' /\ ControlInv' /\ CaseInv'
    BY NextType, NextControl, NextCase DEF TypeInv
  <1>3. CaseInv => LoneCaseIsItsOwn
    BY DEF CaseInv
  <1> QED BY <1>1, <1>2, <1>3, PTL DEF Spec

-----------------------------------------------------------------------------
\* No stream of the conversation of r has overlapped with another.
Lone(r) == {r} \cup Siblings(r) \subseteq Requests \ overlapped

\* What maybe_summarize has read is still true, and what it has written covers it.
SummaryInv ==
    \A r \in Requests : Lone(r) =>
        LET c == ConversationOf[r]
        IN /\ phase[r] = "counting" => draft[r].count = Count(c)
           /\ phase[r] = "finalising" /\ outcome[r] = "full" /\ c \notin deleted =>
                Count(c) <= Trigger \/ Count(c) - summary[c] <= Keep

\* The messages of a conversation are counted from its rows alone.
LEMMA CountOfRows ==
  ASSUME NEW c \in Conversations, questions'[c] = questions[c],
         \A q \in Requests : ConversationOf[q] = c => answers'[q] = answers[q]
  PROVE  Count(c)' = Count(c)
  <1>1. {q \in Requests : ConversationOf[q] = c /\ answers'[q] # "none"}
        = {q \in Requests : ConversationOf[q] = c /\ answers[q] # "none"}
    OBVIOUS
  <1> QED BY <1>1 DEF Count

\* A request writes to its own conversation, and only while its stream runs.
LEMMA RowsOfOthers ==
  ASSUME TypeOK, NEW q \in Requests, Step(q),
         NEW c \in Conversations, c # ConversationOf[q] \/ phase[q] \notin Live
  PROVE  /\ questions'[c] = questions[c] /\ summary'[c] = summary[c] /\ deleted' = deleted
         /\ \A p \in Requests : ConversationOf[p] = c => answers'[p] = answers[p]
  <1> USE DEF Step, Serve, Refuse, OpenTrace, SetUp, SetUpFails, Connect, Ask, Retrieve, Guide,
         Decline, Prompt, Decide, AttemptFails, AttemptSucceeds, SendToken, BreakOff, LastToken,
         SaveMessage, CommitAnswer, CommitFails, CountMessages, Summarise, FinaliseTrace, Tell,
         HandleError, Close, StepFails, Cancel, Goto, stream, rows
  <1>1. questions'[c] = questions[c]
    BY DEF TypeOK, Live
  <1>2. summary'[c] = summary[c]
    BY DEF TypeOK, Live
  <1>3. deleted' = deleted
    OBVIOUS
  <1>4. ASSUME NEW p \in Requests, ConversationOf[p] = c PROVE answers'[p] = answers[p]
    <2>1. answers' = answers \/ (phase[q] = "committing" /\ answers' = [answers EXCEPT ![q] = outcome[q]])
      OBVIOUS
    <2> HIDE DEF Step
    <2> QED BY <1>4, <2>1 DEF TypeOK, Live
  <1> HIDE DEF Step
  <1> QED BY <1>1, <1>2, <1>3, <1>4

\* The steps of another request leave alone what a lone stream has read and written.
LEMMA OthersSummary ==
  ASSUME TypeOK, ControlInv, SummaryInv, NEW q \in Requests, Step(q),
         NEW r \in Requests \ {q}, Lone(r)'
  PROVE  LET c == ConversationOf[r]
         IN /\ phase'[r] = "counting" => draft'[r].count = Count(c)'
            /\ phase'[r] = "finalising" /\ outcome'[r] = "full" /\ c \notin deleted' =>
                Count(c)' <= Trigger \/ Count(c)' - summary'[c] <= Keep
  <1> DEFINE c == ConversationOf[r]
  <1>1. phase'[r] = phase[r] /\ outcome'[r] = outcome[r] /\ draft'[r] = draft[r]
    BY OthersKeep
  <1>2. Lone(r)
    BY OverlapGrows DEF Lone, Siblings
  <1>3. CASE phase[r] \in {"counting", "finalising"}
    <2>1. c # ConversationOf[q] \/ phase[q] \notin Live
      <3>1. phase[r] \in Live /\ r \notin overlapped
        BY <1>2, <1>3 DEF Live, Lone
      <3> QED BY <3>1 DEF ControlInv, LiveOverlap, Siblings
    <2>2. c \in Conversations
      BY ChatAssumption DEF ChatAssumption
    <2>3. summary'[c] = summary[c] /\ deleted' = deleted
      BY <2>1, <2>2, RowsOfOthers
    <2>4. Count(c)' = Count(c)
      BY <2>1, <2>2, RowsOfOthers, CountOfRows
    <2> QED BY <1>1, <1>2, <2>3, <2>4 DEF SummaryInv
  <1> QED BY <1>1, <1>3

LEMMA OwnSummary ==
  ASSUME TypeOK, SummaryInv, NEW r \in Requests, Step(r), Lone(r)'
  PROVE  LET c == ConversationOf[r]
         IN /\ phase'[r] = "counting" => draft'[r].count = Count(c)'
            /\ phase'[r] = "finalising" /\ outcome'[r] = "full" /\ c \notin deleted' =>
                Count(c)' <= Trigger \/ Count(c)' - summary'[c] <= Keep
  <1> DEFINE c == ConversationOf[r]
  <1>1. Lone(r)
    BY OverlapGrows DEF Lone, Siblings
  <1>2. c \in Conversations
    BY ChatAssumption DEF ChatAssumption
  <1>3. CASE CountMessages(r)
    <2>1. UNCHANGED <<questions, answers>> /\ phase'[r] = "counting" /\ draft'[r].count = Count(c)
      BY <1>3 DEF CountMessages, Goto, rows, TypeOK
    <2>2. Count(c)' = Count(c)
      BY <1>2, <2>1, CountOfRows
    <2> QED BY <2>1, <2>2
  <1>4. CASE Summarise(r)
    <2>1. /\ UNCHANGED <<questions, answers, deleted, outcome>> /\ phase[r] = "counting"
          /\ phase'[r] = "finalising"
          /\ summary' = IF draft[r].count > Trigger /\ draft[r].count > Keep /\ c \notin deleted
                        THEN [summary EXCEPT ![c] = draft[r].count - Keep] ELSE summary
      BY <1>4 DEF Summarise, Goto, TypeOK
    <2>2. Count(c)' = Count(c) /\ draft[r].count = Count(c)
      BY <1>1, <1>2, <2>1, CountOfRows DEF SummaryInv
    <2>3. Count(c) \in Nat /\ Trigger \in Nat /\ Keep \in Nat /\ summary[c] \in Nat
      BY <1>2, CountType, ChatAssumption DEF ChatAssumption, TypeOK
    <2>4. CASE c \in deleted
      BY <2>1, <2>4
    <2>5. CASE Count(c) <= Trigger
      BY <2>1, <2>2, <2>5
    <2>6. CASE Count(c) > Trigger /\ Count(c) <= Keep
      <3>1. summary'[c] = summary[c] /\ Count(c) - summary[c] <= Keep
        BY <2>1, <2>2, <2>3, <2>6
      <3> QED BY <2>1, <2>2, <3>1
    <2>7. CASE c \notin deleted /\ Count(c) > Trigger /\ Count(c) > Keep
      <3>1. summary'[c] = Count(c) - Keep
        BY <1>2, <2>1, <2>2, <2>7 DEF TypeOK
      <3>2. Count(c) - summary'[c] <= Keep
        BY <2>3, <3>1
      <3> QED BY <2>1, <2>2, <3>2
    <2> QED BY <2>3, <2>4, <2>5, <2>6, <2>7
  <1>5. CASE ~CountMessages(r) /\ ~Summarise(r)
    <2>1. phase'[r] # "counting"
      BY <1>5 DEF TypeOK, Streaming, Step, Serve, Refuse, OpenTrace, SetUp, SetUpFails,
                  Connect, Ask, Retrieve, Guide,
         Decline, Prompt, Decide, AttemptFails, AttemptSucceeds, SendToken, BreakOff, LastToken,
         SaveMessage, CommitAnswer, CommitFails, FinaliseTrace, Tell,
         HandleError, Close, StepFails, Cancel, Goto, stream, rows
    <2>2. ~(phase'[r] = "finalising" /\ outcome'[r] = "full")
      BY <1>5 DEF TypeOK, Streaming, Step, Serve, Refuse, OpenTrace, SetUp, SetUpFails,
                  Connect, Ask, Retrieve, Guide,
         Decline, Prompt, Decide, AttemptFails, AttemptSucceeds, SendToken, BreakOff, LastToken,
         SaveMessage, CommitAnswer, CommitFails, FinaliseTrace, Tell,
         HandleError, Close, StepFails, Cancel, Goto, stream, rows
    <2> QED BY <2>1, <2>2
  <1> QED BY <1>3, <1>4, <1>5

LEMMA NextSummary == TypeOK /\ ControlInv /\ SummaryInv /\ [Next]_vars => SummaryInv'
  <1> SUFFICES ASSUME TypeOK, ControlInv, SummaryInv, [Next]_vars PROVE SummaryInv'
    OBVIOUS
  <1>1. CASE \E q \in Requests : Step(q)
    <2>1. PICK q \in Requests : Step(q)
      BY <1>1
    <2> SUFFICES ASSUME NEW r \in Requests, Lone(r)'
                 PROVE  LET c == ConversationOf[r]
                        IN /\ phase'[r] = "counting" => draft'[r].count = Count(c)'
                           /\ phase'[r] = "finalising" /\ outcome'[r] = "full" /\ c \notin deleted' =>
                                Count(c)' <= Trigger \/ Count(c)' - summary'[c] <= Keep
      BY DEF SummaryInv
    <2> QED BY <2>1, OwnSummary, OthersSummary
  <1>2. CASE \E c \in Conversations : Stop(c) \/ DeleteConversation(c)
    <2>1. /\ UNCHANGED <<phase, draft, outcome, questions, answers, summary, overlapped>>
          /\ deleted \subseteq deleted'
      BY <1>2 DEF Stop, DeleteConversation, stream, rows
    <2>2. \A d \in Conversations : Count(d)' = Count(d)
      BY <2>1, CountOfRows
    <2> QED BY <2>1, <2>2, ChatAssumption DEF SummaryInv, Lone, Siblings, ChatAssumption
  <1>3. CASE UNCHANGED vars
    BY <1>3 DEF vars, stream, rows, SummaryInv, Lone, Siblings, Count
  <1> QED BY <1>1, <1>2, <1>3 DEF Next, Step

\* For any number of streams, messages, triggers and failures: what clients were told is saved,
\* the case of a question asked alone is its own, and after an answer in a conversation without
\* overlap the summary leaves at most the recent messages uncovered.
THEOREM RecordsStayTrue == Spec => []RecordsAreTrue
  <1>1. Init => TypeInv /\ ControlInv /\ SummaryInv
    BY InitType, InitControl DEF Init, SummaryInv
  <1>2. /\ TypeInv /\ ControlInv /\ SummaryInv /\ [Next]_vars
        => TypeInv' /\ ControlInv' /\ SummaryInv'
    BY NextType, NextControl, NextSummary DEF TypeInv
  <1>3. SummaryInv => SummaryIsCurrent
    BY DEF SummaryInv, SummaryIsCurrent, Lone
  <1>4. Spec => []SummaryIsCurrent
    BY <1>1, <1>2, <1>3, PTL DEF Spec
  <1>5. ToldIsSaved /\ LoneCaseIsItsOwn /\ SummaryIsCurrent => RecordsAreTrue
    BY DEF RecordsAreTrue
  <1> QED BY <1>4, <1>5, ToldAnswersAreSaved, LoneCasesAreOwn, PTL

=============================================================================
