--------------------------- MODULE MCContent_proofs ---------------------------
(***************************************************************************)
(* What becomes of content, for any documents, tasks, rows and requests:   *)
(* the parts of MCContent, each on its own (DocumentBlocks is in           *)
(* ContentBlocks_proofs), and then as MCContent puts them side by side.    *)
(* Some invariants are stated in the part's module, with its own names;    *)
(* here its variables are the slots s1, s2, ... in the order of its        *)
(* INSTANCE in MCContent.                                                  *)
(***************************************************************************)
EXTENDS ContentBlocks_proofs, FiniteSetTheorems, SequenceTheorems, WellFoundedInduction, TLAPS

-----------------------------------------------------------------------------
(***************************************************************************)
(* UserMemories.                                                           *)
(***************************************************************************)
MemoriesInv ==
    /\ Memories!TypeOK /\ Memories!KnownIsInserted
    /\ Memories!RetiredIsReplaced /\ Memories!NewestIsKept

LEMMA MemoriesInitInv == Memories!MemoryAssumption /\ Memories!Init => MemoriesInv
  <1> SUFFICES ASSUME Memories!MemoryAssumption, Memories!Init PROVE MemoriesInv
    OBVIOUS
  <1> USE DEF Memories!Init
  <1>1. Memories!TypeOK
    BY DEF Memories!TypeOK, Memories!Memories, Memories!TopicOf
  <1>2. Memories!KnownIsInserted
    <2> SUFFICES ASSUME NEW c \in Tasks, NEW t \in Topics
                 PROVE  /\ <<c, t>> \notin s1 /\ s11[<<c, t>>] = None
                        /\ \A d \in Tasks : s5[d] = {} /\ s7[d] = {}
      BY DEF Memories!KnownIsInserted
    <2>1. <<c, t>> \in Memories!Memories
      BY DEF Memories!Memories
    <2>2. <<c, t>> \notin s1
      BY DEF Memories!MemoryAssumption
    <2> QED BY <2>1, <2>2
  <1>4. Memories!RetiredIsReplaced
    BY DEF Memories!RetiredIsReplaced
  <1>3. Memories!NewestIsKept
    BY DEF Memories!NewestIsKept, Memories!TopicOf
  <1> QED BY <1>1, <1>2, <1>3, <1>4 DEF MemoriesInv

\* What a task has extracted and decided is not yet in the store.
LEMMA DecideMemoriesInv ==
  ASSUME MemoriesInv, NEW c \in Tasks, Memories!Extract(c) \/ Memories!Resolve(c)
  PROVE  MemoriesInv'
  <1> USE DEF MemoriesInv, Memories!TypeOK, Memories!Extract, Memories!Resolve, Memories!Goes,
              Memories!search
  <1>1. Memories!TypeOK'
    OBVIOUS
  <1>2. Memories!KnownIsInserted'
    BY DEF Memories!KnownIsInserted
  <1>3. Memories!RetiredIsReplaced'
    BY DEF Memories!RetiredIsReplaced
  <1>4. Memories!NewestIsKept'
    BY DEF Memories!NewestIsKept, Memories!Confused, Memories!Twins
  <1> QED BY <1>1, <1>2, <1>3, <1>4

\* The new memories are those that nobody knows: from now on they are the newest of their topics.
LEMMA InsertMemoriesInv ==
  ASSUME MemoriesInv, NEW c \in Tasks, Memories!Insert(c)
  PROVE  MemoriesInv'
  <1> USE DEF MemoriesInv, Memories!TypeOK, Memories!Insert, Memories!Goes, Memories!search,
              Memories!New
  <1>0. PICK second \in Seconds,
             place \in Memories!Bijection(s6[c], 0 .. Memories!Cardinality(s6[c]) - 1) :
           s11' = [m \in Memories!Memories |->
                     IF m \in Memories!New(c) THEN <<second, place[Memories!TopicOf(m)]>> ELSE s11[m]]
    OBVIOUS
  <1>1. Memories!TypeOK'
    <2>1. place \in [s6[c] -> Nat]
      <3>1. place \in [s6[c] -> 0 .. Memories!Cardinality(s6[c]) - 1]
        BY DEF Memories!Bijection, Memories!Injection
      <3>2. \A e : \A x \in 0 .. e : x \in Nat
        OBVIOUS
      <3> QED BY <3>1, <3>2
    <2>2. ASSUME NEW m \in Memories!New(c)
          PROVE  <<second, place[Memories!TopicOf(m)]>> \in Seconds \X Nat
      <3>1. PICK t \in s6[c] : m = <<c, t>>
        OBVIOUS
      <3>2. Memories!TopicOf(m) = t
        BY <3>1 DEF Memories!TopicOf
      <3> QED BY <2>1, <3>2
    <2>3. s11' \in [Memories!Memories -> (Seconds \X Nat) \cup {None}]
      BY <1>0, <2>2
    <2>4. s1' \subseteq Memories!Memories /\ s8' \subseteq Topics
      BY DEF Memories!Memories
    <2> QED BY <2>3, <2>4
  <1>2. Memories!KnownIsInserted'
    <2> SUFFICES ASSUME NEW d \in Tasks, NEW t \in Topics,
                        \/ <<d, t>> \in s1' \/ (\E e \in Tasks : <<d, t>> \in s5[e] \cup s7[e])
                        \/ s11'[<<d, t>>] # None
                 PROVE  s3'[d] \in {"indexing", "retiring", "done"}
      BY DEF Memories!KnownIsInserted
    <2>1. CASE d # c
      <3>1. <<d, t>> \in Memories!Memories /\ <<d, t>> \notin Memories!New(c)
        BY <2>1 DEF Memories!Memories
      <3>2. s11'[<<d, t>>] = s11[<<d, t>>] /\ s3'[d] = s3[d]
        BY <1>0, <2>1, <3>1
      <3>3. <<d, t>> \in s1' => <<d, t>> \in s1
        BY <3>1
      <3> QED BY <3>2, <3>3 DEF Memories!KnownIsInserted
    <2>2. CASE d = c
      BY <2>2
    <2> QED BY <2>1, <2>2
  <1>9. Memories!Confused \subseteq Memories!Confused'
    <2>1. ASSUME NEW m \in Memories!Memories, s11[m] # None PROVE s11'[m] = s11[m]
      <3>1. m \notin Memories!New(c)
        BY <2>1 DEF Memories!KnownIsInserted
      <3> QED BY <1>0, <3>1
    <2>2. ASSUME NEW m \in Memories!Memories, NEW n \in Memories!Memories, Memories!Twins(m, n)
          PROVE  s11'[m] # None /\ s11'[m] = s11'[n]
      BY <2>1, <2>2 DEF Memories!Twins
    <2> QED BY <2>2 DEF Memories!Confused, Memories!Twins
  <1>3. Memories!RetiredIsReplaced'
    BY DEF Memories!RetiredIsReplaced
  <1>4. ASSUME NEW t \in s8' \ Memories!Confused'
        PROVE  \E m \in s1' : /\ Memories!TopicOf(m) = t
                              /\ \A d \in Tasks : s3'[d] \in {"indexing", "retiring"}
                                                     => m \notin s7'[d]
    <2>1. /\ s7' = s7 /\ \A d \in Tasks \ {c} : s3'[d] = s3[d]
          /\ s8' = s8 \cup s6[c] /\ s1 \subseteq s1'
      OBVIOUS
    <2>2. CASE t \in s6[c]
      <3>1. <<c, t>> \in s1' /\ Memories!TopicOf(<<c, t>>) = t /\ t \in Topics
        BY <2>2 DEF Memories!TopicOf
      <3>2. \A d \in Tasks : <<c, t>> \notin s7[d]
        BY <3>1 DEF Memories!KnownIsInserted
      <3> QED BY <2>1, <3>1, <3>2
    <2>3. CASE t \notin s6[c]
      <3>1. PICK m \in s1 : /\ Memories!TopicOf(m) = t
                            /\ \A d \in Tasks : s3[d] \in {"indexing", "retiring"} => m \notin s7[d]
        BY <1>9, <2>1, <2>3 DEF Memories!NewestIsKept
      <3>2. m \notin s7[c]
        BY <2>3, <3>1 DEF Memories!RetiredIsReplaced
      <3> QED BY <2>1, <3>1, <3>2
    <2> QED BY <2>2, <2>3
  <1>5. Memories!NewestIsKept'
    BY <1>4 DEF Memories!NewestIsKept
  <1> QED BY <1>1, <1>2, <1>3, <1>5

LEMMA IndexMemoriesInv ==
  ASSUME MemoriesInv, NEW c \in Tasks,
         Memories!IndexToEs(c) \/ Memories!Finish(c) \/ Memories!Fail(c)
  PROVE  MemoriesInv'
  <1> USE DEF MemoriesInv, Memories!TypeOK, Memories!IndexToEs, Memories!Finish, Memories!Fail,
              Memories!Goes, Memories!search, Memories!New, Memories!Forget
  <1>1. Memories!TypeOK'
    BY DEF Memories!Memories
  <1>2. Memories!KnownIsInserted'
    BY DEF Memories!KnownIsInserted
  <1>3. Memories!RetiredIsReplaced'
    BY DEF Memories!RetiredIsReplaced
  <1>4. Memories!NewestIsKept'
    BY DEF Memories!NewestIsKept, Memories!Confused, Memories!Twins
  <1> QED BY <1>1, <1>2, <1>3, <1>4

\* A task retires what it has replaced, and never the newest.
LEMMA RetireMemoriesInv ==
  ASSUME MemoriesInv, NEW c \in Tasks, Memories!Retire(c)
  PROVE  MemoriesInv'
  <1> USE DEF MemoriesInv, Memories!TypeOK, Memories!Retire, Memories!Delete, Memories!search
  <1>1. Memories!TypeOK'
    OBVIOUS
  <1>2. Memories!KnownIsInserted'
    BY DEF Memories!KnownIsInserted
  <1>3. Memories!RetiredIsReplaced'
    BY DEF Memories!RetiredIsReplaced
  <1>5. UNCHANGED s11 /\ Memories!Confused' = Memories!Confused
    BY DEF Memories!Confused, Memories!Twins
  <1>6. ASSUME NEW m \in Memories!Memories, NEW n \in Memories!Memories,
               Memories!TopicOf(m) \notin Memories!Confused, m # n
        PROVE  ~Memories!Twins(n, m)
    BY <1>6 DEF Memories!Confused, Memories!Twins
  <1>4. Memories!NewestIsKept'
    <2> SUFFICES ASSUME NEW t \in s8 \ Memories!Confused
                 PROVE  \E m \in s1' : /\ Memories!TopicOf(m) = t
                                       /\ \A d \in Tasks : s3[d] \in {"indexing", "retiring"}
                                                              => m \notin s7'[d]
      BY <1>5 DEF Memories!NewestIsKept
    <2>1. PICK m \in s1 : /\ Memories!TopicOf(m) = t
                          /\ \A d \in Tasks : s3[d] \in {"indexing", "retiring"} => m \notin s7[d]
      BY DEF Memories!NewestIsKept
    <2>2. PICK n \in s7[c] : s1' \in {s1, {o \in s1 : o # n /\ ~Memories!Twins(n, o)}}
      OBVIOUS
    <2>3. m \in Memories!Memories /\ n \in Memories!Memories /\ m # n
      BY <2>1
    <2>4. m \in s1'
      BY <1>6, <2>1, <2>2, <2>3
    <2>5. \A d \in Tasks : s7'[d] \subseteq s7[d]
      OBVIOUS
    <2> QED BY <2>1, <2>4, <2>5
  <1> QED BY <1>1, <1>2, <1>3, <1>4

LEMMA AdminDeleteInv ==
  ASSUME MemoriesInv, Memories!AdminDelete
  PROVE  MemoriesInv'
  <1> USE DEF MemoriesInv, Memories!TypeOK, Memories!AdminDelete, Memories!Delete,
              Memories!search
  <1>1. Memories!TypeOK'
    OBVIOUS
  <1>2. Memories!KnownIsInserted' /\ Memories!RetiredIsReplaced'
    BY DEF Memories!KnownIsInserted, Memories!RetiredIsReplaced
  <1>5. UNCHANGED s11 /\ Memories!Confused' = Memories!Confused
    BY DEF Memories!Confused, Memories!Twins
  <1>6. ASSUME NEW m \in Memories!Memories, NEW n \in Memories!Memories,
               Memories!TopicOf(m) \notin Memories!Confused, m # n
        PROVE  ~Memories!Twins(n, m)
    BY <1>6 DEF Memories!Confused, Memories!Twins
  <1>3. Memories!NewestIsKept'
    <2>1. PICK n \in s1 : /\ s1' \in {s1, {o \in s1 : o # n /\ ~Memories!Twins(n, o)}}
                          /\ s8' = IF n \in s1' THEN s8 ELSE s8 \ {Memories!TopicOf(n)}
      OBVIOUS
    <2> SUFFICES ASSUME NEW t \in s8' \ Memories!Confused
                 PROVE  \E m \in s1' : /\ Memories!TopicOf(m) = t
                                       /\ \A d \in Tasks : s3[d] \in {"indexing", "retiring"}
                                                              => m \notin s7[d]
      BY <1>5 DEF Memories!NewestIsKept
    <2>2. PICK m \in s1 : /\ Memories!TopicOf(m) = t
                          /\ \A d \in Tasks : s3[d] \in {"indexing", "retiring"} => m \notin s7[d]
      BY <2>1 DEF Memories!NewestIsKept
    <2>3. m \in Memories!Memories /\ n \in Memories!Memories
      BY <2>1, <2>2
    <2>4. m \in s1'
      BY <1>6, <2>1, <2>2, <2>3
    <2> QED BY <2>2, <2>4
  <1> QED BY <1>1, <1>2, <1>3

LEMMA MemoriesNextInv ==
  ASSUME MemoriesInv, [Memories!Next]_Memories!vars
  PROVE  MemoriesInv'
  <1>1. CASE UNCHANGED Memories!vars
    BY <1>1 DEF MemoriesInv, Memories!vars, Memories!search, Memories!TypeOK,
                Memories!KnownIsInserted, Memories!RetiredIsReplaced, Memories!NewestIsKept,
                Memories!Confused, Memories!Twins
  <1>2. CASE Memories!SearchVectors \/ Memories!SearchKeywords
    BY <1>2 DEF MemoriesInv, Memories!SearchVectors, Memories!SearchKeywords, Memories!TypeOK,
                Memories!KnownIsInserted, Memories!RetiredIsReplaced, Memories!NewestIsKept,
                Memories!Confused, Memories!Twins
  <1> QED BY <1>1, <1>2, DecideMemoriesInv, InsertMemoriesInv, IndexMemoriesInv,
             RetireMemoriesInv, AdminDeleteInv DEF Memories!Next, Memories!Step

LEMMA MemoriesAreSound == MemoriesInv => Memories!NothingIsForgotten
  BY DEF MemoriesInv, Memories!NewestIsKept, Memories!NothingIsForgotten, Memories!Known

\* The keywords alone give at most 3 of 10 parts of a score of 100.
LEMMA KeywordsDoNotReach ==
  ASSUME Memories!MemoryAssumption, MinRelevance > 30, [Memories!Next]_Memories!vars
  PROVE  Memories!RecallsWhatIsKept
  <1> SUFFICES ASSUME s9 # None, s9' = None PROVE s10' \subseteq DOMAIN s9
    BY DEF Memories!RecallsWhatIsKept
  <1>1. Memories!SearchKeywords
    BY DEF Memories!Next, Memories!Step, Memories!vars, Memories!search, Memories!Extract,
           Memories!Resolve, Memories!Insert, Memories!IndexToEs, Memories!Retire,
           Memories!Finish, Memories!Fail, Memories!AdminDelete, Memories!SearchVectors
  <1>2. PICK M \in SUBSET s2 : \E k \in [M -> KeywordScores] :
            s10' = Memories!Relevant(IF M = {} THEN <<>> ELSE k)
    BY <1>1 DEF Memories!SearchKeywords
  <1>3. PICK k \in [M -> KeywordScores] : s10' = Memories!Relevant(IF M = {} THEN <<>> ELSE k)
    BY <1>2
  <1>4. ASSUME NEW m \in s10', m \notin DOMAIN s9 PROVE FALSE
    <2>1. CASE (IF M = {} THEN <<>> ELSE k) = <<>>
      BY <1>3, <1>4, <2>1 DEF Memories!Relevant
    <2>2. CASE (IF M = {} THEN <<>> ELSE k) # <<>>
      <3>1. s10' = Memories!Relevant(k) /\ k # <<>>
        BY <1>3, <2>2
      <3>2. m \in M /\ Memories!Fused(0, k[m]) >= 10 * MinRelevance
        BY <1>4, <3>1 DEF Memories!Relevant, Memories!ScoreOf
      <3>3. k[m] \in 1 .. 100 /\ MinRelevance \in 0 .. 100
        BY <3>2 DEF Memories!MemoryAssumption
      <3> QED BY <3>2, <3>3 DEF Memories!Fused
    <2> QED BY <2>1, <2>2
  <1> QED BY <1>4

-----------------------------------------------------------------------------
(***************************************************************************)
(* RetrievalEvidence.                                                      *)
(***************************************************************************)
EvidenceInv ==
    /\ Evidence!TypeOK /\ Evidence!VisibleIsSeen /\ Evidence!ResultsAreEntries
    /\ Evidence!ShownIsOfChunk /\ Evidence!FoundGoesOn /\ Evidence!EvidenceWasVisible

LEMMA EvidenceInitInv == Evidence!EvidenceAssumption /\ Evidence!Init => EvidenceInv
  <1> SUFFICES ASSUME Evidence!EvidenceAssumption, Evidence!Init PROVE EvidenceInv
    OBVIOUS
  <1> USE DEF Evidence!Init
  <1>1. PICK ids \in SUBSET (Rows \cup {Orphan}) :
            \E h \in [ids -> Hashes] : s5 = {Evidence!Entry(i, h[i]) : i \in ids}
    OBVIOUS
  <1>2. PICK h \in [ids -> Hashes] : s5 = {Evidence!Entry(i, h[i]) : i \in ids}
    BY <1>1
  <1>3. s5 \subseteq Evidence!Result /\ \A r \in s5 : r.chunk = r.id
    BY <1>2 DEF Evidence!Entry, Evidence!Result
  <1>4. Evidence!TypeOK
    BY <1>3 DEF Evidence!TypeOK, Evidence!EvidenceAssumption
  <1>5. Evidence!VisibleIsSeen /\ Evidence!ResultsAreEntries /\ Evidence!ShownIsOfChunk
    BY <1>3 DEF Evidence!VisibleIsSeen, Evidence!ResultsAreEntries, Evidence!ShownIsOfChunk
  <1>6. Evidence!FoundGoesOn /\ Evidence!EvidenceWasVisible
    BY DEF Evidence!FoundGoesOn, Evidence!EvidenceWasVisible
  <1> QED BY <1>4, <1>5, <1>6 DEF EvidenceInv

RowChanges ==
    \/ \E c \in Rows : \/ Evidence!Toggle(c) \/ Evidence!Delete(c)
                       \/ \E d \in Rows : Evidence!Supersede(c, d)
    \/ \E k \in Kbs : Evidence!Share(k)

\* What users and workers change is seen, and no longer "nothing has changed".
LEMMA ChangesEvidenceInv ==
  ASSUME Evidence!EvidenceAssumption, EvidenceInv, RowChanges
  PROVE  EvidenceInv'
  <1>1. Evidence!Change
    BY DEF RowChanges, Evidence!Toggle, Evidence!Delete, Evidence!Supersede, Evidence!Share
  <1>2. s1' \in [Rows -> Evidence!Row]
    <2> USE DEF EvidenceInv, Evidence!TypeOK, Evidence!Row
    <2>1. CASE \E k \in Kbs : Evidence!Share(k)
      BY <2>1 DEF Evidence!Share
    <2>2. ASSUME NEW c \in Rows, Evidence!Toggle(c) \/ Evidence!Delete(c)
          PROVE  s1' \in [Rows -> Evidence!Row]
      <3>1. CASE Evidence!Toggle(c)
        <4>1. (~s1[c].enabled) \in BOOLEAN
          OBVIOUS
        <4>2. [s1[c] EXCEPT !.enabled = ~s1[c].enabled] \in Evidence!Row
          BY <4>1
        <4> QED BY <3>1, <4>2 DEF Evidence!Toggle
      <3>2. CASE Evidence!Delete(c)
        BY <3>2, ZenonT(40) DEF Evidence!Delete
      <3> QED BY <2>2, <3>1, <3>2
    <2>3. ASSUME NEW c \in Rows, NEW d \in Rows, Evidence!Supersede(c, d)
          PROVE  s1' \in [Rows -> Evidence!Row]
      <3>1. c # d /\ s1[c] \in Evidence!Row /\ s1[d] \in Evidence!Row
        BY <2>3 DEF Evidence!Supersede
      <3> QED BY <2>3, <3>1 DEF Evidence!Supersede
    <2> QED BY <2>1, <2>2, <2>3 DEF RowChanges
  <1>3. s2' \subseteq Kbs
    BY DEF EvidenceInv, RowChanges, Evidence!TypeOK, Evidence!Toggle, Evidence!Delete,
           Evidence!Supersede, Evidence!Share
  <1>4. s8' # 0 /\ s8' \in 0 .. MaxChanges
    BY <1>1 DEF EvidenceInv, Evidence!TypeOK, Evidence!Change, Evidence!EvidenceAssumption
  <1>5. Evidence!TypeOK'
    BY <1>1, <1>2, <1>3, <1>4 DEF EvidenceInv, Evidence!TypeOK, Evidence!Change
  <1>6. Evidence!VisibleIsSeen' /\ Evidence!ResultsAreEntries'
    BY <1>1 DEF EvidenceInv, Evidence!Change, Evidence!VisibleIsSeen, Evidence!ResultsAreEntries
  <1>7. Evidence!FoundGoesOn'
    <2>1. s4' = s4 /\ s5' = s5 /\ s6' = s6 /\ s4 # "done"
      BY <1>1 DEF Evidence!Change
    <2>2. s4 = "searched" => s5 = s6
      BY DEF EvidenceInv, Evidence!FoundGoesOn
    <2> QED BY <1>4, <2>1, <2>2 DEF Evidence!FoundGoesOn
  <1>8. Evidence!EvidenceWasVisible'
    BY <1>1 DEF Evidence!Change, Evidence!EvidenceWasVisible
  <1>9. \A c \in Rows : s1'[c].hash = s1[c].hash
    <2> USE DEF EvidenceInv, Evidence!TypeOK, Evidence!Row
    <2>1. CASE \E k \in Kbs : Evidence!Share(k)
      BY <2>1 DEF Evidence!Share
    <2>2. ASSUME NEW c \in Rows, Evidence!Toggle(c) \/ Evidence!Delete(c)
          PROVE  \A d \in Rows : s1'[d].hash = s1[d].hash
      BY <2>2 DEF Evidence!Toggle, Evidence!Delete
    <2>3. ASSUME NEW c \in Rows, NEW d \in Rows, Evidence!Supersede(c, d)
          PROVE  \A x \in Rows : s1'[x].hash = s1[x].hash
      BY <2>3 DEF Evidence!Supersede
    <2> QED BY <2>1, <2>2, <2>3 DEF RowChanges
  <1>10. Evidence!ShownIsOfChunk'
    BY <1>1, <1>9 DEF EvidenceInv, Evidence!Change, Evidence!ShownIsOfChunk
  <1> QED BY <1>5, <1>6, <1>7, <1>8, <1>10 DEF EvidenceInv

\* A step of the request reads the rows as they are.
LEMMA GoOn ==
  ASSUME EvidenceInv, NEW from, NEW to, Evidence!Go(from, to)
  PROVE  /\ s4 = from /\ s4' = to /\ UNCHANGED <<s1, s2, s3, s6, s7, s8, s10>>
         /\ Evidence!VisibleIsSeen'
         /\ \A r : Evidence!Sole(r)' <=> Evidence!Sole(r)
         /\ \A r : Evidence!Rivals(r)' = Evidence!Rivals(r)
  BY DEF EvidenceInv, Evidence!Go, Evidence!VisibleIsSeen, Evidence!Found, Evidence!Visible,
         Evidence!Available, Evidence!Sole, Evidence!Rivals, Evidence!Alike

\* The entry whose near duplicates are all of active and visible chunks, and which of them is
\* still there.
Clear(r) == r \in s6 /\ \A s \in Evidence!Rivals(r) : Evidence!Sole(s)

LEMMA GoesOnTo ==
  ASSUME EvidenceInv, NEW from, NEW to, Evidence!Go(from, to), to # "searched",
         ASSUME NEW r, Clear(r), s8 = 0, s9' = 0
         PROVE  /\ to \in {"fused", "filtered"} => \E s \in Evidence!Rivals(r) : s \in s5'
                /\ to \in {"resolved", "expanded", "done"} =>
                      \E s \in Evidence!Rivals(r) : s.id \in Evidence!Evidence'
  PROVE  Evidence!FoundGoesOn'
  BY GoOn DEF Evidence!FoundGoesOn, Clear

LEMMA FuseEvidenceInv ==
  ASSUME EvidenceInv, Evidence!Fuse
  PROVE  EvidenceInv'
  <1> USE DEF EvidenceInv, Evidence!Fuse, Evidence!Fine
  <1>1. PICK kept \in SUBSET s5 : /\ s5' = kept
                                  /\ \A r \in s5 : \E s \in kept : Evidence!Alike(r, s)
    OBVIOUS
  <1>2. Evidence!TypeOK'
    BY <1>1, GoOn DEF Evidence!TypeOK
  <1>3. Evidence!ResultsAreEntries' /\ Evidence!ShownIsOfChunk' /\ Evidence!EvidenceWasVisible'
    BY <1>1, GoOn DEF Evidence!ResultsAreEntries, Evidence!ShownIsOfChunk,
                      Evidence!EvidenceWasVisible
  <1>4. ASSUME NEW r, Clear(r) PROVE \E s \in Evidence!Rivals(r) : s \in s5'
    <2>1. s5 = s6
      BY GoOn DEF Evidence!FoundGoesOn
    <2> QED BY <1>1, <1>4, <2>1 DEF Clear, Evidence!Rivals
  <1>5. Evidence!FoundGoesOn'
    BY <1>4, GoesOnTo
  <1> QED BY <1>2, <1>3, <1>5, GoOn

LEMMA FilterEvidenceInv ==
  ASSUME EvidenceInv, Evidence!FilterUnavailable
  PROVE  EvidenceInv'
  <1> USE DEF EvidenceInv, Evidence!FilterUnavailable, Evidence!Fine, Evidence!Fault
  <1>1. s5' \subseteq s5 /\ s9' \in 0 .. 1
    BY DEF Evidence!TypeOK
  <1>2. Evidence!TypeOK'
    BY <1>1, GoOn DEF Evidence!TypeOK
  <1>3. Evidence!ResultsAreEntries' /\ Evidence!ShownIsOfChunk' /\ Evidence!EvidenceWasVisible'
    BY <1>1, GoOn DEF Evidence!ResultsAreEntries, Evidence!ShownIsOfChunk,
                      Evidence!EvidenceWasVisible
  <1>4. ASSUME NEW r, Clear(r), s8 = 0, s9' = 0
        PROVE  \E s \in Evidence!Rivals(r) : s \in s5'
    <2>1. s9 = 0 /\ s5' = {x \in s5 : Evidence!Kept(x)}
      BY <1>4
    <2>2. PICK s \in Evidence!Rivals(r) : s \in s5
      BY <1>4, <2>1, GoOn DEF Evidence!FoundGoesOn, Clear
    <2>3. Evidence!Kept(s)
      BY <1>4, <2>2 DEF Clear, Evidence!Sole, Evidence!Found, Evidence!Visible, Evidence!Kept
    <2> QED BY <2>1, <2>2, <2>3
  <1>5. Evidence!FoundGoesOn'
    BY <1>4, GoesOnTo
  <1> QED BY <1>2, <1>3, <1>5, GoOn

\* A result whose content no other active row has can only be given its own row.
LEMMA ResolveEvidenceInv ==
  ASSUME EvidenceInv, Evidence!ResolveMetadata
  PROVE  EvidenceInv'
  <1> USE DEF EvidenceInv, Evidence!ResolveMetadata, Evidence!Fine, Evidence!Fault
  <1>1. Evidence!Go("filtered", "resolved") /\ s9' \in 0 .. 1
    BY DEF Evidence!TypeOK
  <1>2. ASSUME NEW owner \in [s5 -> Rows \cup {Orphan}],
               s5' = {[r EXCEPT !.chunk = owner[r]] : r \in s5}
        PROVE  s5' \subseteq Evidence!Result
    BY <1>2 DEF Evidence!TypeOK, Evidence!Result
  <1>3. s5' \subseteq Evidence!Result
    BY <1>2 DEF Evidence!TypeOK
  <1>4. Evidence!TypeOK'
    BY <1>1, <1>3, GoOn DEF Evidence!TypeOK
  <1>5. Evidence!ResultsAreEntries' /\ Evidence!EvidenceWasVisible'
    BY <1>1, GoOn DEF Evidence!ResultsAreEntries, Evidence!EvidenceWasVisible
  <1>6. Evidence!ShownIsOfChunk'
    <2>1. s1' = s1
      BY <1>1, GoOn
    <2>2. ASSUME NEW owner \in [s5 -> Rows \cup {Orphan}],
                 \A x \in s5 :
                    owner[x] \in IF Evidence!Owners(x) = {} THEN {x.id} ELSE Evidence!Owners(x),
                 s5' = {[x EXCEPT !.chunk = owner[x]] : x \in s5}
          PROVE  Evidence!ShownIsOfChunk'
      <3>1. ASSUME NEW x \in s5
            PROVE  owner[x] = x.id \/ (owner[x] \in Rows /\ s1[owner[x]].hash = x.hash)
        BY <2>2 DEF Evidence!Owners
      <3>2. ASSUME NEW x \in s5
            PROVE  LET y == [x EXCEPT !.chunk = owner[x]]
                   IN  y.chunk = owner[x] /\ y.id = x.id /\ y.hash = x.hash
        BY DEF Evidence!TypeOK, Evidence!Result
      <3>3. ASSUME NEW y \in s5'
            PROVE  y.chunk = y.id \/ (y.chunk \in Rows /\ s1[y.chunk].hash = y.hash)
        <4>1. PICK x \in s5 : y = [x EXCEPT !.chunk = owner[x]]
          BY <2>2
        <4> QED BY <3>1, <3>2, <4>1
      <3> QED BY <2>1, <3>3 DEF Evidence!ShownIsOfChunk
    <2>3. CASE UNCHANGED s5
      BY <2>1, <2>3 DEF Evidence!ShownIsOfChunk
    <2> QED BY <2>2, <2>3
  <1>7. ASSUME NEW r, Clear(r), s8 = 0, s9' = 0
        PROVE  \E s \in Evidence!Rivals(r) : s.id \in Evidence!Evidence'
    <2>1. PICK owner \in [s5 -> Rows \cup {Orphan}] :
              /\ \A x \in s5 :
                    owner[x] \in IF Evidence!Owners(x) = {} THEN {x.id} ELSE Evidence!Owners(x)
              /\ s5' = {[x EXCEPT !.chunk = owner[x]] : x \in s5}
      <3>1. s9' # 1
        BY <1>7
      <3> QED BY <3>1, Zenon
    <2>2. s9 = 0
      BY <1>7, <1>1 DEF Evidence!TypeOK
    <2>3. PICK s \in Evidence!Rivals(r) : s \in s5
      BY <1>1, <1>7, <2>2, GoOn DEF Evidence!FoundGoesOn, Clear
    <2>4. Evidence!Owners(s) = {s.id}
      <3>1. Evidence!Sole(s)
        BY <1>7, <2>3 DEF Clear
      <3>2. s.id \in Evidence!Owners(s)
        BY <3>1 DEF Evidence!Sole, Evidence!Found, Evidence!Visible, Evidence!Available,
                    Evidence!Owners
      <3>3. \A c \in Evidence!Owners(s) : c = s.id
        BY <3>1 DEF Evidence!Sole, Evidence!Owners
      <3> QED BY <3>2, <3>3
    <2>5. owner[s] = s.id
      BY <2>1, <2>3, <2>4
    <2>6. [s EXCEPT !.chunk = owner[s]] \in s5'
      BY <2>1, <2>3
    <2>7. [s EXCEPT !.chunk = owner[s]].chunk = s.id
      BY <2>3, <2>5 DEF Evidence!TypeOK, Evidence!Result
    <2> QED BY <2>3, <2>6, <2>7 DEF Evidence!Evidence
  <1>8. Evidence!FoundGoesOn'
    BY <1>1, <1>7, GoesOnTo
  <1> QED BY <1>1, <1>4, <1>5, <1>6, <1>8, GoOn

LEMMA ExpandEvidenceInv ==
  ASSUME EvidenceInv, Evidence!ExpandNeighbours
  PROVE  EvidenceInv'
  <1> USE DEF EvidenceInv, Evidence!ExpandNeighbours, Evidence!Fine, Evidence!Fault
  <1>1. Evidence!Go("resolved", "expanded") /\ s9' \in 0 .. 1
    BY DEF Evidence!TypeOK
  <1>2. s5 \subseteq s5' /\ (s9' = 0 => s9 = 0)
    BY DEF Evidence!TypeOK
  <1>3. \A d \in Evidence!Neighbours : Evidence!Entry(d, s1[d].hash) \in Evidence!Result
    BY DEF Evidence!Neighbours, Evidence!Entry, Evidence!Result, Evidence!TypeOK, Evidence!Row
  <1>4. s5' \subseteq Evidence!Result
    BY <1>3 DEF Evidence!TypeOK
  <1>5. Evidence!TypeOK'
    BY <1>1, <1>4, GoOn DEF Evidence!TypeOK
  <1>6. Evidence!ResultsAreEntries' /\ Evidence!EvidenceWasVisible'
    BY <1>1, GoOn DEF Evidence!ResultsAreEntries, Evidence!EvidenceWasVisible
  <1>7. Evidence!ShownIsOfChunk'
    BY <1>1, GoOn DEF Evidence!ShownIsOfChunk, Evidence!Entry
  <1>8. Evidence!FoundGoesOn'
    <2>1. \A r : Clear(r) /\ s8 = 0 /\ s9' = 0 =>
                   \E s \in Evidence!Rivals(r) : s.id \in Evidence!Evidence'
      BY <1>1, <1>2, GoOn DEF Evidence!FoundGoesOn, Evidence!Evidence, Clear
    <2> QED BY <1>1, <2>1, GoesOnTo
  <1> QED BY <1>1, <1>5, <1>6, <1>7, <1>8, GoOn

\* The last look at the rows decides.
LEMMA AuthorizeEvidenceInv ==
  ASSUME EvidenceInv, Evidence!Authorize
  PROVE  EvidenceInv'
  <1> USE DEF EvidenceInv, Evidence!Authorize, Evidence!Fine, Evidence!Fault
  <1>1. CASE Evidence!Go("expanded", "done") /\ s9' = s9
             /\ s5' = {r \in s5 : Evidence!Allowed(r.chunk)}
    <2>1. Evidence!TypeOK'
      BY <1>1, GoOn DEF Evidence!TypeOK
    <2>2. Evidence!ResultsAreEntries' /\ Evidence!ShownIsOfChunk'
      BY <1>1, GoOn DEF Evidence!ResultsAreEntries, Evidence!ShownIsOfChunk
    <2>3. Evidence!EvidenceWasVisible'
      BY <1>1, GoOn DEF Evidence!EvidenceWasVisible, Evidence!Allowed, Evidence!VisibleIsSeen,
                        Evidence!Visible, Evidence!ShownIsOfChunk
    <2>4. \A r : Evidence!Sole(r) => Evidence!Allowed(r.id)
      BY DEF Evidence!Sole, Evidence!Found, Evidence!Allowed, Evidence!Visible
    <2>5. Evidence!FoundGoesOn'
      <3>1. \A r : Clear(r) /\ s8 = 0 /\ s9' = 0 =>
                     \E s \in Evidence!Rivals(r) : s.id \in Evidence!Evidence'
        <4> SUFFICES ASSUME NEW r, Clear(r), s8 = 0, s9' = 0
                     PROVE  \E s \in Evidence!Rivals(r) : s.id \in Evidence!Evidence'
          OBVIOUS
        <4>1. PICK s \in Evidence!Rivals(r) : s.id \in Evidence!Evidence
          BY <1>1, GoOn DEF Evidence!FoundGoesOn, Clear
        <4>2. Evidence!Allowed(s.id)
          BY <2>4, <4>1 DEF Clear
        <4> QED BY <1>1, <4>1, <4>2 DEF Evidence!Evidence
      <3> QED BY <1>1, <3>1, GoesOnTo
    <2> QED BY <1>1, <2>1, <2>2, <2>3, <2>5, GoOn
  <1>2. CASE Evidence!Go("expanded", "failed") /\ s9 = 0 /\ s9' = 1 /\ s5' = {}
    <2>1. Evidence!TypeOK'
      BY <1>2, GoOn DEF Evidence!TypeOK
    <2>2. /\ Evidence!ResultsAreEntries' /\ Evidence!ShownIsOfChunk' /\ Evidence!FoundGoesOn'
          /\ Evidence!EvidenceWasVisible'
      BY <1>2, GoOn DEF Evidence!ResultsAreEntries, Evidence!ShownIsOfChunk,
                        Evidence!FoundGoesOn, Evidence!EvidenceWasVisible
    <2> QED BY <1>2, <2>1, <2>2, GoOn
  <1> QED BY <1>1, <1>2

LEMMA EvidenceNextInv ==
  ASSUME Evidence!EvidenceAssumption, EvidenceInv, [Evidence!Next]_Evidence!vars
  PROVE  EvidenceInv'
  <1>1. CASE UNCHANGED Evidence!vars
    BY <1>1 DEF EvidenceInv, Evidence!vars, Evidence!TypeOK, Evidence!VisibleIsSeen,
                Evidence!Visible, Evidence!Available, Evidence!ResultsAreEntries,
                Evidence!FoundGoesOn, Evidence!Found, Evidence!EvidenceWasVisible,
                Evidence!Evidence, Evidence!Sole, Evidence!Rivals, Evidence!Alike,
                Evidence!ShownIsOfChunk
  <1>2. CASE Evidence!Request
    BY <1>2, FuseEvidenceInv, FilterEvidenceInv, ResolveEvidenceInv, ExpandEvidenceInv,
       AuthorizeEvidenceInv DEF Evidence!Request
  <1> QED BY <1>1, <1>2, ChangesEvidenceInv DEF Evidence!Next, RowChanges

LEMMA EvidenceSound ==
  EvidenceInv => Evidence!EvidenceWasVisible /\ Evidence!EvidenceSurvives
  BY DEF EvidenceInv, Evidence!FoundGoesOn, Evidence!EvidenceSurvives, Evidence!Settled

-----------------------------------------------------------------------------
(***************************************************************************)
(* EvaluationCases.                                                        *)
(***************************************************************************)
CasesInv ==
    /\ Cases!TypeOK /\ Cases!UnansweredHasNoCase /\ Cases!LoadedIsCurrent
    /\ Cases!GoldenIsEarned

\* An update of a transaction that has loaded the row as it is leaves what it has made of it.
LEMMA MergedIsNew ==
  ASSUME NEW new \in Cases!Case
  PROVE  Cases!Merge(s4, new) = new
  <1>1. Cases!Merge(s4, new) = [f \in DOMAIN new |-> new[f]]
    BY DEF Cases!Merge
  <1>2. new = [f \in DOMAIN new |-> new[f]]
    BY DEF Cases!Case
  <1> QED BY <1>1, <1>2

\* Any other update leaves in each column what it has made of it, or what it has found there.
LEMMA MergedIsCase ==
  ASSUME s4 \in Cases!Case, NEW old \in Cases!Case, NEW new \in Cases!Case,
         NEW m, m = Cases!Merge(old, new)
  PROVE  /\ m \in Cases!Case
         /\ m.active = IF new.active = old.active THEN s4.active ELSE new.active
         /\ m.exists = IF new.exists = old.exists THEN s4.exists ELSE new.exists
         /\ m.type = IF new.type = old.type THEN s4.type ELSE new.type
  <1>1. DOMAIN new = {"exists", "type", "active", "review", "vote", "expected"}
    BY DEF Cases!Case
  <1>2. \A f \in DOMAIN new : m[f] = IF new[f] = old[f] THEN s4[f] ELSE new[f]
    BY DEF Cases!Merge
  <1>3. m = [exists |-> m.exists, type |-> m.type, active |-> m.active, review |-> m.review,
             vote |-> m.vote, expected |-> m.expected]
    BY <1>1 DEF Cases!Merge
  <1> QED BY <1>1, <1>2, <1>3 DEF Cases!Case

LEMMA RefreshedIsCase ==
  ASSUME NEW row \in Cases!Case, NEW v \in Cases!Votes
  PROVE  /\ Cases!Refreshed(row, v) \in Cases!Case
         /\ Cases!Refreshed(row, v).exists /\ Cases!Refreshed(row, v).vote = v
         /\ Cases!Refreshed(row, v).active => row.type = "golden" /\ row.active
         /\ row.type = "golden" =>
               /\ Cases!Refreshed(row, v).type = "golden"
               /\ Cases!Refreshed(row, v).review = row.review
               /\ Cases!Refreshed(row, v).expected = row.expected
  <1>1. CASE row.type = "golden"
    <2>1. Cases!Refreshed(row, v) = [row EXCEPT !.exists = TRUE, !.vote = v]
      BY <1>1 DEF Cases!Refreshed, Cases!Case
    <2> QED BY <1>1, <2>1 DEF Cases!Case
  <1>2. CASE row.type # "golden"
    <2>1. Cases!Refreshed(row, v)
            = [row EXCEPT !.exists = TRUE, !.vote = v, !.active = FALSE, !.expected = FALSE]
      BY <1>2 DEF Cases!Refreshed
    <2> QED BY <1>2, <2>1 DEF Cases!Case
  <1> QED BY <1>1, <1>2

\* A promotion makes a case active only with evidence and without a down-vote.
LEMMA PromotedIsEarned ==
  ASSUME NEW row \in Cases!Case
  PROVE  /\ Cases!Promoted(row) \in Cases!Case /\ Cases!Promoted(row).exists = row.exists
         /\ Cases!Promoted(row).type = "golden"
         /\ Cases!Promoted(row).active =>
               /\ Cases!Promoted(row).review = "approved"
               /\ Cases!Promoted(row).expected /\ s2 /\ row.vote # "down"
  BY DEF Cases!Promoted, Cases!Case

\* A down-vote makes it inactive, and no vote makes it active.
LEMMA VotedIsEarned ==
  ASSUME NEW row \in Cases!Case, NEW v \in Cases!Votes
  PROVE  /\ Cases!Voted(row, v) \in Cases!Case
         /\ Cases!Voted(row, v).exists = row.exists
         /\ Cases!Voted(row, v).type = row.type
         /\ Cases!Voted(row, v).active =>
               /\ v # "down" /\ row.active
               /\ Cases!Voted(row, v).review = row.review
               /\ Cases!Voted(row, v).expected = row.expected
  BY DEF Cases!Voted, Cases!Case

LEMMA CasesInitInv == Cases!CasesAssumption /\ Cases!Init => CasesInv
  <1> SUFFICES ASSUME Cases!CasesAssumption, Cases!Init PROVE CasesInv
    OBVIOUS
  <1>1. Cases!NoCase \in Cases!Case /\ ~Cases!NoCase.active
    BY DEF Cases!NoCase, Cases!Case, Cases!Votes
  <1>2. Cases!TypeOK
    BY <1>1 DEF Cases!Init, Cases!TypeOK, Cases!Nothing, Cases!Votes
  <1>3. Cases!UnansweredHasNoCase /\ Cases!LoadedIsCurrent /\ Cases!GoldenIsEarned
    BY <1>1 DEF Cases!Init, Cases!UnansweredHasNoCase, Cases!LoadedIsCurrent,
                Cases!GoldenIsEarned, Cases!Nothing
  <1> QED BY <1>2, <1>3 DEF CasesInv

\* The answer brings its case with it, inactive.
LEMMA SaveCasesInv ==
  ASSUME CasesInv, Cases!SaveAnswer
  PROVE  CasesInv'
  <1> USE DEF CasesInv, Cases!SaveAnswer
  <1>1. "none" \in Cases!Votes /\ ~s4.active /\ s4 \in Cases!Case
    BY DEF Cases!Votes, Cases!UnansweredHasNoCase, Cases!NoCase, Cases!TypeOK
  <1>2. s4' \in Cases!Case /\ ~s4'.active
    BY <1>1, RefreshedIsCase
  <1>3. UNCHANGED <<s2, s3, s5, s6>> /\ s1' /\ \A c \in Cases!Clients : ~s5[c].open
    BY DEF Cases!LoadedIsCurrent
  <1>4. Cases!TypeOK'
    BY <1>2, <1>3 DEF Cases!TypeOK
  <1>5. Cases!UnansweredHasNoCase' /\ Cases!LoadedIsCurrent' /\ Cases!GoldenIsEarned'
    BY <1>2, <1>3 DEF Cases!UnansweredHasNoCase, Cases!LoadedIsCurrent, Cases!GoldenIsEarned
  <1> QED BY <1>4, <1>5

\* Who begins is alone if nobody else is there, and nobody else is alone any longer.
LEMMA BeginCasesInv ==
  ASSUME CasesInv, NEW c \in Cases!Clients, NEW v \in Cases!Votes, Cases!Begin(c, v),
         c \in Reviewers => v = s3[Asker]
  PROVE  CasesInv'
  <1> USE DEF CasesInv
  <1>1. s1 /\ ~s5[c].open /\ UNCHANGED <<s1, s2, s3, s4, s6>>
    BY DEF Cases!Begin
  <1>2. /\ s5' \in [Cases!Clients -> [open : BOOLEAN, alone : BOOLEAN, case : Cases!Case,
                                      vote : Cases!Votes]]
        /\ s5'[c] = [open |-> TRUE, alone |-> Cases!Quiet, case |-> s4, vote |-> v]
        /\ \A d \in Cases!Clients \ {c} :
              /\ s5'[d].open = s5[d].open /\ s5'[d].case = s5[d].case /\ ~s5'[d].alone
    BY DEF Cases!Begin, Cases!TypeOK, Cases!Quiet
  <1>3. Cases!TypeOK'
    BY <1>1, <1>2 DEF Cases!TypeOK
  <1>4. \A d \in Cases!Clients \ {c} : s5'[d].open =>
           /\ s5'[d].case.exists => s4.exists
           /\ s5'[d].case.type = "golden" => s4.type = "golden"
    BY <1>2 DEF Cases!LoadedIsCurrent
  <1>5. s5'[c].alone => \A d \in Cases!Clients \ {c} : ~s5'[d].open
    BY <1>2 DEF Cases!Quiet
  <1>6. Cases!LoadedIsCurrent'
    BY <1>1, <1>2, <1>4, <1>5 DEF Cases!LoadedIsCurrent
  <1>7. Cases!UnansweredHasNoCase' /\ Cases!GoldenIsEarned'
    BY <1>1 DEF Cases!UnansweredHasNoCase, Cases!GoldenIsEarned
  <1> QED BY <1>3, <1>6, <1>7

\* A transaction ends: either it has been the only one, or no other is alone.
LEMMA FinishCasesInv ==
  ASSUME CasesInv, NEW c \in Cases!Clients, NEW decides \in BOOLEAN, Cases!Finish(c, decides),
         s3' \in [Users -> Cases!Votes], s4' \in Cases!Case, Cases!GoldenIsEarned',
         s4.exists => s4'.exists, s4.type = "golden" => s4'.type = "golden"
  PROVE  CasesInv'
  <1> USE DEF CasesInv
  <1>1. s5[c].open /\ s1 /\ UNCHANGED <<s1, s2>> /\ s6' \in BOOLEAN
    BY DEF Cases!Finish, Cases!LoadedIsCurrent, Cases!TypeOK
  <1>2. Cases!Nothing \in [open : BOOLEAN, alone : BOOLEAN, case : Cases!Case,
                           vote : Cases!Votes] /\ ~Cases!Nothing.open
    BY DEF Cases!Nothing, Cases!NoCase, Cases!Case, Cases!Votes
  <1>3. ~s5'[c].open /\ \A d \in Cases!Clients \ {c} : s5'[d] = s5[d]
    BY <1>2 DEF Cases!Finish, Cases!TypeOK
  <1>4. Cases!TypeOK'
    BY <1>1, <1>2 DEF Cases!Finish, Cases!TypeOK
  <1>5. \A d \in Cases!Clients \ {c} : s5[d].open => ~s5[d].alone
    BY <1>1 DEF Cases!LoadedIsCurrent
  <1>6. Cases!LoadedIsCurrent'
    BY <1>1, <1>3, <1>5 DEF Cases!LoadedIsCurrent
  <1>7. Cases!UnansweredHasNoCase'
    BY <1>1 DEF Cases!UnansweredHasNoCase
  <1> QED BY <1>4, <1>6, <1>7

\* What a transaction has loaded has only gone on, and is still there if it is alone.
LEMMA LoadedOfOpen ==
  ASSUME CasesInv, NEW c \in Cases!Clients, s5[c].open
  PROVE  /\ s4 \in Cases!Case /\ s5[c].case \in Cases!Case /\ s5[c].vote \in Cases!Votes
         /\ s5[c].case.exists => s4.exists
         /\ s5[c].case.type = "golden" => s4.type = "golden"
         /\ s5[c].alone =>
               /\ s5[c].case = s4
               /\ c \in Reviewers => s5[c].vote = s3[Asker]
  BY DEF CasesInv, Cases!TypeOK, Cases!LoadedIsCurrent

LEMMA ListCasesInv ==
  ASSUME CasesInv, Cases!CommitList
  PROVE  CasesInv'
  <1> DEFINE row == Cases!Refreshed(s4, s5[Lister].vote)
  <1>1. Lister \in Cases!Clients /\ s5[Lister].open /\ Cases!Finish(Lister, FALSE)
    BY DEF Cases!CommitList, Cases!Clients, Cases!Finish
  <1>2. s4 \in Cases!Case /\ s5[Lister].vote \in Cases!Votes
    BY <1>1, LoadedOfOpen
  <1>3. /\ row \in Cases!Case /\ row.exists
        /\ row.active => s4.active /\ s4.type = "golden"
        /\ s4.type = "golden" =>
              row.type = "golden" /\ row.review = s4.review /\ row.expected = s4.expected
    BY <1>2, RefreshedIsCase
  <1>4. s4' \in {s4, row} /\ (~s4.exists => s4' = row) /\ s3' = s3
    BY DEF Cases!CommitList
  <1> HIDE DEF row
  <1>5. s4.active => s4.exists
    BY DEF CasesInv, Cases!GoldenIsEarned
  <1>6. ~s6' => ~s6
    BY <1>1 DEF Cases!Finish
  <1>7. Cases!GoldenIsEarned'
    BY <1>1, <1>3, <1>4, <1>5, <1>6 DEF CasesInv, Cases!GoldenIsEarned, Cases!Finish
  <1>8. s4' \in Cases!Case /\ (s4.exists => s4'.exists)
        /\ (s4.type = "golden" => s4'.type = "golden") /\ s3' \in [Users -> Cases!Votes]
    BY <1>2, <1>3, <1>4 DEF CasesInv, Cases!TypeOK
  <1> QED BY <1>1, <1>7, <1>8, FinishCasesInv

LEMMA VoteCasesInv ==
  ASSUME CasesInv, Cases!CasesAssumption, NEW u \in Users, Cases!CommitVote(u)
  PROVE  CasesInv'
  <1> DEFINE v == s5[u].vote
             old == s5[u].case
             row == Cases!Voted(old, v)
  <1>1. u \in Cases!Clients /\ s5[u].open /\ Cases!Finish(u, v = "down")
    BY DEF Cases!CommitVote, Cases!Clients, Cases!Finish
  <1>2. v \in Cases!Votes /\ s4 \in Cases!Case /\ old \in Cases!Case
    BY <1>1, LoadedOfOpen
  <1>3. /\ row \in Cases!Case /\ row.exists = old.exists /\ row.type = old.type
        /\ row.active => v # "down" /\ old.active
        /\ row.active => row.review = old.review /\ row.expected = old.expected
    BY <1>2, VotedIsEarned
  <1>4. s4' = (IF old.exists THEN Cases!Merge(old, row) ELSE s4)
    BY DEF Cases!CommitVote
  <1>5. s3' = [s3 EXCEPT ![u] = v] /\ s3' \in [Users -> Cases!Votes]
    BY <1>2 DEF Cases!CommitVote, CasesInv, Cases!TypeOK
  <1>6. s3'[Asker] = v \/ s3'[Asker] = s3[Asker]
    BY <1>5 DEF Cases!CasesAssumption, CasesInv, Cases!TypeOK
  <1>7. /\ s5[u].alone => old = s4
        /\ s4.active => s4.exists
    BY <1>1, LoadedOfOpen DEF CasesInv, Cases!GoldenIsEarned
  <1>9. s2' = s2 /\ s1' = s1
    BY <1>1 DEF Cases!Finish
  <1>11. s5[u].alone /\ s4.exists => s4' = row
    BY <1>3, <1>4, <1>7, MergedIsNew
  <1>12. ~s6' => s5[u].alone /\ (s6 => v = "down")
    BY <1>1 DEF Cases!Finish
  <1> HIDE DEF row, v, old
  <1>10. s4' \in Cases!Case /\ s4'.exists = s4.exists /\ s4'.type = s4.type
         /\ (s4'.active => s4.active)
    <2>1. CASE old.exists
      <3>1. /\ s4' \in Cases!Case
            /\ s4'.active = IF row.active = old.active THEN s4.active ELSE row.active
            /\ s4'.exists = IF row.exists = old.exists THEN s4.exists ELSE row.exists
            /\ s4'.type = IF row.type = old.type THEN s4.type ELSE row.type
        <4>1. s4' = Cases!Merge(old, row)
          BY <1>4, <2>1
        <4> QED BY <1>2, <1>3, <4>1, MergedIsCase
      <3> QED BY <1>2, <1>3, <3>1
    <2>2. CASE ~old.exists
      BY <1>2, <1>4, <2>2
    <2> QED BY <2>1, <2>2
  <1>13. ASSUME s4'.active, ~s6'
         PROVE  s4'.review = "approved" /\ s4'.expected /\ s3'[Asker] # "down"
    <2>1. s4' = row /\ old = s4 /\ s4.active
      BY <1>7, <1>10, <1>11, <1>12, <1>13
    <2>2. v # "down" /\ row.review = s4.review /\ row.expected = s4.expected /\ ~s6
      BY <1>3, <1>12, <1>13, <2>1
    <2> QED BY <1>6, <2>1, <2>2 DEF CasesInv, Cases!GoldenIsEarned
  <1>14. Cases!GoldenIsEarned'
    BY <1>7, <1>9, <1>10, <1>13 DEF CasesInv, Cases!GoldenIsEarned
  <1> QED BY <1>1, <1>5, <1>10, <1>14, FinishCasesInv

LEMMA PromoteCasesInv ==
  ASSUME CasesInv, Cases!CasesAssumption, NEW c \in Reviewers, Cases!CommitPromotion(c)
  PROVE  CasesInv'
  <1> DEFINE v == s5[c].vote
             old == s5[c].case
             row == Cases!Promoted(Cases!Refreshed(old, v))
  <1>1. c \in Cases!Clients /\ s5[c].open /\ Cases!Finish(c, TRUE)
    BY DEF Cases!CommitPromotion, Cases!Clients, Cases!Finish
  <1>2. /\ v \in Cases!Votes /\ s4 \in Cases!Case /\ old \in Cases!Case
        /\ old.exists => s4.exists
        /\ old.type = "golden" => s4.type = "golden"
        /\ s5[c].alone => old = s4 /\ v = s3[Asker]
    BY <1>1, LoadedOfOpen
  <1>3. /\ row \in Cases!Case /\ row.exists /\ row.type = "golden"
        /\ row.active => row.review = "approved" /\ row.expected /\ s2 /\ v # "down"
    <2>1. Cases!Refreshed(old, v) \in Cases!Case /\ Cases!Refreshed(old, v).exists
          /\ Cases!Refreshed(old, v).vote = v
      BY <1>2, RefreshedIsCase
    <2> QED BY <2>1, PromotedIsEarned
  <1>4. s4' = s4 \/ s4' = Cases!Merge(old, row)
    BY DEF Cases!CommitPromotion
  <1>5. UNCHANGED <<s1, s2, s3>> /\ (~s6' => s5[c].alone)
    BY <1>1 DEF Cases!CommitPromotion, Cases!Finish
  <1>6. s5[c].alone => s4' = row
    BY <1>2, <1>3, MergedIsNew DEF Cases!CommitPromotion
  <1> HIDE DEF row, v, old
  <1>7. CASE s4' = s4
    <2>1. Cases!GoldenIsEarned'
      BY <1>2, <1>3, <1>5, <1>6, <1>7 DEF CasesInv, Cases!GoldenIsEarned
    <2> QED BY <1>1, <1>2, <1>5, <1>7, <2>1, FinishCasesInv DEF CasesInv, Cases!TypeOK
  <1>8. CASE s4' = Cases!Merge(old, row)
    <2>1. /\ s4' \in Cases!Case
          /\ s4'.active = IF row.active = old.active THEN s4.active ELSE row.active
          /\ s4'.exists = IF row.exists = old.exists THEN s4.exists ELSE row.exists
          /\ s4'.type = IF row.type = old.type THEN s4.type ELSE row.type
      <3>1. s4 \in Cases!Case /\ old \in Cases!Case /\ row \in Cases!Case
        BY <1>2, <1>3
      <3> QED BY <3>1, <1>8, MergedIsCase
    <2>2. s4'.exists /\ s4'.type = "golden"
      BY <1>2, <1>3, <2>1 DEF Cases!Case
    <2>3. s4'.active => s2
      BY <1>2, <1>3, <2>1 DEF CasesInv, Cases!GoldenIsEarned, Cases!Case
    <2>4. Cases!GoldenIsEarned'
      BY <1>2, <1>3, <1>5, <1>6, <2>2, <2>3 DEF Cases!GoldenIsEarned
    <2> QED BY <1>1, <1>5, <2>1, <2>2, <2>4, FinishCasesInv DEF CasesInv, Cases!TypeOK
  <1> QED BY <1>4, <1>7, <1>8

LEMMA CasesNextInv ==
  ASSUME Cases!CasesAssumption, CasesInv, [Cases!Next]_Cases!vars
  PROVE  CasesInv'
  <1>1. CASE UNCHANGED Cases!vars
    BY <1>1 DEF CasesInv, Cases!vars, Cases!TypeOK, Cases!UnansweredHasNoCase,
                Cases!LoadedIsCurrent, Cases!GoldenIsEarned
  <1>2. ASSUME NEW u \in Users, Cases!BeginVote(u)
        PROVE  CasesInv'
    <2>1. PICK v \in Cases!Votes : Cases!Begin(u, v)
      BY <1>2 DEF Cases!BeginVote
    <2>2. u \in Cases!Clients /\ u \notin Reviewers
      BY DEF Cases!Clients, Cases!CasesAssumption
    <2> QED BY <2>1, <2>2, BeginCasesInv
  <1>3. ASSUME NEW c \in Reviewers \cup {Lister}, Cases!Begin(c, s3[Asker])
        PROVE  CasesInv'
    <2>1. c \in Cases!Clients /\ s3[Asker] \in Cases!Votes
      BY DEF Cases!Clients, Cases!CasesAssumption, CasesInv, Cases!TypeOK
    <2> QED BY <1>3, <2>1, BeginCasesInv
  <1>4. CASE Cases!BeginList \/ \E c \in Reviewers : Cases!BeginPromotion(c)
    BY <1>3, <1>4 DEF Cases!BeginList, Cases!BeginPromotion
  <1> QED BY <1>1, <1>2, <1>4, SaveCasesInv, ListCasesInv, VoteCasesInv, PromoteCasesInv
          DEF Cases!Next

-----------------------------------------------------------------------------
(***************************************************************************)
(* InterviewSessions.                                                      *)
(***************************************************************************)
SessionsInv ==
    /\ Sessions!TypeOK /\ Sessions!CounterHoldsTheLock /\ Sessions!NothingCountedIsNoProfile
    /\ Sessions!ProfileKeepsResults

RowsTyped ==
    /\ s1 \in [Interviews -> {"none", "IN_PROGRESS", "COMPLETED", "ABANDONED"}]
    /\ s2 \in [Interviews -> 0 .. MaxSaves] /\ s3 \in [Interviews -> 0 .. MaxSaves]
    /\ s4 \in BOOLEAN /\ s5 \in Sessions!Profiles /\ s6 \in Seq(Results)

LEMMA NoProfileIsProfile ==
  Sessions!InterviewAssumption =>
    /\ Sessions!NoProfile \in Sessions!Profiles
    /\ Sessions!NoProfile.count = 0
    /\ (CHOOSE i \in Interviews : TRUE) \in Interviews
  BY DEF Sessions!InterviewAssumption, Sessions!NoProfile, Sessions!Profiles

LEMMA SessionsInitInv == Sessions!InterviewAssumption /\ Sessions!Init => SessionsInv
  <1> SUFFICES ASSUME Sessions!InterviewAssumption, Sessions!Init PROVE SessionsInv
    OBVIOUS
  <1> USE DEF Sessions!Init
  <1>1. Sessions!TypeOK
    BY NoProfileIsProfile DEF Sessions!TypeOK, Sessions!InterviewAssumption
  <1>2. Sessions!CounterHoldsTheLock /\ Sessions!NothingCountedIsNoProfile
    BY DEF Sessions!CounterHoldsTheLock, Sessions!NothingCountedIsNoProfile
  <1>3. Sessions!ProfileKeepsResults
    BY DEF Sessions!ProfileKeepsResults, Sessions!NoProfile
  <1> QED BY <1>1, <1>2, <1>3 DEF SessionsInv

\* When a transaction ends the others are where they were: the profile is as they have seen it,
\* or it was cleared, or whoever changed it had the lock that they would need.
LEMMA EndsSessionsInv ==
  ASSUME Sessions!InterviewAssumption, SessionsInv, NEW t \in Tasks, Sessions!Ends(t), RowsTyped',
         s5' = s5 \/ s5' = Sessions!NoProfile \/ s9[t] = "counting",
         s5'.count = 0 => s5' = Sessions!NoProfile,
         Sessions!ProfileKeepsResults'
  PROVE  SessionsInv'
  <1> USE DEF SessionsInv, Sessions!Ends
  <1>1. /\ s9'[t] = "idle" /\ s12'[t] = Sessions!NoProfile
        /\ \A d \in Tasks \ {t} : s9'[d] = s9[d] /\ s12'[d] = s12[d]
    BY DEF Sessions!TypeOK
  <1>2. Sessions!TypeOK'
    <2>1. /\ s7' \in [Interviews -> Tasks \cup {None}] /\ s8' \in Tasks \cup {None}
          /\ s9' \in [Tasks -> {"idle", "submitting", "scoring", "counting", "saving", "leaving",
                                "clearing"}]
      BY DEF Sessions!TypeOK
    <2>2. s10' \in [Tasks -> Interviews] /\ s12' \in [Tasks -> Sessions!Profiles]
      BY NoProfileIsProfile DEF Sessions!TypeOK
    <2>3. s11' \in [Tasks -> 0 .. MaxSaves] /\ s13' \in [Tasks -> SUBSET Interviews]
      BY DEF Sessions!TypeOK, Sessions!InterviewAssumption
    <2> QED BY <2>1, <2>2, <2>3 DEF Sessions!TypeOK, RowsTyped
  <1>3. Sessions!CounterHoldsTheLock'
    BY <1>1 DEF Sessions!CounterHoldsTheLock
  <1>4. Sessions!NothingCountedIsNoProfile'
    BY <1>1 DEF Sessions!NothingCountedIsNoProfile
  <1> QED BY <1>2, <1>3, <1>4

\* These neither change the profile nor count.
LEMMA ReadsSessionsInv ==
  ASSUME Sessions!InterviewAssumption, SessionsInv, NEW t \in Tasks, NEW i \in Interviews,
         \/ Sessions!Save(t, i) \/ Sessions!Abandon(t, i)
         \/ Sessions!Submit(t, i) \/ Sessions!FlushScoring(t) \/ Sessions!Clear(t)
  PROVE  SessionsInv'
  <1> USE DEF SessionsInv, Sessions!Save, Sessions!Abandon, Sessions!Submit,
              Sessions!Reads, Sessions!FlushScoring, Sessions!Clear, Sessions!rows,
              Sessions!locals
  <1>1. UNCHANGED <<s4, s5, s6, s8, s12>>
    OBVIOUS
  <1>2. \A d \in Tasks : s9'[d] = "counting" => s9[d] = "counting"
    BY DEF Sessions!TypeOK
  <1>3. /\ s1' \in [Interviews -> {"none", "IN_PROGRESS", "COMPLETED", "ABANDONED"}]
        /\ s2' \in [Interviews -> 0 .. MaxSaves] /\ s3' \in [Interviews -> 0 .. MaxSaves]
    BY DEF Sessions!TypeOK, Sessions!InterviewAssumption
  <1>4. /\ s7' \in [Interviews -> Tasks \cup {None}]
        /\ s9' \in [Tasks -> {"idle", "submitting", "scoring", "counting", "saving", "leaving",
                              "clearing"}]
        /\ s10' \in [Tasks -> Interviews]
    <2>1. CASE Sessions!FlushScoring(t)
      BY <2>1 DEF Sessions!TypeOK
    <2>2. CASE Sessions!Clear(t)
      BY <2>2 DEF Sessions!TypeOK
    <2>3. CASE Sessions!Save(t, i) \/ Sessions!Abandon(t, i) \/ Sessions!Submit(t, i)
      BY <2>3, ZenonT(40) DEF Sessions!TypeOK
    <2> QED BY <2>1, <2>2, <2>3
  <1>8. s11' \in [Tasks -> 0 .. MaxSaves] /\ s13' \in [Tasks -> SUBSET Interviews]
    <2>1. s2[i] \in 0 .. MaxSaves /\ {j \in Interviews : s1[j] \in {"COMPLETED", "ABANDONED"}} \in SUBSET Interviews
      BY DEF Sessions!TypeOK
    <2> QED BY <2>1, ZenonT(40) DEF Sessions!TypeOK
  <1>5. Sessions!TypeOK'
    BY <1>1, <1>3, <1>4, <1>8 DEF Sessions!TypeOK
  <1>6. Sessions!CounterHoldsTheLock' /\ Sessions!NothingCountedIsNoProfile'
    BY <1>1, <1>2 DEF Sessions!CounterHoldsTheLock, Sessions!NothingCountedIsNoProfile
  <1>7. Sessions!ProfileKeepsResults'
    BY <1>1 DEF Sessions!ProfileKeepsResults
  <1> QED BY <1>5, <1>6, <1>7

LEMMA ReadProfileInv ==
  ASSUME Sessions!InterviewAssumption, SessionsInv, NEW t \in Tasks, Sessions!ReadProfile(t)
  PROVE  SessionsInv'
  <1> USE DEF SessionsInv, Sessions!ReadProfile, Sessions!rows
  <1>1. Sessions!TypeOK'
    BY DEF Sessions!TypeOK
  <1>2. /\ s12'[t] = s5 /\ s8' = t /\ s5' = s5
        /\ \A d \in Tasks \ {t} : s9'[d] = s9[d] /\ s12'[d] = s12[d]
    BY DEF Sessions!TypeOK
  <1>3. \A d \in Tasks : s9[d] # "counting"
    BY DEF Sessions!InterviewAssumption, Sessions!CounterHoldsTheLock
  <1>4. Sessions!CounterHoldsTheLock' /\ Sessions!NothingCountedIsNoProfile'
    BY <1>2, <1>3 DEF Sessions!CounterHoldsTheLock, Sessions!NothingCountedIsNoProfile
  <1>5. Sessions!ProfileKeepsResults'
    BY DEF Sessions!ProfileKeepsResults
  <1> QED BY <1>1, <1>4, <1>5

\* The requests that end without a change of the profile.
LEMMA CommitSessionsInv ==
  ASSUME Sessions!InterviewAssumption, SessionsInv, NEW t \in Tasks,
         \/ Sessions!CommitSave(t) \/ Sessions!CommitAbandon(t)
         \/ Sessions!DuplicateBase(t) \/ Sessions!Fails(t)
  PROVE  SessionsInv'
  <1> USE DEF Sessions!CommitSave, Sessions!CommitAbandon, Sessions!DuplicateBase,
              Sessions!Fails, Sessions!rows
  <1>1. Sessions!Ends(t) /\ UNCHANGED <<s3, s4, s5, s6>>
    OBVIOUS
  <1>2. RowsTyped'
    <2>1. s1' \in [Interviews -> {"none", "IN_PROGRESS", "COMPLETED", "ABANDONED"}]
      BY DEF SessionsInv, Sessions!TypeOK
    <2>2. s2' \in [Interviews -> 0 .. MaxSaves]
      <3>1. CASE Sessions!CommitSave(t)
        <4>1. s2[s10[t]] + 1 \in 0 .. MaxSaves
          BY <3>1 DEF SessionsInv, Sessions!TypeOK, Sessions!InterviewAssumption
        <4> QED BY <3>1, <4>1 DEF SessionsInv, Sessions!TypeOK
      <3>2. CASE ~Sessions!CommitSave(t)
        BY <3>2 DEF SessionsInv, Sessions!TypeOK
      <3> QED BY <3>1, <3>2
    <2> QED BY <1>1, <2>1, <2>2 DEF RowsTyped, SessionsInv, Sessions!TypeOK
  <1>3. Sessions!ProfileKeepsResults' /\ (s5'.count = 0 => s5' = Sessions!NoProfile)
    BY <1>1 DEF SessionsInv, Sessions!ProfileKeepsResults, Sessions!NothingCountedIsNoProfile
  <1> QED BY <1>1, <1>2, <1>3, EndsSessionsInv

LEMMA ClearSessionsInv ==
  ASSUME Sessions!InterviewAssumption, SessionsInv, NEW t \in Tasks, Sessions!CommitClear(t)
  PROVE  SessionsInv'
  <1>1. RowsTyped'
    BY NoProfileIsProfile
       DEF Sessions!CommitClear, RowsTyped, SessionsInv, Sessions!TypeOK,
           Sessions!InterviewAssumption
  <1>2. Sessions!ProfileKeepsResults'
    BY DEF Sessions!CommitClear, Sessions!ProfileKeepsResults, Sessions!NoProfile
  <1> QED BY <1>1, <1>2, EndsSessionsInv DEF Sessions!CommitClear

\* A moving average lies between what it was and what is new.
LEMMA EmaLiesBetween ==
  ASSUME NEW p \in 0 .. 100, NEW g \in 0 .. 100, NEW n \in Nat, NEW s \in Sessions!Ema(p, g, n)
  PROVE  /\ s \in 0 .. 100
         /\ n = 0 => s = g
         /\ s >= p \/ s >= g
         /\ s <= p \/ s <= g
  <1>1. CASE n = 0
    BY <1>1 DEF Sessions!Ema
  <1>2. CASE n # 0
    <2>1. PICK r \in 49 .. 50 : s = (p * 65 + g * 35 + r) \div 100
      BY <1>2 DEF Sessions!Ema
    <2>2. s \in Int /\ 100 * s <= p * 65 + g * 35 + r /\ p * 65 + g * 35 + r < 100 * s + 100
      BY <2>1
    <2> QED BY <1>2, <2>2
  <1> QED BY <1>1, <1>2

LEMMA ScoreSessionsInv ==
  ASSUME Sessions!InterviewAssumption, SessionsInv, NEW t \in Tasks, Sessions!CommitScores(t)
  PROVE  SessionsInv'
  <1>1. /\ Sessions!Ends(t) /\ s2' = s2 /\ s4' = TRUE /\ s9[t] = "counting"
        /\ s1' = [s1 EXCEPT ![s10[t]] = "COMPLETED"]
        /\ s3' = [s3 EXCEPT ![s10[t]] = s11[t]]
        /\ Len(s6) < MaxCounted
    BY DEF Sessions!CommitScores
  <1>2. s12[t] = s5
    BY <1>1 DEF Sessions!CommitScores, SessionsInv, Sessions!CounterHoldsTheLock,
                Sessions!NothingCountedIsNoProfile, Sessions!NoProfile
  <1>3. PICK g \in Results : /\ s6' = Append(s6, g)
                             /\ \E s \in Sessions!Ema(s5.score, g, s5.count) :
                                    s5' = [count |-> s5.count + 1, score |-> s]
    BY <1>2 DEF Sessions!CommitScores
  <1>4. PICK s \in Sessions!Ema(s5.score, g, s5.count) : s5' = [count |-> s5.count + 1, score |-> s]
    BY <1>3
  <1>5. /\ g \in 0 .. 100 /\ s5.score \in 0 .. 100 /\ s5.count \in Nat
        /\ s6 \in Seq(Results) /\ s5.count = Len(s6)
    BY DEF SessionsInv, Sessions!TypeOK, Sessions!Profiles, Sessions!InterviewAssumption,
           Sessions!ProfileKeepsResults
  <1>6. /\ s \in 0 .. 100 /\ (s5.count = 0 => s = g)
        /\ s >= s5.score \/ s >= g
        /\ s <= s5.score \/ s <= g
    BY <1>5, EmaLiesBetween
  <1>7. /\ s6' \in Seq(Results) /\ Len(s6') = Len(s6) + 1 /\ s6'[Len(s6) + 1] = g
        /\ \A n \in 1 .. Len(s6) : s6'[n] = s6[n]
    BY <1>3, <1>5
  <1>8. s5' \in Sessions!Profiles
    <2>1. s5.count + 1 \in 0 .. MaxCounted
      BY <1>1, <1>5 DEF Sessions!InterviewAssumption
    <2> QED BY <1>4, <1>6, <2>1 DEF Sessions!Profiles
  <1>9. RowsTyped'
    BY <1>1, <1>7, <1>8 DEF RowsTyped, SessionsInv, Sessions!TypeOK
  <1>10. s5'.count = Len(s6') /\ s5'.count # 0 /\ s5'.score = s
    BY <1>4, <1>5, <1>7
  <1>11. /\ \E n \in 1 .. Len(s6') : s >= s6'[n]
         /\ \E n \in 1 .. Len(s6') : s <= s6'[n]
    <2>1. Len(s6) + 1 \in 1 .. Len(s6') /\ 1 .. Len(s6) \subseteq 1 .. Len(s6')
      BY <1>5, <1>7
    <2>2. ASSUME NEW n \in 1 .. Len(s6) PROVE s6[n] \in 0 .. 100
      <3>1. s6[n] \in Results
        BY <1>5
      <3>2. Results \subseteq 0 .. 100
        BY DEF Sessions!InterviewAssumption
      <3> QED BY <3>1, <3>2
    <2>3. CASE Len(s6) = 0
      BY <1>5, <1>6, <1>7, <2>1, <2>3
    <2>4. CASE Len(s6) # 0
      <3>1. s6 # <<>>
        BY <2>4
      <3>2. PICK l \in 1 .. Len(s6) : s5.score >= s6[l]
        BY <3>1 DEF SessionsInv, Sessions!ProfileKeepsResults
      <3>3. PICK h \in 1 .. Len(s6) : s5.score <= s6[h]
        BY <3>1 DEF SessionsInv, Sessions!ProfileKeepsResults
      <3>4. s6[l] \in 0 .. 100 /\ s6[h] \in 0 .. 100
        BY <2>2
      <3>5. (s >= s6[l] \/ s >= g) /\ (s <= s6[h] \/ s <= g)
        <4>1. s5.score \in 0 .. 100 /\ s \in 0 .. 100 /\ g \in 0 .. 100
          BY <1>5, <1>6
        <4>2. s >= s5.score => s >= s6[l]
          <5>1. \A p, r, x \in 0 .. 100 : p >= x /\ r >= p => r >= x
            OBVIOUS
          <5> QED BY <3>2, <3>4, <4>1, <5>1
        <4>3. s <= s5.score => s <= s6[h]
          <5>1. \A p, r, x \in 0 .. 100 : p <= x /\ r <= p => r <= x
            OBVIOUS
          <5> QED BY <3>3, <3>4, <4>1, <5>1
        <4> QED BY <1>6, <4>2, <4>3, Zenon
      <3> QED BY <1>7, <2>1, <3>5
    <2> QED BY <2>3, <2>4
  <1>12. Sessions!ProfileKeepsResults'
    BY <1>10, <1>11 DEF Sessions!ProfileKeepsResults
  <1> QED BY <1>1, <1>9, <1>10, <1>12, EndsSessionsInv

LEMMA SessionsNextInv ==
  ASSUME Sessions!InterviewAssumption, SessionsInv, [Sessions!Next]_Sessions!vars
  PROVE  SessionsInv'
  <1>1. CASE UNCHANGED Sessions!vars
    BY <1>1 DEF SessionsInv, Sessions!vars, Sessions!TypeOK, Sessions!CounterHoldsTheLock,
                Sessions!NothingCountedIsNoProfile, Sessions!ProfileKeepsResults
  <1>2. ASSUME NEW i \in Interviews, Sessions!Start(i)
        PROVE  SessionsInv'
    <2> USE <1>2 DEF SessionsInv, Sessions!Start, Sessions!locals
    <2>1. Sessions!TypeOK'
      BY DEF Sessions!TypeOK, Sessions!InterviewAssumption
    <2>2. Sessions!CounterHoldsTheLock' /\ Sessions!NothingCountedIsNoProfile'
      BY DEF Sessions!CounterHoldsTheLock, Sessions!NothingCountedIsNoProfile
    <2>3. Sessions!ProfileKeepsResults'
      BY DEF Sessions!ProfileKeepsResults
    <2> QED BY <2>1, <2>2, <2>3
  <1>3. ASSUME NEW t \in Tasks, Sessions!FlushScoring(t) \/ Sessions!Clear(t)
        PROVE  SessionsInv'
    BY <1>3, ReadsSessionsInv, NoProfileIsProfile
  <1> QED BY <1>1, <1>2, <1>3, ReadsSessionsInv, ReadProfileInv, CommitSessionsInv,
             ScoreSessionsInv, ClearSessionsInv DEF Sessions!Next

-----------------------------------------------------------------------------
(***************************************************************************)
(* InterviewScoring.                                                       *)
(***************************************************************************)
ScoringInv ==
    /\ s2 \in Scoring!Requests
    /\ Scoring!ScriptIsScaffold /\ Scoring!SkippedScoresNothing

Questions == [category : {"knowledge", "profile", "scenario", "algorithm"}, source : Nat,
              anchored : BOOLEAN]

LEMMA OfTwo ==
  ASSUME NEW a \in Int, NEW b \in Int
  PROVE  /\ Scoring!Min({a, b}) = IF a <= b THEN a ELSE b
         /\ Scoring!Max({a, b}) = IF a <= b THEN b ELSE a
         /\ Scoring!Min({a}) = a /\ Scoring!Max({a}) = a
  BY DEF Scoring!Min, Scoring!Max

LEMMA ScaffoldKeepsLimits ==
  ASSUME Scoring!ScriptAssumption, NEW r \in Scoring!Requests
  PROVE  /\ Scoring!Scaffold(r) \in Seq(Questions)
         /\ Len(Scoring!Scaffold(r)) \in MinQuestions .. MaxQuestions
         /\ \A n \in 1 .. Len(Scoring!Scaffold(r)) : Scoring!Scaffold(r)[n].anchored = r.signals
  <1> DEFINE q == Scoring!Quota(r)
             K == q.knowledge + q.profile + q.scenario
             e(n) == [category |-> IF n <= q.knowledge THEN "knowledge"
                                   ELSE IF n <= q.knowledge + q.profile THEN "profile"
                                   ELSE "scenario",
                      source |-> IF r.sources = 0 THEN 0 ELSE 1 + ((n - 1) % r.sources),
                      anchored |-> r.signals]
  <1>1. /\ MinQuestions \in Nat /\ MaxQuestions \in Nat /\ MinQuestions <= MaxQuestions
        /\ KnowledgeQuota \in Nat /\ ProfileQuota \in Nat
        /\ r.count \in Int /\ r.sources \in Nat
    <2>1. /\ MinQuestions \in Nat /\ MaxQuestions \in Nat /\ MinQuestions <= MaxQuestions
          /\ KnowledgeQuota \in Nat /\ ProfileQuota \in Nat /\ Sources \subseteq Nat
      BY DEF Scoring!ScriptAssumption
    <2>2. r.count \in 0 .. MaxQuestions + 1 /\ r.sources \in Sources
      BY DEF Scoring!Requests
    <2>3. r.count \in Int
      <3>1. \A n \in 0 .. MaxQuestions + 1 : n \in Int
        BY <2>1
      <3> QED BY <2>2, <3>1, Zenon
    <2>4. r.sources \in Nat
      BY <2>1, <2>2, Zenon
    <2> QED BY <2>1, <2>3, <2>4
  <1>11. r.signals \in BOOLEAN
    BY DEF Scoring!Requests
  <1>2. PICK c \in MinQuestions .. MaxQuestions :
            c = Scoring!Max({MinQuestions, Scoring!Min({MaxQuestions, r.count})})
    <2>1. MaxQuestions \in Int /\ MinQuestions \in Int
      BY <1>1
    <2>2. PICK m \in Int : m = Scoring!Min({MaxQuestions, r.count}) /\ m <= MaxQuestions
      <3>1. Scoring!Min({MaxQuestions, r.count})
              = IF MaxQuestions <= r.count THEN MaxQuestions ELSE r.count
        BY <1>1, <2>1, OfTwo, Zenon
      <3> QED BY <1>1, <3>1
    <2>3. Scoring!Max({MinQuestions, m}) = IF MinQuestions <= m THEN m ELSE MinQuestions
      BY <2>1, <2>2, OfTwo, Zenon
    <2>4. Scoring!Max({MinQuestions, m}) \in MinQuestions .. MaxQuestions
      BY <1>1, <2>2, <2>3
    <2> QED BY <2>2, <2>4, Zenon
  <1>3. PICK k \in 0 .. c : k = Scoring!Min({KnowledgeQuota, c})
    <2>1. KnowledgeQuota \in Int /\ c \in Int
      BY <1>1
    <2>2. Scoring!Min({KnowledgeQuota, c}) = IF KnowledgeQuota <= c THEN KnowledgeQuota ELSE c
      BY <2>1, OfTwo, Zenon
    <2>3. Scoring!Min({KnowledgeQuota, c}) \in 0 .. c
      BY <1>1, <2>2
    <2> QED BY <2>3, Zenon
  <1>4. PICK p \in 0 .. c - k :
            p = IF r.resume \/ r.jd THEN Scoring!Min({ProfileQuota, c - k}) ELSE 0
    <2>1. ProfileQuota \in Int /\ c - k \in Int /\ c - k >= 0
      BY <1>1
    <2>2. Scoring!Min({ProfileQuota, c - k}) = IF ProfileQuota <= c - k THEN ProfileQuota ELSE c - k
      BY <2>1, OfTwo, Zenon
    <2>3. Scoring!Min({ProfileQuota, c - k}) \in 0 .. c - k /\ 0 \in 0 .. c - k
      BY <1>1, <2>1, <2>2
    <2> QED BY <2>3, Zenon
  <1>5. q = [knowledge |-> k, profile |-> p, scenario |-> c - k - p]
    BY <1>2, <1>3, <1>4 DEF Scoring!Quota
  <1>6. K = c /\ K \in Nat /\ q.knowledge \in Nat /\ q.profile \in Nat
    BY <1>1, <1>5
  <1>7. Scoring!Scaffold(r) = [n \in 1 .. K |-> e(n)]
    BY DEF Scoring!Scaffold
  <1>8. ASSUME NEW n \in 1 .. K
        PROVE  e(n) \in Questions /\ e(n).anchored = r.signals
    <2>1. (IF r.sources = 0 THEN 0 ELSE 1 + ((n - 1) % r.sources)) \in Nat
      BY <1>1
    <2>2. (IF n <= q.knowledge THEN "knowledge"
           ELSE IF n <= q.knowledge + q.profile THEN "profile" ELSE "scenario")
              \in {"knowledge", "profile", "scenario", "algorithm"}
      OBVIOUS
    <2> QED BY <1>11, <2>1, <2>2 DEF Questions
  <1> HIDE DEF K, e
  <1>9. [n \in 1 .. K |-> e(n)] \in [1 .. K -> Questions]
    BY <1>8
  <1>10. [n \in 1 .. K |-> e(n)] \in Seq(Questions) /\ Len([n \in 1 .. K |-> e(n)]) = K
    BY <1>6, <1>9
  <1> QED BY <1>6, <1>7, <1>8, <1>10

\* A rewording changes neither the categories nor the sources, and takes no anchor away.
LEMMA RefinedKeeps ==
  ASSUME NEW s \in Seq(Questions),
         NEW items \in [DOMAIN s -> [category : {"knowledge", "scenario"}, anchored : BOOLEAN]]
  PROVE  /\ Scoring!Refined(s, items) \in Seq(Questions)
         /\ Len(Scoring!Refined(s, items)) = Len(s)
         /\ \A n \in 1 .. Len(s) :
              /\ Scoring!Refined(s, items)[n].category = s[n].category
              /\ Scoring!Refined(s, items)[n].source = s[n].source
              /\ s[n].anchored => Scoring!Refined(s, items)[n].anchored
  <1> DEFINE f == Scoring!Refined(s, items)
  <1>1. DOMAIN s = 1 .. Len(s) /\ Len(s) \in Nat
    OBVIOUS
  <1>2. ASSUME NEW n \in 1 .. Len(s)
        PROVE  /\ f[n] \in Questions
               /\ f[n].category = s[n].category /\ f[n].source = s[n].source
               /\ s[n].anchored => f[n].anchored
    <2>1. s[n] \in Questions /\ items[n].anchored \in BOOLEAN
      BY <1>1
    <2>2. (items[n].anchored \/ s[n].anchored) \in BOOLEAN
      OBVIOUS
    <2>3. f[n] = [s[n] EXCEPT !.anchored = items[n].anchored \/ s[n].anchored]
      BY <1>1 DEF Scoring!Refined
    <2>4. PICK b \in BOOLEAN : b = (items[n].anchored \/ s[n].anchored)
      BY <2>2
    <2>5. f[n] = [s[n] EXCEPT !.anchored = b]
      BY <2>3, <2>4
    <2>6. s[n].anchored => b
      BY <2>4
    <2> QED BY <2>1, <2>5, <2>6 DEF Questions
  <1>3. DOMAIN f = 1 .. Len(s)
    BY <1>1 DEF Scoring!Refined
  <1>4. f = [n \in 1 .. Len(s) |-> f[n]]
    BY <1>1 DEF Scoring!Refined
  <1> HIDE DEF f
  <1>5. f \in [1 .. Len(s) -> Questions]
    BY <1>2, <1>3, <1>4
  <1>6. f \in Seq(Questions) /\ Len(f) = Len(s)
    BY <1>1, <1>5
  <1> QED BY <1>2, <1>6 DEF f

LEMMA ScoringInitInv == Scoring!ScriptAssumption /\ Scoring!Init => ScoringInv
  BY DEF Scoring!Init, ScoringInv, Scoring!ScriptIsScaffold, Scoring!SkippedScoresNothing

LEMMA AskInv ==
  ASSUME Scoring!ScriptAssumption, ScoringInv, Scoring!Ask
  PROVE  ScoringInv'
  <1> DEFINE s == Scoring!Scaffold(s2)
             more == [n \in 1 .. s2.algorithms |-> Scoring!AlgorithmQuestion]
  <1>1. /\ s \in Seq(Questions) /\ Len(s) \in MinQuestions .. MaxQuestions
        /\ \A n \in 1 .. Len(s) : s[n].anchored = s2.signals
    BY ScaffoldKeepsLimits DEF ScoringInv
  <1>2. PICK asked \in Seq(Questions) :
            /\ s3' = asked \o more /\ Len(asked) = Len(s)
            /\ \A n \in 1 .. Len(s) : /\ asked[n].category = s[n].category
                                      /\ asked[n].source = s[n].source
                                      /\ s[n].anchored => asked[n].anchored
    <2>1. CASE s3' = s \o more
      BY <1>1, <2>1
    <2>2. ASSUME NEW items \in [DOMAIN s -> [category : {"knowledge", "scenario"},
                                             anchored : BOOLEAN]],
                 s3' = Scoring!Refined(s, items) \o more
          PROVE  \E asked \in Seq(Questions) :
                     /\ s3' = asked \o more /\ Len(asked) = Len(s)
                     /\ \A n \in 1 .. Len(s) : /\ asked[n].category = s[n].category
                                               /\ asked[n].source = s[n].source
                                               /\ s[n].anchored => asked[n].anchored
      <3> HIDE DEF s, more
      <3> QED BY <1>1, <2>2, RefinedKeeps
    <2> QED BY <2>1, <2>2 DEF Scoring!Ask
  <1>3. s2.algorithms \in Nat
    BY DEF ScoringInv, Scoring!Requests, Scoring!ScriptAssumption
  <1>4. more \in Seq(Questions) /\ Len(more) = s2.algorithms
    <2>1. Scoring!AlgorithmQuestion \in Questions
      BY DEF Scoring!AlgorithmQuestion, Questions
    <2>2. more \in [1 .. s2.algorithms -> Questions]
      BY <2>1
    <2> HIDE DEF more
    <2> QED BY <1>3, <2>2
  <1> HIDE DEF more
  <1>5. /\ Len(s3') = Len(s) + s2.algorithms
        /\ \A n \in 1 .. Len(s) : s3'[n] = asked[n]
    <2>1. /\ Len(asked \o more) = Len(asked) + Len(more)
          /\ \A n \in 1 .. Len(asked) + Len(more) :
                (asked \o more)[n] = IF n <= Len(asked) THEN asked[n] ELSE more[n - Len(asked)]
      BY <1>2, <1>4, ConcatProperties
    <2>2. \A n \in 1 .. Len(s) : n \in 1 .. Len(asked) + Len(more) /\ n <= Len(asked)
      BY <1>1, <1>2, <1>3, <1>4
    <2> QED BY <1>2, <1>4, <2>1, <2>2
  <1>6. s2' = s2 /\ s1' = "asked" /\ s = Scoring!Scaffold(s2)'
    BY DEF Scoring!Ask
  <1>7. DOMAIN s = 1 .. Len(s)
    BY <1>1
  <1>8. Scoring!ScriptIsScaffold'
    BY <1>1, <1>2, <1>5, <1>6, <1>7 DEF Scoring!ScriptIsScaffold
  <1> QED BY <1>6, <1>8 DEF ScoringInv, Scoring!SkippedScoresNothing

LEMMA GradeInv ==
  ASSUME ScoringInv, Scoring!Answer \/ Scoring!GradeLocally \/ Scoring!GradeByAgent
  PROVE  ScoringInv'
  <1>1. s2' = s2 /\ s3' = s3 /\ s1 # "requested" /\ s1' # "requested"
    BY DEF Scoring!Answer, Scoring!GradeLocally, Scoring!GradeByAgent
  <1>2. Scoring!Scaffold(s2)' = Scoring!Scaffold(s2)
    BY <1>1
  <1>3. Scoring!ScriptIsScaffold'
    BY <1>1, <1>2 DEF ScoringInv, Scoring!ScriptIsScaffold
  <1>4. CASE Scoring!Answer
    BY <1>1, <1>3, <1>4 DEF ScoringInv, Scoring!Answer, Scoring!SkippedScoresNothing
  <1>5. ASSUME Scoring!GradeLocally \/ Scoring!GradeByAgent,
               NEW n \in DOMAIN s3, s4[n].skipped
        PROVE  s5'.scores[n] = 0
    <2>1. CASE Scoring!GradeLocally
      <3>1. Scoring!LocalScores(n) = {0}
        BY <1>5 DEF Scoring!LocalScores
      <3>2. Scoring!Max(Scoring!LocalScores(n)) = 0 /\ Scoring!Min(Scoring!LocalScores(n)) = 0
        BY <3>1, OfTwo
      <3>3. PICK best \in BOOLEAN :
                s5'.scores = [m \in DOMAIN s3 |-> IF best THEN Scoring!Max(Scoring!LocalScores(m))
                                                  ELSE Scoring!Min(Scoring!LocalScores(m))]
        BY <2>1 DEF Scoring!GradeLocally
      <3> QED BY <3>2, <3>3
    <2>2. CASE Scoring!GradeByAgent
      <3>1. PICK values : s5'.scores = [m \in DOMAIN s3 |-> Scoring!AgentScore(m, values[m])]
        BY <2>2 DEF Scoring!GradeByAgent
      <3> QED BY <1>5, <3>1 DEF Scoring!AgentScore
    <2> QED BY <1>5, <2>1, <2>2
  <1>6. CASE Scoring!GradeLocally \/ Scoring!GradeByAgent
    <2>1. s4' = s4
      BY <1>6 DEF Scoring!GradeLocally, Scoring!GradeByAgent
    <2> QED BY <1>1, <1>3, <1>5, <1>6, <2>1 DEF ScoringInv, Scoring!SkippedScoresNothing
  <1> QED BY <1>4, <1>6

LEMMA ScoringNextInv ==
  ASSUME Scoring!ScriptAssumption, ScoringInv, [Scoring!Next]_Scoring!vars
  PROVE  ScoringInv'
  <1>1. CASE UNCHANGED Scoring!vars
    BY <1>1 DEF ScoringInv, Scoring!vars, Scoring!ScriptIsScaffold, Scoring!SkippedScoresNothing
  <1> QED BY <1>1, AskInv, GradeInv DEF Scoring!Next

-----------------------------------------------------------------------------
(***************************************************************************)
(* SemanticExtraction.                                                     *)
(***************************************************************************)
ExtractionInv ==
    /\ s3 \in 1 .. Len(Batches) + 1
    /\ Extraction!SoFarIsGrounded /\ Extraction!StoredAtTheEnd

\* An entity is only given a chunk that has its name.
LEMMA MatchedIsThere ==
  ASSUME Extraction!ExtractionAssumption, NEW i \in 1 .. Len(Batches), NEW answer,
         NEW n \in Extraction!Names, Extraction!Matched(answer, i)[n] # None
  PROVE  n \in s1[Extraction!Matched(answer, i)[n]]
  <1> DEFINE M == Extraction!Matches(answer, n, i)
  <1>1. Batches[i] \in SUBSET Nat
    BY DEF Extraction!ExtractionAssumption
  <1>2. M \in SUBSET Nat /\ \A c \in M : n \in s1[c]
    BY <1>1 DEF Extraction!Matches, Extraction!Candidates
  <1>3. Extraction!Matched(answer, i)[n]
          = IF M = {} THEN None ELSE CHOOSE c \in M : \A d \in M : c <= d
    BY DEF Extraction!Matched
  <1> HIDE DEF M
  <1>4. (CHOOSE c \in M : \A d \in M : c <= d) \in M
    BY <1>2, <1>3, LeastExists
  <1> QED BY <1>2, <1>3, <1>4

LEMMA ExtractionInitInv ==
  Extraction!ExtractionAssumption /\ Extraction!Init => ExtractionInv
  <1> SUFFICES ASSUME Extraction!ExtractionAssumption, Extraction!Init PROVE ExtractionInv
    OBVIOUS
  <1>1. Len(Batches) \in Nat
    BY DEF Extraction!ExtractionAssumption
  <1>2. 1 \in 1 .. Len(Batches) + 1
    BY <1>1
  <1> QED BY <1>2 DEF ExtractionInv, Extraction!Init, Extraction!SoFarIsGrounded,
                      Extraction!StoredAtTheEnd

LEMMA AnsweredInv ==
  ASSUME Extraction!ExtractionAssumption, ExtractionInv, Extraction!Answered
  PROVE  ExtractionInv'
  <1>1. s3 \in 1 .. Len(Batches) /\ s3' \in 1 .. Len(Batches) + 1
    <2>1. Len(Batches) \in Nat
      BY DEF Extraction!ExtractionAssumption
    <2> QED BY <2>1 DEF ExtractionInv, Extraction!Answered, Extraction!Asking
  <1>2. PICK answer \in Extraction!Answers :
            /\ s6' = [n \in Extraction!Names |->
                         Extraction!First(s6[n], Extraction!Matched(answer, s3)[n])]
            /\ s7' = s7 \cup Extraction!Validated(answer, s3)
    BY DEF Extraction!Answered
  <1>3. s1' = s1 /\ s8' = s8 /\ s2' = "asking" /\ s2 = "asking"
    BY DEF Extraction!Answered, Extraction!Asking
  <1>4. ASSUME NEW n \in Extraction!Names
        PROVE  /\ s6'[n] # None => n \in s1[s6'[n]]
               /\ s6[n] # None => s6'[n] # None
               /\ Extraction!Matched(answer, s3)[n] # None => s6'[n] # None
    BY <1>1, <1>2, MatchedIsThere
       DEF ExtractionInv, Extraction!SoFarIsGrounded, Extraction!First
  <1>5. ASSUME NEW r \in s7'
        PROVE  /\ r.source \in Extraction!Names /\ r.target \in Extraction!Names
               /\ r.evidence \subseteq s1[r.chunk]
               /\ s6'[r.source] # None /\ s6'[r.target] # None
    <2>1. CASE r \in s7
      BY <1>4, <2>1 DEF ExtractionInv, Extraction!SoFarIsGrounded
    <2>2. CASE r \in Extraction!Validated(answer, s3)
      <3>1. PICK c, e : r = Extraction!Relation(c, e)
        BY <2>2 DEF Extraction!Validated, Extraction!Answers
      <3>2. r.source \in Extraction!Names /\ r.target \in Extraction!Names
        BY <3>1 DEF Extraction!Relation, Extraction!Names
      <3> QED BY <1>4, <2>2, <3>2 DEF Extraction!Validated, Extraction!IsEvidenced
    <2> QED BY <1>2, <2>1, <2>2
  <1>6. Extraction!SoFarIsGrounded'
    BY <1>3, <1>4, <1>5 DEF Extraction!SoFarIsGrounded, Extraction!Names
  <1>7. Extraction!StoredAtTheEnd'
    BY <1>3 DEF ExtractionInv, Extraction!StoredAtTheEnd
  <1> QED BY <1>1, <1>6, <1>7 DEF ExtractionInv

LEMMA ExtractionNextInv ==
  ASSUME Extraction!ExtractionAssumption, ExtractionInv, [Extraction!Next]_Extraction!vars
  PROVE  ExtractionInv'
  <1>1. CASE ~Extraction!Answered
    <2>1. UNCHANGED <<s1, s3, s6, s7>> /\ (s8' # s8 => s2' = "stored" /\ s3 > Len(Batches))
      BY <1>1 DEF Extraction!Next, Extraction!ProviderFails, Extraction!SkipDisabled,
                  Extraction!Raise, Extraction!Store, Extraction!vars
    <2>2. Extraction!StoredAtTheEnd'
      BY <1>1 DEF ExtractionInv, Extraction!StoredAtTheEnd, Extraction!Next,
                  Extraction!ProviderFails, Extraction!SkipDisabled, Extraction!Raise,
                  Extraction!Store, Extraction!Asking, Extraction!vars
    <2>3. Extraction!SoFarIsGrounded'
      BY <2>1 DEF ExtractionInv, Extraction!SoFarIsGrounded, Extraction!Names
    <2> QED BY <2>1, <2>2, <2>3 DEF ExtractionInv
  <1> QED BY <1>1, AnsweredInv

LEMMA ExtractionSound == ExtractionInv => Extraction!StoredIsGrounded
  BY DEF ExtractionInv, Extraction!StoredAtTheEnd, Extraction!SoFarIsGrounded,
         Extraction!StoredIsGrounded

-----------------------------------------------------------------------------
(***************************************************************************)
(* FixedWindowChunks.  The end of a window may be moved back to a boundary *)
(* and its start back by the overlap, but never so far that the next one   *)
(* begins or ends where the last one did.                                  *)
(***************************************************************************)
LEMMA WindowsOfTwo ==
  ASSUME NEW a \in Int, NEW b \in Int
  PROVE  /\ Windows!Min({a, b}) = IF a <= b THEN a ELSE b
         /\ Windows!Max({a, b}) = IF a <= b THEN b ELSE a
  BY DEF Windows!Min, Windows!Max

LEMMA GreatestExists ==
  ASSUME NEW S \in SUBSET Int, S # {}, NEW b \in Int, \A p \in S : p <= b
  PROVE  Windows!Max(S) \in S
  <1> DEFINE T == {b - p : p \in S}
  <1>1. T \in SUBSET Nat /\ T # {}
    <2>1. \A p \in S : b - p \in Nat
      OBVIOUS
    <2>2. PICK p : p \in S
      OBVIOUS
    <2>3. b - p \in T
      BY <2>2
    <2> QED BY <2>1, <2>3
  <1>2. PICK c \in T : \A d \in T : c <= d
    <2> HIDE DEF T
    <2> QED BY <1>1, LeastExists
  <1>3. PICK p \in S : c = b - p
    OBVIOUS
  <1>4. ASSUME NEW q \in S PROVE p >= q
    <2>1. b - q \in T
      OBVIOUS
    <2>2. c <= b - q
      BY <1>2, <2>1
    <2> QED BY <1>3, <2>2
  <1> QED BY <1>4 DEF Windows!Max

LEMMA WindowsInitInv == Windows!ChunkAssumption /\ Windows!Init => Windows!WindowInv
  <1> SUFFICES ASSUME Windows!ChunkAssumption, Windows!Init PROVE Windows!WindowInv
    OBVIOUS
  <1>1. s1 \in Seq(Windows!Kinds)
    BY DEF Windows!Init, Windows!Texts, Windows!ChunkAssumption
  <1>2. s2 \in Nat \ {0}
    BY DEF Windows!Init, Windows!ChunkAssumption
  <1>3. s3 \in 0 .. s2 - 1
    <2>1. PICK o \in ChunkOverlaps : s3 = IF s2 > 1 THEN Windows!Min({o, s2 - 1}) ELSE 0
      BY DEF Windows!Init
    <2>2. o \in Nat /\ o \in Int /\ s2 - 1 \in Int /\ (s2 > 1 => s2 - 1 \in Nat)
      BY <1>2 DEF Windows!ChunkAssumption
    <2>3. Windows!Min({o, s2 - 1}) = IF o <= s2 - 1 THEN o ELSE s2 - 1
      BY <2>2, WindowsOfTwo, Zenon
    <2> QED BY <1>2, <2>1, <2>2, <2>3
  <1>4. s7 = <<>> /\ s9 = <<>> /\ s8 = 0 /\ s5 = 1 /\ s6 = FALSE /\ s4 = "normalizing"
    BY DEF Windows!Init
  <1>5. Windows!WindowTypes
    <2>1. s5 \in 1 .. Len(s1) + 1
      BY <1>1, <1>4
    <2>2. s7 \in Seq(Windows!Kinds) /\ s9 \in Seq(Nat \X Nat) /\ s8 \in Nat
      BY <1>4
    <2>3. s4 \in {"normalizing", "cutting", "done"} /\ s6 \in BOOLEAN
      BY <1>4, Zenon
    <2> QED BY <1>1, <1>2, <1>3, <2>1, <2>2, <2>3, Zenon DEF Windows!WindowTypes
  <1>6. Windows!LastEnd = -1
    BY <1>4 DEF Windows!LastEnd
  <1> QED BY <1>4, <1>5, <1>6
          DEF Windows!WindowInv, Windows!NoUrlIsEntered, Windows!NextIsClose,
              Windows!CoveredSoFar,
              Windows!SizesSoFar, Windows!NeighboursSoFar, Windows!Range

\* The blanks that a break in a URL begins with end within the text.
LEMMA VisibleIsNext ==
  ASSUME Windows!WindowTypes, s5 <= Len(s1), s1[s5] \in Windows!Blanks
  PROVE  Windows!NextVisible \in s5 + 1 .. Len(s1) + 1
  <1> DEFINE S == {p \in s5 .. Len(s1) + 1 : Windows!At(p) \notin Windows!Blanks}
  <1>1. s5 \in Nat /\ Len(s1) \in Nat /\ s5 \in DOMAIN s1
    BY DEF Windows!WindowTypes
  <1>2. Len(s1) + 1 \in S
    <2>1. Len(s1) + 1 \notin DOMAIN s1
      BY DEF Windows!WindowTypes
    <2>2. Windows!At(Len(s1) + 1) \notin Windows!Blanks
      BY <2>1 DEF Windows!At, Windows!Blanks
    <2> QED BY <1>1, <2>2
  <1>3. s5 \notin S
    BY <1>1 DEF Windows!At
  <1>4. S \in SUBSET Nat /\ S # {}
    BY <1>1, <1>2
  <1>5. PICK n \in S : \A m \in S : n <= m
    <2> HIDE DEF S
    <2> QED BY <1>4, LeastExists
  <1>6. Windows!NextVisible = n
    <2>1. Windows!NextVisible = Windows!Min(S)
      BY DEF Windows!NextVisible
    <2>2. \A m \in S : m \in Nat
      BY <1>4
    <2> HIDE DEF S
    <2> QED BY <1>5, <2>1, <2>2 DEF Windows!Min
  <1> QED BY <1>1, <1>3, <1>5, <1>6

\* Whatever boundary it is moved to, a window ends behind its start and behind the last one.
LEMMA EndIsAhead ==
  ASSUME Windows!WindowTypes, Windows!LastEnd \in Int, s8 < Len(s7)
  PROVE  /\ Windows!End \in Nat /\ s8 < Windows!End
         /\ Windows!End <= s8 + s2 /\ Windows!End <= Len(s7)
         /\ Windows!LastEnd < s8 + s2 /\ Windows!LastEnd < Len(s7)
               => Windows!LastEnd < Windows!End
  <1>0. s8 \in Nat /\ s2 \in Nat \ {0} /\ Len(s7) \in Nat
    BY DEF Windows!WindowTypes
  <1>1. /\ Windows!TargetEnd \in Int /\ Windows!TargetEnd > s8
        /\ Windows!TargetEnd = IF s8 + s2 <= Len(s7) THEN s8 + s2 ELSE Len(s7)
    <2>1. s8 + s2 \in Int /\ Len(s7) \in Int /\ s8 + s2 > s8
      BY <1>0
    <2>2. Windows!TargetEnd = IF s8 + s2 <= Len(s7) THEN s8 + s2 ELSE Len(s7)
      BY <2>1, WindowsOfTwo, Zenon DEF Windows!TargetEnd
    <2> QED BY <2>1, <2>2
  <1>2. ASSUME NEW kind
        PROVE  /\ Windows!EndsAfter(kind) \in SUBSET Int
               /\ \A p \in Windows!EndsAfter(kind) : p <= Windows!TargetEnd
    BY <1>1 DEF Windows!EndsAfter
  <1>3. Windows!Adjusted \in Int /\ Windows!Adjusted <= Windows!TargetEnd
    <2>1. CASE Windows!EndsAfter("newline") # {}
      <3>1. Windows!Max(Windows!EndsAfter("newline")) \in Windows!EndsAfter("newline")
        BY <1>1, <1>2, <2>1, GreatestExists
      <3> QED BY <1>2, <2>1, <3>1 DEF Windows!Adjusted
    <2>2. CASE Windows!EndsAfter("newline") = {} /\ Windows!Stops # {}
      <3>1. /\ Windows!Stops \in SUBSET Int
            /\ \A p \in Windows!Stops : p <= Windows!TargetEnd
        BY <1>2 DEF Windows!Stops
      <3>2. Windows!Max(Windows!Stops) \in Windows!Stops
        BY <1>1, <2>2, <3>1, GreatestExists
      <3> QED BY <2>2, <3>1, <3>2 DEF Windows!Adjusted
    <2>3. CASE Windows!EndsAfter("newline") = {} /\ Windows!Stops = {}
      BY <1>1, <2>3 DEF Windows!Adjusted
    <2> QED BY <2>1, <2>2, <2>3
  <1>4. CASE Windows!Adjusted <= s8 \/ Windows!Adjusted <= Windows!LastEnd
    <2>1. Windows!End = Windows!TargetEnd
      BY <1>4 DEF Windows!End
    <2> QED BY <1>0, <1>1, <2>1
  <1>5. CASE ~(Windows!Adjusted <= s8 \/ Windows!Adjusted <= Windows!LastEnd)
    <2>1. Windows!End = Windows!Adjusted
      BY <1>5 DEF Windows!End
    <2> QED BY <1>0, <1>1, <1>3, <1>5, <2>1
  <1> QED BY <1>4, <1>5

LEMMA NextStartIsAhead ==
  ASSUME Windows!WindowTypes, Windows!LastEnd \in Int, s8 < Len(s7)
  PROVE  /\ Windows!NextStart \in Nat /\ s8 < Windows!NextStart
         /\ Windows!NextStart <= Windows!End /\ Windows!End - Windows!NextStart <= s3
  <1>1. s8 \in Nat /\ s3 \in Nat
    BY DEF Windows!WindowTypes
  <1>2. Windows!End \in Nat /\ s8 < Windows!End /\ Windows!End - s3 \in Int /\ 0 \in Int
    BY <1>1, EndIsAhead
  <1>3. Windows!Max({0, Windows!End - s3})
          = IF 0 <= Windows!End - s3 THEN Windows!End - s3 ELSE 0
    BY <1>2, WindowsOfTwo, Zenon
  <1>4. CASE Windows!Max({0, Windows!End - s3}) <= s8
    <2>1. Windows!NextStart = Windows!End
      BY <1>4 DEF Windows!NextStart
    <2> QED BY <1>1, <1>2, <2>1
  <1>5. CASE ~(Windows!Max({0, Windows!End - s3}) <= s8)
    <2>1. Windows!NextStart = Windows!Max({0, Windows!End - s3})
      BY <1>5 DEF Windows!NextStart
    <2> QED BY <1>1, <1>2, <1>3, <1>5, <2>1
  <1> QED BY <1>4, <1>5

LEMMA LastEndIsNumber ==
  ASSUME Windows!WindowTypes
  PROVE  /\ Windows!LastEnd \in Int
         /\ s9 # <<>> => /\ Len(s9) \in Nat \ {0}
                         /\ s9[Len(s9)] \in Nat \X Nat
                         /\ Windows!LastEnd = s9[Len(s9)][2]
         /\ s9 = <<>> => Windows!LastEnd = -1
  <1>1. s9 \in Seq(Nat \X Nat)
    BY DEF Windows!WindowTypes
  <1>2. ASSUME s9 # <<>> PROVE Len(s9) \in Nat \ {0} /\ s9[Len(s9)] \in Nat \X Nat
    BY <1>1, <1>2
  <1> QED BY <1>2 DEF Windows!LastEnd

\* A round of the normalization looks at a character, and at more of them within a URL.
LEMMA NormalizeStep ==
  ASSUME Windows!WindowInv, Windows!Normalize
  PROVE  Windows!WindowInv'
  <1> USE DEF Windows!WindowInv
  <1>1. UNCHANGED <<s1, s2, s3, s4, s8, s9>> /\ s9 = <<>> /\ s8 = 0 /\ s4 = "normalizing"
    BY DEF Windows!Normalize, Windows!NextIsClose
  <1>2. s5 \in DOMAIN s1 /\ s5 \in Nat \ {0} /\ s5 <= Len(s1) /\ Len(s1) \in Nat
    BY DEF Windows!Normalize, Windows!WindowTypes
  <1>3. s1 \in Seq(Windows!Kinds) /\ s7 \in Seq(Windows!Kinds) /\ s1[s5] \in Windows!Kinds
    BY <1>2 DEF Windows!WindowTypes
  <1>4. Append(s7, s1[s5]) \in Seq(Windows!Kinds)
    BY <1>3, AppendProperties
  <1>5. /\ s5' \in 1 .. Len(s1) + 1 /\ s6' \in BOOLEAN /\ s7' \in Seq(Windows!Kinds)
        /\ ("url" \notin Windows!Range(s1) /\ ~s6) => ~s6'
    <2>1. CASE Windows!BlankInUrl /\ s1[s5] \in Windows!Blanks /\ (s6 \/ s1[s5] = "url")
      <3> DEFINE n == Windows!NextVisible
      <3>1. n \in s5 + 1 .. Len(s1) + 1
        BY <1>2, <2>1, VisibleIsNext
      <3> HIDE DEF n
      <3>2. SubSeq(s1, s5, n - 1) \in Seq(Windows!Kinds)
        <4>1. \A q \in s5 .. n - 1 : s1[q] \in Windows!Kinds
          BY <1>2, <1>3, <3>1
        <4> QED BY <1>2, <1>3, <3>1, <4>1
      <3>3. s7 \o SubSeq(s1, s5, n - 1) \in Seq(Windows!Kinds)
        BY <1>3, <3>2, ConcatProperties
      <3>4. s5' = n - 1 /\ s6' \in BOOLEAN
            /\ (s7' = s7 \/ s7' = s7 \o SubSeq(s1, s5, n - 1))
        BY <2>1 DEF Windows!BlankInUrl, n
      <3>5. "url" \in Windows!Range(s1) \/ s6
        BY <1>2, <2>1 DEF Windows!Range
      <3>6. s5' \in 1 .. Len(s1) + 1
        BY <1>2, <3>1, <3>4
      <3> QED BY <1>3, <3>3, <3>4, <3>5, <3>6
    <2>2. CASE Windows!VisibleInUrl /\ (s6 \/ s1[s5] = "url")
      <3>1. s6' = (s1[s5] # "cjk")
        BY <2>2 DEF Windows!VisibleInUrl
      <3>2. s6' \in BOOLEAN
        BY <3>1
      <3>3. "url" \in Windows!Range(s1) \/ s6
        BY <1>2, <2>2 DEF Windows!Range
      <3>4. s5' = s5 + 1 /\ s7' = Append(s7, s1[s5])
        BY <2>2 DEF Windows!VisibleInUrl
      <3> QED BY <1>2, <1>4, <3>2, <3>3, <3>4
    <2>3. CASE Windows!Outside
      <3>1. s5' = s5 + 1 /\ s6' = s6 /\ (s7' = s7 \/ s7' = Append(s7, s1[s5]))
        BY <2>3 DEF Windows!Outside
      <3>2. s6 \in BOOLEAN
        BY DEF Windows!WindowTypes
      <3> QED BY <1>2, <1>3, <1>4, <3>1, <3>2
    <2> QED BY <2>1, <2>2, <2>3 DEF Windows!Normalize
  <1>6. Windows!WindowTypes'
    BY <1>1, <1>5 DEF Windows!WindowTypes
  <1>7. Windows!NoUrlIsEntered'
    BY <1>1, <1>5 DEF Windows!NoUrlIsEntered
  <1>8. Windows!NextIsClose'
    BY <1>1 DEF Windows!NextIsClose
  <1>9. (Windows!CoveredSoFar /\ Windows!SizesSoFar /\ Windows!NeighboursSoFar)'
    <2>1. Windows!LastEnd' = Windows!LastEnd
      BY <1>1 DEF Windows!LastEnd
    <2> QED BY <1>1, <2>1 DEF Windows!CoveredSoFar, Windows!SizesSoFar, Windows!NeighboursSoFar
  <1> QED BY <1>6, <1>7, <1>8, <1>9

\* Another window covers the text from where the last one ended to where it ends itself.
LEMMA CutStep ==
  ASSUME Windows!WindowInv, Windows!Cut
  PROVE  Windows!WindowInv'
  <1> DEFINE e == Windows!End
             w == <<s8, e>>
             n == Len(s9)
  <1> USE DEF Windows!WindowInv
  <1>1. /\ UNCHANGED <<s1, s2, s3, s5, s6, s7>> /\ s8' = Windows!NextStart /\ s8 < Len(s7)
        /\ s9' = Append(s9, w) /\ s4 = "cutting"
        /\ s4' = IF e >= Len(s7) THEN "done" ELSE "cutting"
    BY DEF Windows!Cut
  <1>2. /\ s8 \in Nat /\ s2 \in Nat \ {0} /\ s3 \in 0 .. s2 - 1 /\ Len(s7) \in Nat
        /\ s9 \in Seq(Nat \X Nat) /\ n \in Nat /\ DOMAIN s9 = 1 .. n
    BY DEF Windows!WindowTypes
  <1>3. Windows!LastEnd \in Int
    BY LastEndIsNumber
  <1>4. Windows!LastEnd < s8 + s2 /\ Windows!LastEnd < Len(s7) /\ s8 <= Windows!LastEnd + 1
    <2>1. CASE s9 = <<>>
      BY <1>1, <1>2, <2>1, LastEndIsNumber DEF Windows!NextIsClose
    <2>2. CASE s9 # <<>>
      BY <1>1, <1>2, <1>3, <2>2 DEF Windows!NextIsClose
    <2> QED BY <2>1, <2>2
  <1>5. /\ e \in Nat /\ s8 < e /\ e <= s8 + s2 /\ e <= Len(s7) /\ Windows!LastEnd < e
    BY <1>1, <1>3, <1>4, EndIsAhead
  <1>6. s8' \in Nat /\ s8 < s8' /\ s8' <= e /\ e - s8' <= s3
    BY <1>1, <1>3, NextStartIsAhead
  <1> HIDE DEF e
  <1>7. w \in Nat \X Nat /\ w[1] = s8 /\ w[2] = e
    BY <1>2, <1>5
  <1> HIDE DEF w
  <1>8. /\ s9' \in Seq(Nat \X Nat) /\ Len(s9') = n + 1 /\ s9'[n + 1] = w /\ s9' # <<>>
        /\ \A k \in 1 .. n : s9'[k] = s9[k]
    BY <1>1, <1>2, <1>7, AppendProperties
  <1>9. s9'[Len(s9')] = w /\ Windows!LastEnd' = e
    BY <1>7, <1>8 DEF Windows!LastEnd
  <1>10. Windows!Range(s9') = Windows!Range(s9) \cup {w}
    <2>1. DOMAIN s9' = 1 .. n + 1
      BY <1>8
    <2>2. \A x : x \in Windows!Range(s9') <=> \E k \in 1 .. n + 1 : s9'[k] = x
      BY <2>1 DEF Windows!Range
    <2>3. \A x : x \in Windows!Range(s9) <=> \E k \in 1 .. n : s9[k] = x
      BY <1>2 DEF Windows!Range
    <2>4. \A k \in 1 .. n + 1 : k \in 1 .. n \/ k = n + 1
      BY <1>2
    <2>5. 1 .. n \subseteq 1 .. n + 1 /\ n + 1 \in 1 .. n + 1
      BY <1>2
    <2>6. \A x : x \in Windows!Range(s9') <=> x \in Windows!Range(s9) \/ x = w
      BY <1>8, <2>2, <2>3, <2>4, <2>5, Zenon
    <2> QED BY <2>6
  <1>11. Windows!WindowTypes'
    BY <1>1, <1>6, <1>8 DEF Windows!WindowTypes
  <1>12. Windows!NoUrlIsEntered'
    BY <1>1 DEF Windows!NoUrlIsEntered
  <1>13. Windows!NextIsClose'
    <2>1. Len(s7') = Len(s7) /\ s3' = s3
      BY <1>1
    <2> QED BY <1>1, <1>2, <1>5, <1>6, <1>7, <1>8, <1>9, <2>1 DEF Windows!NextIsClose
  <1>14. Windows!CoveredSoFar'
    <2> SUFFICES ASSUME NEW p \in 0 .. e - 1
                 PROVE  \E v \in Windows!Range(s9') : v[1] <= p /\ p < v[2]
      BY <1>9 DEF Windows!CoveredSoFar
    <2>1. CASE p >= s8
      BY <1>2, <1>5, <1>7, <1>10, <2>1
    <2>2. CASE p < s8
      <3>1. p \in 0 .. Windows!LastEnd - 1
        <4>1. s9 # <<>>
          BY <1>2, <2>2 DEF Windows!NextIsClose
        <4>2. s8 <= Windows!LastEnd
          BY <4>1 DEF Windows!NextIsClose
        <4> QED BY <1>2, <1>3, <1>5, <2>2, <4>2
      <3> QED BY <1>10, <3>1 DEF Windows!CoveredSoFar
    <2> QED BY <1>2, <1>5, <2>1, <2>2
  <1>15. Windows!SizesSoFar'
    <2>1. w[1] < w[2] /\ w[2] - w[1] <= s2
      BY <1>2, <1>5, <1>7
    <2> QED BY <1>1, <1>10, <2>1 DEF Windows!SizesSoFar
  <1>16. Windows!NeighboursSoFar'
    <2> SUFFICES ASSUME NEW k \in 1 .. n
                 PROVE  /\ s9'[k][1] < s9'[k + 1][1] /\ s9'[k][2] < s9'[k + 1][2]
                        /\ s9'[k][2] - s9'[k + 1][1] <= s3
      <3>1. Len(s9') - 1 = n /\ s3' = s3
        BY <1>1, <1>2, <1>8
      <3> QED BY <3>1, Zenon DEF Windows!NeighboursSoFar
    <2>1. CASE k < n
      <3>1. k \in 1 .. n - 1 /\ k + 1 \in 1 .. n
        BY <1>2, <2>1
      <3> QED BY <1>8, <3>1 DEF Windows!NeighboursSoFar
    <2>2. CASE k = n
      <3>1. s9 # <<>>
        BY <2>2
      <3>2. /\ s9[n][2] = Windows!LastEnd /\ s9[n][1] < s8
            /\ Windows!LastEnd - s8 <= s3
        BY <3>1, LastEndIsNumber DEF Windows!NextIsClose
      <3>3. s9'[k] = s9[n] /\ s9'[k + 1] = w
        BY <1>8, <2>2
      <3> QED BY <1>5, <1>7, <3>2, <3>3
    <2> QED BY <1>2, <2>1, <2>2
  <1> QED BY <1>11, <1>12, <1>13, <1>14, <1>15, <1>16

\* The loops end: the text is normalized, and nothing is left to cut.
LEMMA EndOfLoopsStep ==
  ASSUME Windows!WindowInv, Windows!Normalized \/ Windows!NothingToCut
  PROVE  Windows!WindowInv'
  <1> USE DEF Windows!WindowInv
  <1>1. UNCHANGED <<s1, s2, s3, s5, s6, s7, s8, s9>>
    BY DEF Windows!Normalized, Windows!NothingToCut
  <1>2. Windows!LastEnd' = Windows!LastEnd
    BY <1>1 DEF Windows!LastEnd
  <1>3. Windows!LastEnd \in Int /\ s8 \in Nat /\ Len(s7) \in Nat
    BY LastEndIsNumber DEF Windows!WindowTypes
  <1>4. Windows!WindowTypes'
    BY <1>1 DEF Windows!WindowTypes, Windows!Normalized, Windows!NothingToCut
  <1>5. Windows!NextIsClose'
    <2>1. CASE Windows!Normalized
      <3>1. s4' = "cutting" /\ s9 = <<>>
        BY <2>1 DEF Windows!Normalized, Windows!NextIsClose
      <3>2. Windows!LastEnd = -1
        BY <3>1, LastEndIsNumber
      <3> QED BY <1>1, <1>2, <1>3, <3>1, <3>2 DEF Windows!NextIsClose
    <2>2. CASE Windows!NothingToCut
      <3>1. s4 = "cutting" /\ s4' = "done" /\ s8 >= Len(s7)
        BY <2>2 DEF Windows!NothingToCut
      <3>2. s9 = <<>> /\ s8 = 0 /\ Len(s7) = 0
        BY <1>3, <3>1 DEF Windows!NextIsClose
      <3> QED BY <1>1, <3>1, <3>2 DEF Windows!NextIsClose
    <2> QED BY <2>1, <2>2
  <1> QED BY <1>1, <1>2, <1>4, <1>5
          DEF Windows!NoUrlIsEntered, Windows!CoveredSoFar, Windows!SizesSoFar,
              Windows!NeighboursSoFar

LEMMA WindowsNextInv ==
  ASSUME Windows!WindowInv, [Windows!Next]_Windows!vars
  PROVE  Windows!WindowInv'
  <1>1. CASE UNCHANGED Windows!vars
    BY <1>1 DEF Windows!vars, Windows!WindowInv, Windows!WindowTypes, Windows!NoUrlIsEntered,
                Windows!NextIsClose, Windows!CoveredSoFar, Windows!SizesSoFar,
                Windows!NeighboursSoFar, Windows!LastEnd
  <1> QED BY <1>1, NormalizeStep, CutStep, EndOfLoopsStep DEF Windows!Next

LEMMA WindowsAreCut == Windows!WindowInv => Windows!WindowsCoverText
  <1> SUFFICES ASSUME Windows!WindowInv, s4 = "done" PROVE Windows!WindowsCoverText
    BY DEF Windows!WindowsCoverText
  <1>1. Windows!LastEnd \in Int /\ Len(s7) \in Nat
    BY LastEndIsNumber DEF Windows!WindowInv, Windows!WindowTypes
  <1>2. 0 .. Len(s7) - 1 \subseteq 0 .. Windows!LastEnd - 1
    BY <1>1 DEF Windows!WindowInv, Windows!NextIsClose
  <1> QED BY <1>2 DEF Windows!WindowInv, Windows!WindowsCoverText, Windows!CoveredSoFar,
                      Windows!SizesSoFar, Windows!NeighboursSoFar

\* A step of the two loops, if the text has no URL.
LEMMA WindowsStep ==
  ASSUME Windows!WindowInv, Windows!Next
  PROVE  Windows!RoundAdvances
  <1> SUFFICES ASSUME "url" \notin Windows!Range(s1)
               PROVE  s4' # s4 \/ s5' > s5 \/ s8' > s8
    BY DEF Windows!RoundAdvances
  <1>1. CASE Windows!Normalize
    <2>1. s5 \in DOMAIN s1 /\ s5 \in Nat
      BY <1>1 DEF Windows!Normalize, Windows!WindowInv, Windows!WindowTypes
    <2>2. s1[s5] # "url" /\ ~s6
      BY <2>1 DEF Windows!Range, Windows!WindowInv, Windows!NoUrlIsEntered
    <2>3. s5' = s5 + 1
      BY <1>1, <2>2 DEF Windows!Normalize, Windows!Outside
    <2> QED BY <2>1, <2>3
  <1>2. CASE Windows!Normalized \/ Windows!NothingToCut
    BY <1>2 DEF Windows!Normalized, Windows!NothingToCut
  <1>3. CASE Windows!Cut
    <2>1. s8' = Windows!NextStart /\ s8 < Len(s7)
      BY <1>3 DEF Windows!Cut
    <2>2. Windows!NextStart \in Nat /\ s8 < Windows!NextStart /\ s8 \in Nat
      BY <2>1, NextStartIsAhead, LastEndIsNumber DEF Windows!WindowInv, Windows!WindowTypes
    <2> QED BY <2>1, <2>2
  <1> QED BY <1>1, <1>2, <1>3 DEF Windows!Next

-----------------------------------------------------------------------------
(***************************************************************************)
(* EntityGraph.  A call that has changed nodes is pending until it deletes *)
(* the bridges: from then on those that there are are right, and whoever   *)
(* deletes them creates them.                                              *)
(***************************************************************************)
GraphTypes ==
    /\ s1 \in [Docs -> Graph!Nodes \cup {None}]
    /\ s3 \in [Writers -> {"idle", "keys", "clear", "merge", "relate", "cut", "bridge", "done"}]
    /\ s4 \in [Writers -> Graph!Calls \cup {None}]
    /\ s5 \in [Writers -> BOOLEAN] /\ DOMAIN s6 = Writers
    /\ s7 \in Writers \cup {None} /\ s8 \in BOOLEAN
    /\ \A w \in Graph!Active : s4[w] \in Graph!Calls
    /\ \A w \in Writers : s3[w] \in {"clear", "merge", "relate"} => s4[w] # Graph!Backfill

GraphInv ==
    /\ GraphTypes /\ Graph!CallsAreApart /\ Graph!LoneIsAlone /\ Graph!NodesAreExtracted
    /\ Graph!KeysAreCurrent /\ Graph!PlanIsCurrent /\ Graph!WrongBridgesGo

\* What a call other than a backfill consists of.
LEMMA CallOfDocument ==
  ASSUME NEW c \in Graph!Calls, c # Graph!Backfill
  PROVE  /\ c.doc \in Docs /\ c.kind \in {"chunks", "semantic", "delete"}
         /\ c.kind \in {"chunks", "semantic"} =>
               /\ c.payload \in Graph!Payloads
               /\ c.payload.degree = 1 => c.payload.mention
  BY DEF Graph!Calls, Graph!Call, Graph!Backfill, Graph!Payloads

\* Every knowledge base that holds the name has a representative, which is one of its nodes.
LEMMA RepresentativeHolds ==
  ASSUME Graph!GraphAssumption, GraphTypes, NEW k, Graph!Holders(k) # {}
  PROVE  Graph!Representative(k) \in Graph!Holders(k)
  <1> DEFINE H == Graph!Holders(k)
             Best == IF \E d \in H : s1[d].degree = 1 THEN {d \in H : s1[d].degree = 1} ELSE H
             N == {d[2] : d \in Best}
  <1>1. \A d \in H : s1[d].degree \in 0 .. 1 /\ d[2] \in Nat
    BY DEF GraphTypes, Graph!Nodes, Graph!Holders, Graph!GraphAssumption
  <1>2. Best # {} /\ Best \subseteq H
    OBVIOUS
  <1>3. N \in SUBSET Nat /\ N # {}
    <2>1. \A d \in Best : d[2] \in Nat
      BY <1>1, <1>2
    <2>2. PICK d : d \in Best
      BY <1>2
    <2> HIDE DEF Best
    <2> QED BY <2>1, <2>2
  <1>4. PICK n \in N : \A m \in N : n <= m
    <2> HIDE DEF N
    <2> QED BY <1>3, LeastExists
  <1>5. PICK d \in Best : d[2] = n
    OBVIOUS
  <1>6. ASSUME NEW e \in H
        PROVE  \/ s1[d].degree > s1[e].degree
               \/ s1[d].degree = s1[e].degree /\ d[2] <= e[2]
    <2>1. CASE e \in Best
      <3>1. s1[d].degree = s1[e].degree
        BY <1>1, <1>5, <2>1
      <3>2. e[2] \in N
        BY <2>1
      <3> QED BY <1>4, <1>5, <3>1, <3>2
    <2>2. CASE e \notin Best
      <3>1. s1[d].degree = 1 /\ s1[e].degree # 1
        BY <1>5, <1>6, <2>2
      <3> QED BY <1>1, <1>6, <3>1
    <2> QED BY <2>1, <2>2
  <1>7. d \in H
    BY <1>2, <1>5
  <1> HIDE DEF Best, N
  <1> QED BY <1>6, <1>7 DEF Graph!Representative

\* So every bridge is between nodes.
LEMMA BridgesJoinNodes ==
  ASSUME Graph!GraphAssumption, GraphTypes, NEW b \in Graph!Bridges, NEW d \in b
  PROVE  s1[d] # None
  <1>1. b \subseteq {Graph!Representative(k) :
                        k \in {Graph!KbOf(e) : e \in {x \in Docs : s1[x] # None}}}
    BY DEF Graph!Bridges, Graph!kSubset
  <1>2. PICK e \in Docs : s1[e] # None /\ d = Graph!Representative(Graph!KbOf(e))
    BY <1>1
  <1>3. e \in Graph!Holders(Graph!KbOf(e))
    BY <1>2 DEF Graph!Holders
  <1>4. d \in Graph!Holders(Graph!KbOf(e))
    BY <1>2, <1>3, RepresentativeHolds
  <1> QED BY <1>4 DEF Graph!Holders

LEMMA BridgesDependOnNodes == s1' = s1 => Graph!Bridges' = Graph!Bridges
  BY DEF Graph!Bridges, Graph!Representative, Graph!Holders

LEMMA GraphInitInv == Graph!GraphAssumption /\ Graph!Init => GraphInv
  <1> SUFFICES ASSUME Graph!GraphAssumption, Graph!Init PROVE GraphInv
    OBVIOUS
  <1>1. GraphTypes
    <2>1. [det |-> TRUE, sem |-> TRUE, degree |-> 1] \in Graph!Nodes
      BY DEF Graph!Nodes
    <2>2. s1 \in [Docs -> Graph!Nodes \cup {None}]
      BY <2>1 DEF Graph!Init
    <2> QED BY <2>2 DEF Graph!Init, GraphTypes, Graph!Active
  <1>2. Graph!Active = {} /\ Graph!Pending = {} /\ s2 = Graph!Bridges
    BY DEF Graph!Init, Graph!Active, Graph!Pending
  <1>3. Graph!NodesAreExtracted
    BY DEF Graph!Init, Graph!NodesAreExtracted
  <1> QED BY <1>1, <1>2, <1>3 DEF GraphInv, Graph!CallsAreApart, Graph!LoneIsAlone,
             Graph!KeysAreCurrent, Graph!PlanIsCurrent, Graph!WrongBridgesGo

\* The other calls are where they were.
OthersStay(w) ==
    \A v \in Writers \ {w} :
        s3'[v] = s3[v] /\ s4'[v] = s4[v] /\ s5'[v] = s5[v] /\ s6'[v] = s6[v]

\* A step of a call that has begun, which touches at most the node of its document.
GoesOn(w) ==
    /\ w \in Graph!Active /\ OthersStay(w) /\ s7' = s7
    /\ w \in Graph!Active' => s4'[w] = s4[w]
    /\ ~s8' => ~s8 \/ s7 = w
    /\ \A d \in Docs : s1'[d] # s1[d] => s4[w] # Graph!Backfill /\ d = Graph!Doc(w)

KeysOf(w) == s5[w] = (/\ s1[Graph!Doc(w)] # None
                      /\ s4[w].kind = "semantic" => s1[Graph!Doc(w)].sem)

\* What such a step leaves as it was: the others are about other documents, or there are none.
LEMMA GraphStepInv ==
  ASSUME GraphInv, GraphTypes', NEW w \in Writers, GoesOn(w),
         s3'[w] = "clear" => KeysOf(w)',
         w \in Graph!Active' /\ s4'[w] = Graph!Backfill /\ s3'[w] \in {"cut", "bridge"} =>
            (s7 = w \/ ~s8 => s6'[w] = Graph!Bridges' /\ (s3'[w] = "bridge" => s2' = {}))
  PROVE  Graph!CallsAreApart' /\ Graph!LoneIsAlone' /\ Graph!KeysAreCurrent'
         /\ Graph!PlanIsCurrent'
  <1>1. \A v \in Graph!Active' : v \in Graph!Active /\ s4'[v] = s4[v]
    BY DEF GoesOn, OthersStay, Graph!Active
  <1>2. Graph!LoneIsAlone'
    BY <1>1 DEF GoesOn, GraphInv, Graph!LoneIsAlone
  <1>3. ASSUME NEW v \in Graph!Active', v # w
        PROVE  s7 # v /\ (~s8' => /\ ~s8 /\ s4[v] # Graph!Backfill /\ s4[w] # Graph!Backfill
                                  /\ Graph!Doc(v) # Graph!Doc(w))
    BY <1>1, <1>3 DEF GoesOn, GraphInv, Graph!LoneIsAlone, Graph!CallsAreApart
  <1>4. Graph!CallsAreApart'
    BY <1>1, <1>3 DEF GoesOn, GraphInv, Graph!LoneIsAlone, Graph!CallsAreApart, Graph!Doc
  <1>5. ASSUME ~s8', NEW v \in Graph!Active', s3'[v] = "clear"
        PROVE  KeysOf(v)'
    <2>1. CASE v = w
      BY <1>5, <2>1
    <2>2. CASE v # w
      <3>1. ~s8 /\ Graph!Doc(v) # Graph!Doc(w) /\ v \in Graph!Active /\ v \in Writers
        BY <1>1, <1>3, <1>5, <2>2 DEF Graph!Active
      <3>2. s3[v] = "clear" /\ s4'[v] = s4[v] /\ s5'[v] = s5[v]
        BY <1>5, <2>2, <3>1 DEF GoesOn, OthersStay
      <3>3. Graph!Doc(v) \in Docs
        BY <3>1, <3>2, CallOfDocument DEF GraphInv, GraphTypes, Graph!Doc
      <3>4. s1'[Graph!Doc(v)] = s1[Graph!Doc(v)] /\ Graph!Doc(v)' = Graph!Doc(v)
        BY <3>1, <3>2, <3>3 DEF GoesOn, Graph!Doc
      <3>5. KeysOf(v)
        BY <3>1, <3>2 DEF GraphInv, Graph!KeysAreCurrent, KeysOf
      <3> QED BY <3>2, <3>4, <3>5 DEF KeysOf
    <2> QED BY <2>1, <2>2
  <1>6. Graph!KeysAreCurrent'
    BY <1>5 DEF Graph!KeysAreCurrent, KeysOf
  <1>7. Graph!PlanIsCurrent'
    BY <1>1, <1>3 DEF GoesOn, Graph!PlanIsCurrent
  <1> QED BY <1>2, <1>4, <1>6, <1>7

\* A call is pending as long as the others are, whatever they do.
LEMMA PendingOthers ==
  ASSUME NEW w \in Writers, OthersStay(w), NEW v \in Writers \ {w}
  PROVE  (v \in Graph!Pending' <=> v \in Graph!Pending)
  BY DEF OthersStay, Graph!Pending, Graph!Active, Graph!Affected, Graph!Mentioned

\* A step that changes neither nodes nor bridges, and does not end a call that is pending.
LEMMA QuietStep ==
  ASSUME GraphInv, NEW w \in Writers, GoesOn(w), UNCHANGED <<s1, s2>>,
         w \in Graph!Pending => w \in Graph!Pending',
         s3[w] # "bridge", ~s8' => ~s8
  PROVE  Graph!NodesAreExtracted' /\ Graph!WrongBridgesGo'
  <1>1. Graph!Bridges' = Graph!Bridges
    BY BridgesDependOnNodes
  <1>2. Graph!Pending' = {} => Graph!Pending = {}
    BY PendingOthers DEF GoesOn, Graph!Pending, Graph!Active
  <1>3. \A v \in Graph!Active : s3[v] = "bridge" => v \in Graph!Active' /\ s3'[v] = "bridge"
    BY DEF GoesOn, OthersStay, Graph!Active
  <1>4. Graph!WrongBridgesGo'
    BY <1>1, <1>2, <1>3 DEF GraphInv, Graph!WrongBridgesGo
  <1> QED BY <1>4 DEF GraphInv, Graph!NodesAreExtracted

\* As long as somebody is pending, any bridges will do.
LEMMA PendingStep ==
  ASSUME NEW w \in Graph!Pending'
  PROVE  Graph!WrongBridgesGo'
  BY DEF Graph!WrongBridgesGo

LEMMA ReadKeysInv ==
  ASSUME GraphInv, NEW w \in Writers, Graph!ReadKeys(w)
  PROVE  GraphInv'
  <1> DEFINE b == /\ s1[Graph!Doc(w)] # None
                  /\ s4[w].kind = "semantic" => s1[Graph!Doc(w)].sem
  <1>1. /\ s3[w] = "keys" /\ s4[w] # Graph!Backfill /\ s3' = [s3 EXCEPT ![w] = "clear"]
        /\ s5' = [s5 EXCEPT ![w] = b] /\ UNCHANGED <<s1, s2, s4, s6, s7, s8>>
    BY DEF Graph!ReadKeys, Graph!Goes, Graph!calls
  <1>2. b \in BOOLEAN
    OBVIOUS
  <1> HIDE DEF b
  <1>3. GraphTypes'
    BY <1>1, <1>2 DEF GraphInv, GraphTypes, Graph!Active
  <1>4. GoesOn(w)
    BY <1>1 DEF GraphInv, GraphTypes, GoesOn, OthersStay, Graph!Active
  <1>5. s3'[w] = "clear" /\ s5'[w] = b
    BY <1>1 DEF GraphInv, GraphTypes
  <1>6. KeysOf(w)'
    <2>1. b' = b
      BY <1>1 DEF Graph!Doc, b
    <2>2. s5'[w] = b'
      BY <1>5, <2>1
    <2> QED BY <2>2, Zenon DEF KeysOf, b
  <1>7. /\ Graph!CallsAreApart' /\ Graph!LoneIsAlone' /\ Graph!KeysAreCurrent'
        /\ Graph!PlanIsCurrent'
    BY <1>3, <1>4, <1>5, <1>6, GraphStepInv
  <1>8. w \notin Graph!Pending
    BY <1>1 DEF Graph!Pending
  <1>9. Graph!NodesAreExtracted' /\ Graph!WrongBridgesGo'
    BY <1>1, <1>4, <1>8, QuietStep
  <1> QED BY <1>3, <1>7, <1>9 DEF GraphInv

\* What is cleared was one of the old keys.
LEMMA ClearGraphInv ==
  ASSUME GraphInv, NEW w \in Writers, Graph!Clear(w)
  PROVE  GraphInv'
  <1> DEFINE d == Graph!Doc(w)
             gone == s1[d] # None /\ (s4[w].kind = "semantic" => ~s1[d].det)
  <1>1. /\ s3[w] = "clear" /\ s3' = [s3 EXCEPT ![w] = "merge"] /\ UNCHANGED <<s4, s5, s6, s7, s8>>
        /\ s1' = IF gone THEN [s1 EXCEPT ![d] = None] ELSE s1
        /\ ~gone => s2' = s2
    BY DEF Graph!Clear, Graph!Goes, Graph!calls
  <1>2. s4[w] \in Graph!Calls /\ s4[w] # Graph!Backfill /\ d \in Docs
    BY <1>1, CallOfDocument DEF GraphInv, GraphTypes, Graph!Active, Graph!Doc
  <1>3. GraphTypes'
    BY <1>1, <1>2 DEF GraphInv, GraphTypes, Graph!Active
  <1>4. GoesOn(w)
    BY <1>1, <1>2 DEF GraphInv, GraphTypes, GoesOn, OthersStay, Graph!Active
  <1>5. s3'[w] = "merge"
    BY <1>1 DEF GraphInv, GraphTypes
  <1>6. /\ Graph!CallsAreApart' /\ Graph!LoneIsAlone' /\ Graph!KeysAreCurrent'
        /\ Graph!PlanIsCurrent'
    BY <1>3, <1>4, <1>5, GraphStepInv
  <1>7. Graph!NodesAreExtracted'
    BY <1>1, <1>2 DEF GraphInv, GraphTypes, Graph!NodesAreExtracted
  <1>8. CASE ~gone
    <2>1. w \notin Graph!Pending
      BY <1>1 DEF Graph!Pending
    <2> QED BY <1>1, <1>3, <1>4, <1>6, <1>8, <2>1, QuietStep DEF GraphInv
  <1>9. CASE gone /\ ~s8
    <2>1. s1[d].det \/ s1[d].sem
      BY <1>2, <1>9 DEF GraphInv, Graph!NodesAreExtracted
    <2>2. s5[w] = (/\ s1[d] # None /\ (s4[w].kind = "semantic" => s1[d].sem))
      BY <1>1, <1>9 DEF GraphInv, Graph!KeysAreCurrent, Graph!Active
    <2>3. s5[w]
      BY <1>9, <2>1, <2>2
    <2>4. w \in Graph!Pending'
      BY <1>1, <1>2, <1>5, <2>3 DEF Graph!Pending, Graph!Active, Graph!Affected
    <2> QED BY <1>3, <1>6, <1>7, <2>4, PendingStep DEF GraphInv
  <1>10. CASE s8
    <2>1. Graph!WrongBridgesGo'
      BY <1>1, <1>10 DEF Graph!WrongBridgesGo
    <2> QED BY <1>3, <1>6, <1>7, <2>1 DEF GraphInv
  <1> QED BY <1>8, <1>9, <1>10

\* A name that is merged is affected.
LEMMA MergeNodesInv ==
  ASSUME GraphInv, NEW w \in Writers, Graph!MergeNodes(w)
  PROVE  GraphInv'
  <1> DEFINE d == Graph!Doc(w)
             n == Graph!Merged(d, s4[w].kind)
  <1>1. /\ s3[w] = "merge" /\ s3' = [s3 EXCEPT ![w] = "relate"]
        /\ UNCHANGED <<s2, s4, s5, s6, s7, s8>>
        /\ s1' = IF Graph!Mentioned(w) THEN [s1 EXCEPT ![d] = n] ELSE s1
    BY DEF Graph!MergeNodes, Graph!Goes, Graph!calls
  <1>2. s4[w] \in Graph!Calls /\ s4[w] # Graph!Backfill /\ d \in Docs
    BY <1>1, CallOfDocument DEF GraphInv, GraphTypes, Graph!Active, Graph!Doc
  <1>3. n \in Graph!Nodes /\ (n.det \/ n.sem)
    <2>1. s1[d] # None => s1[d] \in Graph!Nodes
      BY <1>2 DEF GraphInv, GraphTypes
    <2>2. (s1[d] # None /\ s1[d].sem) \in BOOLEAN /\ (s1[d] # None /\ s1[d].det) \in BOOLEAN
      OBVIOUS
    <2>3. (IF s1[d] = None THEN 0 ELSE s1[d].degree) \in 0 .. 1
      BY <2>1 DEF Graph!Nodes
    <2> QED BY <2>2, <2>3 DEF Graph!Merged, Graph!Nodes
  <1> HIDE DEF n
  <1>4. GraphTypes'
    <2>1. s1' \in [Docs -> Graph!Nodes \cup {None}]
      BY <1>1, <1>3 DEF GraphInv, GraphTypes
    <2> QED BY <1>1, <1>2, <2>1 DEF GraphInv, GraphTypes, Graph!Active
  <1>5. GoesOn(w)
    BY <1>1, <1>2 DEF GraphInv, GraphTypes, GoesOn, OthersStay, Graph!Active
  <1>6. s3'[w] = "relate"
    BY <1>1 DEF GraphInv, GraphTypes
  <1>7. /\ Graph!CallsAreApart' /\ Graph!LoneIsAlone' /\ Graph!KeysAreCurrent'
        /\ Graph!PlanIsCurrent'
    BY <1>4, <1>5, <1>6, GraphStepInv
  <1>8. Graph!NodesAreExtracted'
    BY <1>1, <1>2, <1>3 DEF GraphInv, GraphTypes, Graph!NodesAreExtracted
  <1>9. Graph!Affected(w) => w \in Graph!Pending'
    BY <1>1, <1>2, <1>6 DEF Graph!Pending, Graph!Active, Graph!Affected, Graph!Mentioned
  <1>10. CASE Graph!Affected(w)
    BY <1>4, <1>7, <1>8, <1>9, <1>10, PendingStep DEF GraphInv
  <1>11. CASE ~Graph!Affected(w)
    <2>1. s1' = s1 /\ w \notin Graph!Pending
      BY <1>1, <1>11 DEF Graph!Pending, Graph!Affected
    <2> QED BY <1>1, <1>4, <1>5, <1>7, <2>1, QuietStep DEF GraphInv
  <1> QED BY <1>10, <1>11

LEMMA MergeRelationsInv ==
  ASSUME GraphInv, NEW w \in Writers, Graph!MergeRelations(w)
  PROVE  GraphInv'
  <1> DEFINE d == Graph!Doc(w)
             more == s4[w].kind = "chunks" /\ s4[w].payload.degree = 1 /\ s1[d] # None
             to == IF Graph!Affected(w) THEN "cut" ELSE "done"
  <1>1. /\ s3[w] = "relate" /\ s3' = [s3 EXCEPT ![w] = to] /\ UNCHANGED <<s2, s7, s8>>
        /\ s1' = IF more THEN [s1 EXCEPT ![d].degree = 1] ELSE s1
        /\ Graph!Affected(w) => UNCHANGED <<s4, s5, s6>>
        /\ ~Graph!Affected(w) => Graph!Forget(w)
    BY DEF Graph!MergeRelations, Graph!Goes
  <1>2. s4[w] \in Graph!Calls /\ s4[w] # Graph!Backfill /\ d \in Docs
    BY <1>1, CallOfDocument DEF GraphInv, GraphTypes, Graph!Active, Graph!Doc
  <1>3. more => Graph!Affected(w)
    BY <1>2, CallOfDocument DEF Graph!Affected, Graph!Mentioned
  <1>4. s1' \in [Docs -> Graph!Nodes \cup {None}] /\ Graph!NodesAreExtracted'
    <2>1. CASE more
      <3>1. s1[d] \in Graph!Nodes /\ (s1[d].det \/ s1[d].sem)
        BY <1>2, <2>1 DEF GraphInv, GraphTypes, Graph!NodesAreExtracted
      <3>2. PICK n : n = [s1[d] EXCEPT !.degree = 1]
        OBVIOUS
      <3>3. n \in Graph!Nodes /\ (n.det \/ n.sem)
        BY <3>1, <3>2 DEF Graph!Nodes
      <3>4. s1' = [s1 EXCEPT ![d] = n]
        BY <1>1, <2>1, <3>2
      <3> QED BY <1>2, <3>3, <3>4 DEF GraphInv, GraphTypes, Graph!NodesAreExtracted
    <2>2. CASE ~more
      BY <1>1, <2>2 DEF GraphInv, GraphTypes, Graph!NodesAreExtracted
    <2> QED BY <2>1, <2>2
  <1>5. CASE Graph!Affected(w)
    <2>1. s3' = [s3 EXCEPT ![w] = "cut"] /\ UNCHANGED <<s4, s5, s6, s7, s8>>
      BY <1>1, <1>5
    <2>2. GraphTypes'
      BY <1>1, <1>2, <1>4, <2>1 DEF GraphInv, GraphTypes, Graph!Active
    <2>3. GoesOn(w)
      BY <1>1, <1>2, <2>1 DEF GraphInv, GraphTypes, GoesOn, OthersStay, Graph!Active
    <2>4. s3'[w] = "cut"
      BY <2>1 DEF GraphInv, GraphTypes
    <2>5. /\ Graph!CallsAreApart' /\ Graph!LoneIsAlone' /\ Graph!KeysAreCurrent'
          /\ Graph!PlanIsCurrent'
      BY <1>2, <2>1, <2>2, <2>3, <2>4, GraphStepInv
    <2>6. w \in Graph!Pending'
      BY <1>2, <2>1, <2>4 DEF Graph!Pending, Graph!Active
    <2> QED BY <1>4, <2>2, <2>5, <2>6, PendingStep DEF GraphInv
  <1>6. CASE ~Graph!Affected(w)
    <2>1. /\ s3' = [s3 EXCEPT ![w] = "done"] /\ s1' = s1
          /\ s4' = [s4 EXCEPT ![w] = None] /\ s5' = [s5 EXCEPT ![w] = FALSE]
          /\ s6' = [s6 EXCEPT ![w] = {}]
      BY <1>1, <1>3, <1>6 DEF Graph!Forget
    <2>2. GraphTypes'
      BY <1>1, <1>4, <2>1 DEF GraphInv, GraphTypes, Graph!Active
    <2>3. GoesOn(w)
      BY <1>1, <2>1 DEF GraphInv, GraphTypes, GoesOn, OthersStay, Graph!Active
    <2>4. s3'[w] = "done"
      BY <2>1 DEF GraphInv, GraphTypes
    <2>5. /\ Graph!CallsAreApart' /\ Graph!LoneIsAlone' /\ Graph!KeysAreCurrent'
          /\ Graph!PlanIsCurrent'
      BY <2>2, <2>3, <2>4, GraphStepInv
    <2>6. w \notin Graph!Pending
      BY <1>1, <1>6 DEF Graph!Pending
    <2>7. Graph!WrongBridgesGo'
      BY <1>1, <2>1, <2>3, <2>6, QuietStep
    <2> QED BY <1>4, <2>2, <2>5, <2>7 DEF GraphInv
  <1> QED BY <1>5, <1>6

\* Whoever deletes the bridges is at "bridge", and no longer pending.
LEMMA DeleteBridgesInv ==
  ASSUME Graph!GraphAssumption, GraphInv, NEW w \in Writers,
         Graph!DeleteBridges(w) \/ Graph!DeleteAllBridges(w)
  PROVE  GraphInv'
  <1>1. /\ s3[w] = "cut" /\ s3' = [s3 EXCEPT ![w] = "bridge"] /\ s2' = {}
        /\ UNCHANGED <<s1, s4, s5, s6, s7, s8>>
    BY DEF Graph!DeleteBridges, Graph!DeleteAllBridges, Graph!Goes, Graph!calls
  <1>2. GraphTypes'
    BY <1>1 DEF GraphInv, GraphTypes, Graph!Active
  <1>3. GoesOn(w)
    BY <1>1 DEF GraphInv, GraphTypes, GoesOn, OthersStay, Graph!Active
  <1>4. s3'[w] = "bridge" /\ w \in Graph!Active' /\ w \in Graph!Active
    BY <1>1 DEF GraphInv, GraphTypes, Graph!Active
  <1>5. Graph!Bridges' = Graph!Bridges
    BY <1>1, BridgesDependOnNodes
  <1>6. /\ Graph!CallsAreApart' /\ Graph!LoneIsAlone' /\ Graph!KeysAreCurrent'
        /\ Graph!PlanIsCurrent'
    <2>1. s4[w] = Graph!Backfill => (s7 = w \/ ~s8 => s6[w] = Graph!Bridges)
      BY <1>1, <1>4 DEF GraphInv, Graph!PlanIsCurrent
    <2> QED BY <1>1, <1>2, <1>3, <1>4, <1>5, <2>1, GraphStepInv
  <1>7. Graph!WrongBridgesGo'
    BY <1>1, <1>4 DEF Graph!WrongBridgesGo
  <1>8. Graph!NodesAreExtracted'
    BY <1>1 DEF GraphInv, Graph!NodesAreExtracted
  <1> QED BY <1>2, <1>6, <1>7, <1>8 DEF GraphInv

LEMMA ScanInv ==
  ASSUME GraphInv, NEW w \in Writers, Graph!Scan(w)
  PROVE  GraphInv'
  <1>1. /\ s3[w] = "keys" /\ s3' = [s3 EXCEPT ![w] = "cut"] /\ s4[w] = Graph!Backfill
        /\ s6' = [s6 EXCEPT ![w] = Graph!Bridges] /\ UNCHANGED <<s1, s2, s4, s5, s7, s8>>
    BY DEF Graph!Scan, Graph!Goes, Graph!calls
  <1>2. GraphTypes'
    BY <1>1 DEF GraphInv, GraphTypes, Graph!Active
  <1>3. GoesOn(w)
    BY <1>1 DEF GraphInv, GraphTypes, GoesOn, OthersStay, Graph!Active
  <1>4. s3'[w] = "cut" /\ s6'[w] = Graph!Bridges'
    BY <1>1, BridgesDependOnNodes DEF GraphInv, GraphTypes
  <1>5. /\ Graph!CallsAreApart' /\ Graph!LoneIsAlone' /\ Graph!KeysAreCurrent'
        /\ Graph!PlanIsCurrent'
    BY <1>2, <1>3, <1>4, GraphStepInv
  <1>6. w \notin Graph!Pending
    BY <1>1 DEF Graph!Pending
  <1> QED BY <1>1, <1>2, <1>3, <1>5, <1>6, QuietStep DEF GraphInv

\* A call that ends.
LEMMA EndTypes ==
  ASSUME GraphInv, NEW w \in Graph!Active, s3' = [s3 EXCEPT ![w] = "done"], Graph!Forget(w),
         UNCHANGED <<s1, s7>>, s8' \in BOOLEAN, ~s8' => ~s8 \/ s7 = w
  PROVE  /\ GraphTypes' /\ GoesOn(w) /\ w \notin Graph!Active'
         /\ Graph!Active' = Graph!Active \ {w} /\ Graph!NodesAreExtracted'
         /\ Graph!CallsAreApart' /\ Graph!LoneIsAlone' /\ Graph!KeysAreCurrent'
         /\ Graph!PlanIsCurrent'
  <1>1. w \in Writers
    BY DEF Graph!Active
  <1>2. /\ s4' = [s4 EXCEPT ![w] = None] /\ s5' = [s5 EXCEPT ![w] = FALSE]
        /\ s6' = [s6 EXCEPT ![w] = {}]
    BY DEF Graph!Forget
  <1>3. GraphTypes'
    BY <1>1, <1>2 DEF GraphInv, GraphTypes, Graph!Active
  <1>4. GoesOn(w)
    BY <1>1, <1>2 DEF GraphInv, GraphTypes, GoesOn, OthersStay, Graph!Active
  <1>5. s3'[w] = "done" /\ w \notin Graph!Active' /\ Graph!Active' = Graph!Active \ {w}
    BY <1>1 DEF GraphInv, GraphTypes, Graph!Active
  <1>6. Graph!NodesAreExtracted'
    BY DEF GraphInv, Graph!NodesAreExtracted
  <1> QED BY <1>1, <1>3, <1>4, <1>5, <1>6, GraphStepInv

\* When nobody is pending the bridges that there are are right, and now they are all there.
LEMMA CreateBridgesInv ==
  ASSUME GraphInv, NEW w \in Writers, Graph!CreateBridges(w)
  PROVE  GraphInv'
  <1>1. /\ s3[w] = "bridge" /\ s3' = [s3 EXCEPT ![w] = "done"] /\ Graph!Forget(w)
        /\ s2' = s2 \cup Graph!Bridges /\ UNCHANGED <<s1, s7, s8>>
    BY DEF Graph!CreateBridges, Graph!Goes
  <1>2. w \in Graph!Active /\ w \notin Graph!Pending
    BY <1>1 DEF Graph!Active, Graph!Pending
  <1>3. /\ GraphTypes' /\ GoesOn(w) /\ Graph!NodesAreExtracted'
        /\ Graph!CallsAreApart' /\ Graph!LoneIsAlone' /\ Graph!KeysAreCurrent'
        /\ Graph!PlanIsCurrent'
    BY <1>1, <1>2, EndTypes DEF GraphInv, GraphTypes
  <1>4. Graph!Pending' = {} => Graph!Pending = {}
    BY <1>2, <1>3, PendingOthers DEF GoesOn, Graph!Pending, Graph!Active
  <1>5. Graph!Bridges' = Graph!Bridges
    BY <1>1, BridgesDependOnNodes
  <1>6. Graph!WrongBridgesGo'
    BY <1>1, <1>4, <1>5 DEF GraphInv, Graph!WrongBridgesGo
  <1> QED BY <1>3, <1>6 DEF GraphInv

\* A backfill that nobody disturbs, or that was alone, creates just the right ones.
LEMMA CreatePlannedInv ==
  ASSUME Graph!GraphAssumption, GraphInv, NEW w \in Writers, Graph!CreatePlanned(w)
  PROVE  GraphInv'
  <1>1. /\ s3[w] = "bridge" /\ s3' = [s3 EXCEPT ![w] = "done"] /\ Graph!Forget(w)
        /\ s2' = s2 \cup {b \in s6[w] : \A d \in b : s1[d] # None}
        /\ s8' = (s8 /\ s7 # w) /\ UNCHANGED <<s1, s7>> /\ s4[w] = Graph!Backfill
    BY DEF Graph!CreatePlanned, Graph!Goes
  <1>2. w \in Graph!Active /\ s8' \in BOOLEAN /\ (~s8' => ~s8 \/ s7 = w)
    BY <1>1 DEF Graph!Active, GraphInv, GraphTypes
  <1>3. /\ GraphTypes' /\ Graph!NodesAreExtracted'
        /\ Graph!CallsAreApart' /\ Graph!LoneIsAlone' /\ Graph!KeysAreCurrent'
        /\ Graph!PlanIsCurrent'
    BY <1>1, <1>2, EndTypes
  <1>4. ASSUME ~s8' PROVE s2' = Graph!Bridges
    <2>1. s6[w] = Graph!Bridges /\ s2 = {}
      BY <1>1, <1>2, <1>4 DEF GraphInv, Graph!PlanIsCurrent
    <2>2. \A b \in Graph!Bridges : \A d \in b : s1[d] # None
      BY BridgesJoinNodes DEF GraphInv
    <2> QED BY <1>1, <2>1, <2>2
  <1>5. Graph!Bridges' = Graph!Bridges
    BY <1>1, BridgesDependOnNodes
  <1>6. Graph!WrongBridgesGo'
    BY <1>4, <1>5 DEF Graph!WrongBridgesGo
  <1> QED BY <1>3, <1>6 DEF GraphInv

LEMMA FailGraphInv ==
  ASSUME GraphInv, NEW w \in Writers, Graph!Fail(w)
  PROVE  GraphInv'
  <1>1. /\ w \in Graph!Active /\ s3' = [s3 EXCEPT ![w] = "done"] /\ Graph!Forget(w)
        /\ s8' = TRUE /\ UNCHANGED <<s1, s7>>
    BY DEF Graph!Fail
  <1>2. /\ GraphTypes' /\ Graph!NodesAreExtracted'
        /\ Graph!CallsAreApart' /\ Graph!LoneIsAlone' /\ Graph!KeysAreCurrent'
        /\ Graph!PlanIsCurrent'
    BY <1>1, EndTypes
  <1>3. Graph!WrongBridgesGo'
    BY <1>1 DEF Graph!WrongBridgesGo
  <1> QED BY <1>2, <1>3 DEF GraphInv

\* A call begins: alone, or with others that it does not disturb, or something may be broken.
LEMMA BeginGraphInv ==
  ASSUME Graph!GraphAssumption, GraphInv, NEW w \in Writers, Graph!Begin(w)
  PROVE  GraphInv'
  <1>1. PICK c \in Graph!Calls :
            /\ s4' = [s4 EXCEPT ![w] = c]
            /\ s7' = IF Graph!Active = {} THEN w ELSE None
            /\ s8' = (s8 \/ \E v \in Graph!Active : Graph!Disturb(c, v))
    BY DEF Graph!Begin
  <1>2. s3[w] = "idle" /\ s3' = [s3 EXCEPT ![w] = "keys"] /\ UNCHANGED <<s1, s2, s5, s6>>
    BY DEF Graph!Begin, Graph!Goes
  <1>3. s8' \in BOOLEAN /\ (~s8' => ~s8 /\ \A v \in Graph!Active : ~Graph!Disturb(c, v))
    <2>1. (s8 \/ \E v \in Graph!Active : Graph!Disturb(c, v)) \in BOOLEAN
      OBVIOUS
    <2> QED BY <1>1, <2>1
  <1>4. Graph!Active' = Graph!Active \cup {w} /\ w \notin Graph!Active
    BY <1>2 DEF GraphInv, GraphTypes, Graph!Active
  <1>5. /\ s3'[w] = "keys" /\ s4'[w] = c
        /\ \A v \in Writers \ {w} : s3'[v] = s3[v] /\ s4'[v] = s4[v]
    BY <1>1, <1>2 DEF GraphInv, GraphTypes
  <1>6. GraphTypes'
    <2>1. \A v \in Graph!Active' : s4'[v] \in Graph!Calls
      BY <1>4, <1>5 DEF GraphInv, GraphTypes, Graph!Active
    <2>2. \A v \in Writers : s3'[v] \in {"clear", "merge", "relate"} => s4'[v] # Graph!Backfill
      BY <1>5 DEF GraphInv, GraphTypes
    <2>3. s3' \in [Writers -> {"idle", "keys", "clear", "merge", "relate", "cut", "bridge",
                               "done"}]
      BY <1>2 DEF GraphInv, GraphTypes
    <2> QED BY <1>1, <1>2, <1>3, <2>1, <2>2, <2>3 DEF GraphInv, GraphTypes
  <1>7. Graph!LoneIsAlone'
    <2>1. None \notin Writers
      BY DEF Graph!GraphAssumption
    <2> QED BY <1>1, <1>4, <2>1 DEF Graph!LoneIsAlone, Graph!Active
  <1>8. \A v \in Graph!Active : ~s8' => c # Graph!Backfill /\ s4[v] # Graph!Backfill
                                        /\ c.doc # Graph!Doc(v)
    BY <1>3 DEF Graph!Disturb
  <1>9. \A v \in Graph!Active : s3'[v] = s3[v] /\ s4'[v] = s4[v] /\ v \in Writers /\ v # w
    BY <1>4, <1>5 DEF Graph!Active
  <1>10. Graph!CallsAreApart'
    BY <1>3, <1>4, <1>5, <1>8, <1>9 DEF GraphInv, Graph!CallsAreApart, Graph!Doc
  <1>11. Graph!KeysAreCurrent'
    BY <1>2, <1>3, <1>4, <1>5, <1>9 DEF GraphInv, Graph!KeysAreCurrent, Graph!Doc
  <1>12. Graph!PlanIsCurrent'
    BY <1>1, <1>4, <1>5, <1>7, <1>8, <1>9 DEF Graph!PlanIsCurrent, Graph!LoneIsAlone
  <1>13. Graph!NodesAreExtracted'
    BY <1>2 DEF GraphInv, Graph!NodesAreExtracted
  <1>14. Graph!WrongBridgesGo'
    <2>1. Graph!Bridges' = Graph!Bridges
      BY <1>2, BridgesDependOnNodes
    <2>2. \A v \in Graph!Pending : v \in Graph!Pending'
      BY <1>2, <1>4, <1>9 DEF Graph!Pending, Graph!Affected, Graph!Mentioned
    <2> QED BY <1>2, <1>3, <1>4, <1>9, <2>1, <2>2 DEF GraphInv, Graph!WrongBridgesGo
  <1> QED BY <1>6, <1>7, <1>10, <1>11, <1>12, <1>13, <1>14 DEF GraphInv

LEMMA GraphNextInv ==
  ASSUME Graph!GraphAssumption, GraphInv, [Graph!Next]_Graph!vars
  PROVE  GraphInv'
  <1>1. CASE UNCHANGED Graph!vars
    <2>1. UNCHANGED <<s1, s2, s3, s4, s5, s6, s7, s8>>
      BY <1>1 DEF Graph!vars
    <2>2. Graph!Bridges' = Graph!Bridges /\ Graph!Pending' = Graph!Pending
          /\ Graph!Active' = Graph!Active
      BY <2>1, BridgesDependOnNodes DEF Graph!Pending, Graph!Active, Graph!Affected,
                                        Graph!Mentioned
    <2>3. GraphTypes' /\ Graph!CallsAreApart' /\ Graph!LoneIsAlone'
      BY <2>1, <2>2 DEF GraphInv, GraphTypes, Graph!CallsAreApart, Graph!LoneIsAlone, Graph!Doc
    <2>4. Graph!NodesAreExtracted' /\ Graph!KeysAreCurrent'
      BY <2>1, <2>2 DEF GraphInv, Graph!NodesAreExtracted, Graph!KeysAreCurrent, Graph!Doc
    <2>5. Graph!PlanIsCurrent' /\ Graph!WrongBridgesGo'
      BY <2>1, <2>2 DEF GraphInv, Graph!PlanIsCurrent, Graph!WrongBridgesGo
    <2> QED BY <2>3, <2>4, <2>5 DEF GraphInv
  <1> QED BY <1>1, BeginGraphInv, ReadKeysInv, ClearGraphInv, MergeNodesInv, MergeRelationsInv,
             DeleteBridgesInv, CreateBridgesInv, ScanInv, CreatePlannedInv, FailGraphInv
          DEF Graph!Next

LEMMA GraphSound == GraphInv => Graph!BridgesAreThoseOfNodes
  BY DEF GraphInv, Graph!WrongBridgesGo, Graph!Pending, Graph!BridgesAreThoseOfNodes

-----------------------------------------------------------------------------
(***************************************************************************)
(* Folds, sums and falling lists over finite sets, for the algorithms of the *)
(* selection and the metrics: a fold is the CHOOSE of a function with its  *)
(* equation, and there is one.                                             *)
(***************************************************************************)
\* An element for every set but the empty one, a step that stays in V, and the equation of a fold.
Picks(c, D) == \A s \in SUBSET D : s # {} => c[s] \in s

Steps(H, D, V) == \A v \in V, s \in SUBSET D : H[<<v, s>>] \in V

Folds(F, c, H, D, V, base) ==
    /\ F \in [SUBSET D -> V]
    /\ \A s \in SUBSET D : F[s] = IF s = {} THEN base ELSE H[<<F[s \ {c[s]}], s>>]

\* A fold over a finite set: whatever element is taken first, and whatever the step does with it,
\* there is a function with the equation of the fold, and it has the type of the step.
LEMMA FoldExists ==
  ASSUME NEW D, IsFiniteSet(D), NEW V, NEW base \in V,
         NEW c, Picks(c, D), NEW H, Steps(H, D, V)
  PROVE  \E F : Folds(F, c, H, D, V, base)
  <1> USE DEF Picks, Steps, Folds
  <1> DEFINE Small(n) == {s \in SUBSET D : Cardinality(s) <= n}
             Fold(F, n) == /\ F \in [Small(n) -> V]
                           /\ \A s \in Small(n) :
                                F[s] = IF s = {} THEN base ELSE H[<<F[s \ {c[s]}], s>>]
             Done == {n \in Nat : \E F : Fold(F, n)}
  <1>1. ASSUME NEW s \in SUBSET D
        PROVE  /\ IsFiniteSet(s) /\ Cardinality(s) \in Nat
               /\ s # {} => Cardinality(s \ {c[s]}) = Cardinality(s) - 1
               /\ Cardinality(s) = 0 <=> s = {}
    BY FS_Subset, FS_CardinalityType, FS_RemoveElement, FS_EmptySet
  <1>2. 0 \in Done
    <2>1. Small(0) = {{}}
      <3>1. ASSUME NEW s \in SUBSET D PROVE s \in Small(0) <=> s = {}
        <4>1. Cardinality(s) \in Nat /\ (Cardinality(s) = 0 <=> s = {})
          BY <1>1
        <4>2. Cardinality(s) <= 0 <=> Cardinality(s) = 0
          BY <4>1
        <4> QED BY <4>1, <4>2
      <3> QED BY <3>1
    <2>2. Fold([s \in Small(0) |-> base], 0)
      BY <2>1
    <2> QED BY <2>2
  <1>3. ASSUME NEW n \in Nat, n \in Done PROVE n + 1 \in Done
    <2>1. PICK F : Fold(F, n)
      BY <1>3
    <2> DEFINE G == [s \in Small(n + 1) |->
                        IF s = {} THEN base ELSE H[<<F[s \ {c[s]}], s>>]]
    <2>2. ASSUME NEW s \in Small(n + 1), s # {} PROVE s \ {c[s]} \in Small(n)
      <3>1. Cardinality(s \ {c[s]}) = Cardinality(s) - 1 /\ Cardinality(s) \in Nat
        BY <1>1, <2>2
      <3>2. Cardinality(s) <= n + 1 /\ s \ {c[s]} \in SUBSET D
        OBVIOUS
      <3> QED BY <3>1, <3>2
    <2>3. ASSUME NEW s \in Small(n) PROVE s \in Small(n + 1) /\ G[s] = F[s]
      <3>1. Cardinality(s) \in Nat /\ Cardinality(s) <= n
        BY <1>1
      <3>2. s \in Small(n + 1)
        BY <3>1
      <3> QED BY <2>1, <3>2
    <2>4. G \in [Small(n + 1) -> V]
      BY <2>1, <2>2
    <2>5. ASSUME NEW s \in Small(n + 1)
          PROVE  G[s] = IF s = {} THEN base ELSE H[<<G[s \ {c[s]}], s>>]
      BY <2>2, <2>3
    <2>6. Fold(G, n + 1)
      BY <2>4, <2>5
    <2>7. n + 1 \in Nat
      OBVIOUS
    <2> HIDE DEF Fold
    <2> QED BY <2>6, <2>7
  <1>4. \A n \in Nat : n \in Done
    <2> HIDE DEF Done
    <2> QED BY <1>2, <1>3, Inductive
  <1>5. Cardinality(D) \in Nat /\ Small(Cardinality(D)) = SUBSET D
    BY <1>1, FS_Subset, FS_CardinalityType
  <1> QED BY <1>4, <1>5, ZenonT(40)

\* Sums: the values of a function, added up over a finite set.
SumOver(g, S) == Scores!MapThenSumSet(LAMBDA x : g[x], S)

IsSum(F, g, S) == F = [s \in SUBSET S |-> IF s = {} THEN 0
                         ELSE g[CHOOSE x \in s : TRUE] + F[s \ {CHOOSE x \in s : TRUE}]]

LEMMA SumExists ==
  ASSUME NEW S, IsFiniteSet(S), NEW g, \A x \in S : g[x] \in Nat
  PROVE  \E F \in [SUBSET S -> Nat] : IsSum(F, g, S)
  <1> DEFINE c == [s \in SUBSET S |-> CHOOSE x \in s : TRUE]
             H == [p \in Nat \X SUBSET S |-> IF p[2] = {} THEN 0 ELSE g[c[p[2]]] + p[1]]
  <1>1. Picks(c, S)
    BY DEF Picks
  <1>2. Steps(H, S, Nat)
    BY <1>1 DEF Picks, Steps
  <1> HIDE DEF c, H
  <1>3. PICK F : Folds(F, c, H, S, Nat, 0)
    <2>1. 0 \in Nat
      OBVIOUS
    <2> QED BY <1>1, <1>2, <2>1, FoldExists, Zenon
  <1>7. F \in [SUBSET S -> Nat]
    BY <1>3 DEF Folds
  <1>4. ASSUME NEW s \in SUBSET S
        PROVE  F[s] = IF s = {} THEN 0
                      ELSE g[CHOOSE x \in s : TRUE] + F[s \ {CHOOSE x \in s : TRUE}]
    <2>1. CASE s = {}
      BY <1>3, <2>1 DEF Folds
    <2>2. CASE s # {}
      <3>1. F[s] = H[<<F[s \ {c[s]}], s>>]
        BY <1>3, <2>2 DEF Folds
      <3>2. F[s \ {c[s]}] \in Nat
        BY <1>7
      <3>3. c[s] = CHOOSE x \in s : TRUE
        BY DEF c
      <3>4. H[<<F[s \ {c[s]}], s>>] = g[c[s]] + F[s \ {c[s]}]
        BY <2>2, <3>2 DEF H
      <3> QED BY <2>2, <3>1, <3>3, <3>4
    <2> QED BY <2>1, <2>2
  <1>5. F = [s \in SUBSET S |-> F[s]]
    BY <1>7
  <1> HIDE DEF c, H
  <1>6. IsSum(F, g, S)
    BY <1>4, <1>5 DEF IsSum
  <1> QED BY <1>6, <1>7

LEMMA SumsAgree ==
  ASSUME NEW S, NEW T, NEW g, NEW F, IsSum(F, g, S), NEW G, IsSum(G, g, T),
         NEW D, IsFiniteSet(D), D \subseteq S, D \subseteq T
  PROVE  F[D] = G[D]
  <1> DEFINE Same == {n \in Nat : \A s \in SUBSET D : Cardinality(s) = n => F[s] = G[s]}
  <1>1. ASSUME NEW s \in SUBSET D
        PROVE  IsFiniteSet(s) /\ Cardinality(s) \in Nat
               /\ (Cardinality(s) = 0 => s = {})
    BY FS_Subset, FS_CardinalityType, FS_EmptySet
  <1>2. F[{}] = G[{}]
    BY DEF IsSum
  <1>3. 0 \in Same
    BY <1>1, <1>2
  <1>4. ASSUME NEW n \in Nat, n \in Same PROVE n + 1 \in Same
    <2>1. ASSUME NEW s \in SUBSET D, Cardinality(s) = n + 1 PROVE F[s] = G[s]
      <3> DEFINE c == CHOOSE x \in s : TRUE
      <3>1. s # {} /\ IsFiniteSet(s)
        BY <1>1, <2>1, FS_EmptySet
      <3>2. c \in s
        BY <3>1
      <3> HIDE DEF c
      <3>3. Cardinality(s \ {c}) = n
        BY <2>1, <3>1, <3>2, OneLess
      <3>4. F[s \ {c}] = G[s \ {c}]
        BY <1>4, <3>3
      <3>5. s \in SUBSET S /\ s \in SUBSET T
        OBVIOUS
      <3>6. F[s] = g[c] + F[s \ {c}]
        BY <3>1, <3>5, Zenon DEF IsSum, c
      <3>7. G[s] = g[c] + G[s \ {c}]
        BY <3>1, <3>5, Zenon DEF IsSum, c
      <3> QED BY <3>4, <3>6, <3>7
    <2> QED BY <2>1
  <1>5. \A n \in Nat : n \in Same
    <2> HIDE DEF Same
    <2> QED BY <1>3, <1>4, Inductive
  <1> QED BY <1>5, <1>1

LEMMA SumIs ==
  ASSUME NEW S, IsFiniteSet(S), NEW g, \A x \in S : g[x] \in Nat
  PROVE  \E F \in [SUBSET S -> Nat] : IsSum(F, g, S) /\ SumOver(g, S) = F[S]
  <1> DEFINE F == CHOOSE F : IsSum(F, g, S)
  <1>1. IsSum(F, g, S)
    BY SumExists
  <1>2. SumOver(g, S) = F[S]
    BY DEF SumOver, Scores!MapThenSumSet, Scores!MapThenFoldSet, IsSum
  <1>3. PICK G \in [SUBSET S -> Nat] : IsSum(G, g, S)
    BY SumExists
  <1> HIDE DEF F
  <1>4. F[S] = G[S]
    BY <1>1, <1>3, SumsAgree
  <1> QED BY <1>2, <1>3, <1>4

LEMMA SumOfSubset ==
  ASSUME NEW S, IsFiniteSet(S), NEW g, \A x \in S : g[x] \in Nat,
         NEW F, IsSum(F, g, S), NEW T \in SUBSET S
  PROVE  F[T] = SumOver(g, T) /\ F[T] \in Nat
  <1>1. IsFiniteSet(T) /\ \A x \in T : g[x] \in Nat
    BY FS_Subset
  <1>2. PICK G \in [SUBSET T -> Nat] : IsSum(G, g, T) /\ SumOver(g, T) = G[T]
    BY <1>1, SumIs
  <1>3. F[T] = G[T]
    BY <1>1, <1>2, SumsAgree
  <1> QED BY <1>2, <1>3

LEMMA SumNat ==
  ASSUME NEW S, IsFiniteSet(S), NEW g, \A x \in S : g[x] \in Nat
  PROVE  SumOver(g, S) \in Nat
  <1>1. PICK F \in [SUBSET S -> Nat] : SumOver(g, S) = F[S]
    BY SumIs
  <1> QED BY <1>1

LEMMA SumEmpty == \A g : SumOver(g, {}) = 0
  <1> SUFFICES ASSUME NEW g PROVE SumOver(g, {}) = 0
    OBVIOUS
  <1>1. PICK F : IsSum(F, g, {}) /\ SumOver(g, {}) = F[{}]
    BY SumIs, FS_EmptySet
  <1> QED BY <1>1 DEF IsSum

\* Whichever element is taken away, the sum of the others is less by its value.
LEMMA SumWithout ==
  ASSUME NEW S, IsFiniteSet(S), NEW g, \A x \in S : g[x] \in Nat, NEW e \in S
  PROVE  SumOver(g, S) = g[e] + SumOver(g, S \ {e})
  <1>1. PICK F \in [SUBSET S -> Nat] : IsSum(F, g, S)
    BY SumIs
  <1> DEFINE Good == {n \in Nat : \A s \in SUBSET S : Cardinality(s) = n =>
                                     \A x \in s : F[s] = g[x] + F[s \ {x}]}
  <1>2. ASSUME NEW s \in SUBSET S
        PROVE  IsFiniteSet(s) /\ Cardinality(s) \in Nat
               /\ (Cardinality(s) = 0 => s = {})
    BY FS_Subset, FS_CardinalityType, FS_EmptySet
  <1>3. 0 \in Good
    BY <1>2
  <1>4. ASSUME NEW n \in Nat, n \in Good PROVE n + 1 \in Good
    <2>1. ASSUME NEW s \in SUBSET S, Cardinality(s) = n + 1, NEW x \in s
          PROVE  F[s] = g[x] + F[s \ {x}]
      <3> DEFINE c == CHOOSE y \in s : TRUE
      <3>1. c \in s
        OBVIOUS
      <3> HIDE DEF c
      <3>2. F[s] = g[c] + F[s \ {c}]
        BY <1>1, <3>1, Zenon DEF IsSum, c
      <3>3. CASE x = c
        BY <3>2, <3>3
      <3>4. CASE x # c
        <4>1. /\ s \ {c} \in SUBSET S /\ s \ {x} \in SUBSET S
              /\ x \in s \ {c} /\ c \in s \ {x}
              /\ Cardinality(s \ {c}) = n /\ Cardinality(s \ {x}) = n
          <5>1. s \ {c} \in SUBSET S /\ s \ {x} \in SUBSET S /\ x \in s \ {c} /\ c \in s \ {x}
            BY <3>1, <3>4
          <5>2. IsFiniteSet(s)
            BY <1>2
          <5> QED BY <2>1, <3>1, <5>1, <5>2, OneLess
        <4>2. F[s \ {c}] = g[x] + F[(s \ {c}) \ {x}]
          BY <1>4, <4>1
        <4>3. F[s \ {x}] = g[c] + F[(s \ {x}) \ {c}]
          BY <1>4, <4>1
        <4>4. (s \ {c}) \ {x} = (s \ {x}) \ {c} /\ (s \ {x}) \ {c} \in SUBSET S
          OBVIOUS
        <4>5. g[x] \in Nat /\ g[c] \in Nat /\ F[(s \ {x}) \ {c}] \in Nat
          BY <1>1, <3>1, <4>4
        <4> DEFINE u == F[(s \ {x}) \ {c}]
        <4>6. F[s] = g[c] + (g[x] + u) /\ F[s \ {x}] = g[c] + u
          BY <3>2, <4>2, <4>3, <4>4
        <4>7. u \in Nat
          BY <4>5
        <4> HIDE DEF u
        <4> QED BY <4>5, <4>6, <4>7
      <3> QED BY <3>3, <3>4
    <2> QED BY <2>1
  <1>5. \A n \in Nat : n \in Good
    <2> HIDE DEF Good
    <2> QED BY <1>3, <1>4, Inductive
  <1>6. F[S] = g[e] + F[S \ {e}]
    BY <1>2, <1>5
  <1> QED BY <1>1, <1>6, SumOfSubset

LEMMA SumWith ==
  ASSUME NEW S, IsFiniteSet(S), NEW e, e \notin S, NEW g, \A x \in S \cup {e} : g[x] \in Nat
  PROVE  SumOver(g, S \cup {e}) = SumOver(g, S) + g[e]
  <1>1. IsFiniteSet(S \cup {e}) /\ (S \cup {e}) \ {e} = S
    BY FS_AddElement
  <1>2. SumOver(g, S \cup {e}) = g[e] + SumOver(g, S)
    BY <1>1, SumWithout
  <1>3. SumOver(g, S) \in Nat /\ g[e] \in Nat
    BY SumNat
  <1> QED BY <1>2, <1>3

\* Only the values on the set matter.
LEMMA SumSame ==
  ASSUME NEW S, IsFiniteSet(S), NEW g, NEW h, \A x \in S : g[x] \in Nat /\ h[x] = g[x]
  PROVE  SumOver(h, S) = SumOver(g, S)
  <1>1. PICK F \in [SUBSET S -> Nat] : IsSum(F, g, S) /\ SumOver(g, S) = F[S]
    BY SumIs
  <1>2. ASSUME NEW s \in SUBSET S
        PROVE  F[s] = IF s = {} THEN 0
                      ELSE h[CHOOSE x \in s : TRUE] + F[s \ {CHOOSE x \in s : TRUE}]
    <2>1. CASE s = {}
      BY <1>1, <2>1 DEF IsSum
    <2>2. CASE s # {}
      <3> DEFINE c == CHOOSE x \in s : TRUE
      <3>1. c \in s
        BY <2>2
      <3> HIDE DEF c
      <3>2. F[s] = g[c] + F[s \ {c}]
        BY <1>1, <2>2, Zenon DEF IsSum, c
      <3>3. h[c] = g[c]
        BY <3>1
      <3>4. F[s] = h[c] + F[s \ {c}]
        BY <3>2, <3>3
      <3> QED BY <2>2, <3>4, Zenon DEF c
    <2> QED BY <2>1, <2>2
  <1>3. IsSum(F, h, S)
    BY <1>1, <1>2 DEF IsSum
  <1>4. \A x \in S : h[x] \in Nat
    OBVIOUS
  <1> QED BY <1>1, <1>3, <1>4, SumOfSubset

\* A smaller set of smaller values has the smaller sum.
LEMMA SumOfFewer ==
  ASSUME NEW S, IsFiniteSet(S), NEW g, \A x \in S : g[x] \in Nat, NEW T \in SUBSET S
  PROVE  SumOver(g, T) <= SumOver(g, S)
  <1> DEFINE Good == {n \in Nat : \A s \in SUBSET S : Cardinality(s) = n =>
                                     SumOver(g, s \cap T) <= SumOver(g, s)}
  <1>1. ASSUME NEW s \in SUBSET S
        PROVE  IsFiniteSet(s) /\ Cardinality(s) \in Nat
               /\ (Cardinality(s) = 0 => s = {})
    BY FS_Subset, FS_CardinalityType, FS_EmptySet
  <1>2. 0 \in Good
    <2>1. SumOver(g, {}) <= SumOver(g, {})
      BY SumEmpty
    <2>2. {} \cap T = {}
      OBVIOUS
    <2> QED BY <1>1, <2>1, <2>2
  <1>3. ASSUME NEW n \in Nat, n \in Good PROVE n + 1 \in Good
    <2>1. ASSUME NEW s \in SUBSET S, Cardinality(s) = n + 1
          PROVE  SumOver(g, s \cap T) <= SumOver(g, s)
      <3>1. PICK e : e \in s
        <4>1. s # {}
          BY <2>1, FS_EmptySet
        <4> QED BY <4>1
      <3> DEFINE r == s \ {e}
      <3>2. r \in SUBSET S /\ Cardinality(r) = n
        BY <1>1, <2>1, <3>1, OneLess
      <3>3. SumOver(g, r \cap T) <= SumOver(g, r)
        BY <1>3, <3>2
      <3>4. SumOver(g, s) = g[e] + SumOver(g, r)
        BY <1>1, <3>1, SumWithout
      <3>5. /\ IsFiniteSet(s \cap T) /\ IsFiniteSet(r \cap T) /\ IsFiniteSet(r)
            /\ \A x \in s : g[x] \in Nat
        BY <1>1, FS_Subset
      <3>6. SumOver(g, r \cap T) \in Nat /\ SumOver(g, r) \in Nat /\ g[e] \in Nat
        BY <3>1, <3>5, SumNat
      <3>7. SumOver(g, s \cap T) = SumOver(g, r \cap T)
            \/ SumOver(g, s \cap T) = g[e] + SumOver(g, r \cap T)
        <4>1. CASE e \in T
          <5>1. (s \cap T) \ {e} = r \cap T /\ e \in s \cap T
            BY <3>1, <4>1
          <5>2. SumOver(g, s \cap T) = g[e] + SumOver(g, (s \cap T) \ {e})
            BY <3>5, <5>1, SumWithout
          <5> QED BY <5>1, <5>2
        <4>2. CASE e \notin T
          <5>1. s \cap T = r \cap T
            BY <4>2
          <5> QED BY <5>1
        <4> QED BY <4>1, <4>2
      <3> HIDE DEF r
      <3> QED BY <3>3, <3>4, <3>6, <3>7
    <2> QED BY <2>1
  <1>4. \A n \in Nat : n \in Good
    <2> HIDE DEF Good
    <2> QED BY <1>2, <1>3, Inductive
  <1>5. S \cap T = T
    OBVIOUS
  <1> QED BY <1>1, <1>4, <1>5

LEMMA SumSingle ==
  ASSUME NEW g, NEW e, g[e] \in Nat
  PROVE  SumOver(g, {e}) = g[e]
  <1>1. {} \cup {e} = {e} /\ IsFiniteSet({}) /\ e \notin {} /\ \A x \in {} \cup {e} : g[x] \in Nat
    BY FS_EmptySet
  <1>2. SumOver(g, {} \cup {e}) = SumOver(g, {}) + g[e]
    BY <1>1, SumWith, Zenon
  <1>3. SumOver(g, {e}) = 0 + g[e]
    BY <1>1, <1>2, SumEmpty
  <1> QED BY <1>3

\* No k elements have a larger sum than the first k of a falling list.
LEMMA FirstSumMost ==
  ASSUME NEW S, IsFiniteSet(S), NEW g, \A x \in S : g[x] \in Nat,
         NEW f, Lists(f, S), Falls(f, g),
         NEW k \in Nat, k <= Cardinality(S), NEW E \in SUBSET S, Cardinality(E) <= k
  PROVE  SumOver(g, E) <= SumOver(g, {f[i] : i \in 1 .. k})
  <1> DEFINE m == Cardinality(S)
             First(n) == {f[i] : i \in 1 .. n}
             Good == {n \in Nat : n <= m => \A s \in SUBSET S : Cardinality(s) <= n =>
                                     SumOver(g, s) <= SumOver(g, First(n))}
  <1>1. ASSUME NEW s \in SUBSET S
        PROVE  IsFiniteSet(s) /\ Cardinality(s) \in Nat
               /\ (Cardinality(s) = 0 => s = {}) /\ SumOver(g, s) \in Nat
    <2>1. IsFiniteSet(s) /\ \A x \in s : g[x] \in Nat
      BY FS_Subset
    <2> QED BY <2>1, FS_CardinalityType, FS_EmptySet, SumNat
  <1>2. m \in Nat /\ f \in [1 .. m -> S] /\ \A i, j \in 1 .. m : i # j => f[i] # f[j]
    BY FS_CardinalityType DEF Lists
  <1>3. 0 \in Good
    <2>1. ASSUME NEW s \in SUBSET S, Cardinality(s) <= 0
          PROVE  SumOver(g, s) <= SumOver(g, First(0))
      <3>1. Cardinality(s) = 0
        BY <1>1, <2>1
      <3>2. s = {} /\ First(0) = {}
        BY <1>1, <3>1
      <3> QED BY <3>2, SumEmpty
    <2> QED BY <2>1
  <1>4. ASSUME NEW n \in Nat, n \in Good PROVE n + 1 \in Good
    <2>1. ASSUME n + 1 <= m, NEW s \in SUBSET S, Cardinality(s) <= n + 1
          PROVE  SumOver(g, s) <= SumOver(g, First(n + 1))
      <3> DEFINE a == f[n + 1]
      <3>1. /\ \A i \in 1 .. n + 1 : i \in 1 .. m
            /\ \A i \in 1 .. n : i \in 1 .. n + 1 /\ i # n + 1
            /\ \A i \in 1 .. n + 1 : i \in 1 .. n \/ i = n + 1
            /\ n + 1 \in 1 .. n + 1 /\ n <= m
        BY <1>2, <2>1
      <3>2. First(n) \in SUBSET S /\ First(n + 1) = First(n) \cup {a} /\ a \in S
            /\ a \notin First(n)
        BY <1>2, <3>1
      <3>3. SumOver(g, First(n + 1)) = SumOver(g, First(n)) + g[a]
        <4>1. IsFiniteSet(First(n)) /\ \A x \in First(n) \cup {a} : g[x] \in Nat
          BY <1>1, <3>2
        <4> HIDE DEF First, a
        <4> QED BY <3>2, <4>1, SumWith
      <3>4. SumOver(g, First(n)) \in Nat /\ g[a] \in Nat
        BY <1>1, <3>2
      <3>5. \A t \in SUBSET S : Cardinality(t) <= n => SumOver(g, t) <= SumOver(g, First(n))
        BY <1>4, <3>1
      <3>6. CASE Cardinality(s) <= n
        <4>1. SumOver(g, s) <= SumOver(g, First(n))
          BY <3>5, <3>6
        <4>2. SumOver(g, s) \in Nat
          BY <1>1
        <4> HIDE DEF First, a
        <4> QED BY <3>3, <3>4, <4>1, <4>2
      <3>7. CASE Cardinality(s) = n + 1
        <4>1. PICK e \in s : e \notin First(n)
          <5>1. SUFFICES ASSUME s \subseteq First(n) PROVE FALSE
            OBVIOUS
          <5>2. IsFiniteSet(1 .. n) /\ Cardinality(1 .. n) = n
            BY FS_Interval
          <5> DEFINE h == [i \in 1 .. n |-> f[i]]
          <5>3. h \in Surjection(1 .. n, First(n))
            BY DEF Surjection
          <5>4. IsFiniteSet(First(n)) /\ Cardinality(First(n)) <= n
            BY <5>2, <5>3, FS_Surjection
          <5>5. Cardinality(s) <= Cardinality(First(n)) /\ Cardinality(First(n)) \in Nat
            BY <5>1, <5>4, FS_Subset, FS_CardinalityType
          <5> HIDE DEF First
          <5> QED BY <3>7, <5>4, <5>5
        <4>2. PICK j \in 1 .. m : f[j] = e
          BY ListsAll
        <4>3. j >= n + 1 /\ n + 1 \in 1 .. m
          BY <1>2, <3>1, <4>1, <4>2
        <4>4. g[a] >= g[e]
          <5>1. j = n + 1 \/ n + 1 < j
            BY <4>3
          <5>2. g[a] >= g[a]
            BY <3>4
          <5>3. DOMAIN f = 1 .. m
            BY <1>2
          <5> QED BY <4>2, <4>3, <5>1, <5>2, <5>3 DEF Falls
        <4>5. IsFiniteSet(s) /\ s \ {e} \in SUBSET S /\ Cardinality(s \ {e}) = n
          BY <1>1, <3>7, OneLess
        <4>6. SumOver(g, s \ {e}) <= SumOver(g, First(n)) /\ SumOver(g, s \ {e}) \in Nat
          BY <1>1, <3>5, <4>5
        <4>7. SumOver(g, s) = g[e] + SumOver(g, s \ {e})
          BY <1>1, SumWithout
        <4>8. g[e] \in Nat
          OBVIOUS
        <4> HIDE DEF First, a
        <4> QED BY <3>3, <3>4, <4>4, <4>6, <4>7, <4>8
      <3>8. Cardinality(s) <= n \/ Cardinality(s) = n + 1
        BY <1>1, <2>1
      <3> QED BY <3>6, <3>7, <3>8
    <2> QED BY <2>1
  <1>5. \A n \in Nat : n \in Good
    <2> HIDE DEF Good
    <2> QED BY <1>3, <1>4, Inductive
  <1> QED BY <1>5

LEMMA WeightedStep ==
  ASSUME NEW a \in Nat, NEW b \in Nat, NEW p \in Nat, NEW q \in Nat, NEW e \in Nat, NEW f \in Nat,
         NEW x \in Nat, NEW y \in Nat, a <= b, e <= f, x + (b - a) * f <= y
  PROVE  (x + p * e) + ((b + q) - (a + p)) * e <= y + q * e
  <1>1. PICK k \in Nat : b = a + k
    <2>1. b - a \in Nat /\ b = a + (b - a)
      OBVIOUS
    <2> QED BY <2>1
  <1>2. (b + q) - (a + p) = (k + q) - p /\ b - a = k
    BY <1>1
  <1>3. k * e <= k * f
    BY SMT
  <1>4. ((k + q) - p) * e = (k * e + q * e) - p * e
    BY SMT
  <1>5. k * e \in Nat /\ k * f \in Nat /\ p * e \in Nat /\ q * e \in Nat
    BY SMT
  <1> DEFINE ke == k * e
             kf == k * f
             pe == p * e
             qe == q * e
  <1>6. x + kf <= y
    BY <1>2
  <1>7. ((b + q) - (a + p)) * e = (ke + qe) - pe
    BY <1>2, <1>4
  <1>8. ke \in Nat /\ kf \in Nat /\ pe \in Nat /\ qe \in Nat /\ ke <= kf
    BY <1>3, <1>5
  <1> HIDE DEF ke, kf, pe, qe
  <1>9. (x + pe) + ((ke + qe) - pe) <= y + qe
    BY <1>6, <1>8
  <1> QED BY <1>7, <1>9 DEF pe, qe

LEMMA WeightedEnd ==
  ASSUME NEW a \in Nat, NEW b \in Nat, NEW e \in Nat, NEW u \in Nat, NEW v \in Nat,
         a <= b, u + (b - a) * e <= v
  PROVE  u <= v
  <1>1. b - a \in Nat
    OBVIOUS
  <1>2. \A p, q \in Nat : p * q \in Nat
    BY SMT
  <1>3. (b - a) * e \in Nat
    BY <1>1, <1>2
  <1> DEFINE w == (b - a) * e
  <1>4. w \in Nat /\ u + w <= v
    BY <1>3
  <1> HIDE DEF w
  <1> QED BY <1>4

\* A[t] is the sum of the first t values of x, X[t] the same with weights d.
AddsUp(A, x, n) ==
    /\ A \in [0 .. n -> Nat] /\ x \in [1 .. n -> Nat]
    /\ A[0] = 0 /\ \A t \in 0 .. n - 1 : A[t + 1] = A[t] + x[t + 1]

AddsUpWeighted(X, x, d, n) ==
    /\ X \in [0 .. n -> Nat]
    /\ X[0] = 0 /\ \A t \in 0 .. n - 1 : X[t + 1] = X[t] + x[t + 1] * d[t + 1]

Weights(d, n) == d \in [1 .. n -> Nat] /\ \A t \in 1 .. n - 1 : d[t + 1] <= d[t]

\* With weights that fall, what adds up to less at every time adds up to less in the end.
LEMMA FallingWeights ==
  ASSUME NEW n \in Nat, NEW d, Weights(d, n), NEW x, NEW y, NEW A, NEW B, NEW X, NEW Y,
         AddsUp(A, x, n), AddsUp(B, y, n), AddsUpWeighted(X, x, d, n), AddsUpWeighted(Y, y, d, n),
         \A t \in 0 .. n : A[t] <= B[t]
  PROVE  X[n] <= Y[n]
  <1> USE DEF Weights, AddsUp, AddsUpWeighted
  <1> DEFINE Good == {t \in Nat : t \in 1 .. n => X[t] + (B[t] - A[t]) * d[t] <= Y[t]}
  <1>1. 0 \in Good
    OBVIOUS
  <1>2. ASSUME NEW t \in Nat, t \in Good PROVE t + 1 \in Good
    <2>1. ASSUME t + 1 \in 1 .. n
          PROVE  X[t + 1] + (B[t + 1] - A[t + 1]) * d[t + 1] <= Y[t + 1]
      <3>1. t \in 0 .. n - 1 /\ t \in 0 .. n
        BY <2>1
      <3> DEFINE f == IF t = 0 THEN d[t + 1] ELSE d[t]
      <3>2. /\ x[t + 1] \in Nat /\ y[t + 1] \in Nat /\ d[t + 1] \in Nat
        BY <2>1
      <3>3. A[t] \in Nat /\ B[t] \in Nat /\ X[t] \in Nat /\ Y[t] \in Nat /\ A[t] <= B[t]
        BY <3>1
      <3>4. f \in Nat /\ d[t + 1] <= f /\ X[t] + (B[t] - A[t]) * f <= Y[t]
        <4>1. CASE t = 0
          <5>1. X[t] + (B[t] - A[t]) * f = 0 /\ Y[t] = 0
            BY <3>2, <4>1
          <5> QED BY <3>2, <4>1, <5>1
        <4>2. CASE t # 0
          <5>1. t \in 1 .. n /\ t \in 1 .. n - 1
            BY <2>1, <4>2
          <5> QED BY <1>2, <4>2, <5>1
        <4> QED BY <4>1, <4>2
      <3> HIDE DEF f
      <3>5. (X[t] + x[t + 1] * d[t + 1])
              + ((B[t] + y[t + 1]) - (A[t] + x[t + 1])) * d[t + 1] <= Y[t] + y[t + 1] * d[t + 1]
        BY <3>2, <3>3, <3>4, WeightedStep
      <3> QED BY <3>1, <3>5
    <2> QED BY <2>1
  <1>3. \A t \in Nat : t \in Good
    <2> HIDE DEF Good
    <2> QED BY <1>1, <1>2, Inductive
  <1>4. CASE n = 0
    BY <1>4
  <1>5. CASE n # 0
    <2>1. n \in 1 .. n /\ n \in 0 .. n
      BY <1>5
    <2>2. X[n] + (B[n] - A[n]) * d[n] <= Y[n] /\ A[n] <= B[n]
      BY <1>3, <2>1
    <2>3. d[n] \in Nat /\ X[n] \in Nat /\ Y[n] \in Nat /\ A[n] \in Nat /\ B[n] \in Nat
      BY <2>1
    <2> DEFINE a == A[n]
               b == B[n]
               e == d[n]
               u == X[n]
               v == Y[n]
    <2>4. /\ a \in Nat /\ b \in Nat /\ e \in Nat /\ u \in Nat /\ v \in Nat
          /\ a <= b /\ u + (b - a) * e <= v
      BY <2>2, <2>3
    <2> HIDE DEF a, b, e, u, v
    <2>5. u <= v
      BY <2>4, WeightedEnd
    <2> QED BY <2>5 DEF u, v
  <1> QED BY <1>4, <1>5

-----------------------------------------------------------------------------
(***************************************************************************)
(* EvaluationMetrics.  A hit is found at the first position that matches;  *)
(* the gains of the positions are discounted, and no order of them gains   *)
(* more than the falling one.                                              *)
(***************************************************************************)
LEMMA MetricsInitInv == Scores!MetricsAssumption /\ Scores!Init => Scores!MetricsInv
  <1> SUFFICES ASSUME Scores!MetricsAssumption, Scores!Init PROVE Scores!MetricsInv
    OBVIOUS
  <1>1. ASSUME NEW n \in Nat, NEW s \in Scores!SeqsUpTo(Ids, n)
        PROVE  s \in Seq(Ids) /\ Len(s) <= n
    <2>1. PICK k \in 0 .. n : s \in [1 .. k -> Ids]
      BY DEF Scores!SeqsUpTo
    <2>2. Len(s) = k /\ s \in Seq(Ids)
      BY <2>1
    <2> QED BY <2>2
  <1>2. s1 \in Seq(Ids) /\ \A i, j \in DOMAIN s1 : s1[i] = s1[j] => i = j
    <2>1. s1 \in Scores!SeqsUpTo(Ids, 2) /\ \A i, j \in DOMAIN s1 : s1[i] = s1[j] => i = j
      BY DEF Scores!Init
    <2> QED BY <1>1, <2>1
  <1>3. s3 \in [Ids -> Nat]
    <2>1. s3 \in [Ids -> CaseGrades \cup {0}]
      BY DEF Scores!Init
    <2>2. CaseGrades \cup {0} \subseteq Nat
      BY DEF Scores!MetricsAssumption
    <2> QED BY <2>1, <2>2
  <1>4. s5 \in Seq(Ids) /\ Len(s5) <= ScoredTopK
    <2>1. ScoredTopK \in Nat
      BY DEF Scores!MetricsAssumption
    <2>2. CASE s7
      <3>1. s5 = <<>>
        BY <2>2 DEF Scores!Init
      <3> QED BY <2>1, <3>1
    <2>3. CASE ~s7
      <3>1. s5 \in Scores!SeqsUpTo(Ids, ScoredTopK)
        BY <2>3 DEF Scores!Init
      <3> QED BY <1>1, <2>1, <3>1
    <2> QED BY <2>2, <2>3
  <1>5. s8 = <<>>
    BY DEF Scores!Init
  <1> QED BY <1>2, <1>3, <1>4, <1>5 DEF Scores!MetricsInv, Scores!CaseTypes

LEMMA MetricsNextInv ==
  ASSUME Scores!MetricsInv, [Scores!Next]_Scores!vars
  PROVE  Scores!MetricsInv'
  <1>1. UNCHANGED <<s1, s2, s3, s4, s5, s6, s7>>
    BY DEF Scores!Next, Scores!Score, Scores!vars
  <1>2. Scores!CaseTypes'
    BY <1>1 DEF Scores!MetricsInv, Scores!CaseTypes
  <1>3. Scores!CalculateCaseMetrics' = Scores!CalculateCaseMetrics
    <2> USE <1>1 DEF Scores!Matches, Scores!Wanted, Scores!IdOfHash, Scores!MatchedBefore,
                     Scores!NewHit, Scores!Gain, Scores!Graded
    <2>1. Scores!HitPositions' = Scores!HitPositions
      BY DEF Scores!HitPositions
    <2>2. Scores!DCG' = Scores!DCG
      BY DEF Scores!DCG, Scores!MapThenSumSet, Scores!MapThenFoldSet
    <2>3. Scores!IDCG' = Scores!IDCG
      <3>1. Scores!IdealOrder' = Scores!IdealOrder
        BY DEF Scores!IdealOrder, Scores!Bijection, Scores!Injection, Scores!Surjection,
               Scores!IsInjective
      <3> QED BY <3>1 DEF Scores!IDCG, Scores!MapThenSumSet, Scores!MapThenFoldSet
    <2> QED BY <2>1, <2>2, <2>3 DEF Scores!CalculateCaseMetrics, Scores!Passed
  <1>4. s8' = s8 \/ s8' = Scores!CalculateCaseMetrics
    BY DEF Scores!Next, Scores!Score, Scores!vars
  <1> QED BY <1>2, <1>3, <1>4 DEF Scores!MetricsInv

\* A returned chunk stands for at most one expected one.
LEMMA MatchesOne ==
  ASSUME Scores!CaseTypes, NEW c
  PROVE  Scores!Matches(c) = {} \/ \E e \in Scores!Wanted : Scores!Matches(c) = {e}
  <1> DEFINE Same == {i \in DOMAIN s1 : s2[s1[i]] = s2[c]}
             Last == CHOOSE i \in DOMAIN s1 : s2[s1[i]] = s2[c] /\ \A j \in DOMAIN s1 :
                        s2[s1[j]] = s2[c] => j <= i
  <1>1. Scores!Wanted = {s1[i] : i \in DOMAIN s1} /\ DOMAIN s1 = 1 .. Len(s1) /\ Len(s1) \in Nat
    BY DEF Scores!Wanted, Scores!Range, Scores!CaseTypes
  <1>2. ASSUME Same # {} PROVE Last \in DOMAIN s1
    <2> DEFINE T == {Len(s1) - i : i \in Same}
    <2>1. \A i \in Same : Len(s1) - i \in Nat
      BY <1>1
    <2>2. PICK m \in T : \A d \in T : m <= d
      <3>1. T \in SUBSET Nat /\ T # {}
        BY <1>2, <2>1
      <3> HIDE DEF T
      <3> QED BY <3>1, LeastExists
    <2>3. PICK i \in Same : m = Len(s1) - i
      OBVIOUS
    <2>4. \A j \in Same : Len(s1) - i <= Len(s1) - j /\ j \in Int /\ i \in Int
      BY <1>1, <2>2, <2>3
    <2>5. \A j \in Same : j <= i
      BY <1>1, <2>4
    <2> QED BY <2>5
  <1>3. CASE c \in Scores!Wanted
    BY <1>3 DEF Scores!Matches
  <1>4. CASE c \notin Scores!Wanted /\ s2[c] # None /\ \E e \in Scores!Wanted : s2[e] = s2[c]
    <2>1. Same # {}
      BY <1>1, <1>4
    <2>2. Scores!Matches(c) = {s1[Last]}
      BY <1>4 DEF Scores!Matches, Scores!IdOfHash
    <2> HIDE DEF Last
    <2> QED BY <1>1, <1>2, <2>1, <2>2
  <1>5. CASE c \notin Scores!Wanted /\ ~(s2[c] # None /\ \E e \in Scores!Wanted : s2[e] = s2[c])
    BY <1>5 DEF Scores!Matches
  <1> QED BY <1>3, <1>4, <1>5

\* The chunks found by the first n of those returned, and the first n of the ideal order.
FoundBy(n) == UNION {Scores!Matches(s5[j]) : j \in 1 .. n}

LEMMA WantedIsFinite ==
  ASSUME Scores!CaseTypes
  PROVE  /\ IsFiniteSet(Scores!Wanted) /\ Cardinality(Scores!Wanted) = Len(s1)
         /\ Len(s1) \in Nat /\ Scores!Wanted \subseteq Ids /\ Len(s5) \in Nat
         /\ \A x \in Scores!Wanted : s3[x] \in Nat
  <1>1. /\ Scores!Wanted = {s1[i] : i \in DOMAIN s1} /\ DOMAIN s1 = 1 .. Len(s1) /\ Len(s1) \in Nat
        /\ Len(s5) \in Nat
    BY DEF Scores!Wanted, Scores!Range, Scores!CaseTypes
  <1>2. IsFiniteSet(1 .. Len(s1)) /\ Cardinality(1 .. Len(s1)) = Len(s1)
    BY <1>1, UpTo
  <1>3. s1 \in [1 .. Len(s1) -> Scores!Wanted]
    <2>1. s1 = [i \in 1 .. Len(s1) |-> s1[i]]
      BY <1>1 DEF Scores!CaseTypes
    <2> QED BY <1>1, <2>1
  <1>4. s1 \in Surjection(1 .. Len(s1), Scores!Wanted)
    BY <1>1, <1>3 DEF Surjection
  <1>5. s1 \in Injection(1 .. Len(s1), Scores!Wanted)
    BY <1>1, <1>3 DEF Injection, IsInjective, Scores!CaseTypes
  <1>6. IsFiniteSet(Scores!Wanted) /\ Cardinality(Scores!Wanted) = Len(s1)
    BY <1>2, <1>4, <1>5, FS_Surjection
  <1>7. \A i \in DOMAIN s1 : s1[i] \in Ids
    BY <1>1 DEF Scores!CaseTypes
  <1>8. Scores!Wanted \subseteq Ids
    BY <1>1, <1>7
  <1>9. \A x \in Scores!Wanted : s3[x] \in Nat
    BY <1>8 DEF Scores!CaseTypes
  <1> QED BY <1>1, <1>6, <1>8, <1>9

\* What is new at a position is none or one of the expected chunks, and is not found before.
LEMMA FoundNext ==
  ASSUME Scores!CaseTypes, NEW n \in Nat
  PROVE  /\ FoundBy(n + 1) = FoundBy(n) \cup Scores!NewHit(n + 1)
         /\ FoundBy(n) \cap Scores!NewHit(n + 1) = {}
         /\ \/ Scores!NewHit(n + 1) = {}
            \/ \E e \in Scores!Wanted : Scores!NewHit(n + 1) = {e}
         /\ FoundBy(n) \subseteq Scores!Wanted
  <1>1. /\ \A j \in 1 .. n + 1 : j \in 1 .. n \/ j = n + 1
        /\ \A j \in 1 .. n : j \in 1 .. n + 1
        /\ n + 1 \in 1 .. n + 1 /\ (n + 1) - 1 = n
    OBVIOUS
  <1>2. Scores!NewHit(n + 1) = Scores!Matches(s5[n + 1]) \ FoundBy(n)
    BY <1>1 DEF Scores!NewHit, Scores!MatchedBefore, FoundBy
  <1>3. FoundBy(n + 1) = FoundBy(n) \cup Scores!Matches(s5[n + 1])
    BY <1>1 DEF FoundBy
  <1>4. \/ Scores!Matches(s5[n + 1]) = {}
        \/ \E e \in Scores!Wanted : Scores!Matches(s5[n + 1]) = {e}
    BY MatchesOne
  <1>5. FoundBy(n) \subseteq Scores!Wanted
    BY MatchesOne DEF FoundBy
  <1> QED BY <1>2, <1>3, <1>4, <1>5

\* Every hit is one expected chunk.
LEMMA HitsAreFound ==
  ASSUME Scores!CaseTypes
  PROVE  /\ Cardinality(Scores!HitPositions) = Cardinality(FoundBy(Len(s5)))
         /\ Cardinality(Scores!HitPositions) \in Nat
         /\ Cardinality(Scores!HitPositions) <= Len(s1)
  <1> DEFINE Hits(n) == {i \in 1 .. n : Scores!NewHit(i) # {}}
             Good == {n \in Nat : /\ IsFiniteSet(Hits(n)) /\ IsFiniteSet(FoundBy(n))
                                  /\ Cardinality(Hits(n)) = Cardinality(FoundBy(n))}
  <1>1. 0 \in Good
    <2>1. Hits(0) = {} /\ FoundBy(0) = {}
      BY DEF FoundBy
    <2> QED BY <2>1, FS_EmptySet
  <1>2. ASSUME NEW n \in Nat, n \in Good PROVE n + 1 \in Good
    <2>1. /\ \A j \in 1 .. n + 1 : j \in 1 .. n \/ j = n + 1
          /\ \A j \in 1 .. n : j \in 1 .. n + 1
          /\ n + 1 \in 1 .. n + 1 /\ n + 1 \notin 1 .. n /\ n + 1 \in Nat
      OBVIOUS
    <2>2. CASE Scores!NewHit(n + 1) = {}
      <3>1. Hits(n + 1) = Hits(n)
        BY <2>1, <2>2
      <3>2. FoundBy(n + 1) = FoundBy(n)
        BY <2>2, FoundNext
      <3> QED BY <1>2, <2>1, <3>1, <3>2
    <2>3. ASSUME NEW e \in Scores!Wanted, Scores!NewHit(n + 1) = {e} PROVE n + 1 \in Good
      <3>1. Hits(n + 1) = Hits(n) \cup {n + 1} /\ n + 1 \notin Hits(n)
        BY <2>1, <2>3
      <3>2. FoundBy(n + 1) = FoundBy(n) \cup {e} /\ e \notin FoundBy(n)
        BY <2>3, FoundNext
      <3>3. /\ IsFiniteSet(Hits(n + 1)) /\ Cardinality(Hits(n + 1)) = Cardinality(Hits(n)) + 1
            /\ IsFiniteSet(FoundBy(n + 1))
            /\ Cardinality(FoundBy(n + 1)) = Cardinality(FoundBy(n)) + 1
        <4> HIDE DEF Hits
        <4> QED BY <1>2, <3>1, <3>2, FS_AddElement DEF Good
      <3> HIDE DEF Hits
      <3> QED BY <1>2, <2>1, <3>3 DEF Good
    <2> QED BY <2>2, <2>3, FoundNext
  <1>3. \A n \in Nat : n \in Good
    <2> HIDE DEF Good
    <2> QED BY <1>1, <1>2, Inductive
  <1>4. Hits(Len(s5)) = Scores!HitPositions /\ Len(s5) \in Nat
    BY DEF Scores!HitPositions, Scores!CaseTypes
  <1>5. FoundBy(Len(s5)) \in SUBSET Scores!Wanted
    BY <1>4, FoundNext
  <1>6. Cardinality(FoundBy(Len(s5))) <= Len(s1) /\ Cardinality(FoundBy(Len(s5))) \in Nat
    BY <1>5, WantedIsFinite, FS_Subset, FS_CardinalityType
  <1> QED BY <1>3, <1>4, <1>6

\* The gain of a position is the grade of its hit times the discount.
LEMMA GainOfHit ==
  ASSUME Scores!MetricsAssumption, Scores!CaseTypes, NEW i \in 1 .. Len(s5)
  PROVE  /\ Scores!Gain(i) = SumOver(s3, Scores!NewHit(i)) * Discount[i]
         /\ SumOver(s3, Scores!NewHit(i)) \in Nat /\ Discount[i] \in Nat
  <1>1. Discount[i] \in Nat
    BY DEF Scores!MetricsAssumption, Scores!CaseTypes
  <1>2. CASE Scores!NewHit(i) = {}
    <2>1. SumOver(s3, {}) = 0
      BY SumEmpty
    <2>2. Scores!Gain(i) = 0
      <3> DEFINE g == [e \in {} |-> 0]
      <3>1. PICK F : IsSum(F, g, {})
        BY SumExists, FS_EmptySet
      <3>2. F = [s \in SUBSET {} |-> IF s = {} THEN 0
                   ELSE s3[CHOOSE e \in s : TRUE] * Discount[i] + F[s \ {CHOOSE e \in s : TRUE}]]
        BY <3>1 DEF IsSum
      <3> DEFINE G == CHOOSE G : G = [s \in SUBSET {} |-> IF s = {} THEN 0
                   ELSE s3[CHOOSE e \in s : TRUE] * Discount[i] + G[s \ {CHOOSE e \in s : TRUE}]]
      <3>3. G = [s \in SUBSET {} |-> IF s = {} THEN 0
                   ELSE s3[CHOOSE e \in s : TRUE] * Discount[i] + G[s \ {CHOOSE e \in s : TRUE}]]
        BY <3>2
      <3>4. Scores!Gain(i) = G[{}]
        BY <1>2 DEF Scores!Gain, Scores!MapThenSumSet, Scores!MapThenFoldSet
      <3> HIDE DEF G
      <3> QED BY <3>3, <3>4
    <2> QED BY <1>1, <1>2, <2>1, <2>2
  <1>3. ASSUME NEW e \in Scores!Wanted, Scores!NewHit(i) = {e}
        PROVE  /\ Scores!Gain(i) = SumOver(s3, Scores!NewHit(i)) * Discount[i]
               /\ SumOver(s3, Scores!NewHit(i)) \in Nat
    <2>1. s3[e] \in Nat
      BY WantedIsFinite
    <2>2. SumOver(s3, {e}) = s3[e]
      BY <2>1, SumSingle
    <2>3. Scores!Gain(i) = s3[e] * Discount[i]
      <3> DEFINE g == [x \in {e} |-> s3[x] * Discount[i]]
      <3>1. PICK F : IsSum(F, g, {e})
        <4>1. s3[e] * Discount[i] \in Nat
          BY <1>1, <2>1
        <4>2. \A x \in {e} : g[x] \in Nat
          BY <4>1
        <4> HIDE DEF g
        <4> QED BY <4>2, SumExists, FS_Singleton
      <3>2. \A s \in SUBSET {e} : s # {} => (CHOOSE x \in s : TRUE) = e
        OBVIOUS
      <3>3. F = [s \in SUBSET {e} |-> IF s = {} THEN 0
                   ELSE s3[CHOOSE x \in s : TRUE] * Discount[i] + F[s \ {CHOOSE x \in s : TRUE}]]
        BY <3>1, <3>2 DEF IsSum
      <3> DEFINE G == CHOOSE G : G = [s \in SUBSET {e} |-> IF s = {} THEN 0
                   ELSE s3[CHOOSE x \in s : TRUE] * Discount[i] + G[s \ {CHOOSE x \in s : TRUE}]]
      <3>4. G = [s \in SUBSET {e} |-> IF s = {} THEN 0
                   ELSE s3[CHOOSE x \in s : TRUE] * Discount[i] + G[s \ {CHOOSE x \in s : TRUE}]]
        BY <3>3
      <3>5. Scores!Gain(i) = G[{e}]
        BY <1>3 DEF Scores!Gain, Scores!MapThenSumSet, Scores!MapThenFoldSet
      <3> HIDE DEF G
      <3>6. G[{}] = 0
        BY <3>4
      <3>7. {e} \in SUBSET {e} /\ {e} # {} /\ {e} \ {e} = {} /\ (CHOOSE x \in {e} : TRUE) = e
        BY <3>2
      <3>8. G[{e}] = s3[e] * Discount[i] + G[{}]
        BY <3>4, <3>7
      <3>9. s3[e] * Discount[i] \in Nat
        BY <1>1, <2>1
      <3> QED BY <3>5, <3>6, <3>8, <3>9
    <2> QED BY <1>3, <2>1, <2>2, <2>3
  <1>4. i \in Nat /\ i - 1 \in Nat /\ (i - 1) + 1 = i
    BY WantedIsFinite
  <1>5. Scores!NewHit(i) = {} \/ \E e \in Scores!Wanted : Scores!NewHit(i) = {e}
    BY <1>4, FoundNext
  <1>6. SumOver(s3, {}) \in Nat
    BY SumEmpty
  <1> QED BY <1>1, <1>2, <1>3, <1>5, <1>6

LEMMA DCGIsSum ==
  ASSUME Scores!MetricsAssumption, Scores!CaseTypes
  PROVE  LET gain == [i \in 1 .. Len(s5) |-> SumOver(s3, Scores!NewHit(i)) * Discount[i]]
         IN  Scores!DCG = SumOver(gain, 1 .. Len(s5)) /\ \A i \in 1 .. Len(s5) : gain[i] \in Nat
  <1> DEFINE S == 1 .. Len(s5)
             gain == [i \in S |-> SumOver(s3, Scores!NewHit(i)) * Discount[i]]
  <1>1. IsFiniteSet(S) /\ DOMAIN s5 = S
    BY UpTo, WantedIsFinite DEF Scores!CaseTypes
  <1>2. \A i \in S : gain[i] \in Nat /\ Scores!Gain(i) = gain[i]
    BY GainOfHit
  <1> HIDE DEF S, gain
  <1>3. PICK F : IsSum(F, gain, S)
    BY <1>1, <1>2, SumExists
  <1> DEFINE Eq(G) == G = [s \in SUBSET S |-> IF s = {} THEN 0
                   ELSE Scores!Gain(CHOOSE x \in s : TRUE) + G[s \ {CHOOSE x \in s : TRUE}]]
             G == CHOOSE G : Eq(G)
  <1>4. ASSUME NEW H PROVE Eq(H) <=> IsSum(H, gain, S)
    <2>1. ASSUME NEW s \in SUBSET S, s # {}
          PROVE  Scores!Gain(CHOOSE x \in s : TRUE) = gain[CHOOSE x \in s : TRUE]
      <3>1. (CHOOSE x \in s : TRUE) \in S
        BY <2>1
      <3> QED BY <1>2, <3>1
    <2> QED BY <2>1 DEF IsSum
  <1>5. Scores!DCG = G[S]
    BY <1>1 DEF Scores!DCG, Scores!MapThenSumSet, Scores!MapThenFoldSet
  <1>6. IsSum(G, gain, S)
    <2> HIDE DEF Eq
    <2> QED BY <1>3, <1>4
  <1> HIDE DEF G
  <1>7. G[S] = SumOver(gain, S)
    BY <1>1, <1>2, <1>6, SumOfSubset
  <1> QED BY <1>2, <1>5, <1>7 DEF S, gain

Least(a, b) == IF a < b THEN a ELSE b

LEMMA ScoresCardinality == \A S : Scores!Cardinality(S) = Cardinality(S)
  BY DEF Scores!Cardinality, Cardinality

\* The bijections to a finite set are its lists.
LEMMA BijectionsList ==
  ASSUME NEW S, IsFiniteSet(S), NEW h
  PROVE  h \in Bijection(1 .. Cardinality(S), S) <=> Lists(h, S)
  <1>1. ASSUME Lists(h, S) PROVE h \in Bijection(1 .. Cardinality(S), S)
    <2>1. h \in [1 .. Cardinality(S) -> S] /\ IsInjective(h)
      BY <1>1 DEF Lists, IsInjective
    <2>2. \A x \in S : \E i \in 1 .. Cardinality(S) : h[i] = x
      BY <1>1, ListsAll
    <2> QED BY <2>1, <2>2 DEF Bijection, Injection, Surjection
  <1>2. ASSUME h \in Bijection(1 .. Cardinality(S), S) PROVE Lists(h, S)
    BY <1>2 DEF Lists, Bijection, Injection, Surjection, IsInjective
  <1> QED BY <1>1, <1>2

LEMMA ScoresBijection ==
  ASSUME NEW S
  PROVE  Scores!Bijection(1 .. Scores!Cardinality(S), S) = Bijection(1 .. Cardinality(S), S)
  BY ScoresCardinality DEF Scores!Bijection, Scores!Injection, Scores!Surjection,
     Scores!IsInjective, Bijection, Injection, Surjection, IsInjective

LEMMA GradedIsFinite ==
  ASSUME Scores!MetricsAssumption, Scores!CaseTypes
  PROVE  /\ IsFiniteSet(Scores!Graded) /\ Cardinality(Scores!Graded) \in Nat
         /\ Scores!Wanted \subseteq Scores!Graded /\ Len(s5) \in Nat
         /\ \A x \in Scores!Graded : s3[x] \in Nat
  <1>1. IsFiniteSet(Ids)
    BY DEF Scores!MetricsAssumption, Scores!IsFiniteSet, IsFiniteSet
  <1>2. Scores!Graded \in SUBSET Ids /\ Scores!Wanted \subseteq Scores!Graded
    BY WantedIsFinite DEF Scores!Graded
  <1>3. IsFiniteSet(Scores!Graded) /\ Cardinality(Scores!Graded) \in Nat
    BY <1>1, <1>2, FS_Subset, FS_CardinalityType
  <1>4. Len(s5) \in Nat /\ s3 \in [Ids -> Nat]
    BY DEF Scores!CaseTypes
  <1> QED BY <1>2, <1>3, <1>4

LEMMA IdealOrderFalls ==
  ASSUME Scores!MetricsAssumption, Scores!CaseTypes
  PROVE  Lists(Scores!IdealOrder, Scores!Graded) /\ Falls(Scores!IdealOrder, s3)
  <1>1. PICK f : Lists(f, Scores!Graded) /\ Falls(f, s3)
    BY GradedIsFinite, SortedListExists
  <1> DEFINE orders == Scores!Bijection(1 .. Scores!Cardinality(Scores!Graded), Scores!Graded)
  <1>2. \A h : h \in orders <=> Lists(h, Scores!Graded)
    BY BijectionsList, ScoresBijection, GradedIsFinite
  <1> DEFINE P(s) == \A i, j \in DOMAIN s : i < j => s3[s[i]] >= s3[s[j]]
  <1>3. \A h : P(h) <=> Falls(h, s3)
    BY DEF Falls
  <1>4. Scores!IdealOrder = CHOOSE s \in orders : P(s)
    BY DEF Scores!IdealOrder
  <1> HIDE DEF P, orders
  <1> QED BY <1>1, <1>2, <1>3, <1>4

LEMMA IDCGIsSum ==
  ASSUME Scores!MetricsAssumption, Scores!CaseTypes
  PROVE  LET last == Least(Cardinality(Scores!Graded), ScoredTopK)
             gain == [i \in 1 .. last |-> s3[Scores!IdealOrder[i]] * Discount[i]]
         IN  /\ Scores!IDCG = SumOver(gain, 1 .. last)
             /\ \A i \in 1 .. last : gain[i] \in Nat /\ s3[Scores!IdealOrder[i]] \in Nat
  <1> DEFINE last == Least(Cardinality(Scores!Graded), ScoredTopK)
             S == 1 .. last
             gain == [i \in S |-> s3[Scores!IdealOrder[i]] * Discount[i]]
  <1>1. last \in Nat /\ last <= Cardinality(Scores!Graded) /\ last <= ScoredTopK /\ Cardinality(Scores!Graded) \in Nat
    BY GradedIsFinite DEF Least, Scores!MetricsAssumption
  <1>2. IsFiniteSet(S) /\ S = 1 .. IF Cardinality(Scores!Graded) < ScoredTopK THEN Cardinality(Scores!Graded) ELSE ScoredTopK
    BY <1>1, UpTo DEF Least
  <1>3. ASSUME NEW i \in S PROVE s3[Scores!IdealOrder[i]] \in Nat /\ Discount[i] \in Nat
    <2>1. i \in 1 .. Cardinality(Scores!Graded) /\ i \in 1 .. ScoredTopK
      <3>1. ScoredTopK \in Nat
        BY DEF Scores!MetricsAssumption
      <3> HIDE DEF last
      <3> QED BY <1>1, <3>1
    <2>2. Scores!IdealOrder[i] \in Scores!Graded
      BY <2>1, IdealOrderFalls, GradedIsFinite DEF Lists
    <2> QED BY <2>1, <2>2, GradedIsFinite DEF Scores!MetricsAssumption
  <1>4. \A p, q \in Nat : p * q \in Nat
    BY SMT
  <1>5. \A i \in S : gain[i] \in Nat /\ gain[i] = s3[Scores!IdealOrder[i]] * Discount[i]
    <2> HIDE DEF S
    <2> QED BY <1>3, <1>4
  <1> HIDE DEF S, gain, last
  <1>6. PICK F : IsSum(F, gain, S)
    BY <1>2, <1>5, SumExists
  <1> DEFINE Eq(G) == G = [s \in SUBSET S |-> IF s = {} THEN 0
                   ELSE s3[Scores!IdealOrder[CHOOSE x \in s : TRUE]] * Discount[CHOOSE x \in s : TRUE]
                          + G[s \ {CHOOSE x \in s : TRUE}]]
             G == CHOOSE G : Eq(G)
  <1>7. ASSUME NEW H PROVE Eq(H) <=> IsSum(H, gain, S)
    <2>1. ASSUME NEW s \in SUBSET S, s # {}
          PROVE  s3[Scores!IdealOrder[CHOOSE x \in s : TRUE]] * Discount[CHOOSE x \in s : TRUE]
                   = gain[CHOOSE x \in s : TRUE]
      <3>1. (CHOOSE x \in s : TRUE) \in S
        BY <2>1
      <3> QED BY <1>5, <3>1
    <2> QED BY <2>1 DEF IsSum
  <1>8. Scores!IDCG = G[S]
    BY <1>2, ScoresCardinality DEF Scores!IDCG, Scores!MapThenSumSet, Scores!MapThenFoldSet
  <1>9. IsSum(G, gain, S)
    <2> HIDE DEF Eq
    <2> QED BY <1>6, <1>7
  <1> HIDE DEF G
  <1>10. G[S] = SumOver(gain, S)
    <2>1. \A i \in S : gain[i] \in Nat
      BY <1>5
    <2>2. S \in SUBSET S /\ IsFiniteSet(S)
      BY <1>2
    <2> HIDE DEF Eq
    <2> QED BY <1>9, <2>1, <2>2, SumOfSubset
  <1> QED BY <1>3, <1>5, <1>8, <1>10 DEF S, gain, last

\* The gain of what is returned, at every discount that falls with the position, is at most the
\* gain of what has grades in the falling order of their grades: after any number of
\* positions the grades found add up to no more than as many grades of the ideal order.
LEMMA GainIsAtMostIdeal ==
  ASSUME Scores!MetricsAssumption, Scores!CaseTypes
  PROVE  Scores!DCG <= Scores!IDCG
  <1> DEFINE m == Cardinality(Scores!Graded)
             n == Len(s5)
             last == Least(m, ScoredTopK)
             ideal == Scores!IdealOrder
             gain == [i \in 1 .. n |-> SumOver(s3, Scores!NewHit(i)) * Discount[i]]
             best == [i \in 1 .. last |-> s3[ideal[i]] * Discount[i]]
             First(t) == {ideal[j] : j \in 1 .. Least(t, m)}
             x == [t \in 1 .. n |-> SumOver(s3, Scores!NewHit(t))]
             y == [t \in 1 .. n |-> IF t <= m THEN s3[ideal[t]] ELSE 0]
             A == [t \in 0 .. n |-> SumOver(s3, FoundBy(t))]
             B == [t \in 0 .. n |-> SumOver(s3, First(t))]
             X == [t \in 0 .. n |-> SumOver(gain, 1 .. t)]
             Y == [t \in 0 .. n |-> SumOver(best, 1 .. Least(t, m))]
             d == [t \in 1 .. n |-> Discount[t]]
  <1>1. /\ m \in Nat /\ n \in Nat /\ ScoredTopK \in Nat /\ n <= ScoredTopK
        /\ \A t \in Scores!Graded : s3[t] \in Nat
        /\ IsFiniteSet(Scores!Graded) /\ Cardinality(Scores!Graded) = m
    BY GradedIsFinite DEF Scores!MetricsAssumption, Scores!CaseTypes
  <1>20. last \in Nat
    BY <1>1 DEF Least
  <1>2. Scores!DCG = SumOver(gain, 1 .. n) /\ \A i \in 1 .. n : gain[i] \in Nat
    BY DCGIsSum
  <1>3. Scores!IDCG = SumOver(best, 1 .. last) /\ \A i \in 1 .. last : best[i] \in Nat
    BY IDCGIsSum
  <1>4. /\ ideal \in [1 .. m -> Scores!Graded] /\ Lists(ideal, Scores!Graded) /\ Falls(ideal, s3)
        /\ \A i, j \in 1 .. m : i # j => ideal[i] # ideal[j]
    BY <1>1, IdealOrderFalls DEF Lists
  <1>5. \A t \in 1 .. n : x[t] \in Nat /\ d[t] \in Nat /\ gain[t] = x[t] * d[t]
    BY GainOfHit
  <1>6. \A t \in 1 .. n : y[t] \in Nat
    BY <1>1, <1>4
  <1>7. ASSUME NEW t \in 0 .. n
        PROVE  /\ t \in Nat /\ Least(t, m) \in 0 .. m /\ Least(t, m) \in 0 .. last
               /\ Least(t, m) \in 0 .. t
    BY <1>1 DEF Least
  <1>8. ASSUME NEW t \in 0 .. n
        PROVE  /\ IsFiniteSet(1 .. t) /\ IsFiniteSet(1 .. Least(t, m))
               /\ X[t] \in Nat /\ Y[t] \in Nat
    <2>1. IsFiniteSet(1 .. t) /\ IsFiniteSet(1 .. Least(t, m))
      BY <1>7, UpTo
    <2>2. \A i \in 1 .. t : gain[i] \in Nat
      <3> HIDE DEF gain
      <3> QED BY <1>2, <1>7
    <2>3. \A i \in 1 .. Least(t, m) : i \in 1 .. last
      <3> HIDE DEF last
      <3> QED BY <1>7, <1>20
    <2>4. \A i \in 1 .. Least(t, m) : best[i] \in Nat
      BY <1>3, <2>3
    <2> HIDE DEF gain, best
    <2> QED BY <2>1, <2>2, <2>4, SumNat
  <1>9. ASSUME NEW t \in 0 .. n
        PROVE  /\ FoundBy(t) \in SUBSET Scores!Graded /\ First(t) \in SUBSET Scores!Graded
               /\ IsFiniteSet(FoundBy(t)) /\ IsFiniteSet(First(t))
               /\ A[t] \in Nat /\ B[t] \in Nat
    <2>1. FoundBy(t) \in SUBSET Scores!Graded
      BY <1>7, FoundNext, GradedIsFinite
    <2>2. First(t) \in SUBSET Scores!Graded
      <3>1. \A j \in 1 .. Least(t, m) : j \in 1 .. m
        <4>1. m \in Nat /\ Least(t, m) \in 0 .. m
          BY <1>1, <1>7
        <4> HIDE DEF m
        <4> QED BY <4>1
      <3>2. \A j \in 1 .. m : ideal[j] \in Scores!Graded
        BY <1>4
      <3> HIDE DEF m, ideal
      <3> QED BY <3>1, <3>2
    <2>3. \A s \in SUBSET Scores!Graded : IsFiniteSet(s) /\ SumOver(s3, s) \in Nat
      BY <1>1, FS_Subset, SumNat
    <2> QED BY <2>1, <2>2, <2>3
  <1>10. A[0] = 0 /\ B[0] = 0 /\ X[0] = 0 /\ Y[0] = 0
    <2>1. FoundBy(0) = {} /\ 1 .. 0 = {} /\ Least(0, m) = 0
      BY <1>1 DEF FoundBy, Least
    <2>2. First(0) = {}
      BY <2>1
    <2>3. SumOver(s3, {}) = 0 /\ SumOver(gain, {}) = 0 /\ SumOver(best, {}) = 0
      BY SumEmpty
    <2>4. 0 \in 0 .. n
      BY <1>1
    <2> HIDE DEF First, gain, best
    <2> QED BY <2>1, <2>2, <2>3, <2>4
  <1>11. ASSUME NEW t \in 0 .. n - 1
         PROVE  /\ A[t + 1] = A[t] + x[t + 1] /\ B[t + 1] = B[t] + y[t + 1]
                /\ X[t + 1] = X[t] + x[t + 1] * d[t + 1] /\ Y[t + 1] = Y[t] + y[t + 1] * d[t + 1]
    <2>1. /\ t \in 0 .. n /\ t + 1 \in 0 .. n /\ t + 1 \in 1 .. n /\ t \in Nat
          /\ 1 .. t + 1 = (1 .. t) \cup {t + 1} /\ t + 1 \notin 1 .. t
      BY <1>1
    <2>2. A[t + 1] = A[t] + x[t + 1]
      <3>4. /\ A[t + 1] = SumOver(s3, FoundBy(t + 1)) /\ A[t] = SumOver(s3, FoundBy(t))
            /\ x[t + 1] = SumOver(s3, Scores!NewHit(t + 1)) /\ A[t] \in Nat
        BY <1>9, <2>1
      <3> HIDE DEF A, x
      <3>1. FoundBy(t + 1) = FoundBy(t) \cup Scores!NewHit(t + 1)
        BY <2>1, FoundNext
      <3>2. CASE Scores!NewHit(t + 1) = {}
        <4>1. SumOver(s3, {}) = 0 /\ FoundBy(t + 1) = FoundBy(t)
          BY <3>1, <3>2, SumEmpty
        <4>2. x[t + 1] = 0 /\ A[t + 1] = A[t]
          BY <3>2, <3>4, <4>1, Zenon
        <4> QED BY <3>4, <4>2
      <3>3. ASSUME NEW e \in Scores!Wanted, Scores!NewHit(t + 1) = {e}
            PROVE  A[t + 1] = A[t] + x[t + 1]
        <4>1. e \notin FoundBy(t)
          BY <2>1, <3>3, FoundNext
        <4>2. \A z \in FoundBy(t) \cup {e} : s3[z] \in Nat
          BY <1>1, <1>9, <2>1, GradedIsFinite
        <4>3. SumOver(s3, FoundBy(t) \cup {e}) = SumOver(s3, FoundBy(t)) + s3[e]
          BY <1>9, <2>1, <4>1, <4>2, SumWith
        <4>4. SumOver(s3, {e}) = s3[e]
          BY <1>1, GradedIsFinite, SumSingle
        <4> QED BY <3>1, <3>3, <3>4, <4>3, <4>4
      <3> QED BY <2>1, <3>2, <3>3, FoundNext
    <2>3. X[t + 1] = X[t] + x[t + 1] * d[t + 1]
      <3>1. \A i \in (1 .. t) \cup {t + 1} : gain[i] \in Nat
        <4> HIDE DEF gain
        <4> QED BY <1>2, <2>1
      <3>2. SumOver(gain, (1 .. t) \cup {t + 1}) = SumOver(gain, 1 .. t) + gain[t + 1]
        <4> HIDE DEF gain
        <4> QED BY <1>8, <2>1, <3>1, SumWith
      <3>3. gain[t + 1] = x[t + 1] * d[t + 1]
        BY <1>5, <2>1
      <3> HIDE DEF gain, x, d
      <3> QED BY <2>1, <3>2, <3>3
    <2>4. CASE t + 1 <= m
      <3>1. Least(t + 1, m) = t + 1 /\ Least(t, m) = t /\ t + 1 \in 1 .. m /\ t + 1 \in 1 .. last
        BY <1>1, <2>1, <2>4 DEF Least
      <3> DEFINE a == ideal[t + 1]
      <3>2. First(t + 1) = First(t) \cup {a} /\ a \notin First(t) /\ a \in Scores!Graded
        <4>1. \A j \in 1 .. t : j \in 1 .. m /\ j # t + 1
          BY <1>1, <2>1, <3>1
        <4>2. First(t) = {ideal[j] : j \in 1 .. t} /\ First(t + 1) = {ideal[j] : j \in 1 .. t + 1}
          BY <3>1
        <4> HIDE DEF First
        <4> QED BY <1>4, <2>1, <3>1, <4>1, <4>2
      <3>3. SumOver(s3, First(t) \cup {a}) = SumOver(s3, First(t)) + s3[a]
        <4>1. \A z \in First(t) \cup {a} : s3[z] \in Nat
          BY <1>1, <1>9, <2>1, <3>2
        <4> HIDE DEF First, a
        <4> QED BY <1>9, <2>1, <3>2, <4>1, SumWith
      <3>4. y[t + 1] = s3[a] /\ best[t + 1] = y[t + 1] * d[t + 1]
        BY <2>1, <2>4, <3>1
      <3>5. B[t + 1] = B[t] + y[t + 1]
        <4> HIDE DEF First, a, y
        <4> QED BY <2>1, <3>2, <3>3, <3>4
      <3>6. SumOver(best, (1 .. t) \cup {t + 1}) = SumOver(best, 1 .. t) + best[t + 1]
        <4>1. \A i \in (1 .. t) \cup {t + 1} : i \in 1 .. last
          <5> HIDE DEF last
          <5> QED BY <1>20, <2>1, <3>1
        <4>2. \A i \in (1 .. t) \cup {t + 1} : best[i] \in Nat
          BY <1>3, <4>1
        <4> HIDE DEF best
        <4> QED BY <1>8, <2>1, <4>2, SumWith
      <3>7. Y[t + 1] = Y[t] + y[t + 1] * d[t + 1]
        <4> HIDE DEF best, y, d
        <4> QED BY <2>1, <3>1, <3>4, <3>6
      <3> QED BY <2>2, <2>3, <3>5, <3>7
    <2>5. CASE ~(t + 1 <= m)
      <3>1. Least(t + 1, m) = m /\ Least(t, m) = m
        BY <1>1, <2>1, <2>5 DEF Least
      <3>2. y[t + 1] = 0
        BY <2>1, <2>5
      <3>3. B[t + 1] = B[t] /\ Y[t + 1] = Y[t]
        BY <2>1, <3>1
      <3>4. B[t] \in Nat /\ Y[t] \in Nat /\ d[t + 1] \in Nat
        BY <1>5, <1>8, <1>9, <2>1
      <3>5. 0 * d[t + 1] = 0
        BY <3>4
      <3> HIDE DEF A, B, X, Y, x, y, d
      <3> QED BY <2>2, <2>3, <3>2, <3>3, <3>4, <3>5
    <2> QED BY <2>4, <2>5
  <1>12. ASSUME NEW t \in 0 .. n PROVE A[t] <= B[t]
    <2>1. Cardinality(FoundBy(t)) <= t
      <3> DEFINE Good == {k \in Nat : IsFiniteSet(FoundBy(k)) /\ Cardinality(FoundBy(k)) <= k}
      <3>1. 0 \in Good
        <4>1. FoundBy(0) = {}
          BY DEF FoundBy
        <4> QED BY <4>1, FS_EmptySet
      <3>2. ASSUME NEW k \in Nat, k \in Good PROVE k + 1 \in Good
        <4>1. FoundBy(k + 1) = FoundBy(k) \/ \E e : FoundBy(k + 1) = FoundBy(k) \cup {e}
          BY FoundNext
        <4>2. Cardinality(FoundBy(k)) \in Nat
          BY <3>2, FS_CardinalityType
        <4>3. ASSUME NEW e
              PROVE  /\ IsFiniteSet(FoundBy(k) \cup {e})
                     /\ Cardinality(FoundBy(k) \cup {e}) <= Cardinality(FoundBy(k)) + 1
          <5>1. /\ IsFiniteSet(FoundBy(k) \cup {e})
                /\ \/ Cardinality(FoundBy(k) \cup {e}) = Cardinality(FoundBy(k))
                   \/ Cardinality(FoundBy(k) \cup {e}) = Cardinality(FoundBy(k)) + 1
            BY <3>2, FS_AddElement
          <5> QED BY <4>2, <5>1
        <4>4. IsFiniteSet(FoundBy(k + 1))
              /\ Cardinality(FoundBy(k + 1)) <= Cardinality(FoundBy(k)) + 1
          <5>1. CASE FoundBy(k + 1) = FoundBy(k)
            BY <3>2, <4>2, <5>1
          <5> QED BY <4>1, <4>3, <5>1
        <4>5. Cardinality(FoundBy(k + 1)) \in Nat
          BY <4>4, FS_CardinalityType
        <4> QED BY <3>2, <4>2, <4>4, <4>5
      <3>3. \A k \in Nat : k \in Good
        <4> HIDE DEF Good
        <4> QED BY <3>1, <3>2, Inductive
      <3> QED BY <1>7, <3>3
    <2>2. Cardinality(FoundBy(t)) <= m /\ Cardinality(FoundBy(t)) \in Nat
      BY <1>1, <1>9, FS_Subset, FS_CardinalityType
    <2> DEFINE k == Least(t, m)
    <2>3. k \in Nat /\ k <= m /\ Cardinality(FoundBy(t)) <= k
      BY <1>1, <1>7, <2>1, <2>2 DEF Least
    <2>4. SumOver(s3, FoundBy(t)) <= SumOver(s3, {ideal[i] : i \in 1 .. k})
      <3>1. k \in Nat /\ k <= Cardinality(Scores!Graded) /\ Cardinality(FoundBy(t)) <= k
        BY <1>1, <2>3
      <3>2. FoundBy(t) \in SUBSET Scores!Graded
        BY <1>9
      <3> HIDE DEF k, ideal, m, n
      <3>3. /\ IsFiniteSet(Scores!Graded) /\ \A e \in Scores!Graded : s3[e] \in Nat
            /\ Lists(ideal, Scores!Graded) /\ Falls(ideal, s3)
        BY <1>1, <1>4
      <3> QED BY <3>1, <3>2, <3>3, FirstSumMost
    <2> QED BY <2>4
  <1>13. \A t \in 1 .. n - 1 : d[t + 1] <= d[t]
    <2> SUFFICES ASSUME NEW t \in 1 .. n - 1 PROVE d[t + 1] <= d[t]
      OBVIOUS
    <2>1. t \in 1 .. n /\ t + 1 \in 1 .. n /\ t \in 1 .. ScoredTopK /\ t + 1 \in 1 .. ScoredTopK
          /\ t < t + 1
      BY <1>1
    <2>2. Discount[t] > Discount[t + 1]
      BY <2>1 DEF Scores!MetricsAssumption
    <2>3. Discount[t] \in Nat /\ Discount[t + 1] \in Nat
      BY <2>1 DEF Scores!MetricsAssumption
    <2> QED BY <2>1, <2>2, <2>3
  <1>14. X[n] <= Y[n]
    <2>1. /\ x \in [1 .. n -> Nat] /\ y \in [1 .. n -> Nat] /\ d \in [1 .. n -> Nat]
          /\ A \in [0 .. n -> Nat] /\ B \in [0 .. n -> Nat]
          /\ X \in [0 .. n -> Nat] /\ Y \in [0 .. n -> Nat]
      BY <1>5, <1>6, <1>8, <1>9
    <2> HIDE DEF n, x, y, d, A, B, X, Y
    <2>2. n \in Nat /\ \A t \in 0 .. n : A[t] <= B[t]
      BY <1>1, <1>12
    <2>3. Weights(d, n) /\ AddsUp(A, x, n) /\ AddsUp(B, y, n)
      BY <1>10, <1>11, <1>13, <2>1 DEF Weights, AddsUp
    <2>4. AddsUpWeighted(X, x, d, n) /\ AddsUpWeighted(Y, y, d, n)
      BY <1>10, <1>11, <2>1 DEF AddsUpWeighted
    <2> QED BY <2>2, <2>3, <2>4, FallingWeights, Zenon
  <1>15. SumOver(best, 1 .. Least(n, m)) <= SumOver(best, 1 .. last)
    <2>1. n \in 0 .. n
      BY <1>1
    <2>2. last \in Nat
      BY <1>1 DEF Least
    <2>3. 1 .. Least(n, m) \in SUBSET (1 .. last) /\ IsFiniteSet(1 .. last)
      <3> HIDE DEF last
      <3> QED BY <1>7, <2>1, <2>2, UpTo
    <2> HIDE DEF last, best
    <2> QED BY <1>3, <2>3, SumOfFewer
  <1>16. n \in 0 .. n
    BY <1>1
  <1>17. X[n] = Scores!DCG /\ Y[n] = SumOver(best, 1 .. Least(n, m))
    <2> HIDE DEF best, gain
    <2> QED BY <1>2, <1>16
  <1>18. SumOver(best, 1 .. last) \in Nat
    <2>1. IsFiniteSet(1 .. last)
      BY <1>1, UpTo DEF Least
    <2> HIDE DEF last, best
    <2> QED BY <1>3, <2>1, SumNat
  <1>19. X[n] \in Nat /\ Y[n] \in Nat
    BY <1>8, <1>16
  <1> HIDE DEF X, Y, best, last
  <1> QED BY <1>3, <1>14, <1>15, <1>17, <1>18, <1>19

\* What is returned in the ideal order has the ideal gain, if all of it is expected.
LEMMA IdealHasIdealGain ==
  ASSUME Scores!MetricsAssumption, Scores!CaseTypes, s5 = Scores!IdealOrder,
         Scores!Graded = Scores!Wanted
  PROVE  Scores!DCG = Scores!IDCG
  <1> DEFINE m == Cardinality(Scores!Graded)
             gain == [i \in 1 .. Len(s5) |-> SumOver(s3, Scores!NewHit(i)) * Discount[i]]
             best == [i \in 1 .. m |-> s3[s5[i]] * Discount[i]]
  <1>1. m \in Nat /\ s5 \in [1 .. m -> Scores!Wanted] /\ \A i, j \in 1 .. m : i # j => s5[i] # s5[j]
    BY GradedIsFinite, IdealOrderFalls DEF Lists
  <1>2. Len(s5) = m
    BY <1>1 DEF Scores!CaseTypes
  <1>3. Least(m, ScoredTopK) = m
    <2>1. ScoredTopK \in Nat /\ m <= ScoredTopK
      BY <1>2 DEF Scores!CaseTypes, Scores!MetricsAssumption
    <2> HIDE DEF m
    <2> QED BY <1>1, <2>1 DEF Least
  <1>4. Scores!DCG = SumOver(gain, 1 .. m)
    BY <1>2, DCGIsSum
  <1>5. Scores!IDCG = SumOver(best, 1 .. m) /\ \A i \in 1 .. m : best[i] \in Nat
    BY <1>3, IDCGIsSum
  <1>6. ASSUME NEW i \in 1 .. m PROVE gain[i] = best[i]
    <2>1. \A c \in Scores!Wanted : Scores!Matches(c) = {c}
      BY DEF Scores!Matches
    <2>2. \A j \in 1 .. i - 1 : j \in 1 .. m /\ j # i
      BY <1>1
    <2>3. Scores!NewHit(i) = {s5[i]}
      BY <1>1, <2>1, <2>2 DEF Scores!NewHit, Scores!MatchedBefore
    <2>4. s3[s5[i]] \in Nat
      BY <1>1, GradedIsFinite
    <2>5. SumOver(s3, {s5[i]}) = s3[s5[i]]
      BY <2>4, SumSingle
    <2>6. gain[i] = SumOver(s3, Scores!NewHit(i)) * Discount[i]
      BY <1>2
    <2>7. best[i] = s3[s5[i]] * Discount[i]
      OBVIOUS
    <2> HIDE DEF gain, best
    <2> QED BY <2>3, <2>5, <2>6, <2>7
  <1>7. IsFiniteSet(1 .. m)
    BY <1>1, UpTo
  <1> HIDE DEF m, gain, best
  <1> QED BY <1>4, <1>5, <1>6, <1>7, SumSame

LEMMA MetricsSound ==
  ASSUME Scores!MetricsAssumption, Scores!MetricsInv
  PROVE  Scores!ScoresAreRatios
  <1> SUFFICES ASSUME s8 # <<>> PROVE Scores!ScoresAreRatios
    BY DEF Scores!ScoresAreRatios
  <1>1. s8 = Scores!CalculateCaseMetrics /\ Scores!CaseTypes
    BY DEF Scores!MetricsInv
  <1> DEFINE hits == Cardinality(Scores!HitPositions)
  <1>2. /\ s8.hits = hits /\ s8.dcg = Scores!DCG /\ s8.idcg = Scores!IDCG
        /\ s8.recall = IF s1 = <<>> THEN <<0, 1>> ELSE <<hits, Len(s1)>>
    BY <1>1, ScoresCardinality DEF Scores!CalculateCaseMetrics
  <1>3. hits = Cardinality(FoundBy(Len(s5))) /\ hits \in Nat /\ hits <= Len(s1)
    BY <1>1, HitsAreFound
  <1>4. FoundBy(Len(s5)) = UNION {Scores!Matches(s5[i]) : i \in DOMAIN s5}
    <2>1. DOMAIN s5 = 1 .. Len(s5)
      BY <1>1 DEF Scores!CaseTypes
    <2> QED BY <2>1 DEF FoundBy
  <1>5. s8.recall[1] <= s8.recall[2]
    <2> HIDE DEF hits
    <2> QED BY <1>2, <1>3
  <1> QED BY <1>1, <1>2, <1>3, <1>4, <1>5, GainIsAtMostIdeal, IdealHasIdealGain,
             ScoresCardinality DEF Scores!ScoresAreRatios

-----------------------------------------------------------------------------
(***************************************************************************)
(* ContextSelection.  What is taken in falling order keeps the budget, and *)
(* whoever is served its quota stays served while the others are.          *)
(***************************************************************************)
LEMMA SelectionCardinality == \A S : Selection!Cardinality(S) = Cardinality(S)
  BY DEF Selection!Cardinality, Cardinality

LEMMA FallingDescends ==
  ASSUME NEW S \in SUBSET Nat, IsFiniteSet(S)
  PROVE  Descends(Selection!Falling(S), S)
  <1>1. PICK f : Descends(f, S)
    BY DescendingExists
  <1>2. Selection!Falling(S)
          = [i \in 1 .. Cardinality(S) |->
                CHOOSE c \in S : Cardinality(Above(c, S)) = i - 1]
    BY DEF Selection!Falling, Selection!Cardinality, Cardinality, Above
  <1>3. ASSUME NEW i \in 1 .. Cardinality(S)
        PROVE  (CHOOSE c \in S : Cardinality(Above(c, S)) = i - 1) = f[i]
    BY <1>1, AtRank
  <1>4. Selection!Falling(S) = [i \in 1 .. Cardinality(S) |-> f[i]]
    BY <1>2, <1>3
  <1>5. f = [i \in 1 .. Cardinality(S) |-> f[i]]
    BY <1>1 DEF Descends, Lists
  <1> QED BY <1>1, <1>4, <1>5

LEMMA RisingLists ==
  ASSUME NEW S \in SUBSET Nat, IsFiniteSet(S)
  PROVE  Lists(Selection!Rising(S), S)
  <1> DEFINE n == Cardinality(S)
  <1>1. PICK f : Descends(f, S)
    BY DescendingExists
  <1>2. Selection!Rising(S)
          = [i \in 1 .. n |-> CHOOSE c \in S : Cardinality(Below(c, S)) = i - 1]
    BY DEF Selection!Rising, Selection!Cardinality, Cardinality, Below
  <1>3. ASSUME NEW i \in 1 .. n
        PROVE  (CHOOSE c \in S : Cardinality(Below(c, S)) = i - 1) = f[n + 1 - i]
    BY <1>1, AtRank
  <1>4. Selection!Rising(S) = [i \in 1 .. n |-> f[n + 1 - i]]
    BY <1>2, <1>3
  <1>5. n \in Nat /\ f \in [1 .. n -> S] /\ \A j, k \in 1 .. n : j # k => f[j] # f[k]
    BY <1>1, FS_CardinalityType DEF Descends, Lists
  <1> DEFINE r == [i \in 1 .. n |-> f[n + 1 - i]]
  <1> HIDE DEF n
  <1>6. r \in [1 .. n -> S]
    BY <1>5
  <1>7. ASSUME NEW i \in 1 .. n, NEW j \in 1 .. n, i # j PROVE r[i] # r[j]
    <2>1. n + 1 - i \in 1 .. n /\ n + 1 - j \in 1 .. n /\ n + 1 - i # n + 1 - j
      BY <1>5, <1>7
    <2> QED BY <1>5, <2>1
  <1> HIDE DEF r
  <1>8. Lists(r, S)
    BY <1>6, <1>7 DEF Lists, n
  <1> QED BY <1>4, <1>8 DEF r, n

\* What is listed, and in what order it comes.
LEMMA FallingIs ==
  ASSUME NEW S \in SUBSET Nat, IsFiniteSet(S)
  PROVE  LET f == Selection!Falling(S)
             n == Cardinality(S)
         IN  /\ n \in Nat /\ f \in [1 .. n -> S] /\ Len(f) = n
             /\ Selection!Range(f) = S
             /\ \A i, j \in 1 .. n : i < j => f[i] > f[j]
             /\ \A i, j \in 1 .. n : i # j => f[i] # f[j]
             /\ \A i \in 1 .. n : \A x \in S : x > f[i] <=> \E j \in 1 .. i - 1 : x = f[j]
  <1> DEFINE f == Selection!Falling(S)
             n == Cardinality(S)
  <1>1. Descends(f, S)
    BY FallingDescends
  <1> HIDE DEF f
  <1>2. n \in Nat /\ f \in [1 .. n -> S]
        /\ (\A i, j \in 1 .. n : i < j => f[i] > f[j])
        /\ \A i, j \in 1 .. n : i # j => f[i] # f[j]
    BY <1>1, FS_CardinalityType DEF Descends, Lists
  <1>3. \A x \in S : \E i \in 1 .. n : f[i] = x
    BY <1>1, ListsAll DEF Descends
  <1>4. \A i \in 1 .. n : \A x \in S : x > f[i] <=> \E j \in 1 .. i - 1 : x = f[j]
    BY <1>1, RankInList
  <1>5. Selection!Range(f) = S
    BY <1>2, <1>3 DEF Selection!Range
  <1>6. Len(f) = n
    BY <1>2
  <1> QED BY <1>2, <1>4, <1>5, <1>6 DEF f

\* The values of the variables; and what a selection is.
LEMMA EligibleIsFinite ==
  ASSUME Selection!SelectionAssumption, Selection!SelectionTypes
  PROVE  /\ s1 \in SUBSET Nat /\ IsFiniteSet(s1)
         /\ \A S \in SUBSET s1 : IsFiniteSet(S) /\ S \in SUBSET Nat /\ Cardinality(S) \in Nat
         /\ \A S \in SUBSET s1 : \A T \in SUBSET S : Cardinality(T) <= Cardinality(S)
  <1>1. s1 \in SUBSET Nat /\ IsFiniteSet(s1)
    <2>1. IsFiniteSet(Ranks)
      BY DEF Selection!SelectionAssumption, Selection!IsFiniteSet, IsFiniteSet
    <2> QED BY <2>1, FS_Subset DEF Selection!SelectionAssumption, Selection!SelectionTypes
  <1>2. ASSUME NEW S \in SUBSET s1
        PROVE  IsFiniteSet(S) /\ S \in SUBSET Nat /\ Cardinality(S) \in Nat
    BY <1>1, FS_Subset, FS_CardinalityType
  <1>3. ASSUME NEW S \in SUBSET s1, NEW T \in SUBSET S PROVE Cardinality(T) <= Cardinality(S)
    BY <1>2, FS_Subset
  <1> QED BY <1>1, <1>2, <1>3

LEMMA TokensAreSum == \A S : Selection!Tokens(S) = SumOver(s3, S)
  BY DEF Selection!Tokens, Selection!MapThenSumSet, Selection!MapThenFoldSet, SumOver,
     Scores!MapThenSumSet, Scores!MapThenFoldSet

LEMMA TakeIs ==
  ASSUME NEW S, NEW c
  PROVE  Selection!Take(S, c)
           = IF Cardinality(S) < TopK /\ Selection!Fits(S, c) THEN S \cup {c} ELSE S
  BY SelectionCardinality DEF Selection!Take

\* The candidates that are taken, after each of those in the falling order of their scores.
TakenInTurn(t) ==
    LET f == Selection!Falling(s1) IN
    /\ t \in [0 .. Cardinality(s1) -> SUBSET s1] /\ t[0] = {}
    /\ \A n \in 1 .. Cardinality(s1) : t[n] = Selection!Take(t[n - 1], f[n])
    /\ Selection!FirstFit = t[Cardinality(s1)]

LEMMA FirstFitIs ==
  ASSUME Selection!SelectionAssumption, Selection!SelectionTypes
  PROVE  \E t : TakenInTurn(t)
  <1> DEFINE f == Selection!Falling(s1)
             N == Cardinality(s1)
             H == [p \in (SUBSET s1) \X (1 .. N) |-> Selection!Take(p[1], f[p[2]])]
             Eq(t) == t = [n \in 0 .. N |-> IF n = 0 THEN {} ELSE Selection!Take(t[n - 1], f[n])]
  <1>1. N \in Nat /\ f \in [1 .. N -> s1] /\ Len(f) = N
    BY EligibleIsFinite, FallingIs
  <1>2. Selection!FirstFit = (CHOOSE t : Eq(t))[N]
    BY <1>1 DEF Selection!FirstFit
  <1> HIDE DEF f, N
  <1>3. Rounds(H, N, SUBSET s1)
    <2>1. ASSUME NEW S \in SUBSET s1, NEW n \in 1 .. N PROVE H[<<S, n>>] \in SUBSET s1
      <3>1. H[<<S, n>>] = Selection!Take(S, f[n]) /\ f[n] \in s1
        BY <1>1
      <3>2. Selection!Take(S, f[n]) = S \/ Selection!Take(S, f[n]) = S \cup {f[n]}
        BY TakeIs
      <3> QED BY <3>1, <3>2
    <2> HIDE DEF H
    <2> QED BY <2>1 DEF Rounds
  <1>4. PICK F : Iterates(F, H, N, SUBSET s1, {})
    <2> HIDE DEF H
    <2>1. {} \in SUBSET s1
      OBVIOUS
    <2> QED BY <1>1, <1>3, <2>1, IterationExists
  <1>5. F \in [0 .. N -> SUBSET s1] /\ F[0] = {}
        /\ \A n \in 1 .. N : F[n] = H[<<F[n - 1], n>>]
    BY <1>4 DEF Iterates
  <1>6. ASSUME NEW n \in 1 .. N PROVE F[n] = Selection!Take(F[n - 1], f[n])
    <2>1. n - 1 \in 0 .. N
      BY <1>1
    <2>2. F[n - 1] \in SUBSET s1
      BY <1>5, <2>1
    <2> QED BY <1>5, <2>2
  <1>7. Eq(F)
    <2>1. ASSUME NEW n \in 0 .. N
          PROVE  F[n] = IF n = 0 THEN {} ELSE Selection!Take(F[n - 1], f[n])
      <3>1. n = 0 \/ n \in 1 .. N
        BY <1>1
      <3> QED BY <1>5, <1>6, <3>1
    <2> QED BY <1>5, <2>1
  <1> DEFINE t == CHOOSE t : Eq(t)
  <1>8. Eq(t)
    <2> HIDE DEF Eq
    <2> QED BY <1>7
  <1> HIDE DEF t, H
  <1>9. t[0] = {} /\ \A n \in 1 .. N : t[n] = Selection!Take(t[n - 1], f[n])
    <2>1. 0 \in 0 .. N /\ \A n \in 1 .. N : n \in 0 .. N /\ n # 0
      BY <1>1
    <2> QED BY <1>8, <2>1
  <1>10. t \in [0 .. N -> SUBSET s1]
    <2> DEFINE Good == {n \in Nat : n <= N => t[n] \in SUBSET s1}
    <2>1. 0 \in Good
      BY <1>9
    <2>2. ASSUME NEW n \in Nat, n \in Good PROVE n + 1 \in Good
      <3>1. ASSUME n + 1 <= N PROVE t[n + 1] \in SUBSET s1
        <4>1. n + 1 \in 1 .. N /\ t[n] \in SUBSET s1 /\ (n + 1) - 1 = n
          BY <1>1, <2>2, <3>1
        <4>2. t[n + 1] = Selection!Take(t[n], f[n + 1]) /\ f[n + 1] \in s1
          BY <1>1, <1>9, <4>1
        <4>3. t[n + 1] = t[n] \/ t[n + 1] = t[n] \cup {f[n + 1]}
          BY <4>2, TakeIs
        <4> QED BY <4>1, <4>2, <4>3
      <3> QED BY <3>1
    <2>3. \A n \in Nat : n \in Good
      <3> HIDE DEF Good
      <3> QED BY <2>1, <2>2, Inductive
    <2>4. \A n \in 0 .. N : t[n] \in SUBSET s1
      BY <1>1, <2>3
    <2>5. t = [n \in 0 .. N |-> t[n]]
      <3>1. t = [n \in 0 .. N |-> IF n = 0 THEN {} ELSE Selection!Take(t[n - 1], f[n])]
        BY <1>8
      <3> QED BY <3>1
    <2> HIDE DEF Good
    <2> QED BY <2>4, <2>5
  <1>11. Selection!FirstFit = t[N]
    BY <1>2 DEF t
  <1> QED BY <1>9, <1>10, <1>11 DEF TakenInTurn, f, N

\* What is taken of the first n candidates is what is taken in the end of them: later ones only
\* add themselves.
LEMMA TakenStays ==
  ASSUME Selection!SelectionAssumption, Selection!SelectionTypes, NEW t, TakenInTurn(t)
  PROVE  LET f == Selection!Falling(s1)
             N == Cardinality(s1)
         IN  /\ \A n \in 0 .. N : \A j \in n + 1 .. N : f[j] \notin t[n]
             /\ \A n \in 0 .. N : \A j \in 1 .. n : f[j] \in t[n] <=> f[j] \in t[j]
             /\ \A n \in 0 .. N : Cardinality(t[n]) <= TopK
  <1> DEFINE f == Selection!Falling(s1)
             N == Cardinality(s1)
  <1>1. N \in Nat /\ f \in [1 .. N -> s1] /\ \A i, j \in 1 .. N : i # j => f[i] # f[j]
    BY EligibleIsFinite, FallingIs
  <1>2. /\ t \in [0 .. N -> SUBSET s1] /\ t[0] = {}
        /\ \A n \in 1 .. N : t[n] = Selection!Take(t[n - 1], f[n])
    BY DEF TakenInTurn
  <1>3. /\ TopK \in Nat
        /\ \A S \in SUBSET s1 : Cardinality(S) \in Nat /\ IsFiniteSet(S)
    BY EligibleIsFinite DEF Selection!SelectionAssumption
  <1>4. Cardinality({}) = 0
    BY FS_EmptySet
  <1> HIDE DEF f, N
  <1> DEFINE Good == {n \in Nat : n <= N =>
                        /\ \A j \in n + 1 .. N : f[j] \notin t[n]
                        /\ \A j \in 1 .. n : f[j] \in t[n] <=> f[j] \in t[j]
                        /\ Cardinality(t[n]) <= TopK}
  <1>5. 0 \in Good
    <2>1. Cardinality(t[0]) <= TopK
      BY <1>2, <1>3, <1>4
    <2>2. \A j : f[j] \notin t[0]
      BY <1>2
    <2>3. ~ \E j \in 1 .. 0 : TRUE
      OBVIOUS
    <2> QED BY <2>1, <2>2, <2>3
  <1>6. ASSUME NEW n \in Nat, n \in Good PROVE n + 1 \in Good
    <2>1. ASSUME n + 1 <= N
          PROVE  /\ \A j \in n + 2 .. N : f[j] \notin t[n + 1]
                 /\ \A j \in 1 .. n + 1 : f[j] \in t[n + 1] <=> f[j] \in t[j]
                 /\ Cardinality(t[n + 1]) <= TopK
      <3>1. /\ \A j \in n + 1 .. N : f[j] \notin t[n]
            /\ \A j \in 1 .. n : f[j] \in t[n] <=> f[j] \in t[j]
            /\ Cardinality(t[n]) <= TopK
        BY <1>1, <1>6, <2>1
      <3>2. n + 1 \in 1 .. N /\ n \in 0 .. N /\ (n + 1) - 1 = n
        BY <1>1, <2>1
      <3>3. t[n] \in SUBSET s1 /\ f[n + 1] \in s1 /\ f[n + 1] \notin t[n]
        BY <1>1, <1>2, <3>1, <3>2
      <3>4. t[n + 1] = IF Cardinality(t[n]) < TopK /\ Selection!Fits(t[n], f[n + 1])
                       THEN t[n] \cup {f[n + 1]} ELSE t[n]
        BY <1>2, <3>2, TakeIs
      <3>5. \A x : x # f[n + 1] => (x \in t[n + 1] <=> x \in t[n])
        BY <3>4
      <3>6. ASSUME NEW j \in n + 2 .. N PROVE f[j] \notin t[n + 1]
        <4>1. j \in n + 1 .. N /\ j \in 1 .. N /\ j # n + 1
          BY <1>1
        <4> QED BY <1>1, <3>1, <3>2, <3>5, <4>1
      <3>7. ASSUME NEW j \in 1 .. n + 1 PROVE f[j] \in t[n + 1] <=> f[j] \in t[j]
        <4>1. CASE j = n + 1
          BY <4>1
        <4>2. CASE j # n + 1
          <5>1. j \in 1 .. n /\ j \in 1 .. N
            BY <1>1, <2>1, <4>2
          <5> QED BY <1>1, <3>1, <3>2, <3>5, <4>2, <5>1
        <4> QED BY <4>1, <4>2
      <3>8. Cardinality(t[n + 1]) <= TopK
        <4>1. CASE Cardinality(t[n]) < TopK /\ Selection!Fits(t[n], f[n + 1])
          <5>1. IsFiniteSet(t[n]) /\ Cardinality(t[n]) \in Nat
            BY <1>3, <3>3
          <5>2. Cardinality(t[n] \cup {f[n + 1]}) = Cardinality(t[n]) + 1
            BY <3>3, <5>1, FS_AddElement
          <5> QED BY <1>3, <3>4, <4>1, <5>1, <5>2
        <4>2. CASE ~(Cardinality(t[n]) < TopK /\ Selection!Fits(t[n], f[n + 1]))
          BY <3>1, <3>4, <4>2
        <4> QED BY <4>1, <4>2
      <3> QED BY <3>6, <3>7, <3>8
    <2>2. n + 1 \in Nat /\ n + 2 = (n + 1) + 1
      OBVIOUS
    <2> QED BY <2>1, <2>2
  <1>7. \A n \in Nat : n \in Good
    <2> HIDE DEF Good
    <2> QED BY <1>5, <1>6, Inductive
  <1>8. \A n \in 0 .. N : n \in Nat /\ n <= N
    BY <1>1
  <1>9. ASSUME NEW n \in 0 .. N
        PROVE  /\ \A j \in n + 1 .. N : f[j] \notin t[n]
               /\ \A j \in 1 .. n : f[j] \in t[n] <=> f[j] \in t[j]
               /\ Cardinality(t[n]) <= TopK
    BY <1>7, <1>8
  <1> HIDE DEF Good
  <1> QED BY <1>9 DEF f, N

\* What fits leaves room for the reserved tokens, if they do not fill the window alone.
LEMMA FitsIntoWindow ==
  ASSUME Selection!SelectionAssumption, Selection!SelectionTypes, s5 < ContextWindow,
         NEW S, NEW c, Selection!Tokens(S) + s3[c] \in Nat, Selection!Fits(S, c)
  PROVE  s5 + (Selection!Tokens(S) + s3[c]) <= ContextWindow
  <1>1. s5 \in Nat /\ ContextWindow \in Nat /\ MaxTokens \in Nat
    BY DEF Selection!SelectionAssumption, Selection!SelectionTypes
  <1> DEFINE b == Selection!TokenBudget
             w == ContextWindow - s5
  <1>2. w \in Nat /\ w > 0
    BY <1>1
  <1>3. b <= w /\ b > 0 /\ b \in Int
    <2> DEFINE grown == TopK * PerChunk
               asked == Selection!Larger(1, Selection!Smaller(MaxTokens, w))
    <2>1. grown \in Nat
      BY DEF Selection!SelectionAssumption
    <2>2. asked \in Nat /\ asked > 0
      BY <1>1, <1>2 DEF Selection!Larger, Selection!Smaller
    <2>3. b = Selection!Smaller(Selection!Larger(asked, grown), w)
      BY DEF Selection!TokenBudget
    <2> HIDE DEF grown, asked, b, w
    <2>4. Selection!Larger(asked, grown) \in Nat /\ Selection!Larger(asked, grown) > 0
      BY <2>1, <2>2 DEF Selection!Larger
    <2> QED BY <1>2, <2>3, <2>4 DEF Selection!Smaller
  <1>4. Selection!Tokens(S) + s3[c] <= b
    BY <1>3 DEF Selection!Fits
  <1> DEFINE x == Selection!Tokens(S) + s3[c]
  <1>5. x \in Nat /\ x <= b /\ w = ContextWindow - s5
    BY <1>4
  <1> HIDE DEF b, w, x
  <1>6. s5 + x <= ContextWindow
    BY <1>1, <1>2, <1>3, <1>5
  <1> QED BY <1>6 DEF x

LEMMA FirstFitKeepsBudget ==
  ASSUME Selection!SelectionAssumption, Selection!SelectionTypes
  PROVE  LET T == Selection!FirstFit
         IN  /\ T \in SUBSET s1 /\ Cardinality(T) <= TopK
             /\ s5 < ContextWindow => s5 + Selection!Tokens(T) <= ContextWindow
             /\ Cardinality(T) < TopK =>
                   \A c \in s1 \ T : ~Selection!Fits({d \in T : d > c}, c)
  <1> DEFINE T == Selection!FirstFit
             f == Selection!Falling(s1)
             N == Cardinality(s1)
  <1>1. PICK t : TakenInTurn(t)
    BY FirstFitIs
  <1>2. /\ N \in Nat /\ f \in [1 .. N -> s1]
        /\ \A i, j \in 1 .. N : i # j => f[i] # f[j]
        /\ \A i \in 1 .. N : \A x \in s1 : x > f[i] <=> \E j \in 1 .. i - 1 : x = f[j]
        /\ Selection!Range(f) = s1
    BY EligibleIsFinite, FallingIs
  <1>3. /\ t \in [0 .. N -> SUBSET s1] /\ t[0] = {} /\ T = t[N]
        /\ \A n \in 1 .. N : t[n] = Selection!Take(t[n - 1], f[n])
    BY <1>1 DEF TakenInTurn
  <1>4. /\ \A n \in 0 .. N : \A j \in n + 1 .. N : f[j] \notin t[n]
        /\ \A n \in 0 .. N : \A j \in 1 .. n : f[j] \in t[n] <=> f[j] \in t[j]
        /\ \A n \in 0 .. N : Cardinality(t[n]) <= TopK
    BY <1>1, TakenStays
  <1>5. \A x \in s1 : \E i \in 1 .. N : x = f[i]
    BY <1>2 DEF Selection!Range
  <1> HIDE DEF f, N, T
  <1>6. N \in 0 .. N /\ T \in SUBSET s1 /\ Cardinality(T) <= TopK
    BY <1>2, <1>3, <1>4
  <1>7. ASSUME s5 < ContextWindow PROVE s5 + Selection!Tokens(T) <= ContextWindow
    <2> DEFINE Good == {n \in Nat : n <= N => s5 + Selection!Tokens(t[n]) <= ContextWindow}
    <2>1. 0 \in Good
      <3>1. Selection!Tokens(t[0]) = 0
        BY <1>3, TokensAreSum, SumEmpty
      <3>2. s5 \in Nat /\ ContextWindow \in Nat
        BY DEF Selection!SelectionAssumption, Selection!SelectionTypes
      <3> QED BY <1>7, <3>1, <3>2
    <2>2. ASSUME NEW n \in Nat, n \in Good PROVE n + 1 \in Good
      <3>1. ASSUME n + 1 <= N PROVE s5 + Selection!Tokens(t[n + 1]) <= ContextWindow
        <4>1. n + 1 \in 1 .. N /\ n \in 0 .. N /\ (n + 1) - 1 = n /\ n + 1 \in n + 1 .. N
          BY <1>2, <3>1
        <4>2. t[n] \in SUBSET s1 /\ f[n + 1] \in s1 /\ f[n + 1] \notin t[n]
          BY <1>2, <1>3, <1>4, <4>1
        <4>3. t[n + 1] = IF Cardinality(t[n]) < TopK /\ Selection!Fits(t[n], f[n + 1])
                         THEN t[n] \cup {f[n + 1]} ELSE t[n]
          BY <1>3, <4>1, TakeIs
        <4>4. s5 + Selection!Tokens(t[n]) <= ContextWindow
          BY <1>2, <2>2, <3>1
        <4>5. CASE ~(Cardinality(t[n]) < TopK /\ Selection!Fits(t[n], f[n + 1]))
          BY <4>3, <4>4, <4>5
        <4>6. CASE Cardinality(t[n]) < TopK /\ Selection!Fits(t[n], f[n + 1])
          <5>1. IsFiniteSet(t[n]) /\ \A x \in t[n] \cup {f[n + 1]} : s3[x] \in Nat
            BY <4>2, EligibleIsFinite, ZenonT(40) DEF Selection!SelectionAssumption,
                                          Selection!SelectionTypes
          <5>2. SumOver(s3, t[n] \cup {f[n + 1]}) = SumOver(s3, t[n]) + s3[f[n + 1]]
            BY <4>2, <5>1, SumWith
          <5>3. SumOver(s3, t[n]) \in Nat /\ s3[f[n + 1]] \in Nat
            BY <5>1, SumNat
          <5>4. Selection!Tokens(t[n + 1]) = Selection!Tokens(t[n]) + s3[f[n + 1]]
            BY <4>3, <4>6, <5>2, TokensAreSum
          <5>5. Selection!Tokens(t[n]) + s3[f[n + 1]] \in Nat
            BY <5>3, TokensAreSum
          <5> QED BY <1>7, <4>6, <5>4, <5>5, FitsIntoWindow
        <4> QED BY <4>5, <4>6
      <3>2. n + 1 \in Nat
        OBVIOUS
      <3> QED BY <3>1, <3>2
    <2>3. \A n \in Nat : n \in Good
      <3> HIDE DEF Good
      <3> QED BY <2>1, <2>2, Inductive
    <2> QED BY <1>2, <1>3, <2>3
  <1>8. ASSUME Cardinality(T) < TopK, NEW c \in s1 \ T
        PROVE  ~Selection!Fits({d \in T : d > c}, c)
    <2>1. PICK i \in 1 .. N : c = f[i]
      BY <1>5
    <2>2. i - 1 \in 0 .. N /\ i \in 0 .. N /\ \A j \in 1 .. i - 1 : j \in 1 .. N
      BY <1>2
    <2>3. {d \in T : d > c} = t[i - 1]
      <3>1. ASSUME NEW d \in s1 PROVE (d \in T /\ d > c) <=> d \in t[i - 1]
        <4>1. PICK j \in 1 .. N : d = f[j]
          BY <1>5
        <4>2. d > c <=> j \in 1 .. i - 1
          <5>1. d > c <=> \E k \in 1 .. i - 1 : d = f[k]
            BY <1>2, <2>1
          <5>2. ASSUME NEW k \in 1 .. i - 1, d = f[k] PROVE k = j
            BY <1>2, <2>2, <4>1, <5>2
          <5> QED BY <4>1, <5>1, <5>2
        <4>3. CASE j \in 1 .. i - 1
          <5>1. f[j] \in t[i - 1] <=> f[j] \in t[j]
            BY <1>4, <2>2, <4>3
          <5>2. f[j] \in T <=> f[j] \in t[j]
            BY <1>3, <1>4, <1>6
          <5> QED BY <4>1, <4>2, <4>3, <5>1, <5>2
        <4>4. CASE j \notin 1 .. i - 1
          <5>1. j \in (i - 1) + 1 .. N
            BY <1>2, <4>4
          <5>2. f[j] \notin t[i - 1]
            BY <1>4, <2>2, <5>1
          <5> QED BY <4>1, <4>2, <4>4, <5>2
        <4> QED BY <4>3, <4>4
      <3>2. t[i - 1] \in SUBSET s1
        BY <1>3, <2>2
      <3> QED BY <1>6, <3>1, <3>2
    <2>4. f[i] \notin t[i]
      BY <1>3, <1>4, <1>6, <1>8, <2>1
    <2>5. t[i] = IF Cardinality(t[i - 1]) < TopK /\ Selection!Fits(t[i - 1], f[i])
                 THEN t[i - 1] \cup {f[i]} ELSE t[i - 1]
      BY <1>3, TakeIs
    <2>6. Cardinality(t[i - 1]) < TopK
      <3>1. t[i - 1] \in SUBSET T
        BY <2>3
      <3>2. /\ Cardinality(t[i - 1]) <= Cardinality(T)
            /\ Cardinality(t[i - 1]) \in Nat /\ Cardinality(T) \in Nat
        BY <1>6, <3>1, EligibleIsFinite
      <3>3. TopK \in Nat
        BY DEF Selection!SelectionAssumption
      <3> QED BY <1>8, <3>2, <3>3
    <2> QED BY <2>1, <2>3, <2>4, <2>5, <2>6
  <1> QED BY <1>6, <1>7, <1>8 DEF T

LEMMA DisjointUnion ==
  ASSUME NEW S, IsFiniteSet(S), NEW T, IsFiniteSet(T), S \cap T = {}
  PROVE  /\ IsFiniteSet(S \cup T) /\ Cardinality(S \cup T) = Cardinality(S) + Cardinality(T)
  <1>1. Cardinality(S \cup T) = Cardinality(S) + Cardinality(T) - Cardinality(S \cap T)
        /\ IsFiniteSet(S \cup T)
    BY FS_Union
  <1>2. Cardinality(S \cap T) = 0 /\ Cardinality(S) \in Nat /\ Cardinality(T) \in Nat
    BY FS_EmptySet, FS_CardinalityType
  <1> QED BY <1>1, <1>2

\* If no kind has more than q members, q times the number of kinds are all there are.
LEMMA OneMoreTimes == \A q, n, a, b \in Nat : a <= q * n /\ b <= q => a + b <= q * (n + 1)
  <1> SUFFICES ASSUME NEW q \in Nat, NEW n \in Nat, NEW a \in Nat, NEW b \in Nat,
                      a <= q * n, b <= q
               PROVE  a + b <= q * (n + 1)
    OBVIOUS
  <1>1. q * (n + 1) = q * n + q /\ q * n \in Nat
    OBVIOUS
  <1> DEFINE p == q * n
  <1> HIDE DEF p
  <1>2. a + b <= p + q
    BY <1>1 DEF p
  <1> QED BY <1>1, <1>2 DEF p

MembersOf(k, g, T) == {c \in T : g[c] = k}

LEMMA MembersInAll ==
  ASSUME NEW q \in Nat, NEW K, IsFiniteSet(K), NEW T, IsFiniteSet(T), NEW g,
         \A c \in T : g[c] \in K, \A k \in K : Cardinality(MembersOf(k, g, T)) <= q
  PROVE  Cardinality(T) <= q * Cardinality(K)
  <1> DEFINE Of(J) == {c \in T : g[c] \in J}
             Good == {n \in Nat : \A J \in SUBSET K :
                                    Cardinality(J) = n => Cardinality(Of(J)) <= q * n}
  <1>1. ASSUME NEW J \in SUBSET K
        PROVE  /\ IsFiniteSet(J) /\ Cardinality(J) \in Nat /\ (Cardinality(J) = 0 => J = {})
               /\ IsFiniteSet(Of(J)) /\ Cardinality(Of(J)) \in Nat
    <2>1. IsFiniteSet(J) /\ IsFiniteSet(Of(J))
      BY FS_Subset
    <2> QED BY <2>1, FS_CardinalityType, FS_EmptySet
  <1>2. ASSUME NEW k \in K
        PROVE  IsFiniteSet(MembersOf(k, g, T)) /\ Cardinality(MembersOf(k, g, T)) \in Nat
    <2>1. MembersOf(k, g, T) \in SUBSET T
      BY DEF MembersOf
    <2> QED BY <2>1, FS_Subset, FS_CardinalityType
  <1>3. 0 \in Good
    <2>1. ASSUME NEW J \in SUBSET K, Cardinality(J) = 0 PROVE Cardinality(Of(J)) <= q * 0
      <3>1. Of(J) = {}
        BY <1>1, <2>1
      <3>2. Cardinality(Of(J)) = 0 /\ q * 0 = 0
        BY <3>1, FS_EmptySet
      <3> QED BY <3>2
    <2> QED BY <2>1
  <1>4. ASSUME NEW n \in Nat, n \in Good PROVE n + 1 \in Good
    <2>1. ASSUME NEW J \in SUBSET K, Cardinality(J) = n + 1
          PROVE  Cardinality(Of(J)) <= q * (n + 1)
      <3>1. PICK k \in J : TRUE
        BY <1>1, <2>1, FS_EmptySet
      <3>2. Cardinality(J \ {k}) = n /\ J \ {k} \in SUBSET K
        BY <1>1, <2>1, OneLess
      <3>3. Cardinality(Of(J \ {k})) <= q * n
        BY <1>4, <3>2
      <3>4. Of(J) = Of(J \ {k}) \cup MembersOf(k, g, T) /\ Of(J \ {k}) \cap MembersOf(k, g, T) = {}
        BY <3>1 DEF MembersOf
      <3>5. IsFiniteSet(Of(J \ {k})) /\ Cardinality(Of(J \ {k})) \in Nat
        BY <1>1, <3>2
      <3>6. /\ IsFiniteSet(MembersOf(k, g, T)) /\ Cardinality(MembersOf(k, g, T)) \in Nat
            /\ Cardinality(MembersOf(k, g, T)) <= q
        BY <1>2, <3>1
      <3> HIDE DEF Of
      <3>7. Cardinality(Of(J)) = Cardinality(Of(J \ {k})) + Cardinality(MembersOf(k, g, T))
        BY <3>4, <3>5, <3>6, DisjointUnion
      <3> QED BY <3>3, <3>5, <3>6, <3>7, OneMoreTimes
    <2> QED BY <2>1
  <1>5. \A n \in Nat : n \in Good
    <2> HIDE DEF Good
    <2> QED BY <1>3, <1>4, Inductive
  <1>6. Cardinality(K) \in Nat /\ K \in SUBSET K /\ Of(K) = T
    BY <1>1
  <1> QED BY <1>5, <1>6

LEMMA CountIs == \A k, S : Selection!CountOf(k, S) = Cardinality(MembersOf(k, s2, S))
  BY DEF Selection!CountOf, Selection!Cardinality, Cardinality, MembersOf

\* What Fill does: it takes some candidates in, all it is short of if there are so many, and
\* leaves as many of those out that are above the quota, as far as there are any.
Filled(T, S, k, R, F) ==
    LET V == {c \in S : s2[c] # None /\ Selection!CountOf(s2[c], S) > s4}
        M == {c \in s1 \ S : s2[c] = k}
        lacking == s4 - Selection!CountOf(k, S)
        q == IF lacking < Cardinality(M) THEN lacking ELSE Cardinality(M)
    IN /\ T = (S \ R) \cup F /\ R \in SUBSET V /\ F \in SUBSET M
       /\ Cardinality(F) = q
       /\ Cardinality(R) = IF q <= Cardinality(V) THEN q ELSE Cardinality(V)

LEMMA FillIs ==
  ASSUME Selection!SelectionAssumption, Selection!SelectionTypes,
         NEW S \in SUBSET s1, NEW k, Selection!CountOf(k, S) < s4
  PROVE  \E R, F : Filled(Selection!Fill(S, k), S, k, R, F)
  <1> DEFINE V == {c \in S : s2[c] # None /\ Selection!CountOf(s2[c], S) > s4}
             M == {c \in s1 \ S : s2[c] = k}
             lacking == s4 - Selection!CountOf(k, S)
             m == Cardinality(M)
             v == Cardinality(V)
             q == IF lacking < m THEN lacking ELSE m
             more == Selection!Falling(M)
             victims == Selection!Rising(V)
             fills == Selection!Backfill(k, S)
             I == DOMAIN fills \cap DOMAIN victims
             R == {victims[i] : i \in I}
             F == Selection!Range(fills)
  <1>1. Selection!CountOf(k, S) \in Nat /\ s4 \in Nat
    <2>1. MembersOf(k, s2, S) \in SUBSET s1
      BY DEF MembersOf
    <2> QED BY <2>1, CountIs, EligibleIsFinite DEF Selection!SelectionAssumption,
                                                   Selection!SelectionTypes
  <1>2. Selection!Fill(S, k) = (S \ R) \cup F
    <2>1. ~(Selection!Lacking(k, S) <= 0)
      BY <1>1 DEF Selection!Lacking
    <2>2. Selection!Evictable(k, S) = victims
      BY DEF Selection!Evictable
    <2> HIDE DEF victims, fills
    <2>3. fills = Selection!Backfill(k, S)
      BY DEF fills
    <2> QED BY <2>1, <2>2, <2>3 DEF Selection!Fill
  <1>3. V \in SUBSET s1 /\ M \in SUBSET s1
    OBVIOUS
  <1>4. /\ m \in Nat /\ more \in [1 .. m -> M] /\ Len(more) = m
        /\ \A i, j \in 1 .. m : i # j => more[i] # more[j]
    BY <1>3, EligibleIsFinite, FallingIs
  <1>5. v \in Nat /\ victims \in [1 .. v -> V] /\ \A i, j \in 1 .. v : i # j => victims[i] # victims[j]
    BY <1>3, EligibleIsFinite, RisingLists DEF Lists
  <1>6. fills = SubSeq(more, 1, q)
    BY <1>4 DEF Selection!Backfill, Selection!Lacking
  <1> HIDE DEF V, M, m, v, more, victims, fills, lacking
  <1>7. q \in Nat /\ q <= m
    BY <1>1, <1>4 DEF lacking
  <1>8. fills \in [1 .. q -> M] /\ DOMAIN fills = 1 .. q
        /\ \A i, j \in 1 .. q : i # j => fills[i] # fills[j]
    <2>1. more \in Seq(M)
      BY <1>4
    <2>2. SubSeq(more, 1, q) = [i \in 1 .. q |-> more[i]]
      BY <1>4, <1>7, <2>1
    <2>3. \A i \in 1 .. q : i \in 1 .. m
      BY <1>4, <1>7
    <2> HIDE DEF q
    <2> QED BY <1>4, <1>6, <2>2, <2>3
  <1> HIDE DEF q
  <1>9. F \in SUBSET M /\ Cardinality(F) = q
    <2>1. F = {fills[j] : j \in 1 .. q}
      BY <1>8 DEF Selection!Range
    <2>2. IsFiniteSet(1 .. q) /\ Cardinality(1 .. q) = q
      BY <1>7, UpTo
    <2>3. Cardinality({fills[j] : j \in 1 .. q}) = q
      BY <1>8, <2>2, SameSize
    <2> QED BY <1>8, <2>1, <2>3
  <1>10. R \in SUBSET V /\ Cardinality(R) = IF q <= v THEN q ELSE v
    <2> DEFINE p == IF q <= v THEN q ELSE v
    <2>1. p \in Nat /\ I = 1 .. p
      BY <1>5, <1>7, <1>8
    <2>2. \A i \in 1 .. p : i \in 1 .. v
      BY <1>5, <1>7
    <2> HIDE DEF p
    <2>3. IsFiniteSet(1 .. p) /\ Cardinality(1 .. p) = p
      BY <2>1, UpTo
    <2>4. \A i, j \in 1 .. p : i # j => victims[i] # victims[j]
      BY <1>5, <2>2
    <2>5. Cardinality({victims[j] : j \in 1 .. p}) = p
      BY <2>3, <2>4, SameSize
    <2>6. R = {victims[j] : j \in 1 .. p}
      BY <2>1
    <2>7. R \in SUBSET V
      BY <1>5, <2>2, <2>6
    <2> QED BY <2>5, <2>6, <2>7 DEF p
  <1> HIDE DEF R, F
  <1>11. Filled(Selection!Fill(S, k), S, k, R, F)
    BY <1>2, <1>9, <1>10 DEF Filled, V, M, m, v, q, lacking
  <1> QED BY <1>11

\* The selection stays a set of eligible candidates.
LEMMA FillStays ==
  ASSUME Selection!SelectionAssumption, Selection!SelectionTypes,
         NEW S \in SUBSET s1, NEW k
  PROVE  Selection!Fill(S, k) \in SUBSET s1
  <1>1. Selection!CountOf(k, S) \in Nat /\ s4 \in Nat
    <2>1. MembersOf(k, s2, S) \in SUBSET s1
      BY DEF MembersOf
    <2> QED BY <2>1, CountIs, EligibleIsFinite DEF Selection!SelectionAssumption,
                                                   Selection!SelectionTypes
  <1>2. CASE Selection!CountOf(k, S) < s4
    <2>1. PICK R, F : Filled(Selection!Fill(S, k), S, k, R, F)
      BY <1>2, FillIs
    <2> QED BY <2>1 DEF Filled
  <1>3. CASE ~(Selection!CountOf(k, S) < s4)
    <2>1. Selection!Fill(S, k) = S
      BY <1>1, <1>3 DEF Selection!Fill, Selection!Lacking
    <2> QED BY <2>1
  <1> QED BY <1>2, <1>3

\* With a quota of one nobody who has been heard falls silent, and the knowledge base that is
\* served is heard.
LEMMA FillIsHeard ==
  ASSUME Selection!SelectionAssumption, Selection!SelectionTypes, s4 = 1,
         NEW S \in SUBSET s1, NEW k \in Selection!KbsOf(s1)
  PROVE  \A h \in Selection!KbsOf(S) \cup {k} : h \in Selection!KbsOf(Selection!Fill(S, k))
  <1> DEFINE T == Selection!Fill(S, k)
             n == Selection!CountOf(k, S)
  <1>1. ASSUME NEW h, h # None
        PROVE  /\ Selection!CountOf(h, S) \in Nat
               /\ Selection!CountOf(h, S) = 0 <=> h \notin Selection!KbsOf(S)
    <2>1. MembersOf(h, s2, S) \in SUBSET s1
      BY DEF MembersOf
    <2>2. Selection!CountOf(h, S) = Cardinality(MembersOf(h, s2, S))
      BY CountIs
    <2>3. /\ Cardinality(MembersOf(h, s2, S)) \in Nat
          /\ Cardinality(MembersOf(h, s2, S)) = 0 <=> MembersOf(h, s2, S) = {}
      BY <2>1, EligibleIsFinite, FS_EmptySet
    <2>4. MembersOf(h, s2, S) = {} <=> h \notin Selection!KbsOf(S)
      BY <1>1 DEF MembersOf, Selection!KbsOf
    <2> QED BY <2>2, <2>3, <2>4
  <1>0. k # None
    BY DEF Selection!KbsOf
  <1>2. CASE ~(n < s4)
    <2>1. T = S
      BY <1>0, <1>1, <1>2 DEF Selection!Fill, Selection!Lacking
    <2>2. k \in Selection!KbsOf(S)
      BY <1>0, <1>1, <1>2
    <2> QED BY <2>1, <2>2
  <1>3. CASE n < s4
    <2>1. n = 0 /\ k \notin Selection!KbsOf(S)
      BY <1>0, <1>1, <1>3
    <2>2. PICK R, F : Filled(T, S, k, R, F)
      BY <1>3, FillIs
    <2> DEFINE M == {c \in s1 \ S : s2[c] = k}
    <2>3. /\ T = (S \ R) \cup F /\ F \in SUBSET M /\ R \in SUBSET S
          /\ \A c \in R : Selection!CountOf(s2[c], S) > 1
          /\ Cardinality(F) = IF 1 - 0 < Cardinality(M) THEN 1 - 0 ELSE Cardinality(M)
      BY <2>1, <2>2 DEF Filled
    <2>4. PICK e \in M : TRUE
      BY <2>1 DEF Selection!KbsOf
    <2>5. M \in SUBSET s1 /\ M # {}
      BY <2>4
    <2>6. Cardinality(M) \in Nat /\ Cardinality(M) # 0
      BY <2>5, EligibleIsFinite, FS_EmptySet
    <2> HIDE DEF M
    <2>7. Cardinality(F) = 1
      BY <2>3, <2>6
    <2>8. Cardinality(R) \in Nat /\ Cardinality(R) <= 1
      <3> DEFINE V == {c \in S : s2[c] # None /\ Selection!CountOf(s2[c], S) > s4}
                 q == Cardinality(F)
      <3>1. V \in SUBSET s1
        OBVIOUS
      <3>2. Cardinality(V) \in Nat
        BY <3>1, EligibleIsFinite
      <3>3. Cardinality(R) = IF q <= Cardinality(V) THEN q ELSE Cardinality(V)
        BY <2>2 DEF Filled
      <3> HIDE DEF V
      <3> QED BY <2>7, <3>2, <3>3
    <2>9. IsFiniteSet(R) /\ \A a, b \in R : a = b
      <3>1. R \in SUBSET s1
        BY <2>3
      <3>2. IsFiniteSet(R)
        BY <3>1, EligibleIsFinite
      <3>3. CASE Cardinality(R) = 0
        BY <3>2, <3>3, FS_EmptySet
      <3>4. CASE Cardinality(R) = 1
        BY <3>2, <3>4, FS_Singleton
      <3> QED BY <2>8, <3>2, <3>3, <3>4
    <2>10. k \in Selection!KbsOf(T)
      <3>1. F # {}
        BY <2>7, FS_EmptySet
      <3>2. PICK c \in F : TRUE
        BY <3>1
      <3>3. c \in T /\ s2[c] = k
        BY <2>3, <3>2 DEF M
      <3> QED BY <1>0, <3>3 DEF Selection!KbsOf
    <2>11. ASSUME NEW h \in Selection!KbsOf(S) PROVE h \in Selection!KbsOf(T)
      <3>1. PICK c \in S : s2[c] = h /\ h # None
        BY DEF Selection!KbsOf
      <3>2. CASE c \notin R
        BY <2>3, <3>1, <3>2 DEF Selection!KbsOf
      <3>3. CASE c \in R
        <4>1. Cardinality(MembersOf(h, s2, S)) > 1
          BY <2>3, <3>1, <3>3, CountIs
        <4>2. PICK d \in MembersOf(h, s2, S) : d # c
          <5>1. Cardinality({c}) = 1
            BY FS_Singleton
          <5>2. MembersOf(h, s2, S) # {c} /\ MembersOf(h, s2, S) # {}
            BY <4>1, <5>1, FS_EmptySet
          <5> QED BY <5>2
        <4>3. d \in S /\ s2[d] = h /\ d \notin R
          BY <2>9, <3>3, <4>2 DEF MembersOf
        <4> QED BY <2>3, <3>1, <4>3 DEF Selection!KbsOf
      <3> QED BY <3>2, <3>3
    <2> QED BY <2>10, <2>11
  <1> QED BY <1>2, <1>3

LEMMA KbsAreFinite ==
  ASSUME Selection!SelectionAssumption, Selection!SelectionTypes
  PROVE  IsFiniteSet(Selection!KbsOf(s1)) /\ Cardinality(Selection!KbsOf(s1)) \in Nat
  <1> DEFINE K == Selection!KbsOf(s1)
             L == {s2[c] : c \in s1}
  <1>1. [c \in s1 |-> s2[c]] \in Surjection(s1, L)
    BY DEF Surjection
  <1>2. IsFiniteSet(s1)
    BY EligibleIsFinite
  <1>3. IsFiniteSet(K)
    <2>1. IsFiniteSet(L)
      BY <1>1, <1>2, FS_Surjection
    <2>2. K \in SUBSET L
      BY DEF Selection!KbsOf
    <2> HIDE DEF K, L
    <2> QED BY <2>1, <2>2, FS_Subset
  <1> QED BY <1>3, FS_CardinalityType

\* Neighbours neither come nor go.
LEMMA FillKeepsNeighbours ==
  ASSUME Selection!SelectionAssumption, Selection!SelectionTypes,
         NEW S \in SUBSET s1, NEW k, k # None
  PROVE  MembersOf(None, s2, Selection!Fill(S, k)) = MembersOf(None, s2, S)
  <1>1. Selection!CountOf(k, S) \in Nat /\ s4 \in Nat
    <2>1. MembersOf(k, s2, S) \in SUBSET s1
      BY DEF MembersOf
    <2> QED BY <2>1, CountIs, EligibleIsFinite DEF Selection!SelectionAssumption,
                                                   Selection!SelectionTypes
  <1>2. CASE Selection!CountOf(k, S) < s4
    <2>1. PICK R, F : Filled(Selection!Fill(S, k), S, k, R, F)
      BY <1>2, FillIs
    <2>2. /\ Selection!Fill(S, k) = (S \ R) \cup F
          /\ \A c \in R : s2[c] # None
          /\ \A c \in F : s2[c] = k
      BY <2>1 DEF Filled
    <2> QED BY <2>2 DEF MembersOf
  <1>3. CASE ~(Selection!CountOf(k, S) < s4)
    <2>1. Selection!Fill(S, k) = S
      BY <1>1, <1>3 DEF Selection!Fill, Selection!Lacking
    <2> QED BY <2>1
  <1> QED BY <1>2, <1>3

\* Where the quotas of all fit into final_top_k, next to the neighbours, so does what is filled:
\* either every candidate replaces another, or nobody is above the quota in the end.
LEMMA FillKeepsCount ==
  ASSUME Selection!SelectionAssumption, Selection!SelectionTypes,
         NEW S \in SUBSET s1, Cardinality(S) <= TopK, NEW k, k # None,
         s4 * Cardinality(Selection!KbsOf(s1)) + Cardinality(MembersOf(None, s2, S)) <= TopK
  PROVE  Cardinality(Selection!Fill(S, k)) <= TopK
  <1> DEFINE T == Selection!Fill(S, k)
             K == Selection!KbsOf(s1)
  <1>1. ASSUME NEW h, NEW U \in SUBSET s1
        PROVE  /\ Selection!CountOf(h, U) = Cardinality(MembersOf(h, s2, U))
               /\ Selection!CountOf(h, U) \in Nat /\ IsFiniteSet(MembersOf(h, s2, U))
    <2>1. MembersOf(h, s2, U) \in SUBSET s1
      BY DEF MembersOf
    <2> QED BY <2>1, CountIs, EligibleIsFinite
  <1>2. s4 \in Nat /\ TopK \in Nat
    BY DEF Selection!SelectionAssumption, Selection!SelectionTypes
  <1>3. CASE ~(Selection!CountOf(k, S) < s4)
    <2>1. T = S
      BY <1>1, <1>2, <1>3 DEF Selection!Fill, Selection!Lacking
    <2> QED BY <2>1
  <1>4. CASE Selection!CountOf(k, S) < s4
    <2>1. PICK R, F : Filled(T, S, k, R, F)
      BY <1>4, FillIs
    <2> DEFINE V == {c \in S : s2[c] # None /\ Selection!CountOf(s2[c], S) > s4}
               M == {c \in s1 \ S : s2[c] = k}
               q == Cardinality(F)
               v == Cardinality(V)
    <2>2. /\ T = (S \ R) \cup F /\ R \in SUBSET V /\ F \in SUBSET M
          /\ Cardinality(R) = IF q <= v THEN q ELSE v
          /\ q = IF s4 - Selection!CountOf(k, S) < Cardinality(M)
                 THEN s4 - Selection!CountOf(k, S) ELSE Cardinality(M)
      BY <2>1 DEF Filled
    <2>3. /\ V \in SUBSET S /\ R \in SUBSET s1 /\ F \in SUBSET s1 /\ V \in SUBSET s1
          /\ M \in SUBSET s1 /\ F \cap S = {} /\ R \in SUBSET S /\ S \ R \in SUBSET s1
      BY <2>2
    <2>4. /\ IsFiniteSet(F) /\ q \in Nat /\ IsFiniteSet(V) /\ v \in Nat /\ IsFiniteSet(R)
          /\ Cardinality(M) \in Nat /\ IsFiniteSet(S \ R) /\ Cardinality(S \ R) \in Nat
          /\ Cardinality(S) \in Nat
      BY <2>3, EligibleIsFinite
    <2>5. CASE q <= v
      <3>1. (S \ R) \cap R = {} /\ (S \ R) \cup R = S /\ (S \ R) \cap F = {}
        BY <2>3
      <3>2. Cardinality(S) = Cardinality(S \ R) + Cardinality(R)
        BY <2>4, <3>1, DisjointUnion
      <3>3. Cardinality(T) = Cardinality(S \ R) + q
        BY <2>2, <2>4, <3>1, DisjointUnion
      <3>4. Cardinality(R) = q
        BY <2>2, <2>5
      <3> QED BY <3>2, <3>3, <3>4
    <2>6. CASE ~(q <= v)
      <3>1. R = V
        <4>1. Cardinality(V) = Cardinality(R)
          BY <2>2, <2>6
        <4> QED BY <2>2, <2>4, <4>1, FS_Subset
      <3>2. T \in SUBSET s1
        BY <2>2, <2>3
      <3>3. ASSUME NEW h \in K PROVE Cardinality(MembersOf(h, s2, T)) <= s4
        <4>1. CASE h # k
          <5>1. MembersOf(h, s2, T) \in SUBSET MembersOf(h, s2, S)
            BY <2>2, <4>1 DEF MembersOf
          <5>2. CASE Selection!CountOf(h, S) <= s4
            <6>1. Cardinality(MembersOf(h, s2, T)) <= Cardinality(MembersOf(h, s2, S))
              BY <1>1, <5>1, FS_Subset
            <6>2. /\ Cardinality(MembersOf(h, s2, T)) \in Nat
                  /\ Cardinality(MembersOf(h, s2, S)) \in Nat
              BY <1>1, <3>2
            <6> QED BY <1>1, <1>2, <5>2, <6>1, <6>2
          <5>3. CASE ~(Selection!CountOf(h, S) <= s4)
            <6>1. Selection!CountOf(h, S) > s4
              BY <1>1, <1>2, <5>3
            <6>2. \A c \in S : s2[c] = h => c \in V
              BY <6>1 DEF Selection!KbsOf
            <6>3. MembersOf(h, s2, T) = {}
              BY <2>2, <3>1, <4>1, <6>2 DEF MembersOf
            <6> QED BY <1>2, <6>3, FS_EmptySet
          <5> QED BY <5>2, <5>3
        <4>2. CASE h = k
          <5>1. MembersOf(h, s2, T) = MembersOf(k, s2, S) \cup F
            <6>1. \A c \in S : s2[c] = k => c \notin V
              BY <1>1, <1>2, <1>4
            <6> QED BY <2>2, <3>1, <4>2, <6>1 DEF MembersOf
          <5>2. MembersOf(k, s2, S) \cap F = {}
            BY <2>3 DEF MembersOf
          <5>3. Cardinality(MembersOf(h, s2, T)) = Selection!CountOf(k, S) + q
            <6>1. /\ Selection!CountOf(k, S) = Cardinality(MembersOf(k, s2, S))
                  /\ IsFiniteSet(MembersOf(k, s2, S))
              BY <1>1
            <6>2. Cardinality(MembersOf(k, s2, S) \cup F)
                    = Cardinality(MembersOf(k, s2, S)) + Cardinality(F)
              BY <2>4, <5>2, <6>1, DisjointUnion
            <6> QED BY <5>1, <6>1, <6>2
          <5>4. q <= s4 - Selection!CountOf(k, S)
            <6>1. Selection!CountOf(k, S) \in Nat
              BY <1>1
            <6> HIDE DEF M, q
            <6> QED BY <1>2, <2>2, <2>4, <6>1
          <5> QED BY <1>1, <1>2, <2>4, <5>3, <5>4
        <4> QED BY <4>1, <4>2
      <3> DEFINE U == MembersOf(None, s2, T)
                 G == T \ U
      <3>4. \A c \in G : s2[c] \in K
        BY <3>2 DEF Selection!KbsOf, MembersOf
      <3>5. /\ G \in SUBSET s1 /\ U \in SUBSET s1 /\ IsFiniteSet(G) /\ IsFiniteSet(U)
            /\ Cardinality(G) \in Nat /\ Cardinality(U) \in Nat
        <4>1. G \in SUBSET s1 /\ U \in SUBSET s1
          BY <3>2 DEF MembersOf
        <4> HIDE DEF G, U
        <4> QED BY <4>1, EligibleIsFinite
      <3>6. IsFiniteSet(K) /\ Cardinality(K) \in Nat
        BY KbsAreFinite
      <3>7. ASSUME NEW h \in K PROVE Cardinality(MembersOf(h, s2, G)) <= s4
        <4>1. MembersOf(h, s2, G) = MembersOf(h, s2, T)
          BY DEF MembersOf, Selection!KbsOf
        <4> QED BY <3>3, <4>1
      <3>8. U = MembersOf(None, s2, S)
        BY FillKeepsNeighbours
      <3>9. Cardinality(T) = Cardinality(G) + Cardinality(U)
        <4>1. G \cup U = T /\ G \cap U = {}
          BY DEF MembersOf
        <4> HIDE DEF G, U, T
        <4> QED BY <3>5, <4>1, DisjointUnion
      <3> HIDE DEF T, K, G, U
      <3>10. Cardinality(G) <= s4 * Cardinality(K)
        BY <1>2, <3>4, <3>5, <3>6, <3>7, MembersInAll
      <3> DEFINE most == s4 * Cardinality(K)
      <3>11. most \in Nat /\ most + Cardinality(U) <= TopK
        BY <1>2, <3>6, <3>8 DEF K
      <3> HIDE DEF most
      <3> QED BY <1>2, <3>5, <3>9, <3>10, <3>11 DEF most, T
    <2> QED BY <2>5, <2>6
  <1> QED BY <1>3, <1>4

\* The knowledge bases are served in turn.
ServedInTurn(t, order, N) ==
    /\ t \in [0 .. N -> SUBSET s1] /\ t[0] = Selection!FirstFit
    /\ \A n \in 1 .. N : t[n] = Selection!Fill(t[n - 1], order[n])

LEMMA SelectContextIs ==
  ASSUME Selection!SelectionAssumption, Selection!SelectionTypes,
         NEW N \in Nat, NEW order, Len(order) = N
  PROVE  \E t : /\ ServedInTurn(t, order, N)
                /\ Selection!SelectContext(order)
                     = IF s4 > 0 /\ N > 1 THEN t[N] ELSE Selection!FirstFit
  <1> DEFINE H == [p \in (SUBSET s1) \X (1 .. N) |-> Selection!Fill(p[1], order[p[2]])]
             Eq(t) == t = [n \in 0 .. N |-> IF n = 0 THEN Selection!FirstFit
                                            ELSE Selection!Fill(t[n - 1], order[n])]
  <1>1. Selection!FirstFit \in SUBSET s1
    BY FirstFitKeepsBudget
  <1>2. Rounds(H, N, SUBSET s1)
    <2>1. ASSUME NEW S \in SUBSET s1, NEW n \in 1 .. N PROVE H[<<S, n>>] \in SUBSET s1
      <3>1. H[<<S, n>>] = Selection!Fill(S, order[n])
        OBVIOUS
      <3> QED BY <3>1, FillStays
    <2> HIDE DEF H
    <2> QED BY <2>1 DEF Rounds
  <1>3. PICK F : Iterates(F, H, N, SUBSET s1, Selection!FirstFit)
    <2> HIDE DEF H
    <2> QED BY <1>1, <1>2, IterationExists
  <1>4. F \in [0 .. N -> SUBSET s1] /\ F[0] = Selection!FirstFit
        /\ \A n \in 1 .. N : F[n] = H[<<F[n - 1], n>>]
    BY <1>3 DEF Iterates
  <1>5. ASSUME NEW n \in 1 .. N PROVE F[n] = Selection!Fill(F[n - 1], order[n])
    <2>1. n - 1 \in 0 .. N
      OBVIOUS
    <2>2. F[n - 1] \in SUBSET s1
      BY <1>4, <2>1
    <2> QED BY <1>4, <2>2
  <1>6. Eq(F)
    <2>1. ASSUME NEW n \in 0 .. N
          PROVE  F[n] = IF n = 0 THEN Selection!FirstFit ELSE Selection!Fill(F[n - 1], order[n])
      <3>1. n = 0 \/ n \in 1 .. N
        OBVIOUS
      <3> QED BY <1>4, <1>5, <3>1
    <2> QED BY <1>4, <2>1
  <1> DEFINE t == CHOOSE t : Eq(t)
  <1>7. Eq(t)
    <2> HIDE DEF Eq
    <2> QED BY <1>6
  <1>8. Selection!SelectContext(order) = IF s4 > 0 /\ N > 1 THEN t[N] ELSE Selection!FirstFit
    BY DEF Selection!SelectContext
  <1> HIDE DEF t, H
  <1>9. t[0] = Selection!FirstFit
        /\ \A n \in 1 .. N : t[n] = Selection!Fill(t[n - 1], order[n])
    <2>1. 0 \in 0 .. N /\ \A n \in 1 .. N : n \in 0 .. N /\ n # 0
      OBVIOUS
    <2> QED BY <1>7, <2>1
  <1>10. t \in [0 .. N -> SUBSET s1]
    <2> DEFINE Good == {n \in Nat : n <= N => t[n] \in SUBSET s1}
    <2>1. 0 \in Good
      BY <1>1, <1>9
    <2>2. ASSUME NEW n \in Nat, n \in Good PROVE n + 1 \in Good
      <3>1. ASSUME n + 1 <= N PROVE t[n + 1] \in SUBSET s1
        <4>1. n + 1 \in 1 .. N /\ t[n] \in SUBSET s1 /\ (n + 1) - 1 = n
          BY <2>2, <3>1
        <4>2. t[n + 1] = Selection!Fill(t[n], order[n + 1])
          BY <1>9, <4>1
        <4> QED BY <4>1, <4>2, FillStays
      <3> QED BY <3>1
    <2>3. \A n \in Nat : n \in Good
      <3> HIDE DEF Good
      <3> QED BY <2>1, <2>2, Inductive
    <2>4. \A n \in 0 .. N : t[n] \in SUBSET s1
      BY <2>3
    <2>5. t = [n \in 0 .. N |-> t[n]]
      <3>1. t = [n \in 0 .. N |-> IF n = 0 THEN Selection!FirstFit
                                  ELSE Selection!Fill(t[n - 1], order[n])]
        BY <1>7
      <3> QED BY <3>1
    <2> HIDE DEF Good
    <2> QED BY <2>4, <2>5
  <1>11. ServedInTurn(t, order, N)
    BY <1>9, <1>10 DEF ServedInTurn
  <1> HIDE DEF Eq
  <1> QED BY <1>8, <1>11

\* An order of the knowledge bases names each of them.
LEMMA OrderOfKbs ==
  ASSUME Selection!SelectionAssumption, Selection!SelectionTypes,
         NEW order \in Selection!Bijection(1 .. Selection!Cardinality(Selection!KbsOf(s1)),
                                           Selection!KbsOf(s1))
  PROVE  LET N == Cardinality(Selection!KbsOf(s1)) IN
         /\ N \in Nat /\ Len(order) = N /\ order \in [1 .. N -> Selection!KbsOf(s1)]
         /\ \A k \in Selection!KbsOf(s1) : \E n \in 1 .. N : order[n] = k
  <1> DEFINE N == Cardinality(Selection!KbsOf(s1))
  <1>1. Selection!Cardinality(Selection!KbsOf(s1)) = N
    BY SelectionCardinality
  <1>2. N \in Nat
    BY KbsAreFinite
  <1> HIDE DEF N
  <1>3. order \in [1 .. N -> Selection!KbsOf(s1)]
        /\ \A k \in Selection!KbsOf(s1) : \E n \in 1 .. N : order[n] = k
    BY <1>1 DEF Selection!Bijection, Selection!Injection, Selection!Surjection
  <1> QED BY <1>2, <1>3 DEF N

LEMMA ContextIsSelected ==
  ASSUME Selection!SelectionAssumption, Selection!SelectionTypes,
         NEW order \in Selection!Bijection(1 .. Selection!Cardinality(Selection!KbsOf(s1)),
                                           Selection!KbsOf(s1))
  PROVE  LET T == Selection!SelectContext(order)
             K == Selection!KbsOf(s1)
         IN  /\ T \in SUBSET s1
             /\ s4 = 0 => T = Selection!FirstFit
             /\ s4 = 1 /\ Cardinality(K) > 1 => Selection!KbsOf(T) = K
             /\ s4 * Cardinality(K) + Cardinality(MembersOf(None, s2, T)) <= TopK
                  => Cardinality(T) <= TopK
  <1> DEFINE T == Selection!SelectContext(order)
             K == Selection!KbsOf(s1)
             N == Cardinality(K)
  <1>1. /\ N \in Nat /\ Len(order) = N /\ order \in [1 .. N -> K]
        /\ \A k \in K : \E n \in 1 .. N : order[n] = k
    BY OrderOfKbs
  <1>2. PICK t : /\ ServedInTurn(t, order, N)
                 /\ T = IF s4 > 0 /\ N > 1 THEN t[N] ELSE Selection!FirstFit
    <2> HIDE DEF N
    <2> QED BY <1>1, SelectContextIs
  <1>3. Selection!FirstFit \in SUBSET s1 /\ Cardinality(Selection!FirstFit) <= TopK
    BY FirstFitKeepsBudget
  <1>4. /\ t \in [0 .. N -> SUBSET s1] /\ t[0] = Selection!FirstFit
        /\ \A n \in 1 .. N : t[n] = Selection!Fill(t[n - 1], order[n])
    BY <1>2 DEF ServedInTurn
  <1> HIDE DEF N, T, K
  <1>5. N \in 0 .. N
    BY <1>1
  <1>6. T \in SUBSET s1
    BY <1>2, <1>3, <1>4, <1>5
  <1>7. s4 = 0 => T = Selection!FirstFit
    BY <1>2
  <1>8. ASSUME s4 = 1, N > 1 PROVE Selection!KbsOf(T) = K
    <2> DEFINE Good == {n \in Nat : n <= N => \A j \in 1 .. n : order[j] \in Selection!KbsOf(t[n])}
    <2>1. 0 \in Good
      OBVIOUS
    <2>2. ASSUME NEW n \in Nat, n \in Good PROVE n + 1 \in Good
      <3>1. ASSUME n + 1 <= N, NEW j \in 1 .. n + 1 PROVE order[j] \in Selection!KbsOf(t[n + 1])
        <4>1. n + 1 \in 1 .. N /\ n \in 0 .. N /\ (n + 1) - 1 = n /\ (j \in 1 .. n \/ j = n + 1)
          BY <1>1, <3>1
        <4>2. t[n + 1] = Selection!Fill(t[n], order[n + 1]) /\ t[n] \in SUBSET s1
          BY <1>4, <4>1
        <4>3. order[n + 1] \in Selection!KbsOf(s1)
          BY <1>1, <4>1 DEF K
        <4>4. order[j] \in Selection!KbsOf(t[n]) \cup {order[n + 1]}
          BY <1>1, <2>2, <3>1, <4>1
        <4> QED BY <1>8, <4>2, <4>3, <4>4, FillIsHeard
      <3> QED BY <3>1
    <2>3. \A n \in Nat : n \in Good
      <3> HIDE DEF Good
      <3> QED BY <2>1, <2>2, Inductive
    <2>4. \A j \in 1 .. N : order[j] \in Selection!KbsOf(t[N])
      BY <1>1, <2>3
    <2>5. T = t[N]
      BY <1>2, <1>8
    <2>6. \A k \in K : k \in Selection!KbsOf(T)
      BY <1>1, <2>4, <2>5
    <2>7. \A k \in Selection!KbsOf(T) : k \in K
      BY <1>6 DEF K, Selection!KbsOf
    <2> QED BY <2>6, <2>7
  <1> DEFINE U == MembersOf(None, s2, Selection!FirstFit)
  <1>9. \A n \in 1 .. N : order[n] \in K /\ order[n] # None
    BY <1>1 DEF K, Selection!KbsOf
  <1>10. \A n \in 0 .. N : MembersOf(None, s2, t[n]) = U
    <2> DEFINE Good == {n \in Nat : n <= N => MembersOf(None, s2, t[n]) = U}
    <2>1. 0 \in Good
      BY <1>4
    <2>2. ASSUME NEW n \in Nat, n \in Good PROVE n + 1 \in Good
      <3>1. ASSUME n + 1 <= N PROVE MembersOf(None, s2, t[n + 1]) = U
        <4>1. n + 1 \in 1 .. N /\ n \in 0 .. N /\ (n + 1) - 1 = n /\ n <= N
          BY <1>1, <3>1
        <4>2. t[n + 1] = Selection!Fill(t[n], order[n + 1]) /\ t[n] \in SUBSET s1
          BY <1>4, <4>1
        <4>3. MembersOf(None, s2, t[n]) = U
          BY <2>2, <4>1
        <4>4. order[n + 1] # None
          BY <1>9, <4>1
        <4> QED BY <4>2, <4>3, <4>4, FillKeepsNeighbours
      <3> QED BY <3>1
    <2>3. \A n \in Nat : n \in Good
      <3> HIDE DEF Good
      <3> QED BY <2>1, <2>2, Inductive
    <2> QED BY <2>3
  <1>11. MembersOf(None, s2, T) = U
    BY <1>2, <1>5, <1>10
  <1>12. ASSUME s4 * N + Cardinality(U) <= TopK PROVE Cardinality(T) <= TopK
    <2> DEFINE Good == {n \in Nat : n <= N => Cardinality(t[n]) <= TopK}
    <2>1. 0 \in Good
      BY <1>3, <1>4
    <2>2. ASSUME NEW n \in Nat, n \in Good PROVE n + 1 \in Good
      <3>1. ASSUME n + 1 <= N PROVE Cardinality(t[n + 1]) <= TopK
        <4>1. n + 1 \in 1 .. N /\ n \in 0 .. N /\ (n + 1) - 1 = n /\ n <= N
          BY <1>1, <3>1
        <4>2. t[n + 1] = Selection!Fill(t[n], order[n + 1]) /\ t[n] \in SUBSET s1
          BY <1>4, <4>1
        <4>3. Cardinality(t[n]) <= TopK /\ order[n + 1] # None
          BY <1>9, <2>2, <4>1
        <4>4. s4 * Cardinality(Selection!KbsOf(s1)) + Cardinality(MembersOf(None, s2, t[n])) <= TopK
          BY <1>10, <1>12, <4>1 DEF N, K
        <4> QED BY <4>2, <4>3, <4>4, FillKeepsCount
      <3>2. n + 1 \in Nat
        OBVIOUS
      <3> QED BY <3>1, <3>2
    <2>3. \A n \in Nat : n \in Good
      <3> HIDE DEF Good
      <3> QED BY <2>1, <2>2, Inductive
    <2>4. Cardinality(t[N]) <= TopK
      BY <1>1, <2>3
    <2> QED BY <1>2, <1>3, <2>4
  <1> HIDE DEF U
  <1> QED BY <1>6, <1>7, <1>8, <1>11, <1>12 DEF N, T, K

LEMMA SelectionInitInv ==
  ASSUME Selection!Init
  PROVE  Selection!SelectionInv
  BY DEF Selection!Init, Selection!SelectionInv, Selection!SelectionTypes

LEMMA SelectionNextInv ==
  ASSUME Selection!SelectionInv, [Selection!Next]_Selection!vars
  PROVE  Selection!SelectionInv'
  <1>1. UNCHANGED <<s1, s2, s3, s4, s5>>
    BY DEF Selection!Next, Selection!Select, Selection!vars
  <1>2. Selection!SelectionTypes'
    BY <1>1 DEF Selection!SelectionInv, Selection!SelectionTypes
  <1>3. Selection!KbsOf(s1)' = Selection!KbsOf(s1)
    BY <1>1 DEF Selection!KbsOf
  <1>4. ASSUME NEW order PROVE Selection!SelectContext(order)' = Selection!SelectContext(order)
    <2> DEFINE E(f) == f = [n \in 0 .. Len(order) |->
                               IF n = 0 THEN Selection!FirstFit
                               ELSE Selection!Fill(f[n - 1], order[n])]
               P(f) == f = [n \in 0 .. Len(order) |->
                               IF n = 0 THEN Selection!FirstFit'
                               ELSE Selection!Fill(f[n - 1], order[n])']
    <2>1. Selection!FirstFit' = Selection!FirstFit
      BY <1>1 DEF Selection!FirstFit, Selection!Take, Selection!Fits, Selection!TokenBudget,
             Selection!Falling, Selection!Tokens, Selection!MapThenSumSet,
             Selection!MapThenFoldSet
    <2>2. ASSUME NEW S, NEW k PROVE Selection!Fill(S, k)' = Selection!Fill(S, k)
      BY <1>1 DEF Selection!Fill, Selection!Lacking, Selection!Backfill, Selection!Evictable,
             Selection!Falling, Selection!Rising, Selection!CountOf
    <2>3. ASSUME NEW f PROVE E(f) <=> P(f)
      <3>1. ASSUME NEW n PROVE Selection!Fill(f[n - 1], order[n])' = Selection!Fill(f[n - 1], order[n])
        BY <2>2
      <3> QED BY <2>1, <3>1
    <2>4. (CHOOSE f : E(f)) = (CHOOSE f : P(f))
      <3> HIDE DEF E, P
      <3> QED BY <2>3
    <2>5. Selection!SelectContext(order) = IF s4 > 0 /\ Len(order) > 1
             THEN (CHOOSE f : E(f))[Len(order)] ELSE Selection!FirstFit
      BY DEF Selection!SelectContext
    <2>6. Selection!SelectContext(order)' = IF s4' > 0 /\ Len(order) > 1
             THEN (CHOOSE f : P(f))[Len(order)] ELSE Selection!FirstFit'
      BY DEF Selection!SelectContext
    <2> HIDE DEF E, P
    <2> QED BY <1>1, <2>1, <2>4, <2>5, <2>6
  <1> DEFINE Orders == Selection!Bijection(1 .. Selection!Cardinality(Selection!KbsOf(s1)),
                                           Selection!KbsOf(s1))
  <1>5. ASSUME s6' # <<>>
        PROVE  \E order \in Orders : s6' = <<Selection!Falling(Selection!SelectContext(order))>>
    BY <1>5 DEF Selection!SelectionInv, Selection!Next, Selection!Select, Selection!vars
  <1>6. Orders' = Orders
    BY <1>3 DEF Selection!Bijection, Selection!Injection, Selection!Surjection,
                Selection!IsInjective
  <1>7. ASSUME NEW order
        PROVE  <<Selection!Falling(Selection!SelectContext(order))>>'
                 = <<Selection!Falling(Selection!SelectContext(order))>>
    <2> DEFINE T == Selection!SelectContext(order)
    <2>1. T' = T
      BY <1>4
    <2> HIDE DEF T
    <2>2. Selection!Falling(T)' = Selection!Falling(T)
      BY <2>1 DEF Selection!Falling
    <2> USE DEF T
    <2> QED BY <2>2
  <1>8. ASSUME s6' # <<>>
        PROVE  \E order \in Orders' :
                 s6' = <<Selection!Falling(Selection!SelectContext(order))>>'
    <2>1. PICK order \in Orders : s6' = <<Selection!Falling(Selection!SelectContext(order))>>
      BY <1>5, <1>8
    <2>2. order \in Orders'
      <3> HIDE DEF Orders
      <3> QED BY <1>6, <2>1
    <2>3. s6' = <<Selection!Falling(Selection!SelectContext(order))>>'
      BY <1>7, <2>1
    <2> HIDE DEF Orders
    <2> QED BY <2>2, <2>3
  <1> QED BY <1>2, <1>8 DEF Selection!SelectionInv

LEMMA SelectionSound ==
  ASSUME Selection!SelectionAssumption, Selection!SelectionInv
  PROVE  Selection!BudgetIsKept /\ Selection!QuotaIsKept
  <1> SUFFICES ASSUME s6 # <<>> PROVE Selection!BudgetIsKept /\ Selection!QuotaIsKept
    BY DEF Selection!BudgetIsKept, Selection!QuotaIsKept
  <1>1. Selection!SelectionTypes
    BY DEF Selection!SelectionInv
  <1>2. PICK order \in Selection!Bijection(1 .. Selection!Cardinality(Selection!KbsOf(s1)),
                                           Selection!KbsOf(s1)) :
           s6 = <<Selection!Falling(Selection!SelectContext(order))>>
    BY DEF Selection!SelectionInv
  <1> DEFINE T == Selection!SelectContext(order)
             K == Selection!KbsOf(s1)
  <1>3. /\ T \in SUBSET s1
        /\ s4 = 0 => T = Selection!FirstFit
        /\ s4 = 1 /\ Cardinality(K) > 1 => Selection!KbsOf(T) = K
        /\ s4 * Cardinality(K) + Cardinality(MembersOf(None, s2, T)) <= TopK
             => Cardinality(T) <= TopK
    BY <1>1, ContextIsSelected
  <1>4. Selection!Chosen = T
    <2>1. T \in SUBSET Nat /\ IsFiniteSet(T)
      BY <1>1, <1>3, EligibleIsFinite
    <2>2. Selection!Range(Selection!Falling(T)) = T
      <3> HIDE DEF T
      <3> QED BY <2>1, FallingIs
    <2> QED BY <1>2, <2>2 DEF Selection!Chosen
  <1>5. /\ Selection!Cardinality(T) = Cardinality(T) /\ Selection!Cardinality(K) = Cardinality(K)
        /\ Selection!Cardinality(Selection!Neighbours(T)) = Cardinality(MembersOf(None, s2, T))
    <2>1. Selection!Neighbours(T) = MembersOf(None, s2, T)
      BY DEF Selection!Neighbours, MembersOf
    <2> QED BY <2>1, SelectionCardinality
  <1>6. Selection!BudgetIsKept
    <2> SUFFICES ASSUME s4 = 0
                 PROVE  /\ Cardinality(T) <= TopK
                        /\ s5 < ContextWindow => s5 + Selection!Tokens(T) <= ContextWindow
                        /\ Cardinality(T) < TopK =>
                             \A c \in s1 \ T : ~Selection!Fits({d \in T : d > c}, c)
      BY <1>4, <1>5 DEF Selection!BudgetIsKept
    <2> QED BY <1>1, <1>3, FirstFitKeepsBudget
  <1>7. Selection!QuotaIsKept
    BY <1>3, <1>4, <1>5 DEF Selection!QuotaIsKept
  <1> QED BY <1>6, <1>7

-----------------------------------------------------------------------------
(***************************************************************************)
(* FixedWindowChunks.  Normalization joins lines and repeats blanks, but   *)
(* what is visible stays: it only ever adds blanks to it, or the character *)
(* that it looks at.                                                       *)
(***************************************************************************)
\* What is visible of the first n characters of a text, for every n.
Sees(f, s) ==
    /\ f \in [0 .. Len(s) -> Seq(Windows!Kinds)] /\ f[0] = <<>>
    /\ \A n \in 1 .. Len(s) :
         f[n] = IF s[n] \in Windows!Blanks THEN f[n - 1] ELSE Append(f[n - 1], s[n])

LEMMA VisibleIs ==
  ASSUME NEW s \in Seq(Windows!Kinds)
  PROVE  \E f : Sees(f, s) /\ Windows!Visible(s) = f[Len(s)]
  <1> DEFINE N == Len(s)
             V == Seq(Windows!Kinds)
             H == [p \in V \X (1 .. N) |-> IF s[p[2]] \in Windows!Blanks THEN p[1]
                                           ELSE Append(p[1], s[p[2]])]
             Eq(t) == t = [n \in 0 .. N |->
                             IF n = 0 THEN <<>>
                             ELSE IF s[n] \in Windows!Blanks THEN t[n - 1]
                             ELSE Append(t[n - 1], s[n])]
  <1>1. N \in Nat /\ \A n \in 1 .. N : s[n] \in Windows!Kinds
    OBVIOUS
  <1>2. Windows!Visible(s) = (CHOOSE t : Eq(t))[N]
    BY DEF Windows!Visible
  <1> HIDE DEF N
  <1>3. Rounds(H, N, V)
    <2>1. ASSUME NEW v \in V, NEW n \in 1 .. N PROVE H[<<v, n>>] \in V
      <3>1. s[n] \in Windows!Kinds
        BY <1>1
      <3>2. Append(v, s[n]) \in V
        BY <3>1, AppendProperties
      <3>3. H[<<v, n>>] = IF s[n] \in Windows!Blanks THEN v ELSE Append(v, s[n])
        OBVIOUS
      <3> QED BY <3>2, <3>3
    <2> HIDE DEF H
    <2> QED BY <2>1 DEF Rounds
  <1>4. PICK F : Iterates(F, H, N, V, <<>>)
    <2>1. <<>> \in V
      OBVIOUS
    <2> HIDE DEF H, V
    <2> QED BY <1>1, <1>3, <2>1, IterationExists
  <1>5. /\ F \in [0 .. N -> V] /\ F[0] = <<>>
        /\ \A n \in 1 .. N : F[n] = IF s[n] \in Windows!Blanks THEN F[n - 1]
                                    ELSE Append(F[n - 1], s[n])
    <2>1. /\ F \in [0 .. N -> V] /\ F[0] = <<>>
          /\ \A n \in 1 .. N : F[n] = H[<<F[n - 1], n>>]
      BY <1>4 DEF Iterates
    <2>2. ASSUME NEW n \in 1 .. N
          PROVE  H[<<F[n - 1], n>>] = IF s[n] \in Windows!Blanks THEN F[n - 1]
                                      ELSE Append(F[n - 1], s[n])
      <3>1. F[n - 1] \in V
        BY <1>1, <2>1
      <3> HIDE DEF V
      <3> QED BY <3>1
    <2> HIDE DEF H
    <2> QED BY <2>1, <2>2
  <1>6. Eq(F)
    <2>1. F = [n \in 0 .. N |-> F[n]]
      BY <1>5
    <2>2. ASSUME NEW n \in 0 .. N
          PROVE  F[n] = IF n = 0 THEN <<>> ELSE IF s[n] \in Windows!Blanks THEN F[n - 1]
                                                ELSE Append(F[n - 1], s[n])
      <3>1. n # 0 => n \in 1 .. N
        BY <1>1
      <3> QED BY <1>5, <3>1
    <2> QED BY <2>1, <2>2
  <1>7. Eq(CHOOSE t : Eq(t))
    <2> HIDE DEF Eq
    <2> QED BY <1>6
  <1> DEFINE f == CHOOSE t : Eq(t)
  <1> HIDE DEF f
  <1>8. Eq(f) /\ Windows!Visible(s) = f[N]
    BY <1>2, <1>7 DEF f
  <1>9. f = F
    <2> DEFINE Good == {n \in Nat : n <= N => f[n] = F[n]}
    <2>1. f[0] = <<>> /\ \A n \in 1 .. N : f[n] = IF s[n] \in Windows!Blanks THEN f[n - 1]
                                                  ELSE Append(f[n - 1], s[n])
      <3>1. 0 \in 0 .. N /\ \A n \in 1 .. N : n \in 0 .. N /\ n # 0
        BY <1>1
      <3> QED BY <1>8, <3>1
    <2>2. 0 \in Good
      BY <1>5, <2>1
    <2>3. ASSUME NEW n \in Nat, n \in Good PROVE n + 1 \in Good
      <3>1. ASSUME n + 1 <= N PROVE f[n + 1] = F[n + 1]
        <4>1. n + 1 \in 1 .. N /\ (n + 1) - 1 = n /\ f[n] = F[n]
          BY <1>1, <2>3, <3>1
        <4> QED BY <1>5, <2>1, <4>1
      <3> QED BY <3>1
    <2>4. \A n \in Nat : n \in Good
      <3> HIDE DEF Good
      <3> QED BY <2>2, <2>3, Inductive
    <2>5. \A n \in 0 .. N : f[n] = F[n]
      BY <1>1, <2>4
    <2>6. f = [n \in 0 .. N |-> f[n]]
      BY <1>8
    <2> QED BY <1>5, <2>5, <2>6
  <1> QED BY <1>5, <1>8, <1>9 DEF Sees, N

\* Nothing but blanks is added.
LEMMA BlanksAreInvisible ==
  ASSUME NEW s \in Seq(Windows!Kinds), NEW t \in Seq(Windows!Kinds), Len(s) <= Len(t),
         \A p \in 1 .. Len(s) : t[p] = s[p],
         \A p \in Len(s) + 1 .. Len(t) : t[p] \in Windows!Blanks
  PROVE  Windows!Visible(t) = Windows!Visible(s)
  <1>1. PICK f : Sees(f, s) /\ Windows!Visible(s) = f[Len(s)]
    BY VisibleIs
  <1>2. PICK g : Sees(g, t) /\ Windows!Visible(t) = g[Len(t)]
    BY VisibleIs
  <1>3. Len(s) \in Nat /\ Len(t) \in Nat
    OBVIOUS
  <1> DEFINE Good == {n \in Nat : n <= Len(t) =>
                                    g[n] = IF n <= Len(s) THEN f[n] ELSE f[Len(s)]}
  <1>4. 0 \in Good
    BY <1>1, <1>2, <1>3 DEF Sees
  <1>5. ASSUME NEW n \in Nat, n \in Good PROVE n + 1 \in Good
    <2>1. ASSUME n + 1 <= Len(t)
          PROVE  g[n + 1] = IF n + 1 <= Len(s) THEN f[n + 1] ELSE f[Len(s)]
      <3>1. n + 1 \in 1 .. Len(t) /\ (n + 1) - 1 = n
        BY <1>3, <1>5, <2>1
      <3>2. g[n + 1] = IF t[n + 1] \in Windows!Blanks THEN g[n] ELSE Append(g[n], t[n + 1])
        BY <1>2, <3>1 DEF Sees
      <3>3. CASE n + 1 <= Len(s)
        <4>1. n + 1 \in 1 .. Len(s) /\ t[n + 1] = s[n + 1] /\ g[n] = f[n]
          BY <1>3, <1>5, <2>1, <3>1, <3>3
        <4>2. f[n + 1] = IF s[n + 1] \in Windows!Blanks THEN f[n] ELSE Append(f[n], s[n + 1])
          BY <1>1, <3>1, <4>1 DEF Sees
        <4> QED BY <3>2, <3>3, <4>1, <4>2
      <3>4. CASE ~(n + 1 <= Len(s))
        <4>1. n + 1 \in Len(s) + 1 .. Len(t)
          BY <1>3, <3>1, <3>4
        <4>2. g[n] = f[Len(s)]
          <5>1. n <= Len(s) => n = Len(s)
            BY <1>3, <3>4
          <5>2. g[n] = IF n <= Len(s) THEN f[n] ELSE f[Len(s)]
            BY <1>3, <1>5, <2>1
          <5> QED BY <5>1, <5>2
        <4> QED BY <3>2, <3>4, <4>1, <4>2
      <3> QED BY <3>3, <3>4
    <2> QED BY <2>1
  <1>6. Len(t) \in Good
    <2>1. \A n \in Nat : n \in Good
      <3> HIDE DEF Good
      <3> QED BY <1>4, <1>5, Inductive
    <2> QED BY <1>3, <2>1
  <1>7. g[Len(t)] = f[Len(s)]
    BY <1>3, <1>6
  <1> QED BY <1>1, <1>2, <1>7

\* A character more.
LEMMA OneMoreVisible ==
  ASSUME NEW s \in Seq(Windows!Kinds), NEW c \in Windows!Kinds
  PROVE  Windows!Visible(Append(s, c))
           = IF c \in Windows!Blanks THEN Windows!Visible(s) ELSE Append(Windows!Visible(s), c)
  <1> DEFINE t == Append(s, c)
             n == Len(s)
  <1>1. /\ t \in Seq(Windows!Kinds) /\ Len(t) = n + 1 /\ t[n + 1] = c /\ n \in Nat
        /\ \A p \in 1 .. n : t[p] = s[p]
    BY AppendProperties
  <1> HIDE DEF t
  <1>2. PICK f : Sees(f, s) /\ Windows!Visible(s) = f[n]
    BY VisibleIs
  <1>3. PICK g : Sees(g, t) /\ Windows!Visible(t) = g[Len(t)]
    BY <1>1, VisibleIs
  <1> DEFINE Good == {k \in Nat : k <= n => g[k] = f[k]}
  <1>4. 0 \in Good
    BY <1>2, <1>3 DEF Sees
  <1>5. ASSUME NEW k \in Nat, k \in Good PROVE k + 1 \in Good
    <2>1. ASSUME k + 1 <= n PROVE g[k + 1] = f[k + 1]
      <3>1. k + 1 \in 1 .. n /\ k + 1 \in 1 .. Len(t) /\ (k + 1) - 1 = k /\ g[k] = f[k]
        BY <1>1, <1>5, <2>1
      <3>2. g[k + 1] = IF t[k + 1] \in Windows!Blanks THEN g[k] ELSE Append(g[k], t[k + 1])
        BY <1>3, <3>1 DEF Sees
      <3>3. f[k + 1] = IF s[k + 1] \in Windows!Blanks THEN f[k] ELSE Append(f[k], s[k + 1])
        BY <1>2, <3>1 DEF Sees
      <3> QED BY <1>1, <3>1, <3>2, <3>3
    <2> QED BY <2>1
  <1>6. g[n] = f[n]
    <2>1. \A k \in Nat : k \in Good
      <3> HIDE DEF Good
      <3> QED BY <1>4, <1>5, Inductive
    <2> QED BY <1>1, <2>1
  <1>7. g[n + 1] = IF c \in Windows!Blanks THEN g[n] ELSE Append(g[n], c)
    <2>1. n + 1 \in 1 .. Len(t) /\ (n + 1) - 1 = n
      <3> HIDE DEF n
      <3>1. Len(t) = n + 1 /\ n \in Nat
        BY <1>1
      <3> QED BY <3>1
    <2> QED BY <1>1, <1>3, <2>1 DEF Sees
  <1> QED BY <1>1, <1>2, <1>3, <1>6, <1>7 DEF t

\* The skipped characters of a break are blanks.
LEMMA BreakIsBlank ==
  ASSUME Windows!WindowTypes, s5 <= Len(s1), s1[s5] \in Windows!Blanks,
         NEW p \in s5 .. Windows!NextVisible - 1
  PROVE  s1[p] \in Windows!Blanks
  <1> DEFINE S == {q \in s5 .. Len(s1) + 1 : Windows!At(q) \notin Windows!Blanks}
  <1>1. s5 \in Nat /\ Len(s1) \in Nat /\ DOMAIN s1 = 1 .. Len(s1) /\ s5 >= 1
    BY DEF Windows!WindowTypes
  <1>2. Windows!NextVisible \in s5 + 1 .. Len(s1) + 1
    BY VisibleIsNext
  <1>3. \A q \in S : Windows!NextVisible <= q
    <2>1. S \in SUBSET Nat /\ Windows!NextVisible = Windows!Min(S)
      BY <1>1 DEF Windows!NextVisible
    <2>2. S # {}
      <3>1. Len(s1) + 1 \notin DOMAIN s1 /\ Len(s1) + 1 \in s5 .. Len(s1) + 1
        BY <1>1
      <3> QED BY <3>1 DEF Windows!At, Windows!Blanks
    <2>3. PICK n \in S : \A m \in S : n <= m
      <3> HIDE DEF S
      <3> QED BY <2>1, <2>2, LeastExists
    <2> HIDE DEF S
    <2> QED BY <2>1, <2>3 DEF Windows!Min
  <1>4. p \in s5 .. Len(s1) + 1 /\ p \in DOMAIN s1 /\ p \in Nat /\ p < Windows!NextVisible
    BY <1>1, <1>2
  <1>5. p \notin S
    BY <1>2, <1>3, <1>4
  <1> QED BY <1>4, <1>5 DEF Windows!At

LEMMA TextInitInv ==
  ASSUME Windows!ChunkAssumption, Windows!Init
  PROVE  Windows!NormalizationKeepsText
  <1>1. s1 \in Seq(Windows!Kinds) /\ s7 = <<>> /\ s5 = 1
    BY WindowsInitInv DEF Windows!Init, Windows!WindowInv, Windows!WindowTypes
  <1>2. SubSeq(s1, 1, s5 - 1) = <<>>
    BY <1>1
  <1> QED BY <1>1, <1>2 DEF Windows!NormalizationKeepsText

\* Every round of the normalization adds to what is visible what it looks at.
LEMMA NormalizeKeepsText ==
  ASSUME Windows!WindowInv, Windows!NormalizationKeepsText, Windows!Normalize
  PROVE  Windows!NormalizationKeepsText'
  <1> DEFINE K == Windows!Kinds
             c == s1[s5]
             read == SubSeq(s1, 1, s5 - 1)
  <1>1. /\ s1 \in Seq(K) /\ s7 \in Seq(K) /\ Len(s1) \in Nat /\ s5 \in 1 .. Len(s1)
        /\ s1' = s1 /\ c \in K
    BY DEF Windows!WindowInv, Windows!WindowTypes, Windows!Normalize
  <1>2. Windows!Visible(s7) = Windows!Visible(read)
    BY DEF Windows!NormalizationKeepsText
  <1>3. /\ read \in Seq(K) /\ Len(read) = s5 - 1 /\ \A p \in 1 .. s5 - 1 : read[p] = s1[p]
    BY <1>1
  <1>4. SubSeq(s1, 1, s5) = Append(read, c)
    <2>1. SubSeq(s1, 1, s5) \in Seq(K) /\ Len(SubSeq(s1, 1, s5)) = s5
      BY <1>1
    <2> QED BY <1>1, <1>3, <2>1
  <1> SUFFICES Windows!Visible(s7') = Windows!Visible(SubSeq(s1, 1, s5' - 1))
    BY <1>1 DEF Windows!NormalizationKeepsText
  <1>5. Windows!Visible(Append(read, c))
          = IF c \in Windows!Blanks THEN Windows!Visible(s7) ELSE Append(Windows!Visible(s7), c)
    <2> HIDE DEF read, c, K
    <2> QED BY <1>1, <1>2, <1>3, OneMoreVisible DEF K
  <1>6. Windows!Visible(Append(s7, c)) = Windows!Visible(Append(read, c))
    <2> HIDE DEF read, c, K
    <2> QED BY <1>1, <1>5, OneMoreVisible DEF K
  <1>7. CASE s5' = s5 + 1 /\ (s7' = Append(s7, c) \/ (s7' = s7 /\ c \in Windows!Blanks))
    <2>1. s5' - 1 = s5
      BY <1>1, <1>7
    <2> HIDE DEF read, c
    <2> QED BY <1>4, <1>5, <1>6, <1>7, <2>1
  <1>8. CASE Windows!BlankInUrl /\ c \in Windows!Blanks
    <2> DEFINE n == Windows!NextVisible
               gap == SubSeq(s1, s5, n - 1)
               upto == SubSeq(s1, 1, n - 2)
    <2>1. n \in s5 + 1 .. Len(s1) + 1
      BY <1>1, <1>8, VisibleIsNext DEF Windows!WindowInv
    <2>2. \A p \in s5 .. n - 1 : s1[p] \in Windows!Blanks
      BY <1>1, <1>8, BreakIsBlank DEF Windows!WindowInv
    <2>3. s5' = n - 1 /\ (s7' = s7 \/ s7' = s7 \o gap)
      BY <1>8 DEF Windows!BlankInUrl
    <2> HIDE DEF n
    <2>4. Windows!Visible(upto) = Windows!Visible(read)
      <3>1. /\ upto \in Seq(K) /\ Len(upto) = n - 2 /\ \A p \in 1 .. n - 2 : upto[p] = s1[p]
        BY <1>1, <2>1
      <3>2. /\ Len(read) <= Len(upto) /\ \A p \in 1 .. Len(read) : upto[p] = read[p]
            /\ \A p \in Len(read) + 1 .. Len(upto) : upto[p] \in Windows!Blanks
        BY <1>1, <1>3, <2>1, <2>2, <3>1
      <3> HIDE DEF upto, read
      <3> QED BY <1>3, <3>1, <3>2, BlanksAreInvisible
    <2>5. Windows!Visible(s7 \o gap) = Windows!Visible(s7)
      <3>1. /\ gap \in Seq(K) /\ Len(gap) = n - s5
            /\ \A p \in 1 .. n - s5 : gap[p] \in Windows!Blanks
        BY <1>1, <2>1, <2>2
      <3> HIDE DEF gap, K
      <3>2. /\ s7 \o gap \in Seq(K) /\ Len(s7 \o gap) = Len(s7) + Len(gap)
            /\ \A p \in 1 .. Len(s7) : (s7 \o gap)[p] = s7[p]
            /\ \A p \in Len(s7) + 1 .. Len(s7) + Len(gap) :
                  (s7 \o gap)[p] = gap[p - Len(s7)]
        <4>1. /\ s7 \o gap \in Seq(K) /\ Len(s7 \o gap) = Len(s7) + Len(gap)
              /\ \A p \in 1 .. Len(s7) + Len(gap) :
                   (s7 \o gap)[p] = IF p <= Len(s7) THEN s7[p] ELSE gap[p - Len(s7)]
          BY <1>1, <3>1, ConcatProperties
        <4>2. Len(s7) \in Nat /\ Len(gap) \in Nat
          BY <1>1, <3>1
        <4>3. ASSUME NEW p \in 1 .. Len(s7) PROVE (s7 \o gap)[p] = s7[p]
          BY <4>1, <4>2
        <4>4. ASSUME NEW p \in Len(s7) + 1 .. Len(s7) + Len(gap)
              PROVE  (s7 \o gap)[p] = gap[p - Len(s7)]
          BY <4>1, <4>2
        <4> QED BY <4>1, <4>3, <4>4
      <3>3. /\ Len(s7) <= Len(s7 \o gap)
            /\ \A p \in Len(s7) + 1 .. Len(s7 \o gap) : (s7 \o gap)[p] \in Windows!Blanks
        BY <1>1, <2>1, <3>1, <3>2
      <3> QED BY <1>1, <3>2, <3>3, BlanksAreInvisible DEF K
    <2>6. s5' - 1 = n - 2
      BY <2>1, <2>3
    <2> HIDE DEF gap, read
    <2> QED BY <1>2, <2>3, <2>4, <2>5, <2>6
  <1> QED BY <1>1, <1>7, <1>8
          DEF Windows!Normalize, Windows!VisibleInUrl, Windows!Outside, Windows!Blanks

LEMMA TextNextInv ==
  ASSUME Windows!WindowInv, Windows!NormalizationKeepsText, [Windows!Next]_Windows!vars
  PROVE  Windows!NormalizationKeepsText'
  <1>1. CASE Windows!Normalize
    BY <1>1, NormalizeKeepsText
  <1>2. CASE UNCHANGED <<s1, s5, s7>>
    BY <1>2 DEF Windows!NormalizationKeepsText
  <1> QED BY <1>1, <1>2
          DEF Windows!Next, Windows!Normalized, Windows!Cut, Windows!NothingToCut, Windows!vars

-----------------------------------------------------------------------------
(***************************************************************************)
(* Types: the grades and averages of interviews stay on their scale, and the *)
(* windows, the bridges and the providers in their sets.                   *)
(***************************************************************************)
\* The types of an interview's script and of its grades.
LEMMA SumAtMost ==
  ASSUME NEW S, IsFiniteSet(S), NEW g, \A x \in S : g[x] \in 0 .. 100
  PROVE  SumOver(g, S) \in Nat /\ SumOver(g, S) <= 100 * Cardinality(S)
  <1>1. \A x \in S : g[x] \in Nat /\ g[x] <= 100
    OBVIOUS
  <1> DEFINE Good == {n \in Nat : \A T \in SUBSET S :
                        Cardinality(T) = n => SumOver(g, T) <= 100 * n}
  <1>2. 0 \in Good
    <2>1. ASSUME NEW T \in SUBSET S, Cardinality(T) = 0 PROVE SumOver(g, T) <= 100 * 0
      <3>1. T = {}
        BY <2>1, FS_Subset, FS_EmptySet
      <3> QED BY <3>1, SumEmpty
    <2> QED BY <2>1
  <1>3. ASSUME NEW n \in Nat, n \in Good PROVE n + 1 \in Good
    <2>1. ASSUME NEW T \in SUBSET S, Cardinality(T) = n + 1
          PROVE  SumOver(g, T) <= 100 * (n + 1)
      <3>1. IsFiniteSet(T) /\ T # {}
        BY <1>3, <2>1, FS_Subset, FS_EmptySet
      <3>2. PICK e \in T : TRUE
        BY <3>1
      <3>3. Cardinality(T \ {e}) = n /\ IsFiniteSet(T \ {e}) /\ T \ {e} \in SUBSET S
        BY <1>3, <2>1, <3>1, OneLess, FS_Subset
      <3>4. SumOver(g, T) = g[e] + SumOver(g, T \ {e}) /\ SumOver(g, T \ {e}) \in Nat
        BY <1>1, <3>1, <3>3, SumWithout, SumNat
      <3>5. SumOver(g, T \ {e}) <= 100 * n
        BY <1>3, <3>3
      <3> QED BY <1>1, <1>3, <3>4, <3>5
    <2> QED BY <1>3, <2>1
  <1>4. \A n \in Nat : n \in Good
    <2> HIDE DEF Good
    <2> QED BY <1>2, <1>3, Inductive
  <1>5. Cardinality(S) \in Good
    BY <1>4, FS_CardinalityType
  <1> QED BY <1>1, <1>5, SumNat

LEMMA Quotient ==
  ASSUME NEW a \in Nat, NEW c \in Nat \ {0}, a <= 100 * c
  PROVE  a \div c \in 0 .. 100
  OBVIOUS

LEMMA AverageIsScore ==
  ASSUME NEW S, IsFiniteSet(S), S # {}, NEW g, \A x \in S : g[x] \in 0 .. 100
  PROVE  Scoring!Average(g, S) \in 0 .. 100
  <1>1. Cardinality(S) \in Nat \ {0}
    BY FS_CardinalityType, FS_EmptySet
  <1>2. SumOver(g, S) \in Nat /\ SumOver(g, S) <= 100 * Cardinality(S)
    BY SumAtMost
  <1>3. Scoring!Average(g, S) = SumOver(g, S) \div Cardinality(S)
    <2>1. Scoring!Cardinality(S) = Cardinality(S)
      BY DEF Scoring!Cardinality, Cardinality
    <2>2. Scoring!MapThenSumSet(LAMBDA n : g[n], S) = SumOver(g, S)
      BY DEF Scoring!MapThenSumSet, Scoring!MapThenFoldSet, SumOver,
             Scores!MapThenSumSet, Scores!MapThenFoldSet
    <2> QED BY <2>1, <2>2 DEF Scoring!Average
  <1> QED BY <1>1, <1>2, <1>3, Quotient

Parts(x) == x \in Nat /\ x <= 10000

LEMMA PartsOfHundred ==
  ASSUME NEW k \in Nat, k <= 100, NEW s \in Nat, s <= 100, NEW p \in Nat, p <= 100,
         NEW a \in Nat, a <= 100
  PROVE  /\ Parts(k * 45 + s * 35 + a * 20) /\ Parts(k * 55 + s * 45) /\ Parts(s * 65 + p * 35)
         /\ Parts(a * 55 + s * 30 + k * 15) /\ Parts(s * 75 + k * 25)
         /\ Parts(p * 60 + k * 20 + s * 20) /\ Parts(k * 45 + s * 55)
  BY SMT DEF Parts

LEMMA SumOfParts ==
  ASSUME NEW k \in Nat, k <= 100, NEW a, Parts(a), NEW b, Parts(b), NEW c, Parts(c),
         NEW d, Parts(d), NEW e, Parts(e)
  PROVE  /\ k * 2500 + a * 20 + b * 20 + c * 15 + d * 10 + e * 10 \in Nat
         /\ k * 2500 + a * 20 + b * 20 + c * 15 + d * 10 + e * 10 <= 1000000
  BY SMT DEF Parts

LEMMA OverallIsScore ==
  ASSUME IsFiniteSet(DOMAIN s3), DOMAIN s3 # {}, NEW g, \A n \in DOMAIN s3 : g[n] \in 0 .. 100,
         NEW terms \in 0 .. 25
  PROVE  Scoring!Overall(g, terms) \in 0 .. 100
  <1> DEFINE base == Scoring!Average(g, DOMAIN s3)
             In(c) == {n \in DOMAIN s3 : s3[n].category = c}
             Of(c) == IF In(c) = {} THEN base ELSE Scoring!Average(g, In(c))
             some == In("algorithm") # {}
             tied == s2.resume \/ s2.jd
             k == Of("knowledge")
             s == Of("scenario")
             p == Of("profile")
             a == Of("algorithm")
             technical == IF some THEN k * 45 + s * 35 + a * 20 ELSE k * 55 + s * 45
             practical == s * 65 + p * 35
             solving == IF some THEN a * 55 + s * 30 + k * 15 ELSE s * 75 + k * 25
             communication == Scoring!Min({10000, base * 75 + terms * 100})
             fit == IF tied THEN p * 60 + k * 20 + s * 20 ELSE k * 45 + s * 55
             total == k * 2500 + technical * 20 + practical * 20 + solving * 15
                        + communication * 10 + fit * 10
  <1>1. base \in 0 .. 100
    BY AverageIsScore
  <1>2. ASSUME NEW c PROVE Of(c) \in 0 .. 100
    <2>1. IsFiniteSet(In(c)) /\ \A n \in In(c) : g[n] \in 0 .. 100
      BY FS_Subset
    <2> HIDE DEF In, base
    <2> QED BY <1>1, <2>1, AverageIsScore
  <1>3. Scoring!Overall(g, terms) = total \div 10000
    BY SMT DEF Scoring!Overall
  <1>4. /\ k \in Nat /\ k <= 100 /\ s \in Nat /\ s <= 100
        /\ p \in Nat /\ p <= 100 /\ a \in Nat /\ a <= 100
    <2>1. \A x \in 0 .. 100 : x \in Nat /\ x <= 100
      BY SMT
    <2> HIDE DEF Of
    <2> QED BY <1>2, <2>1
  <1> HIDE DEF base, In, Of, some, tied, k, s, p, a
  <1>5. Parts(communication)
    <2>1. PICK v \in Nat : v = base * 75 + terms * 100
      BY <1>1
    <2>2. communication = Scoring!Min({10000, v})
      BY <2>1, SMT
    <2>3. communication = 10000 \/ (communication = v /\ v <= 10000)
      BY <2>1, <2>2, SMT DEF Scoring!Min
    <2> HIDE DEF communication
    <2> QED BY <2>1, <2>3, SMT DEF Parts
  <1>6. Parts(technical) /\ Parts(practical) /\ Parts(solving) /\ Parts(fit)
    <2>1. /\ Parts(k * 45 + s * 35 + a * 20) /\ Parts(k * 55 + s * 45)
          /\ Parts(s * 65 + p * 35)
          /\ Parts(a * 55 + s * 30 + k * 15) /\ Parts(s * 75 + k * 25)
          /\ Parts(p * 60 + k * 20 + s * 20) /\ Parts(k * 45 + s * 55)
      BY <1>4, PartsOfHundred, ZenonT(60)
    <2>2. Parts(technical)
      BY <2>1, SMT
    <2>3. Parts(practical) /\ Parts(solving)
      BY <2>1, SMT
    <2>4. Parts(fit)
      BY <2>1, SMT
    <2> QED BY <2>2, <2>3, <2>4
  <1> HIDE DEF technical, practical, solving, communication, fit
  <1>7. total \in Nat /\ total <= 1000000
    BY <1>4, <1>5, <1>6, SumOfParts, SMT
  <1> HIDE DEF total
  <1> QED BY <1>3, <1>7, SMT

ScoringTypes ==
    /\ s1 \in {"requested", "asked", "answered", "graded"}
    /\ s1 = "requested" \/ (s3 \in Seq(Questions) /\ s3 # <<>>)
    /\ s5.by \in {"nobody", "local", "agent"} /\ s5.overall \in 0 .. 100
    /\ Scoring!Range(s5.scores) \subseteq 0 .. 100

LEMMA ScoringInitTypes == Scoring!Init => ScoringTypes
  <1> SUFFICES ASSUME Scoring!Init PROVE ScoringTypes
    OBVIOUS
  <1>1. s5.by = "nobody" /\ s5.overall = 0 /\ s5.scores = <<>>
    BY DEF Scoring!Init, Scoring!NoGrade
  <1>2. Scoring!Range(s5.scores) = {}
    BY <1>1 DEF Scoring!Range
  <1> QED BY <1>1, <1>2 DEF Scoring!Init, ScoringTypes

\* The bounds of the local grades, and what a model's are clamped to.
LEMMA GradesInRange ==
  ASSUME NEW n
  PROVE  /\ Scoring!Max(Scoring!LocalScores(n)) \in 0 .. 100
         /\ Scoring!Min(Scoring!LocalScores(n)) \in 0 .. 100
         /\ \A v \in {0 - 10, 120} : Scoring!AgentScore(n, v) \in 0 .. 100
  <1>1. \A S \in {{0}, {25, 85}, {20, 100}} :
           Scoring!Max(S) \in 0 .. 100 /\ Scoring!Min(S) \in 0 .. 100
    <2>1. Scoring!Max({0}) = 0 /\ Scoring!Min({0}) = 0
      BY OfTwo
    <2>2. Scoring!Max({25, 85}) = 85 /\ Scoring!Min({25, 85}) = 25
      BY DEF Scoring!Max, Scoring!Min
    <2>3. Scoring!Max({20, 100}) = 100 /\ Scoring!Min({20, 100}) = 20
      BY DEF Scoring!Max, Scoring!Min
    <2> QED BY <2>1, <2>2, <2>3
  <1>2. Scoring!LocalScores(n) \in {{0}, {25, 85}, {20, 100}}
    BY DEF Scoring!LocalScores
  <1>3. ASSUME NEW v \in {0 - 10, 120} PROVE Scoring!AgentScore(n, v) \in 0 .. 100
    <2>1. PICK m \in Int : m = Scoring!Min({100, v}) /\ m <= 100
      <3>1. v \in Int /\ 100 \in Int
        OBVIOUS
      <3>2. Scoring!Min({100, v}) = IF 100 <= v THEN 100 ELSE v
        BY <3>1, OfTwo, ZenonT(40)
      <3> QED BY <3>1, <3>2
    <2>2. Scoring!Clamped(v) \in 0 .. 100
      <3>1. 0 \in Int
        OBVIOUS
      <3>2. Scoring!Max({0, m}) = IF 0 <= m THEN m ELSE 0
        BY <2>1, <3>1 DEF Scoring!Max
      <3> QED BY <2>1, <3>2 DEF Scoring!Clamped
    <2> QED BY <2>2 DEF Scoring!AgentScore
  <1> QED BY <1>1, <1>2, <1>3

LEMMA ScoringNextTypes ==
  ASSUME Scoring!ScriptAssumption, ScoringInv, ScoringTypes, [Scoring!Next]_Scoring!vars
  PROVE  ScoringTypes'
  <1>1. CASE UNCHANGED Scoring!vars
    BY <1>1 DEF ScoringTypes, Scoring!vars, Scoring!Range
  <1>2. CASE Scoring!Ask
    <2> DEFINE s == Scoring!Scaffold(s2)
               more == [n \in 1 .. s2.algorithms |-> Scoring!AlgorithmQuestion]
    <2>1. s \in Seq(Questions) /\ Len(s) >= MinQuestions /\ Len(s) \in Nat
      BY ScaffoldKeepsLimits DEF ScoringInv
    <2>2. MinQuestions \in Nat \ {0}
      BY DEF Scoring!ScriptAssumption
    <2>3. PICK asked \in Seq(Questions) : s3' = asked \o more /\ Len(asked) = Len(s)
      <3>1. CASE s3' = s \o more
        BY <2>1, <3>1
      <3>2. ASSUME NEW items \in [DOMAIN s -> [category : {"knowledge", "scenario"},
                                               anchored : BOOLEAN]],
                   s3' = Scoring!Refined(s, items) \o more
            PROVE  \E asked \in Seq(Questions) : s3' = asked \o more /\ Len(asked) = Len(s)
        <4> HIDE DEF s, more
        <4> QED BY <2>1, <3>2, RefinedKeeps
      <3> QED BY <1>2, <3>1, <3>2 DEF Scoring!Ask
    <2>4. more \in Seq(Questions) /\ Len(more) \in Nat
      <3>1. s2.algorithms \in Nat
        BY DEF ScoringInv, Scoring!Requests, Scoring!ScriptAssumption
      <3>2. Scoring!AlgorithmQuestion \in Questions
        BY DEF Scoring!AlgorithmQuestion, Questions
      <3>3. more \in [1 .. s2.algorithms -> Questions]
        BY <3>2
      <3> HIDE DEF more
      <3> QED BY <3>1, <3>3
    <2> HIDE DEF s, more
    <2>5. asked \o more \in Seq(Questions) /\ Len(asked \o more) = Len(asked) + Len(more)
      BY <2>4, ConcatProperties
    <2>6. s3' # <<>>
      BY <2>1, <2>2, <2>3, <2>4, <2>5
    <2>7. s1' = "asked" /\ s5' = s5
      BY <1>2 DEF Scoring!Ask
    <2> QED BY <2>3, <2>5, <2>6, <2>7 DEF ScoringTypes, Scoring!Range
  <1>3. CASE Scoring!Answer
    BY <1>3 DEF Scoring!Answer, ScoringTypes, Scoring!Range
  <1>4. ASSUME s1 = "answered" PROVE IsFiniteSet(DOMAIN s3) /\ DOMAIN s3 # {}
    <2>1. s3 \in Seq(Questions) /\ s3 # <<>>
      BY <1>4 DEF ScoringTypes
    <2>2. DOMAIN s3 = 1 .. Len(s3) /\ Len(s3) \in Nat \ {0}
      BY <2>1
    <2>3. IsFiniteSet(1 .. Len(s3)) /\ 1 .. Len(s3) # {}
      <3>1. Len(s3) \in Int /\ 1 \in Int /\ 1 \in 1 .. Len(s3)
        BY <2>2
      <3> QED BY <3>1, FS_Interval
    <2> QED BY <2>2, <2>3
  <1>5. CASE Scoring!GradeLocally
    <2>1. PICK best \in BOOLEAN, terms \in Scoring!Terms :
            s5' = [by |-> "local",
                   scores |-> [n \in DOMAIN s3 |-> IF best THEN Scoring!Max(Scoring!LocalScores(n))
                                                   ELSE Scoring!Min(Scoring!LocalScores(n))],
                   overall |-> Scoring!Overall(
                     [n \in DOMAIN s3 |-> IF best THEN Scoring!Max(Scoring!LocalScores(n))
                                          ELSE Scoring!Min(Scoring!LocalScores(n))], terms)]
      BY <1>5 DEF Scoring!GradeLocally
    <2> DEFINE g == [n \in DOMAIN s3 |-> IF best THEN Scoring!Max(Scoring!LocalScores(n))
                                          ELSE Scoring!Min(Scoring!LocalScores(n))]
    <2>2. \A n \in DOMAIN s3 : g[n] \in 0 .. 100
      BY GradesInRange
    <2>3. terms \in 0 .. 25
      BY DEF Scoring!Terms
    <2>4. s1 = "answered" /\ s1' = "graded" /\ s3' = s3
      BY <1>5 DEF Scoring!GradeLocally
    <2>5. DOMAIN g = DOMAIN s3
      OBVIOUS
    <2>6. s5' = [by |-> "local", scores |-> g, overall |-> Scoring!Overall(g, terms)]
      BY <2>1
    <2> HIDE DEF g
    <2>7. Scoring!Overall(g, terms) \in 0 .. 100
      BY <1>4, <2>2, <2>3, <2>4, OverallIsScore
    <2>8. Scoring!Range(g) \subseteq 0 .. 100
      BY <2>2, <2>5 DEF Scoring!Range
    <2>9. /\ s5'.by = "local" /\ s5'.overall = Scoring!Overall(g, terms)
          /\ Scoring!Range(s5'.scores) = Scoring!Range(g)
      BY <2>6
    <2> QED BY <2>4, <2>7, <2>8, <2>9 DEF ScoringTypes, Scoring!Range
  <1>6. CASE Scoring!GradeByAgent
    <2>1. PICK values \in [DOMAIN s3 -> {0 - 10, 120}], overall \in {0, 100} :
            s5' = [by |-> "agent",
                   scores |-> [n \in DOMAIN s3 |-> Scoring!AgentScore(n, values[n])],
                   overall |-> overall]
      BY <1>6 DEF Scoring!GradeByAgent
    <2> DEFINE g == [n \in DOMAIN s3 |-> Scoring!AgentScore(n, values[n])]
    <2>2. \A n \in DOMAIN s3 : g[n] \in 0 .. 100
      BY GradesInRange
    <2>3. s1 = "answered" /\ s1' = "graded" /\ s3' = s3
      BY <1>6 DEF Scoring!GradeByAgent
    <2>4. DOMAIN g = DOMAIN s3
      OBVIOUS
    <2>5. s5'.by = "agent" /\ s5'.overall = overall /\ s5'.scores = g
      BY <2>1
    <2> HIDE DEF g
    <2>6. Scoring!Range(s5.scores)' \subseteq 0 .. 100
      BY <2>2, <2>4, <2>5 DEF Scoring!Range
    <2>7. s3 \in Seq(Questions) /\ s3 # <<>>
      BY <2>3 DEF ScoringTypes
    <2>8. s5'.overall \in 0 .. 100
      BY <2>1, <2>5
    <2> QED BY <2>3, <2>5, <2>6, <2>7, <2>8 DEF ScoringTypes
  <1> QED BY <1>1, <1>2, <1>3, <1>5, <1>6 DEF Scoring!Next

LEMMA ScoringIsTyped == ScoringInv /\ ScoringTypes => Scoring!TypeOK
  BY DEF ScoringInv, ScoringTypes, Scoring!TypeOK

\* The types of the texts, of what is extracted, and of the bridges.
WindowTexts == s1 \in Windows!Texts /\ s2 \in ChunkSizes

LEMMA WindowTextsStay ==
  /\ Windows!Init => WindowTexts
  /\ WindowTexts /\ [Windows!Next]_Windows!vars => WindowTexts'
  BY DEF WindowTexts, Windows!Init, Windows!Next, Windows!Normalize, Windows!Normalized,
         Windows!Cut, Windows!NothingToCut, Windows!vars

LEMMA WindowsAreTyped == Windows!WindowInv /\ WindowTexts => Windows!TypeOK
  <1> SUFFICES ASSUME Windows!WindowInv, WindowTexts PROVE Windows!TypeOK
    OBVIOUS
  <1>1. Windows!WindowTypes /\ Windows!NextIsClose
    BY DEF Windows!WindowInv
  <1>2. s7 \in Seq(Windows!Kinds) /\ s8 \in Nat /\ Len(s7) \in Nat
    BY <1>1 DEF Windows!WindowTypes
  <1>3. s8 <= Len(s7)
    <2>1. CASE s9 = <<>>
      BY <1>1, <1>2, <2>1 DEF Windows!NextIsClose
    <2>2. CASE s9 # <<>>
      BY <1>1, <1>2, <2>2, LastEndIsNumber DEF Windows!NextIsClose
    <2> QED BY <2>1, <2>2
  <1>4. s8 \in 0 .. Len(s7)
    BY <1>2, <1>3
  <1> QED BY <1>1, <1>4 DEF Windows!TypeOK, Windows!WindowTypes, WindowTexts

ExtractionTypes ==
    /\ s1 \in [Extraction!Chunks -> SUBSET Extraction!Names]
    /\ s2 \in {"asking", "stored", "raised"}
    /\ s3 \in 1 .. Len(Batches) + 1
    /\ s4 \in Providers \cup {Cardinality(Providers) + 1}
    /\ s5 \subseteq Providers
    /\ s6 \in [Extraction!Names -> Extraction!Chunks \cup {None}]

LEMMA NextProvider ==
  ASSUME Extraction!ExtractionAssumption
  PROVE  /\ \A p \in Providers : p + 1 \in Providers \cup {Cardinality(Providers) + 1}
         /\ 1 \in Providers \cup {Cardinality(Providers) + 1}
  <1>1. PICK n : n = Cardinality(Providers)
    OBVIOUS
  <1>2. Providers = 1 .. n /\ n \in Nat
    <2>1. IsFiniteSet(Providers)
      BY DEF Extraction!ExtractionAssumption, Extraction!IsFiniteSet, IsFiniteSet
    <2>2. Extraction!Cardinality(Providers) = n
      BY <1>1 DEF Extraction!Cardinality, Cardinality
    <2>3. n \in Nat
      BY <1>1, <2>1, FS_CardinalityType
    <2> QED BY <2>2, <2>3 DEF Extraction!ExtractionAssumption
  <1>3. ASSUME NEW p \in Providers
        PROVE  p + 1 \in Providers \cup {n + 1}
    <2>1. p \in Int /\ 1 <= p /\ p <= n
      BY <1>2, <1>3, SMT
    <2>2. p = n \/ p + 1 \in 1 .. n
      BY <1>2, <2>1, SMT
    <2> QED BY <1>2, <2>2, Zenon
  <1>4. 1 \in Providers \cup {n + 1}
    <2>1. n = 0 \/ 1 \in 1 .. n
      BY <1>2, SMT
    <2>2. n = 0 => n + 1 = 1
      BY SMT
    <2> QED BY <1>2, <2>1, <2>2, Zenon
  <1> QED BY <1>1, <1>3, <1>4, Zenon

LEMMA ExtractionInitTypes ==
  ASSUME Extraction!ExtractionAssumption, Extraction!Init
  PROVE  ExtractionTypes
  <1>1. 1 \in 1 .. Len(Batches) + 1
    BY DEF Extraction!ExtractionAssumption
  <1> QED BY <1>1, NextProvider DEF Extraction!Init, ExtractionTypes

LEMMA ExtractionNextTypes ==
  ASSUME Extraction!ExtractionAssumption, ExtractionTypes, [Extraction!Next]_Extraction!vars
  PROVE  ExtractionTypes'
  <1> USE DEF ExtractionTypes
  <1>1. CASE Extraction!Answered
    <2>1. PICK answer \in Extraction!Answers :
            s6' = [n \in Extraction!Names |->
                     Extraction!First(s6[n], Extraction!Matched(answer, s3)[n])]
      BY <1>1 DEF Extraction!Answered
    <2>2. s3 \in 1 .. Len(Batches) /\ s3 \in DOMAIN Batches
      BY <1>1 DEF Extraction!Answered, Extraction!Asking, Extraction!ExtractionAssumption
    <2>3. ASSUME NEW n \in Extraction!Names
          PROVE  Extraction!Matched(answer, s3)[n] \in Extraction!Chunks \cup {None}
      <3>1. Extraction!Candidates(answer.entities[n], s3) \subseteq Extraction!Chunks
        BY <2>2 DEF Extraction!Candidates, Extraction!Chunks
      <3> DEFINE M == Extraction!Matches(answer, n, s3)
      <3>2. M \subseteq Extraction!Chunks /\ M \in SUBSET Nat
        <4>1. Extraction!Chunks \in SUBSET Nat
          BY DEF Extraction!Chunks, Extraction!ExtractionAssumption
        <4> QED BY <3>1, <4>1 DEF Extraction!Matches
      <3>3. CASE M = {}
        BY <3>3 DEF Extraction!Matched
      <3>4. CASE M # {}
        <4>1. \E c \in M : \A d \in M : c <= d
          <5> HIDE DEF M
          <5> QED BY <3>2, <3>4, LeastExists
        <4>2. Extraction!Matched(answer, s3)[n] = CHOOSE c \in M : \A d \in M : c <= d
          BY <3>4 DEF Extraction!Matched
        <4>3. Extraction!Matched(answer, s3)[n] \in M
          <5> HIDE DEF M
          <5> QED BY <4>1, <4>2
        <4> QED BY <3>2, <4>3
      <3> QED BY <3>3, <3>4
    <2>4. s6' \in [Extraction!Names -> Extraction!Chunks \cup {None}]
      BY <2>1, <2>3 DEF Extraction!First
    <2>5. s3' \in 1 .. Len(Batches) + 1 /\ s4' \in Providers \cup {Cardinality(Providers) + 1}
      <3>1. s3' = s3 + 1 /\ s4' = 1 /\ Len(Batches) \in Nat
        BY <1>1 DEF Extraction!Answered, Extraction!ExtractionAssumption
      <3> QED BY <2>2, <3>1, NextProvider
    <2> QED BY <1>1, <2>4, <2>5 DEF Extraction!Answered
  <1>2. CASE Extraction!ProviderFails \/ Extraction!SkipDisabled
    <2>1. s4 \in Providers /\ s4' = s4 + 1
      BY <1>2 DEF Extraction!ProviderFails, Extraction!SkipDisabled, Extraction!Asking
    <2>2. s4' \in Providers \cup {Cardinality(Providers) + 1}
      BY <2>1, NextProvider
    <2> QED BY <1>2, <2>1, <2>2 DEF Extraction!ProviderFails, Extraction!SkipDisabled
  <1>3. CASE Extraction!Raise \/ Extraction!Store
    BY <1>3 DEF Extraction!Raise, Extraction!Store
  <1>4. CASE UNCHANGED Extraction!vars
    BY <1>4 DEF Extraction!vars
  <1> QED BY <1>1, <1>2, <1>3, <1>4 DEF Extraction!Next

LEMMA ExtractionIsTyped == ExtractionTypes => Extraction!TypeOK
  <1>1. Extraction!Cardinality(Providers) = Cardinality(Providers)
    BY DEF Extraction!Cardinality, Cardinality
  <1> QED BY <1>1 DEF ExtractionTypes, Extraction!TypeOK

BridgesTyped ==
    /\ s2 \subseteq Graph!kSubset(2, Docs)
    /\ \A w \in Writers : s6[w] \subseteq Graph!kSubset(2, Docs)

LEMMA BridgesAreTyped ==
  ASSUME Graph!GraphAssumption, GraphTypes
  PROVE  Graph!Bridges \subseteq Graph!kSubset(2, Docs)
  <1>1. ASSUME NEW e \in Docs, s1[e] # None PROVE Graph!Representative(Graph!KbOf(e)) \in Docs
    <2>1. Graph!Holders(Graph!KbOf(e)) # {}
      BY <1>1 DEF Graph!Holders
    <2> QED BY <2>1, RepresentativeHolds DEF Graph!Holders
  <1> QED BY <1>1 DEF Graph!Bridges, Graph!kSubset

LEMMA GraphNextTypes ==
  ASSUME Graph!GraphAssumption, GraphTypes, BridgesTyped, [Graph!Next]_Graph!vars
  PROVE  BridgesTyped'
  <1>1. Graph!Bridges \subseteq Graph!kSubset(2, Docs) /\ DOMAIN s6 = Writers
    BY BridgesAreTyped DEF GraphTypes
  <1>2. s2' \subseteq Graph!kSubset(2, Docs)
    BY <1>1 DEF BridgesTyped, Graph!Next, Graph!Begin, Graph!ReadKeys, Graph!Clear,
                Graph!MergeNodes, Graph!MergeRelations, Graph!DeleteBridges,
                Graph!CreateBridges, Graph!Scan, Graph!DeleteAllBridges, Graph!CreatePlanned,
                Graph!Fail, Graph!vars
  <1>3. ASSUME NEW v \in Writers PROVE s6'[v] \subseteq Graph!kSubset(2, Docs)
    BY <1>1 DEF BridgesTyped, Graph!Next, Graph!Begin, Graph!ReadKeys, Graph!Clear,
                Graph!MergeNodes, Graph!MergeRelations, Graph!DeleteBridges,
                Graph!CreateBridges, Graph!Scan, Graph!DeleteAllBridges, Graph!CreatePlanned,
                Graph!Fail, Graph!Forget, Graph!vars
  <1> QED BY <1>2, <1>3 DEF BridgesTyped

LEMMA GraphIsTyped == GraphTypes /\ BridgesTyped => Graph!TypeOK
  BY DEF GraphTypes, BridgesTyped, Graph!TypeOK

LEMMA GraphInitTypes ==
  ASSUME Graph!GraphAssumption, GraphTypes, Graph!Init
  PROVE  BridgesTyped
  BY BridgesAreTyped DEF Graph!Init, BridgesTyped

-----------------------------------------------------------------------------
(***************************************************************************)
(* The parts side by side.                                                 *)
(***************************************************************************)
ContentInv ==
    /\ part = "windows" => Windows!WindowInv /\ Windows!NormalizationKeepsText /\ WindowTexts
    /\ part = "graph" => GraphInv /\ BridgesTyped
    /\ part = "extraction" => ExtractionInv /\ ExtractionTypes
    /\ part = "memories" => MemoriesInv
    /\ part = "evidence" => EvidenceInv
    /\ part = "sessions" => SessionsInv
    /\ part = "scoring" => ScoringInv /\ ScoringTypes
    /\ part = "cases" => CasesInv
    /\ part = "selection" => Selection!SelectionInv
    /\ part = "scores" => Scores!MetricsInv
    /\ part = "blocks" => BlocksInv

\* A step of MCContent is one of the part that was chosen, or leaves its variables alone.
LEMMA StepOfPart ==
  ASSUME [Next]_vars
  PROVE  /\ part' = part
         /\ part = "windows" => [Windows!Next]_Windows!vars
         /\ part = "graph" => [Graph!Next]_Graph!vars
         /\ part = "extraction" => [Extraction!Next]_Extraction!vars
         /\ part = "memories" => [Memories!Next]_Memories!vars
         /\ part = "evidence" => [Evidence!Next]_Evidence!vars
         /\ part = "sessions" => [Sessions!Next]_Sessions!vars
         /\ part = "scoring" => [Scoring!Next]_Scoring!vars
         /\ part = "cases" => [Cases!Next]_Cases!vars
         /\ part = "selection" => [Selection!Next]_Selection!vars
         /\ part = "scores" => [Scores!Next]_Scores!vars
         /\ part = "blocks" => [Blocks!Next]_Blocks!vars
  <1>1. CASE UNCHANGED vars
    BY <1>1 DEF vars, slots, Windows!vars, Graph!vars, Extraction!vars, Memories!vars,
                Memories!search, Evidence!vars, Sessions!vars, Scoring!vars, Cases!vars,
                Selection!vars, Scores!vars, Blocks!vars, Blocks!textVars, Blocks!scanVars,
                Blocks!packVars
  <1>2. CASE Next
    BY <1>2 DEF Next
  <1> QED BY <1>1, <1>2

\* The inductive invariant of the composition: each part keeps its own.
THEOREM ContentInvariant == Spec => []ContentInv
  <1>1. Init => ContentInv
    <2> SUFFICES ASSUME Init PROVE ContentInv
      OBVIOUS
    <2> QED BY ContentAssumption, WindowsInitInv, TextInitInv, GraphInitInv, ExtractionInitInv,
               MemoriesInitInv, EvidenceInitInv, SessionsInitInv, ScoringInitInv, CasesInitInv,
               SelectionInitInv, MetricsInitInv, WindowTextsStay, GraphInitTypes,
               ExtractionInitTypes, ScoringInitTypes, BlocksInitInv
            DEF ContentAssumption, Init, ContentInv, GraphInv
  <1>2. ContentInv /\ [Next]_vars => ContentInv'
    <2> SUFFICES ASSUME ContentInv, [Next]_vars PROVE ContentInv'
      OBVIOUS
    <2>1. CASE part = "windows"
      BY <2>1, StepOfPart, WindowsNextInv, TextNextInv, WindowTextsStay DEF ContentInv
    <2>2. CASE part = "graph"
      BY <2>2, StepOfPart, GraphNextInv, GraphNextTypes, ContentAssumption
      DEF ContentInv, ContentAssumption, GraphInv
    <2>3. CASE part = "extraction"
      BY <2>3, StepOfPart, ExtractionNextInv, ExtractionNextTypes, ContentAssumption
      DEF ContentInv, ContentAssumption
    <2>4. CASE part = "memories"
      BY <2>4, StepOfPart, MemoriesNextInv DEF ContentInv
    <2>5. CASE part = "evidence"
      BY <2>5, StepOfPart, EvidenceNextInv, ContentAssumption DEF ContentInv, ContentAssumption
    <2>6. CASE part = "sessions"
      BY <2>6, StepOfPart, SessionsNextInv, ContentAssumption DEF ContentInv, ContentAssumption
    <2>7. CASE part = "scoring"
      BY <2>7, StepOfPart, ScoringNextInv, ScoringNextTypes, ContentAssumption
      DEF ContentInv, ContentAssumption
    <2>8. CASE part = "cases"
      BY <2>8, StepOfPart, CasesNextInv, ContentAssumption DEF ContentInv, ContentAssumption
    <2>9. CASE part = "scores"
      BY <2>9, StepOfPart, MetricsNextInv, ContentAssumption DEF ContentInv, ContentAssumption
    <2>10. CASE part = "selection"
      BY <2>10, StepOfPart, SelectionNextInv DEF ContentInv
    <2>11. CASE part = "blocks"
      BY <2>11, StepOfPart, BlocksNextInv, ContentAssumption DEF ContentInv, ContentAssumption
    <2>12. CASE part \notin {"windows", "graph", "extraction", "memories", "evidence", "sessions",
                             "scoring", "cases", "scores", "selection", "blocks"}
      BY <2>12, StepOfPart DEF ContentInv
    <2> QED BY <2>1, <2>2, <2>3, <2>4, <2>5, <2>6, <2>7, <2>8, <2>9, <2>10, <2>11, <2>12
  <1> QED BY <1>1, <1>2, PTL DEF Spec

\* For every size and overlap the windows cover the normalized text; each is longer than nothing
\* and no longer than the size, and neighbours go on and share no more than the overlap.
THEOREM WindowsCover == Spec => [](part = "windows" => Windows!WindowsCoverText)
  <1>1. ContentInv => (part = "windows" => Windows!WindowsCoverText)
    BY WindowsAreCut DEF ContentInv
  <1> QED BY <1>1, ContentInvariant, PTL

\* What is drawn from texts is true of them: windows cover them; whenever no call on the graph is
\* under way its bridges are those of its nodes, however calls about other documents were
\* interleaved; a relation is stored with the chunk that shows it, whatever a model claims; and
\* no topic of a user is forgotten by its updates.  For any documents, batches, topics and callers.
THEOREM SoundStores == Spec => []StoresAreSound
  <1>1. ContentInv => StoresAreSound
    BY WindowsAreCut, GraphSound, ExtractionSound, MemoriesAreSound
    DEF ContentInv, StoresAreSound
  <1> QED BY <1>1, ContentInvariant, PTL

\* Evidence was visible to the user at some time since the question, whatever the indexes hold
\* and the rows become; and when nothing changes or fails, a visible chunk that is found
\* reaches the answer, unless another active one has its content.
THEOREM SoundEvidence == Spec => []EvidenceIsSound
  <1>1. ContentInv => EvidenceIsSound
    BY EvidenceSound DEF ContentInv, EvidenceIsSound
  <1> QED BY <1>1, ContentInvariant, PTL

\* Grades are earned: no submission of any number of concurrent ones is lost from the profile,
\* whose score stays between the results it is made of; questions are those of the scaffold,
\* skipped ones score nothing, and a golden case had evidence and no down-vote of its asker, if
\* transactions on it do not overlap.
THEOREM FairGrades == Spec => []GradesAreFair
  <1>1. ContentInv => GradesAreFair
    BY DEF ContentInv, GradesAreFair, SessionsInv, ScoringInv, CasesInv
  <1> QED BY <1>1, ContentInvariant, PTL

\* The context of every question keeps what governs it: without quotas it fits into the window
\* and leaves nothing out for something worse, and with a quota every knowledge base is heard
\* within final_top_k, for any candidates, scores, lengths, budgets and quotas, and whatever
\* the order in which the knowledge bases are served.
THEOREM ContextIsRight ==
    Spec => [](part = "selection" => Selection!BudgetIsKept /\ Selection!QuotaIsKept)
  <1>1. ContentInv => (part = "selection" => Selection!BudgetIsKept /\ Selection!QuotaIsKept)
    BY SelectionSound, ContentAssumption DEF ContentInv, ContentAssumption
  <1> QED BY <1>1, ContentInvariant, PTL

\* The metrics of every case are right: recall and hit rate are ratios and count each expected
\* chunk once, and the discounted gain of what was returned is at most that of the ideal order,
\* for any expected chunks, any grades and hashes, any result and any discount that falls with
\* the position.
THEOREM MetricsAreRatios == Spec => [](part = "scores" => Scores!ScoresAreRatios)
  <1>1. ContentInv => (part = "scores" => Scores!ScoresAreRatios)
    BY MetricsSound, ContentAssumption DEF ContentInv, ContentAssumption
  <1> QED BY <1>1, ContentInvariant, PTL

\* A normalized text is its source without white space: the chunker's windows lose none of it.
THEOREM TextIsKept == Spec => [](part = "windows" => Windows!NormalizationKeepsText)
  <1>1. ContentInv => (part = "windows" => Windows!NormalizationKeepsText)
    BY DEF ContentInv
  <1> QED BY <1>1, ContentInvariant, PTL

\* Whatever the document, its target size and the bounds of its chunks: the block-aware chunks
\* have every line that counts, once and in the order of the text, the rows of a table never
\* without its header, within the bounds of their kinds and under headings that came before; and
\* the semantic ones have every paragraph, in order.
THEOREM BlocksAreChunked ==
    Spec => [](part = "blocks" => /\ Blocks!BlocksKeepText /\ Blocks!BlocksFit
                                  /\ Blocks!GroupsKeepText)
  <1>1. ContentInv => (part = "blocks" => /\ Blocks!BlocksKeepText /\ Blocks!BlocksFit
                                          /\ Blocks!GroupsKeepText)
    BY BlocksSound, ContentAssumption DEF ContentInv, ContentAssumption
  <1> QED BY <1>1, ContentInvariant, PTL

\* All that is computed from the whole of the data at once: the two chunkers lose nothing, the
\* context is within its budget and hears every knowledge base, and the metrics are ratios.
THEOREM RightAlgorithms == Spec => []AlgorithmsAreRight
  <1>1. ContentInv => AlgorithmsAreRight
    BY BlocksSound, SelectionSound, MetricsSound, ContentAssumption
    DEF ContentInv, ContentAssumption, AlgorithmsAreRight
  <1> QED BY <1>1, ContentInvariant, PTL

\* The variables of every part stay within their types.
THEOREM ContentIsTyped == Spec => []TypeOK
  <1>1. ContentInv => TypeOK
    <2> SUFFICES ASSUME ContentInv PROVE TypeOK
      OBVIOUS
    <2>1. part = "windows" => Windows!TypeOK
      BY WindowsAreTyped DEF ContentInv
    <2>2. part = "blocks" => Blocks!TypeOK
      BY BlocksSound, ContentAssumption DEF ContentInv, ContentAssumption
    <2>3. part = "graph" => Graph!TypeOK
      BY GraphIsTyped DEF ContentInv, GraphInv
    <2>4. part = "extraction" => Extraction!TypeOK
      BY ExtractionIsTyped DEF ContentInv
    <2>5. part = "memories" => Memories!TypeOK
      BY DEF ContentInv, MemoriesInv
    <2>6. part = "evidence" => Evidence!TypeOK
      BY DEF ContentInv, EvidenceInv
    <2>7. part = "sessions" => Sessions!TypeOK
      BY DEF ContentInv, SessionsInv
    <2>8. part = "scoring" => Scoring!TypeOK
      BY ScoringIsTyped DEF ContentInv
    <2>9. part = "cases" => Cases!TypeOK
      BY DEF ContentInv, CasesInv
    <2> QED BY <2>1, <2>2, <2>3, <2>4, <2>5, <2>6, <2>7, <2>8, <2>9 DEF TypeOK
  <1> QED BY <1>1, ContentInvariant, PTL

\* Every round of the chunker's two loops comes nearer to the end of a text without URLs; and
\* when the keywords alone do not reach the relevance asked for, a search recalls no memory
\* that was deleted before it began.
THEOREM StepsGoOn == MinRelevance > 30 => (Spec => NoStepGoesBack)
  <1> SUFFICES ASSUME MinRelevance > 30 PROVE Spec => NoStepGoesBack
    OBVIOUS
  <1> DEFINE Ahead == /\ part = "windows" => Windows!RoundAdvances
                      /\ part = "memories" => Memories!RecallsWhatIsKept
  <1>1. ContentInv /\ [Next]_vars => [Ahead]_vars
    <2> SUFFICES ASSUME ContentInv, Next PROVE Ahead
      OBVIOUS
    <2>1. ASSUME part = "windows" PROVE Windows!RoundAdvances
      <3>1. Windows!Next
        BY <2>1 DEF Next
      <3> QED BY <2>1, <3>1, WindowsStep DEF ContentInv, Windows!RoundAdvances
    <2>2. ASSUME part = "memories" PROVE Memories!RecallsWhatIsKept
      BY <2>2, StepOfPart, KeywordsDoNotReach, ContentAssumption DEF ContentAssumption
    <2> QED BY <2>1, <2>2
  <1> QED BY <1>1, ContentInvariant, PTL DEF Spec, NoStepGoesBack
=============================================================================
