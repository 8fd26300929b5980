-------------------------- MODULE MCRetrieval_proofs --------------------------
(***************************************************************************)
(* A question on its way through retrieval, for any number of questions,   *)
(* callers, texts and checks: RetrievalRequest, ModelCalls,                *)
(* QueryEmbeddings and RateLimiter, each on its own, and then the four as  *)
(* MCRetrieval puts them side by side.                                     *)
(***************************************************************************)
EXTENDS MCRetrieval, Sequences, FiniteSetTheorems, TLAPS

-----------------------------------------------------------------------------
(***************************************************************************)
(* RateLimiter.  What is let through in a tick is in the window, and the   *)
(* first check to be let through saw fewer than Limit requests there; each *)
(* of the checks that were let through since is counted once (Room).       *)
(***************************************************************************)
Recent == {p \in allowed : p[1] + Window > now}
AllowedNow == {c \in Checks : <<now, c>> \in allowed}

\* A check is made within a tick, and is let through once in it.
OneTick ==
    \A c \in Checks : atL[c] # "idle" => started[c] = now /\ <<now, c>> \notin allowed

\* The sorted set keeps what is recent, and the clock has not been turned back.
RecentIsKept ==
    /\ Recent \subseteq window
    /\ \A p \in allowed : p[1] <= now

\* A check that is about to be added counted fewer requests than the limit, but for those let
\* through since.
Room ==
    \A c \in Checks : atL[c] = "adding" =>
        Cardinality(Recent) <= Limit - 1 + Cardinality(AllowedNow)

Most == Limit + Cardinality(Checks) - 1

\* The windows that have ended are within the bound, and so is the last one.
PastIsBounded ==
    /\ Cardinality(Recent) <= Most
    /\ \A t \in 0 .. now : Cardinality(Limiter!InWindow(t)) <= Most

LimiterTypes ==
    /\ Limiter!TypeOK
    /\ IsFiniteSet(window) /\ IsFiniteSet(allowed)

LimiterInv == LimiterTypes /\ OneTick /\ RecentIsKept /\ Room /\ PastIsBounded

\* Cardinality means the same in the modules and here.
LEMMA LimiterCardinality ==
  ASSUME NEW S
  PROVE  Limiter!Cardinality(S) = Cardinality(S) /\ (Limiter!IsFiniteSet(S) <=> IsFiniteSet(S))
  <1>1. Limiter!Cardinality(S) = Cardinality(S)
    BY DEF Limiter!Cardinality, Cardinality
  <1>2. Limiter!IsFiniteSet(S) <=> IsFiniteSet(S)
    BY DEF Limiter!IsFiniteSet, IsFiniteSet
  <1> QED BY <1>1, <1>2

\* The sets that are counted are finite.
LEMMA LimiterFinite ==
  ASSUME Limiter!LimiterAssumption, LimiterTypes
  PROVE  /\ Cardinality(Checks) \in Nat /\ Cardinality(Recent) \in Nat
         /\ Cardinality(window) \in Nat
         /\ Cardinality(AllowedNow) \in Nat /\ Cardinality(AllowedNow) <= Cardinality(Checks)
         /\ IsFiniteSet(Recent) /\ IsFiniteSet(AllowedNow)
         /\ \A S \in SUBSET Recent : Cardinality(S) \in Nat /\ Cardinality(S) <= Cardinality(Recent)
         /\ Recent \subseteq window => Cardinality(Recent) <= Cardinality(window)
  <1>1. IsFiniteSet(Checks)
    BY LimiterCardinality DEF Limiter!LimiterAssumption
  <1>2. IsFiniteSet(Recent) /\ IsFiniteSet(window)
    BY FS_Subset DEF LimiterTypes, Recent
  <1>3. IsFiniteSet(AllowedNow) /\ Cardinality(AllowedNow) <= Cardinality(Checks)
    BY <1>1, FS_Subset DEF AllowedNow
  <1>4. \A S \in SUBSET Recent : Cardinality(S) \in Nat /\ Cardinality(S) <= Cardinality(Recent)
    BY <1>2, FS_Subset, FS_CardinalityType
  <1>5. Recent \subseteq window => Cardinality(Recent) <= Cardinality(window)
    BY <1>2, FS_Subset
  <1> QED BY <1>1, <1>2, <1>3, <1>4, <1>5, FS_CardinalityType

LEMMA LimiterInitInv == Limiter!LimiterAssumption /\ Limiter!Init => LimiterInv
  <1> SUFFICES ASSUME Limiter!LimiterAssumption, Limiter!Init PROVE LimiterInv
    OBVIOUS
  <1>1. IsFiniteSet({}) /\ Cardinality({}) = 0
    BY FS_EmptySet
  <1>2. Limiter!TypeOK
    BY DEF Limiter!LimiterAssumption, Limiter!Init, Limiter!TypeOK
  <1>3. LimiterTypes
    BY <1>1, <1>2 DEF Limiter!Init, LimiterTypes
  <1>4. Recent = {} /\ \A t \in 0 .. now : Limiter!InWindow(t) = {}
    BY DEF Limiter!Init, Recent, Limiter!InWindow
  <1>5. Most \in Nat
    BY <1>3, LimiterFinite DEF Limiter!LimiterAssumption, Most
  <1>6. OneTick /\ RecentIsKept /\ Room
    BY <1>4 DEF Limiter!Init, OneTick, RecentIsKept, Room
  <1>7. PastIsBounded
    BY <1>1, <1>4, <1>5 DEF PastIsBounded
  <1> QED BY <1>3, <1>6, <1>7 DEF LimiterInv

\* Steps that let nothing through keep the counts.
LEMMA SameAllowed ==
  ASSUME PastIsBounded, UNCHANGED <<now, allowed>>
  PROVE  PastIsBounded'
  BY DEF PastIsBounded, Recent, Most, Limiter!InWindow

LEMMA CheckInv ==
  ASSUME Limiter!LimiterAssumption, LimiterInv, NEW c \in Checks,
         Limiter!Check(c) \/ Limiter!Trim(c) \/ Limiter!Degrade(c)
  PROVE  LimiterInv'
  <1> USE DEF Limiter!Go
  <1>1. /\ UNCHANGED <<now, allowed, count>> /\ window' \subseteq window
        /\ \A d \in Checks \ {c} : atL'[d] = atL[d] /\ started'[d] = started[d]
        /\ atL'[c] \in {"idle", "trimming", "counting"}
    BY DEF LimiterInv, LimiterTypes, Limiter!TypeOK, Limiter!Check, Limiter!Trim,
           Limiter!Degrade
  <1>2. LimiterTypes'
    <2>1. /\ atL' \in [Checks -> {"idle", "trimming", "counting", "adding"}]
          /\ started' \in [Checks -> 0 .. MaxTime]
          /\ redis' \in BOOLEAN
      BY DEF LimiterInv, LimiterTypes, Limiter!TypeOK, Limiter!Check, Limiter!Trim,
             Limiter!Degrade
    <2>2. IsFiniteSet(window')
      BY <1>1, FS_Subset DEF LimiterInv, LimiterTypes
    <2> QED BY <1>1, <2>1, <2>2 DEF LimiterInv, LimiterTypes, Limiter!TypeOK
  <1>3. OneTick'
    <2>1. atL'[c] # "idle" => started'[c] = now /\ <<now, c>> \notin allowed
      BY DEF LimiterInv, LimiterTypes, Limiter!TypeOK, OneTick, Limiter!Check, Limiter!Trim,
             Limiter!Degrade
    <2> QED BY <1>1, <2>1 DEF LimiterInv, OneTick
  <1>4. RecentIsKept'
    <2>1. CASE window' = window
      BY <1>1, <2>1 DEF LimiterInv, RecentIsKept, Recent
    <2>2. CASE Limiter!Trim(c)
      <3>1. started[c] = now
        BY <2>2 DEF LimiterInv, OneTick, Limiter!Trim
      <3> QED BY <1>1, <2>2, <3>1 DEF LimiterInv, RecentIsKept, Recent, Limiter!Trim
    <2> QED BY <2>1, <2>2 DEF Limiter!Check, Limiter!Degrade
  <1>5. Room'
    BY <1>1 DEF LimiterInv, Room, Recent, AllowedNow
  <1> QED BY <1>1, <1>2, <1>3, <1>4, <1>5, SameAllowed DEF LimiterInv

LEMMA CountInv ==
  ASSUME Limiter!LimiterAssumption, LimiterInv, NEW c \in Checks, Limiter!Count(c)
  PROVE  LimiterInv'
  <1>1. /\ UNCHANGED <<now, window, allowed, started, redis>>
        /\ count' = [count EXCEPT ![c] = Cardinality(window)]
        /\ \A d \in Checks \ {c} : atL'[d] = atL[d]
        /\ atL'[c] = IF count'[c] < Limit THEN "adding" ELSE "idle"
        /\ atL[c] = "counting"
    BY LimiterCardinality DEF LimiterInv, LimiterTypes, Limiter!TypeOK, Limiter!Count
  <1>2. Cardinality(window) \in Nat /\ Cardinality(Recent) <= Cardinality(window)
    BY LimiterFinite DEF LimiterInv, RecentIsKept
  <1>3. LimiterTypes'
    <2>1. atL' \in [Checks -> {"idle", "trimming", "counting", "adding"}]
      BY DEF LimiterInv, LimiterTypes, Limiter!TypeOK, Limiter!Count
    <2>2. count' \in [Checks -> Nat]
      BY <1>1, <1>2 DEF LimiterInv, LimiterTypes, Limiter!TypeOK
    <2> QED BY <1>1, <2>1, <2>2 DEF LimiterInv, LimiterTypes, Limiter!TypeOK
  <1>4. OneTick' /\ RecentIsKept'
    BY <1>1 DEF LimiterInv, OneTick, RecentIsKept, Recent
  <1>5. Room'
    <2>1. UNCHANGED <<Recent, AllowedNow>>
      BY <1>1 DEF Recent, AllowedNow
    <2>2. ASSUME atL'[c] = "adding"
          PROVE  Cardinality(Recent) <= Limit - 1 + Cardinality(AllowedNow)
      <3>1. Cardinality(window) < Limit
        BY <1>1, <2>2 DEF LimiterInv, LimiterTypes, Limiter!TypeOK
      <3>2. /\ Cardinality(AllowedNow) \in Nat /\ Cardinality(Recent) \in Nat
            /\ Limit \in Nat
        BY LimiterFinite DEF LimiterInv, Limiter!LimiterAssumption
      <3> QED BY <1>2, <3>1, <3>2
    <2> QED BY <1>1, <2>1, <2>2 DEF LimiterInv, Room
  <1> QED BY <1>1, <1>3, <1>4, <1>5, SameAllowed DEF LimiterInv

\* The check is let through: one more in its tick, and one more in the window.
LEMMA AddInv ==
  ASSUME Limiter!LimiterAssumption, LimiterInv, NEW c \in Checks, Limiter!Add(c)
  PROVE  LimiterInv'
  <1> DEFINE p == <<now, c>>
  <1>1. /\ atL[c] = "adding" /\ atL' = [atL EXCEPT ![c] = "idle"]
        /\ window' = window \cup {p} /\ allowed' = allowed \cup {p}
        /\ UNCHANGED <<now, started, count, redis>>
        /\ p \notin allowed
    BY DEF LimiterInv, OneTick, Limiter!Add, Limiter!Go
  <1>2. p \in (0 .. MaxTime) \X Checks /\ now \in Nat /\ Window \in Nat \ {0}
    BY DEF LimiterInv, LimiterTypes, Limiter!TypeOK, Limiter!LimiterAssumption
  <1>3. /\ p[1] = now /\ p \notin Recent
    BY <1>1 DEF Recent
  <1>4. Recent' = Recent \cup {p}
    BY <1>1, <1>2 DEF Recent
  <1>5. AllowedNow' = AllowedNow \cup {c} /\ c \notin AllowedNow
    BY <1>1 DEF AllowedNow
  <1>6. /\ Cardinality(Recent') = Cardinality(Recent) + 1
        /\ Cardinality(AllowedNow') = Cardinality(AllowedNow) + 1
    BY <1>3, <1>4, <1>5, LimiterFinite, FS_AddElement DEF LimiterInv
  <1>7. LimiterTypes'
    <2>1. IsFiniteSet(window') /\ IsFiniteSet(allowed')
      BY <1>1, FS_AddElement DEF LimiterInv, LimiterTypes
    <2> QED BY <1>1, <1>2, <2>1 DEF LimiterInv, LimiterTypes, Limiter!TypeOK
  <1>8. /\ Cardinality(Recent) \in Nat /\ Cardinality(AllowedNow) \in Nat
        /\ Cardinality(Recent') \in Nat /\ Cardinality(Checks) \in Nat /\ Limit \in Nat
        /\ Cardinality(AllowedNow') \in Nat /\ Cardinality(AllowedNow') <= Cardinality(Checks)
    <2>1. IsFiniteSet(Checks) /\ Limit \in Nat
      BY LimiterCardinality DEF Limiter!LimiterAssumption
    <2>2. AllowedNow' \subseteq Checks
      BY DEF AllowedNow
    <2>3. /\ Cardinality(AllowedNow') \in Nat
          /\ Cardinality(AllowedNow') <= Cardinality(Checks)
      BY <2>1, <2>2, FS_Subset, FS_CardinalityType
    <2>4. /\ Cardinality(Recent) \in Nat /\ Cardinality(AllowedNow) \in Nat
          /\ Cardinality(Checks) \in Nat
      BY LimiterFinite DEF LimiterInv
    <2> QED BY <1>6, <2>1, <2>3, <2>4
  <1>9. OneTick'
    <2>1. ASSUME NEW d \in Checks, atL'[d] # "idle"
          PROVE  started'[d] = now' /\ <<now', d>> \notin allowed'
      <3>1. d # c /\ atL[d] = atL'[d]
        BY <1>1, <2>1 DEF LimiterInv, LimiterTypes, Limiter!TypeOK
      <3> QED BY <1>1, <2>1, <3>1 DEF LimiterInv, OneTick
    <2> QED BY <2>1 DEF OneTick
  <1>10. RecentIsKept'
    BY <1>1, <1>2, <1>3, <1>4 DEF LimiterInv, RecentIsKept
  <1>11. Room'
    <2>1. ASSUME NEW d \in Checks, atL'[d] = "adding" PROVE atL[d] = "adding"
      BY <1>1, <2>1 DEF LimiterInv, LimiterTypes, Limiter!TypeOK
    <2> QED BY <1>1, <1>6, <1>8, <2>1 DEF LimiterInv, Room
  <1>12. PastIsBounded'
    <2>1. Cardinality(Recent) <= Limit - 1 + Cardinality(AllowedNow)
      BY <1>1 DEF LimiterInv, Room
    <2>2. Cardinality(Recent)' <= Most
      BY <1>6, <1>8, <2>1 DEF Most
    <2>3. ASSUME NEW t \in 0 .. now' PROVE Cardinality(Limiter!InWindow(t)') <= Most
      <3>1. CASE t = now
        <4>1. Limiter!InWindow(t)' \subseteq Recent'
          BY <1>2, <3>1, <1>1 DEF Limiter!InWindow, Recent, LimiterInv, LimiterTypes,
                                  Limiter!TypeOK
        <4> QED BY <1>7, <1>8, <2>2, <4>1, FS_Subset, FS_CardinalityType
                DEF LimiterTypes, Recent, Most
      <3>2. CASE t # now
        <4>1. Limiter!InWindow(t)' = Limiter!InWindow(t)
          BY <1>1, <1>2, <1>3, <3>2 DEF Limiter!InWindow
        <4> QED BY <1>1, <4>1 DEF LimiterInv, PastIsBounded
      <3> QED BY <3>1, <3>2
    <2> QED BY <2>2, <2>3 DEF PastIsBounded, Most
  <1> QED BY <1>7, <1>9, <1>10, <1>11, <1>12 DEF LimiterInv

\* A new tick: nothing has been let through in it, and its window ends within the last one.
LEMMA TickInv ==
  ASSUME Limiter!LimiterAssumption, LimiterInv, Limiter!Tick
  PROVE  LimiterInv'
  <1>1. /\ now' = now + 1 /\ now < MaxTime /\ UNCHANGED <<window, allowed, atL, started, count, redis>>
        /\ \A c \in Checks : atL[c] = "idle"
    BY DEF Limiter!Tick
  <1>2. /\ now \in Nat /\ MaxTime \in Nat /\ Window \in Nat \ {0}
        /\ \A p \in allowed : p[1] \in Nat
    BY DEF LimiterInv, LimiterTypes, Limiter!TypeOK, Limiter!LimiterAssumption
  <1>3. LimiterTypes'
    BY <1>1, <1>2 DEF LimiterInv, LimiterTypes, Limiter!TypeOK
  <1>4. OneTick' /\ Room'
    BY <1>1 DEF OneTick, Room
  <1>5. Recent' \subseteq Recent
    BY <1>1, <1>2 DEF Recent
  <1>6. RecentIsKept'
    BY <1>1, <1>2, <1>5 DEF LimiterInv, RecentIsKept
  <1>7. PastIsBounded'
    <2>1. Cardinality(Recent) <= Most /\ Cardinality(Recent) \in Nat /\ Most \in Int
      BY LimiterFinite DEF LimiterInv, PastIsBounded, Most, Limiter!LimiterAssumption
    <2>2. ASSUME NEW S \in SUBSET Recent PROVE Cardinality(S) <= Most
      <3>1. Cardinality(S) \in Nat /\ Cardinality(S) <= Cardinality(Recent)
        BY <2>2, LimiterFinite DEF LimiterInv
      <3> QED BY <2>1, <3>1
    <2>3. ASSUME NEW t \in 0 .. now' PROVE Cardinality(Limiter!InWindow(t)') <= Most
      <3>1. CASE t = now + 1
        <4>1. Limiter!InWindow(t)' \subseteq Recent
          BY <1>1, <1>2, <3>1 DEF Limiter!InWindow, Recent
        <4> QED BY <2>2, <4>1
      <3>2. CASE t # now + 1
        <4>1. Limiter!InWindow(t)' = Limiter!InWindow(t) /\ t \in 0 .. now
          BY <1>1, <1>2, <3>2 DEF Limiter!InWindow
        <4> QED BY <4>1 DEF LimiterInv, PastIsBounded
      <3> QED BY <3>1, <3>2
    <2> QED BY <1>5, <2>2, <2>3 DEF PastIsBounded, Most
  <1> QED BY <1>3, <1>4, <1>6, <1>7 DEF LimiterInv

LEMMA LimiterNextInv ==
  ASSUME Limiter!LimiterAssumption, LimiterInv, [Limiter!Next]_Limiter!vars
  PROVE  LimiterInv'
  <1>1. CASE Limiter!RedisTurns \/ UNCHANGED Limiter!vars
    <2>1. UNCHANGED <<now, window, allowed, atL, started, count>> /\ redis' \in BOOLEAN
      BY <1>1 DEF Limiter!RedisTurns, Limiter!vars, LimiterInv, LimiterTypes, Limiter!TypeOK
    <2> QED BY <2>1, SameAllowed DEF LimiterInv, LimiterTypes, Limiter!TypeOK, OneTick,
                                     RecentIsKept,
                                     Room, Recent, AllowedNow
  <1> QED BY <1>1, CheckInv, CountInv, AddInv, TickInv DEF Limiter!Next

\* The windows that have not ended have nothing in them that the last one has not.
LEMMA Overshoot ==
  ASSUME Limiter!LimiterAssumption, LimiterInv
  PROVE  Limiter!OvershootIsBounded
  <1> SUFFICES ASSUME NEW t \in Window .. MaxTime
               PROVE  Limiter!Cardinality(Limiter!InWindow(t))
                         <= Limit + Limiter!Cardinality(Checks) - 1
    BY DEF Limiter!OvershootIsBounded
  <1>1. /\ now \in Nat /\ MaxTime \in Nat /\ Window \in Nat \ {0} /\ t \in Nat
        /\ \A p \in allowed : p[1] \in Nat
    BY DEF LimiterInv, LimiterTypes, Limiter!TypeOK, Limiter!LimiterAssumption
  <1>2. CASE t <= now
    BY <1>1, <1>2, LimiterCardinality DEF LimiterInv, PastIsBounded, Most
  <1>3. CASE t > now
    <2>1. Limiter!InWindow(t) \subseteq Recent
      BY <1>1, <1>3 DEF Limiter!InWindow, Recent
    <2>2. /\ Cardinality(Limiter!InWindow(t)) \in Nat /\ Cardinality(Recent) \in Nat
          /\ Cardinality(Limiter!InWindow(t)) <= Cardinality(Recent)
      BY <2>1, LimiterFinite DEF LimiterInv
    <2>3. Cardinality(Recent) <= Most /\ Most \in Int
      BY LimiterFinite DEF LimiterInv, PastIsBounded, Most, Limiter!LimiterAssumption
    <2> QED BY <2>2, <2>3, LimiterCardinality DEF Most
  <1> QED BY <1>1, <1>2, <1>3

-----------------------------------------------------------------------------
(***************************************************************************)
(* QueryEmbeddings.  A request that runs is the one in the table for the   *)
(* text of everyone who has joined it, and a request that nobody has sent  *)
(* is neither joined nor in the table.                                     *)
(***************************************************************************)
JoinedIsInFlight ==
    \A c \in Callers : joined[c] # None =>
        /\ request[joined[c]] # "unused"
        /\ request[joined[c]] = "running" => inflight[text[c]] = joined[c]

InFlightIsSent == \A t \in Texts : inflight[t] # None => request[inflight[t]] # "unused"

EmbeddingTypes == Embeddings!TypeOK /\ IsFiniteSet(cache)

EmbeddingInv == EmbeddingTypes /\ JoinedIsInFlight /\ InFlightIsSent

\* Cardinality means the same in the modules and here.
LEMMA EmbeddingCardinality == ASSUME NEW S PROVE Embeddings!Cardinality(S) = Cardinality(S)
  BY DEF Embeddings!Cardinality, Cardinality

LEMMA EmbeddingInitInv == Embeddings!EmbeddingAssumption /\ Embeddings!Init => EmbeddingInv
  <1> SUFFICES ASSUME Embeddings!EmbeddingAssumption, Embeddings!Init PROVE EmbeddingInv
    OBVIOUS
  <1>1. IsFiniteSet({}) /\ Cardinality({}) = 0
    BY FS_EmptySet
  <1>2. Embeddings!TypeOK
    BY <1>1, EmbeddingCardinality
       DEF Embeddings!EmbeddingAssumption, Embeddings!Init, Embeddings!TypeOK,
           Embeddings!Requests
  <1> QED BY <1>1, <1>2 DEF EmbeddingInv, EmbeddingTypes, JoinedIsInFlight, InFlightIsSent,
                            Embeddings!Init

\* The cache holds CacheSize texts at most: the oldest leave for the new one.
LEMMA CacheIsBounded ==
  ASSUME Embeddings!EmbeddingAssumption, EmbeddingTypes, NEW x \in Texts,
         NEW kept \in SUBSET (cache \ {x}),
         Embeddings!Cardinality(kept) = IF Embeddings!Cardinality(cache \ {x}) < CacheSize
                                        THEN Embeddings!Cardinality(cache \ {x})
                                        ELSE CacheSize - 1
  PROVE  /\ kept \cup {x} \subseteq Texts /\ IsFiniteSet(kept \cup {x})
         /\ Embeddings!Cardinality(kept \cup {x}) <= CacheSize
  <1>1. IsFiniteSet(cache \ {x}) /\ IsFiniteSet(kept)
    BY FS_Subset DEF EmbeddingTypes
  <1>2. Cardinality(cache \ {x}) \in Nat /\ Cardinality(kept) \in Nat
    BY <1>1, FS_CardinalityType
  <1>3. Cardinality(kept) <= CacheSize - 1 /\ CacheSize \in Nat
    BY <1>2, EmbeddingCardinality DEF Embeddings!EmbeddingAssumption
  <1>4. IsFiniteSet(kept \cup {x}) /\ Cardinality(kept \cup {x}) = Cardinality(kept) + 1
    BY <1>1, FS_AddElement
  <1>5. Cardinality(kept \cup {x}) <= CacheSize
    BY <1>2, <1>3, <1>4
  <1> QED BY <1>4, <1>5, EmbeddingCardinality DEF EmbeddingTypes, Embeddings!TypeOK

\* What a caller does with a vector, an error or a request of others.
LEMMA CallerInv ==
  ASSUME Embeddings!EmbeddingAssumption, EmbeddingInv, NEW c \in Callers,
         \/ Embeddings!Hit(c) \/ Embeddings!Join(c) \/ Embeddings!Wake(c)
         \/ Embeddings!Cancel(c) \/ Embeddings!Again(c)
  PROVE  EmbeddingInv'
  <1> USE DEF Embeddings!Moved
  <1>1. /\ UNCHANGED <<cache, inflight, request>>
        /\ atQ' \in [Callers -> {"idle", "waiting", "storing", "vector", "error", "cancelled"}]
    BY DEF EmbeddingInv, EmbeddingTypes, Embeddings!TypeOK, Embeddings!Hit, Embeddings!Join,
           Embeddings!Wake, Embeddings!Cancel, Embeddings!Again
  <1>2. text' \in [Callers -> Texts] /\ joined' \in [Callers -> Embeddings!Requests \cup {None}]
    BY DEF EmbeddingInv, EmbeddingTypes, Embeddings!TypeOK, Embeddings!Hit, Embeddings!Join,
           Embeddings!Wake, Embeddings!Cancel, Embeddings!Again
  <1>3. EmbeddingTypes'
    BY <1>1, <1>2 DEF EmbeddingInv, EmbeddingTypes, Embeddings!TypeOK
  <1>4. ASSUME NEW d \in Callers, joined'[d] # None
        PROVE  \/ joined'[d] = joined[d] /\ text'[d] = text[d]
               \/ joined'[d] = inflight[text[d]] /\ text'[d] = text[d]
    BY <1>4 DEF EmbeddingInv, EmbeddingTypes, Embeddings!TypeOK, Embeddings!Hit,
                Embeddings!Join,
                Embeddings!Wake, Embeddings!Cancel, Embeddings!Again
  <1>5. JoinedIsInFlight'
    BY <1>1, <1>4 DEF EmbeddingInv, EmbeddingTypes, Embeddings!TypeOK, JoinedIsInFlight,
                      InFlightIsSent
  <1> QED BY <1>1, <1>3, <1>5 DEF EmbeddingInv, InFlightIsSent

\* A request is sent when none is in the table for its text.
LEMMA SendInv ==
  ASSUME Embeddings!EmbeddingAssumption, EmbeddingInv, NEW c \in Callers, Embeddings!Send(c)
  PROVE  EmbeddingInv'
  <1> PICK r \in Embeddings!Requests :
         /\ request[r] = "unused" /\ inflight[text[c]] = None
         /\ request' = [request EXCEPT ![r] = "running"]
         /\ inflight' = [inflight EXCEPT ![text[c]] = r]
         /\ joined' = [joined EXCEPT ![c] = r]
         /\ UNCHANGED <<cache, text>>
         /\ atQ' = [atQ EXCEPT ![c] = "waiting"]
    BY DEF Embeddings!Send, Embeddings!Moved
  <1>1. r # None /\ text[c] \in Texts
    BY DEF Embeddings!EmbeddingAssumption, EmbeddingInv, EmbeddingTypes, Embeddings!TypeOK
  <1>2. EmbeddingTypes'
    BY DEF EmbeddingInv, EmbeddingTypes, Embeddings!TypeOK
  <1>3. JoinedIsInFlight'
    <2>1. ASSUME NEW d \in Callers, d # c, joined[d] # None
          PROVE  /\ joined[d] # r /\ joined[d] \in Embeddings!Requests
                 /\ request'[joined[d]] # "unused"
                 /\ request'[joined[d]] = "running" => inflight'[text[d]] = joined[d]
      BY <2>1 DEF EmbeddingInv, EmbeddingTypes, Embeddings!TypeOK, JoinedIsInFlight
    <2>2. \A d \in Callers \ {c} : joined'[d] = joined[d]
      BY DEF EmbeddingInv, EmbeddingTypes, Embeddings!TypeOK
    <2>3. joined'[c] = r /\ request'[r] = "running" /\ inflight'[text[c]] = r
      BY <1>1 DEF EmbeddingInv, EmbeddingTypes, Embeddings!TypeOK
    <2> QED BY <2>1, <2>2, <2>3 DEF JoinedIsInFlight
  <1>4. InFlightIsSent'
    BY <1>1 DEF EmbeddingInv, EmbeddingTypes, Embeddings!TypeOK, InFlightIsSent
  <1> QED BY <1>2, <1>3, <1>4 DEF EmbeddingInv

\* The provider answers, and the callback takes the request out of the table.
LEMMA ProviderInv ==
  ASSUME Embeddings!EmbeddingAssumption, EmbeddingInv, NEW r \in Embeddings!Requests,
         Embeddings!Provider(r) \/ Embeddings!Discard(r)
  PROVE  EmbeddingInv'
  <1>1. CASE Embeddings!Provider(r)
    <2>1. PICK s \in {"vector", "error"} : request' = [request EXCEPT ![r] = s]
      BY <1>1 DEF Embeddings!Provider
    <2>2. UNCHANGED <<cache, inflight, atQ, text, joined>>
      BY <1>1 DEF Embeddings!Provider
    <2> QED BY <2>1, <2>2 DEF EmbeddingInv, EmbeddingTypes, Embeddings!TypeOK, JoinedIsInFlight,
                              InFlightIsSent
  <1>2. CASE Embeddings!Discard(r)
    <2>1. PICK t \in Texts : inflight[t] = r /\ inflight' = [inflight EXCEPT ![t] = None]
      BY <1>2 DEF Embeddings!Discard
    <2>2. request[r] # "running" /\ UNCHANGED <<cache, request, atQ, text, joined>>
      BY <1>2 DEF Embeddings!Discard
    <2> QED BY <2>1, <2>2 DEF EmbeddingInv, EmbeddingTypes, Embeddings!TypeOK, JoinedIsInFlight,
                              InFlightIsSent
  <1> QED BY <1>1, <1>2

LEMMA StoreInv ==
  ASSUME Embeddings!EmbeddingAssumption, EmbeddingInv, NEW c \in Callers, Embeddings!Store(c)
  PROVE  EmbeddingInv'
  <1>1. text[c] \in Texts
    BY DEF EmbeddingInv, EmbeddingTypes, Embeddings!TypeOK
  <1>2. /\ cache' \subseteq Texts /\ IsFiniteSet(cache')
        /\ Embeddings!Cardinality(cache') <= CacheSize
    BY <1>1, CacheIsBounded DEF EmbeddingInv, Embeddings!Store
  <1>3. /\ UNCHANGED <<inflight, request, text, joined>>
        /\ atQ' = [atQ EXCEPT ![c] = "vector"]
    BY DEF Embeddings!Store, Embeddings!Moved
  <1> QED BY <1>2, <1>3 DEF EmbeddingInv, EmbeddingTypes, Embeddings!TypeOK, JoinedIsInFlight,
                            InFlightIsSent

LEMMA EmbeddingNextInv ==
  ASSUME Embeddings!EmbeddingAssumption, EmbeddingInv, [Embeddings!Next]_Embeddings!vars
  PROVE  EmbeddingInv'
  <1>1. CASE UNCHANGED Embeddings!vars
    BY <1>1 DEF Embeddings!vars, EmbeddingInv, EmbeddingTypes, Embeddings!TypeOK,
                JoinedIsInFlight, InFlightIsSent
  <1> QED BY <1>1, CallerInv, SendInv, ProviderInv, StoreInv DEF Embeddings!Next

\* The requests that run for a text are the one in the table.
LEMMA OneRequestPerText ==
  Embeddings!EmbeddingAssumption /\ EmbeddingInv => Embeddings!SingleFlight
  <1> SUFFICES ASSUME Embeddings!EmbeddingAssumption, EmbeddingInv, NEW t \in Texts
               PROVE  Embeddings!Cardinality({r \in Embeddings!Requests : request[r] = "running" /\
                          (inflight[t] = r \/ \E c \in Callers : joined[c] = r /\ text[c] = t)})
                        <= 1
    BY DEF Embeddings!SingleFlight
  <1> DEFINE S == {r \in Embeddings!Requests : request[r] = "running" /\
                      (inflight[t] = r \/ \E c \in Callers : joined[c] = r /\ text[c] = t)}
  <1>1. S \subseteq {inflight[t]}
    <2>1. ASSUME NEW r \in S, NEW c \in Callers, joined[c] = r, text[c] = t
          PROVE  r = inflight[t]
      <3>1. joined[c] # None
        BY <2>1 DEF Embeddings!EmbeddingAssumption
      <3> QED BY <2>1, <3>1 DEF EmbeddingInv, JoinedIsInFlight
    <2> QED BY <2>1
  <1>2. IsFiniteSet({inflight[t]}) /\ Cardinality({inflight[t]}) = 1
    BY FS_Singleton
  <1>3. Cardinality(S) <= 1
    BY <1>1, <1>2, FS_Subset
  <1> QED BY <1>3, EmbeddingCardinality

-----------------------------------------------------------------------------
(***************************************************************************)
(* ModelCalls.  The buffer holds tokens of the current attempt alone, and  *)
(* no model that works has been passed over: its breaker is closed, and it *)
(* neither refuses nor breaks off.                                         *)
(***************************************************************************)
TokensOfAttempt ==
    \A r \in Questions :
        /\ atM[r] = "streaming" => tokens[r] \subseteq {attempt[r]}
        /\ atM[r] = "answered" => tokens[r] = {attempt[r]}

ReliableStands == \A m \in Reliable : healthy[m] /\ failuresM[m] = 0 /\ ~opened[m]

NonePassedOver ==
    \A r \in Questions :
        /\ \A i \in 1 .. attempt[r] - 1 : Plan[i] \notin Reliable
        /\ Reliable # {} => atM[r] # "failed"

CallsInv == Calls!TypeOK /\ TokensOfAttempt /\ ReliableStands /\ NonePassedOver

\* The attempts are those of a plan that is not empty.
LEMMA PlanIsNumbered ==
  ASSUME Calls!CallsAssumption
  PROVE  /\ DOMAIN Plan = 1 .. Len(Plan) /\ Len(Plan) \in Nat \ {0}
         /\ \A i \in DOMAIN Plan : Plan[i] \in Calls!Models
         /\ \A m \in Reliable : \E i \in DOMAIN Plan : Plan[i] = m
  <1>1. DOMAIN Plan = 1 .. Len(Plan) /\ Len(Plan) \in Nat \ {0}
    BY DEF Calls!CallsAssumption
  <1>2. \A i \in DOMAIN Plan : Plan[i] \in Calls!Models
    BY DEF Calls!Models
  <1>3. \A m \in Reliable : \E i \in DOMAIN Plan : Plan[i] = m
    BY DEF Calls!Models, Calls!CallsAssumption
  <1> QED BY <1>1, <1>2, <1>3

LEMMA CallsInitInv == Calls!CallsAssumption /\ Calls!Init => CallsInv
  <1> SUFFICES ASSUME Calls!CallsAssumption, Calls!Init PROVE CallsInv
    OBVIOUS
  <1>1. 1 \in DOMAIN Plan
    BY PlanIsNumbered
  <1>2. Calls!TypeOK
    <2>1. healthy \in [Calls!Models -> BOOLEAN] /\ opened \in [Calls!Models -> BOOLEAN]
      BY DEF Calls!Init
    <2>2. failuresM \in [Calls!Models -> 0 .. CallFailures]
      BY DEF Calls!Init, Calls!CallsAssumption
    <2>3. age \in [Calls!Models -> 0 .. Recovery]
      BY DEF Calls!Init, Calls!CallsAssumption
    <2> QED BY <1>1, <2>1, <2>2, <2>3 DEF Calls!Init, Calls!TypeOK
  <1>3. ReliableStands
    BY DEF Calls!Init, Calls!CallsAssumption, ReliableStands
  <1>4. TokensOfAttempt /\ NonePassedOver
    BY DEF Calls!Init, TokensOfAttempt, NonePassedOver
  <1> QED BY <1>2, <1>3, <1>4 DEF CallsInv

\* The next attempt, when the model of this one is not among those that work.
LEMMA NextAttempt ==
  ASSUME Calls!CallsAssumption, CallsInv, NEW r \in Questions, Calls!AttemptFails(r),
         Calls!Model(r) \notin Reliable
  PROVE  /\ atM' \in [Questions -> {"idle", "calling", "streaming", "answered", "failed"}]
         /\ attempt' \in [Questions -> DOMAIN Plan]
         /\ \A q \in Questions \ {r} : atM'[q] = atM[q] /\ attempt'[q] = attempt[q]
         /\ atM'[r] \in {"calling", "failed"}
         /\ NonePassedOver'
  <1> USE DEF Calls!AttemptFails
  <1>1. atM' \in [Questions -> {"idle", "calling", "streaming", "answered", "failed"}]
    BY DEF CallsInv, Calls!TypeOK
  <1>2. /\ \A q \in Questions \ {r} : atM'[q] = atM[q] /\ attempt'[q] = attempt[q]
        /\ atM'[r] \in {"calling", "failed"}
    BY DEF CallsInv, Calls!TypeOK
  <1>3. attempt[r] \in 1 .. Len(Plan) /\ Len(Plan) \in Nat \ {0}
    BY PlanIsNumbered DEF CallsInv, Calls!TypeOK
  <1>4. CASE attempt[r] < Len(Plan)
    <2>1. /\ attempt' = [attempt EXCEPT ![r] = attempt[r] + 1]
          /\ atM'[r] = "calling" /\ attempt'[r] = attempt[r] + 1
      BY <1>4 DEF CallsInv, Calls!TypeOK
    <2>2. attempt' \in [Questions -> DOMAIN Plan]
      BY <1>3, <1>4, <2>1, PlanIsNumbered DEF CallsInv, Calls!TypeOK
    <2>3. \A i \in 1 .. attempt'[r] - 1 : Plan[i] \notin Reliable
      BY <1>3, <2>1 DEF CallsInv, NonePassedOver, Calls!Model
    <2> QED BY <1>1, <1>2, <2>1, <2>2, <2>3 DEF CallsInv, NonePassedOver
  <1>5. CASE ~(attempt[r] < Len(Plan))
    <2>1. attempt[r] = Len(Plan) /\ attempt' = attempt
      BY <1>3, <1>5
    <2>2. \A i \in 1 .. Len(Plan) : Plan[i] \notin Reliable
      BY <1>3, <2>1 DEF CallsInv, NonePassedOver, Calls!Model
    <2>3. Reliable = {}
      BY <2>2, PlanIsNumbered
    <2> QED BY <1>1, <1>2, <2>1, <2>3 DEF CallsInv, NonePassedOver, Calls!TypeOK
  <1> QED BY <1>4, <1>5

\* A model that fails is not among those that work; nor is one that refuses.
LEMMA FailingIsNotReliable ==
  ASSUME CallsInv, NEW r \in Questions,
         ~healthy[Calls!Model(r)] \/ Calls!Refuses(Calls!Breaker(Calls!Model(r)))
  PROVE  Calls!Model(r) \notin Reliable
  BY DEF CallsInv, ReliableStands, Calls!Refuses, Calls!Breaker

LEMMA BreakerTypes ==
  ASSUME Calls!CallsAssumption, CallsInv, NEW b \in Calls!Models,
         Calls!RecordFailure(b) \/ Calls!RecordSuccess(b)
  PROVE  /\ failuresM' \in [Calls!Models -> 0 .. CallFailures]
         /\ opened' \in [Calls!Models -> BOOLEAN]
         /\ age' \in [Calls!Models -> 0 .. Recovery]
         /\ \A m \in Calls!Models \ {b} : failuresM'[m] = failuresM[m] /\ opened'[m] = opened[m]
  <1>0. /\ failuresM[b] \in 0 .. CallFailures /\ CallFailures \in Nat /\ Recovery \in Nat
        /\ failuresM \in [Calls!Models -> 0 .. CallFailures]
        /\ age \in [Calls!Models -> 0 .. Recovery]
    BY DEF CallsInv, Calls!TypeOK, Calls!CallsAssumption
  <1>1. failuresM' \in [Calls!Models -> 0 .. CallFailures]
    <2>1. PICK n \in 0 .. CallFailures : failuresM' = [failuresM EXCEPT ![b] = n]
      BY <1>0 DEF Calls!RecordFailure, Calls!RecordSuccess
    <2> QED BY <1>0, <2>1
  <1>2. opened' \in [Calls!Models -> BOOLEAN]
    BY DEF CallsInv, Calls!TypeOK, Calls!RecordFailure, Calls!RecordSuccess
  <1>3. age' \in [Calls!Models -> 0 .. Recovery]
    <2>1. age' = age \/ age' = [age EXCEPT ![b] = 0]
      BY DEF Calls!RecordFailure, Calls!RecordSuccess
    <2>2. 0 \in 0 .. Recovery
      BY <1>0
    <2> QED BY <1>0, <2>1, <2>2
  <1>4. \A m \in Calls!Models \ {b} : failuresM'[m] = failuresM[m] /\ opened'[m] = opened[m]
    BY DEF CallsInv, Calls!TypeOK, Calls!RecordFailure, Calls!RecordSuccess
  <1> QED BY <1>1, <1>2, <1>3, <1>4

\* Asking, refusing, beginning and buffering leave the breakers and the models alone.
LEMMA AskInv ==
  ASSUME Calls!CallsAssumption, CallsInv, NEW r \in Questions,
         Calls!Ask(r) \/ Calls!Begin(r) \/ Calls!Token(r)
  PROVE  CallsInv'
  <1>1. UNCHANGED <<healthy, failuresM, opened, age>>
    BY DEF Calls!Ask, Calls!Begin, Calls!Token, Calls!breakers
  <1>2. /\ atM' \in [Questions -> {"idle", "calling", "streaming", "answered", "failed"}]
        /\ atM'[r] \in {"calling", "streaming"}
    BY DEF CallsInv, Calls!TypeOK, Calls!Ask, Calls!Begin, Calls!Token
  <1>3. /\ attempt' \in [Questions -> DOMAIN Plan]
        /\ attempt'[r] \in {1, attempt[r]}
    <2>1. 1 \in DOMAIN Plan
      BY PlanIsNumbered
    <2>2. attempt' = attempt \/ attempt' = [attempt EXCEPT ![r] = 1]
      BY DEF Calls!Ask, Calls!Begin, Calls!Token
    <2> QED BY <2>1, <2>2 DEF CallsInv, Calls!TypeOK
  <1>4. /\ tokens' \in [Questions -> SUBSET DOMAIN Plan]
        /\ atM'[r] = "streaming" => tokens'[r] \subseteq {attempt'[r]}
    BY DEF CallsInv, Calls!TypeOK, TokensOfAttempt, Calls!Ask, Calls!Begin, Calls!Token
  <1>5. \A q \in Questions \ {r} : /\ atM'[q] = atM[q] /\ attempt'[q] = attempt[q]
                                   /\ tokens'[q] = tokens[q]
    BY DEF CallsInv, Calls!TypeOK, Calls!Ask, Calls!Begin, Calls!Token
  <1>6. Calls!TypeOK'
    BY <1>1, <1>2, <1>3, <1>4 DEF CallsInv, Calls!TypeOK
  <1>7. TokensOfAttempt'
    BY <1>2, <1>4, <1>5 DEF CallsInv, TokensOfAttempt
  <1>8. NonePassedOver'
    BY <1>2, <1>3, <1>5 DEF CallsInv, NonePassedOver
  <1> QED BY <1>1, <1>6, <1>7, <1>8 DEF CallsInv, ReliableStands

\* An attempt fails, and a breaker may count it.
LEMMA AttemptInv ==
  ASSUME Calls!CallsAssumption, CallsInv, NEW r \in Questions,
         Calls!Refused(r) \/ Calls!StreamBreaks(r) \/ Calls!GenerationTimesOut(r)
  PROVE  CallsInv'
  <1>1. /\ Calls!AttemptFails(r) /\ UNCHANGED <<healthy, tokens>>
        /\ Calls!Model(r) \notin Reliable
    BY FailingIsNotReliable DEF Calls!Refused, Calls!StreamBreaks, Calls!GenerationTimesOut
  <1>2. /\ failuresM' \in [Calls!Models -> 0 .. CallFailures]
        /\ opened' \in [Calls!Models -> BOOLEAN]
        /\ age' \in [Calls!Models -> 0 .. Recovery]
        /\ \A m \in Calls!Models \ {Calls!Model(r)} : failuresM'[m] = failuresM[m]
                                                      /\ opened'[m] = opened[m]
    <2>1. CASE Calls!StreamBreaks(r)
      <3>1. Calls!Model(r) \in Calls!Models
        BY PlanIsNumbered DEF CallsInv, Calls!TypeOK, Calls!Model
      <3> QED BY <2>1, <3>1, BreakerTypes DEF Calls!StreamBreaks, Calls!Breaker
    <2>2. CASE Calls!Refused(r) \/ Calls!GenerationTimesOut(r)
      BY <2>2 DEF CallsInv, Calls!TypeOK, Calls!Refused, Calls!GenerationTimesOut,
                  Calls!breakers
    <2> QED BY <2>1, <2>2
  <1>3. Calls!TypeOK'
    BY <1>1, <1>2, NextAttempt DEF CallsInv, Calls!TypeOK
  <1>4. TokensOfAttempt'
    BY <1>1, NextAttempt DEF CallsInv, TokensOfAttempt
  <1>5. ReliableStands'
    BY <1>1, <1>2 DEF CallsInv, ReliableStands, Calls!CallsAssumption
  <1> QED BY <1>1, <1>3, <1>4, <1>5, NextAttempt DEF CallsInv

\* A stream that ends with tokens is the answer; one that ends without is a failed attempt.
LEMMA StreamInv ==
  ASSUME Calls!CallsAssumption, CallsInv, NEW r \in Questions, Calls!StreamEnds(r)
  PROVE  CallsInv'
  <1>1. /\ Calls!RecordSuccess(Calls!Model(r)) /\ UNCHANGED <<healthy, tokens>>
        /\ atM[r] = "streaming" /\ Calls!Model(r) \in Calls!Models
    BY PlanIsNumbered DEF CallsInv, Calls!TypeOK, Calls!Model, Calls!StreamEnds, Calls!Breaker
  <1>2. ReliableStands'
    BY <1>1 DEF CallsInv, ReliableStands, Calls!TypeOK, Calls!RecordSuccess,
                Calls!CallsAssumption
  <1>3. CASE tokens[r] # {}
    <2>1. atM' = [atM EXCEPT ![r] = "answered"] /\ UNCHANGED attempt
      BY <1>3 DEF Calls!StreamEnds
    <2>2. tokens[r] = {attempt[r]}
      BY <1>1, <1>3 DEF CallsInv, TokensOfAttempt
    <2>3. Calls!TypeOK'
      BY <1>1, <2>1, BreakerTypes DEF CallsInv, Calls!TypeOK
    <2>4. TokensOfAttempt' /\ NonePassedOver'
      BY <1>1, <2>1, <2>2 DEF CallsInv, Calls!TypeOK, TokensOfAttempt, NonePassedOver
    <2> QED BY <1>2, <2>3, <2>4 DEF CallsInv
  <1>4. CASE tokens[r] = {}
    <2>1. Calls!AttemptFails(r) /\ Calls!Model(r) \notin Reliable
      BY <1>4, FailingIsNotReliable DEF Calls!StreamEnds
    <2>2. Calls!TypeOK'
      BY <1>1, <2>1, BreakerTypes, NextAttempt DEF CallsInv, Calls!TypeOK
    <2>3. TokensOfAttempt'
      BY <1>1, <2>1, NextAttempt DEF CallsInv, TokensOfAttempt
    <2> QED BY <1>2, <2>1, <2>2, <2>3, NextAttempt DEF CallsInv
  <1> QED BY <1>3, <1>4

\* Time passes, and models that may fail come and go.
LEMMA WorldInv ==
  ASSUME Calls!CallsAssumption, CallsInv, Calls!Tick \/ \E m \in Calls!Models : Calls!Turns(m)
  PROVE  CallsInv'
  <1>1. UNCHANGED <<failuresM, opened, atM, attempt, tokens>>
    BY DEF Calls!Tick, Calls!Turns, Calls!breakers
  <1>2. /\ healthy' \in [Calls!Models -> BOOLEAN]
        /\ \A m \in Reliable : healthy'[m] = healthy[m]
    BY DEF CallsInv, Calls!TypeOK, Calls!Tick, Calls!Turns, Calls!CallsAssumption
  <1>3. age' \in [Calls!Models -> 0 .. Recovery]
    <2>1. age \in [Calls!Models -> 0 .. Recovery] /\ Recovery \in Nat
      BY DEF CallsInv, Calls!TypeOK, Calls!CallsAssumption
    <2>2. CASE Calls!Tick
      <3>1. age' = [m \in Calls!Models |-> IF opened[m] /\ age[m] < Recovery THEN age[m] + 1
                                           ELSE age[m]]
        BY <2>2 DEF Calls!Tick
      <3>2. \A m \in Calls!Models : (IF opened[m] /\ age[m] < Recovery THEN age[m] + 1
                                     ELSE age[m]) \in 0 .. Recovery
        BY <2>1
      <3> QED BY <3>1, <3>2
    <2>3. CASE ~Calls!Tick
      BY <2>1, <2>3 DEF Calls!Turns, Calls!breakers
    <2> QED BY <2>2, <2>3
  <1> QED BY <1>1, <1>2, <1>3 DEF CallsInv, Calls!TypeOK, TokensOfAttempt, ReliableStands,
                                  NonePassedOver

LEMMA CallsNextInv ==
  ASSUME Calls!CallsAssumption, CallsInv, [Calls!Next]_Calls!vars
  PROVE  CallsInv'
  <1>1. CASE UNCHANGED Calls!vars
    BY <1>1 DEF Calls!vars, CallsInv, Calls!TypeOK, TokensOfAttempt, ReliableStands,
                NonePassedOver
  <1> QED BY <1>1, AskInv, AttemptInv, StreamInv, WorldInv DEF Calls!Next, Calls!Step

LEMMA SoundAnswers == CallsInv => Calls!AnswerIsWhole /\ Calls!ReliableModelAnswers
  BY DEF CallsInv, TokensOfAttempt, NonePassedOver, Calls!AnswerIsWhole,
         Calls!ReliableModelAnswers

-----------------------------------------------------------------------------
(***************************************************************************)
(* RetrievalRequest.  Each stage of a request has its own tasks: those of  *)
(* an earlier stage have ended or were cancelled on the way.  The reason   *)
(* for a rejection is about the tasks of the last retrieval, which have    *)
(* ended.                                                                  *)
(***************************************************************************)
Tasks == Req!Early \cup Req!Channels

TasksOfStage ==
    \A t \in Tasks : Req!Running(t) =>
        \/ at = "understanding" /\ t \in Req!Early
        \/ at \in {"routing", "joining"} /\ t \in {"speculative", "hyde"}
        \/ at = "hyde" /\ t = "hyde"
        \/ at = "searching" /\ t \in Req!Channels
        \/ at = "failed"

\* The agent begins a retrieval that it is still allowed.
StartIsAllowed == at = "start" => steps < MaxSteps

Results ==
    [mode : {"none", "guidance", "system", "rag", "tools"}, answerable : BOOLEAN,
     reason : {"none", "ambiguous_reference", "retrieval_unavailable", "insufficient_relevance"},
     steps : Nat]

ResultIsARecord == result \in Results

RequestInv ==
    Req!TypeOK /\ TasksOfStage /\ StartIsAllowed /\ ResultIsARecord /\ Req!ReasonIsTrue

LEMMA RequestInitInv == Req!RequestAssumption /\ Req!Init => RequestInv
  <1> SUFFICES ASSUME Req!RequestAssumption, Req!Init PROVE RequestInv
    OBVIOUS
  <1> USE DEF Req!Init
  <1>1. Req!TypeOK
    <2>1. task \in [Req!Early \cup Req!Channels -> Req!TaskStates]
      BY DEF Req!Idle, Req!TaskStates
    <2>2. failures \in [Req!Channels -> 0 .. Threshold]
      BY DEF Req!RequestAssumption
    <2>3. steps \in 0 .. MaxSteps /\ result.steps \in 0 .. steps
      BY DEF Req!RequestAssumption, Req!NoResult
    <2>4. asked \in [rewritten : BOOLEAN, intent : Req!Intents] /\ spec \in BOOLEAN
      BY DEF Req!Unasked, Req!Intents
    <2> QED BY <2>1, <2>2, <2>3, <2>4 DEF Req!TypeOK
  <1>2. TasksOfStage
    BY DEF TasksOfStage, Tasks, Req!Running, Req!Idle
  <1>3. StartIsAllowed /\ ResultIsARecord /\ Req!ReasonIsTrue
    BY DEF Req!RequestAssumption, StartIsAllowed, ResultIsARecord, Results, Req!NoResult,
           Req!ReasonIsTrue
  <1> QED BY <1>1, <1>2, <1>3 DEF RequestInv

\* The channels of a retrieval are search channels.
LEMMA UsedAreChannels ==
  ASSUME Req!RequestAssumption, Req!TypeOK
  PROVE  Req!Used \subseteq Req!Channels
  BY DEF Req!RequestAssumption, Req!TypeOK, Req!Used, Req!Channels

\* A step that neither returns nor counts a retrieval leaves the result, and goes on with what
\* understanding has given so far.
LEMMA SameResult ==
  ASSUME Req!RequestAssumption, RequestInv, UNCHANGED <<config, detached, result, failures, steps>>,
         at' \in {"classifying", "understanding", "routing", "joining", "hyde", "searching",
                  "deciding", "failed"},
         asked' \in [rewritten : BOOLEAN, intent : Req!Intents], spec' \in BOOLEAN,
         task' \in [Tasks -> Req!TaskStates], TasksOfStage'
  PROVE  RequestInv'
  BY DEF RequestInv, Req!TypeOK, StartIsAllowed, ResultIsARecord, Req!ReasonIsTrue, Tasks

\* Cancelled tasks run no more, and the others are as they were.
LEMMA CancelledTasks ==
  ASSUME RequestInv, NEW ts
  PROVE  /\ Req!Cancelled(ts) \in [Tasks -> Req!TaskStates]
         /\ \A t \in Tasks : Req!Cancelled(ts)[t] = "running" => Req!Running(t) /\ t \notin ts
  BY DEF RequestInv, Req!TypeOK, Req!Cancelled, Req!Running, Req!TaskStates, Tasks

LEMMA AskRetrievalInv ==
  ASSUME Req!RequestAssumption, RequestInv, Req!Ask
  PROVE  RequestInv'
  <1> USE DEF Req!Ask
  <1>1. /\ steps' = steps + 1 /\ steps' \in 0 .. MaxSteps
        /\ UNCHANGED <<config, detached, result, failures>> /\ result.steps \in 0 .. steps'
    BY DEF RequestInv, StartIsAllowed, Req!TypeOK, Req!RequestAssumption
  <1>2. asked' \in [rewritten : BOOLEAN, intent : Req!Intents] /\ spec' \in BOOLEAN
    BY DEF Req!Unasked, Req!Intents
  <1>3. at' \in {"understanding", "rewriting"}
    OBVIOUS
  <1>4. CASE config.parallel \/ config.hyde
    <2>1. at' = "understanding"
      BY <1>4
    <2>2. task' \in [Tasks -> Req!TaskStates]
      BY <1>4 DEF Req!Idle, Req!TaskStates, Tasks
    <2>3. \A t \in Req!Channels : task'[t] = "absent"
      BY <1>4 DEF Req!Idle, Req!Early, Req!Channels
    <2>4. TasksOfStage'
      BY <2>1, <2>3 DEF TasksOfStage, Tasks, Req!Running
    <2> QED BY <1>1, <1>2, <2>1, <2>2, <2>4 DEF RequestInv, Req!TypeOK, StartIsAllowed,
                                                ResultIsARecord, Req!ReasonIsTrue, Tasks
  <1>5. CASE ~(config.parallel \/ config.hyde)
    <2>1. at' = "rewriting" /\ task' = Req!Idle
      BY <1>5
    <2>2. task' \in [Tasks -> Req!TaskStates] /\ TasksOfStage'
      BY <2>1 DEF Req!Idle, Req!TaskStates, Tasks, TasksOfStage, Req!Running
    <2> QED BY <1>1, <1>2, <2>1, <2>2 DEF RequestInv, Req!TypeOK, StartIsAllowed,
                                          ResultIsARecord, Req!ReasonIsTrue, Tasks
  <1> QED BY <1>4, <1>5

\* Returning: nothing runs any more, and what is said of a rejection is true.
LEMMA ReturnInv ==
  ASSUME Req!RequestAssumption, RequestInv,
         UNCHANGED <<config, detached, asked, spec, failures>>,
         at' = IF config.agentic THEN "planning" ELSE "returned",
         task' \in [Tasks -> Req!TaskStates],
         \A t \in Tasks : task'[t] # "running",
         steps' \in 0 .. MaxSteps, ResultIsARecord', result'.steps = steps',
         Req!ReasonIsTrue'
  PROVE  RequestInv'
  <1>1. Req!TypeOK'
    BY DEF RequestInv, Req!TypeOK, Tasks
  <1>2. TasksOfStage' /\ StartIsAllowed'
    BY DEF TasksOfStage, StartIsAllowed, Req!Running
  <1> QED BY <1>1, <1>2 DEF RequestInv

LEMMA ClarifyInv ==
  ASSUME Req!RequestAssumption, RequestInv, Req!Clarify
  PROVE  RequestInv'
  <1> USE DEF Req!Clarify
  <1>1. /\ UNCHANGED <<config, detached, task, asked, spec, failures>>
        /\ at' = IF config.agentic THEN "planning" ELSE "returned"
    OBVIOUS
  <1>2. task' \in [Tasks -> Req!TaskStates] /\ \A t \in Tasks : task'[t] # "running"
    BY DEF RequestInv, Req!TypeOK, TasksOfStage, Tasks, Req!Running
  <1>3. steps' \in 0 .. MaxSteps
    BY DEF RequestInv, StartIsAllowed, Req!TypeOK, Req!RequestAssumption
  <1>4. /\ result' \in Results
        /\ result'.steps = steps' /\ result'.mode # "rag"
    BY <1>3 DEF Results, Req!TypeOK, Req!RequestAssumption
  <1> QED BY <1>1, <1>2, <1>3, <1>4, ReturnInv DEF ResultIsARecord, Req!ReasonIsTrue

LEMMA LeaveEarlyInv ==
  ASSUME Req!RequestAssumption, RequestInv, Req!LeaveEarly
  PROVE  RequestInv'
  <1> USE DEF Req!LeaveEarly, Req!Return
  <1>1. /\ UNCHANGED <<config, detached, asked, spec, failures, steps>>
        /\ at' = IF config.agentic THEN "planning" ELSE "returned"
        /\ at = "routing" /\ asked.intent \in {"guidance", "system"}
        /\ task' = Req!Cancelled({"speculative", "hyde"})
    OBVIOUS
  <1>2. task' \in [Tasks -> Req!TaskStates] /\ \A t \in Tasks : task'[t] # "running"
    BY <1>1, CancelledTasks DEF RequestInv, TasksOfStage
  <1>3. steps' \in 0 .. MaxSteps /\ steps' \in Nat
    BY <1>1 DEF RequestInv, Req!TypeOK, Req!RequestAssumption
  <1>4. result' = [mode |-> asked.intent, answerable |-> TRUE, reason |-> "none", steps |-> steps]
    OBVIOUS
  <1>5. /\ result' \in Results
        /\ result'.steps = steps' /\ result'.mode # "rag"
    BY <1>1, <1>3, <1>4 DEF Results
  <1> QED BY <1>1, <1>2, <1>3, <1>5, ReturnInv DEF ResultIsARecord, Req!ReasonIsTrue

\* Retrieval was unavailable when every channel that was used has failed.
LEMMA DecideInv ==
  ASSUME Req!RequestAssumption, RequestInv, Req!Decide
  PROVE  RequestInv'
  <1> PICK enough \in BOOLEAN : /\ enough => \E c \in Req!Used : task[c] = "hits"
                                /\ Req!Return("rag", enough, Req!Reason(enough))
    BY DEF Req!Decide
  <1>1. /\ at = "deciding" /\ UNCHANGED <<config, detached, task, asked, spec, failures, steps>>
        /\ at' = IF config.agentic THEN "planning" ELSE "returned"
        /\ result' = [mode |-> "rag", answerable |-> enough, reason |-> Req!Reason(enough),
                      steps |-> steps]
    BY DEF Req!Decide, Req!Return
  <1>2. task' \in [Tasks -> Req!TaskStates] /\ \A t \in Tasks : task'[t] # "running"
    BY <1>1 DEF RequestInv, Req!TypeOK, TasksOfStage, Tasks, Req!Running
  <1>3. steps' \in 0 .. MaxSteps /\ steps' \in Nat
    BY <1>1 DEF RequestInv, Req!TypeOK, Req!RequestAssumption
  <1>4. Req!Reason(enough) \in {"none", "retrieval_unavailable", "insufficient_relevance"}
    BY DEF Req!Reason
  <1>5. ResultIsARecord' /\ result'.steps = steps'
    BY <1>1, <1>3, <1>4 DEF ResultIsARecord, Results
  <1>6. Req!ReasonIsTrue'
    <2>1. result'.reason = "retrieval_unavailable" => Req!AllFailed
      BY <1>1 DEF Req!Reason
    <2>2. Req!AllFailed => \A c \in Req!Used : task[c] \notin {"hits", "none", "swallowed"}
      BY DEF Req!AllFailed, Req!Failed
    <2>3. result'.answerable => \E c \in Req!Used : task[c] = "hits"
      BY <1>1
    <2>4. UNCHANGED <<Req!Used, task>>
      BY <1>1 DEF Req!Used
    <2> QED BY <2>1, <2>2, <2>3, <2>4 DEF Req!ReasonIsTrue
  <1> QED BY <1>1, <1>2, <1>3, <1>5, <1>6, ReturnInv

\* The agent asks again or returns what it has.
LEMMA PlanInv ==
  ASSUME Req!RequestAssumption, RequestInv, Req!Retrieve \/ Req!Finish
  PROVE  RequestInv'
  <1>1. /\ at = "planning" /\ UNCHANGED <<config, detached, task, asked, spec, failures, steps>>
        /\ at' \in {"start", "returned"} /\ (at' = "start" => steps < MaxSteps)
        /\ \/ result' = result
           \/ result' = [result EXCEPT !.mode = "tools", !.answerable = TRUE, !.reason = "none"]
    BY DEF Req!Retrieve, Req!Finish
  <1>2. ResultIsARecord' /\ result'.steps = result.steps
    BY <1>1 DEF RequestInv, ResultIsARecord, Results
  <1>3. Req!TypeOK'
    BY <1>1, <1>2 DEF RequestInv, Req!TypeOK
  <1>4. TasksOfStage' /\ StartIsAllowed'
    BY <1>1 DEF RequestInv, TasksOfStage, StartIsAllowed, Req!Running
  <1>5. Req!ReasonIsTrue'
    <2>1. CASE result' = result
      BY <1>1, <2>1 DEF RequestInv, Req!ReasonIsTrue, Req!Used
    <2>2. CASE result' # result
      <3>1. result'.mode = "tools"
        BY <1>1, <2>2 DEF RequestInv, ResultIsARecord, Results
      <3> QED BY <3>1 DEF Req!ReasonIsTrue
    <2> QED BY <2>1, <2>2
  <1> QED BY <1>2, <1>3, <1>4, <1>5 DEF RequestInv

\* Understanding, in turn or at once.
LEMMA UnderstandInv ==
  ASSUME Req!RequestAssumption, RequestInv,
         Req!RewriteInTurn \/ Req!ClassifyInTurn \/ Req!Understand \/ Req!FallBack \/ Req!Route
  PROVE  RequestInv'
  <1> USE DEF Req!RewriteInTurn, Req!ClassifyInTurn, Req!Understand, Req!FallBack, Req!Route
  <1>1. /\ UNCHANGED <<config, detached, result, failures, steps, spec>>
        /\ at' \in {"classifying", "understanding", "routing", "joining", "hyde", "searching",
                    "deciding", "failed"}
    OBVIOUS
  <1>2. asked' \in [rewritten : BOOLEAN, intent : Req!Intents]
    <2>1. asked \in [rewritten : BOOLEAN, intent : Req!Intents]
      BY DEF RequestInv, Req!TypeOK
    <2>2. CASE Req!RewriteInTurn
      <3>1. PICK b \in BOOLEAN : asked' = [asked EXCEPT !.rewritten = b]
        BY <2>2
      <3> QED BY <2>1, <3>1
    <2>3. CASE Req!ClassifyInTurn
      <3>1. PICK i \in Req!Intents : asked' = [asked EXCEPT !.intent = i]
        BY <2>3
      <3> QED BY <2>1, <3>1
    <2>4. CASE Req!Understand \/ Req!Route
      BY <2>1, <2>4
    <2>5. CASE Req!FallBack
      BY <2>5 DEF Req!Unasked, Req!Intents
    <2> QED BY <2>2, <2>3, <2>4, <2>5
  <1>3. CASE Req!FallBack
    <2>1. /\ at = "understanding" /\ at' = "routing"
          /\ task' = Req!Cancelled({"rewrite", "intent"})
      BY <1>3
    <2>2. TasksOfStage' /\ task' \in [Tasks -> Req!TaskStates]
      BY <2>1, CancelledTasks
         DEF RequestInv, TasksOfStage, Req!Running, Req!Early, Req!Channels
    <2> QED BY <1>1, <1>2, <2>2, SameResult DEF RequestInv, Req!TypeOK
  <1>4. CASE ~Req!FallBack
    <2>1. UNCHANGED task /\ task \in [Tasks -> Req!TaskStates]
      BY <1>4 DEF RequestInv, Req!TypeOK, Tasks
    <2>2. TasksOfStage'
      BY <1>4, <2>1 DEF RequestInv, TasksOfStage, Req!Running, Req!Early, Req!Channels, Tasks
    <2> QED BY <1>1, <1>2, <2>1, <2>2, SameResult DEF RequestInv, Req!TypeOK
  <1> QED BY <1>3, <1>4

\* What comes of the speculative search is taken, and the search cancelled.
LEMMA CollectInv ==
  ASSUME Req!RequestAssumption, RequestInv, Req!CollectSpeculative
  PROVE  RequestInv'
  <1> USE DEF Req!CollectSpeculative
  <1>1. task' \in [Tasks -> Req!TaskStates]
    BY CancelledTasks
  <1>2. TasksOfStage'
    BY CancelledTasks DEF RequestInv, TasksOfStage, Req!Running
  <1> QED BY <1>1, <1>2, SameResult DEF RequestInv, Req!TypeOK

\* A task of an early stage ends by itself, whatever the request is at.
LEMMA EarlyInv ==
  ASSUME Req!RequestAssumption, RequestInv, NEW t \in Req!Early, Req!EarlyTaskEnds(t)
  PROVE  RequestInv'
  <1>1. PICK s \in {"hits", "failed", "none"} : task' = [task EXCEPT ![t] = s]
    BY DEF Req!EarlyTaskEnds
  <1>2. /\ UNCHANGED <<config, detached, at, asked, spec, result, failures, steps>>
        /\ at \notin {"planning", "returned"} /\ t \in Tasks
    BY DEF Req!EarlyTaskEnds, RequestInv, TasksOfStage, Tasks
  <1>3. task' \in [Tasks -> Req!TaskStates]
    BY <1>1 DEF RequestInv, Req!TypeOK, Req!TaskStates, Tasks
  <1>4. TasksOfStage'
    BY <1>1, <1>2 DEF RequestInv, Req!TypeOK, TasksOfStage, Req!Running, Tasks
  <1> QED BY <1>2, <1>3, <1>4 DEF RequestInv, Req!TypeOK, Tasks, StartIsAllowed,
                                  ResultIsARecord,
                                  Req!ReasonIsTrue

LEMMA StartChannelsInv ==
  ASSUME Req!RequestAssumption, RequestInv, Req!StartChannels
  PROVE  RequestInv'
  <1> PICK refused \in SUBSET {c \in Req!Used : failures[c] >= Threshold} :
         task' = [t \in Req!Early \cup Req!Channels |->
                    IF t \notin Req!Used THEN task[t]
                    ELSE IF t \in refused THEN "error"
                    ELSE IF t = "vector" /\ Req!Reusable THEN "hits" ELSE "running"]
    BY DEF Req!StartChannels
  <1>1. /\ UNCHANGED <<config, detached, asked, spec, result, steps>> /\ at' = "searching" /\ at = "hyde"
        /\ ~Req!Running("hyde")
    BY DEF Req!StartChannels
  <1>2. task' \in [Tasks -> Req!TaskStates]
    BY DEF RequestInv, Req!TypeOK, Req!TaskStates, Tasks
  <1>3. TasksOfStage'
    BY <1>1, UsedAreChannels DEF RequestInv, TasksOfStage, Req!Running, Tasks
  <1>4. failures' \in [Req!Channels -> 0 .. Threshold]
    <2>1. failures \in [Req!Channels -> 0 .. Threshold] /\ 0 \in 0 .. Threshold
      BY DEF RequestInv, Req!TypeOK, Req!RequestAssumption
    <2> QED BY <2>1 DEF Req!StartChannels
  <1> QED BY <1>1, <1>2, <1>3, <1>4 DEF RequestInv, Req!TypeOK, Tasks, StartIsAllowed,
                                        ResultIsARecord, Req!ReasonIsTrue

LEMMA ChannelInv ==
  ASSUME Req!RequestAssumption, RequestInv, NEW c \in Req!Channels,
         Req!ChannelAnswers(c) \/ Req!ChannelTimesOut(c)
  PROVE  RequestInv'
  <1>1. PICK s \in {"hits", "none", "swallowed", "error", "timeout"} :
            task' = [task EXCEPT ![c] = s]
    BY DEF Req!ChannelAnswers, Req!ChannelTimesOut, Req!Answers
  <1>2. /\ UNCHANGED <<config, detached, at, asked, spec, result, steps>>
        /\ at \notin {"planning", "returned"} /\ c \in Tasks
    BY DEF Req!ChannelAnswers, Req!ChannelTimesOut, RequestInv, TasksOfStage, Tasks
  <1>3. task' \in [Tasks -> Req!TaskStates]
    BY <1>1 DEF RequestInv, Req!TypeOK, Req!TaskStates, Tasks
  <1>4. TasksOfStage'
    BY <1>1, <1>2 DEF RequestInv, Req!TypeOK, TasksOfStage, Req!Running, Tasks
  <1>5. failures' \in [Req!Channels -> 0 .. Threshold]
    <2>1. /\ failures \in [Req!Channels -> 0 .. Threshold]
          /\ Threshold \in Nat /\ failures[c] \in 0 .. Threshold
      BY DEF RequestInv, Req!TypeOK, Req!RequestAssumption
    <2>2. PICK n \in 0 .. Threshold : failures' = [failures EXCEPT ![c] = n] \/ failures' = failures
      BY <2>1 DEF Req!ChannelAnswers, Req!ChannelTimesOut
    <2> QED BY <2>1, <2>2
  <1> QED BY <1>2, <1>3, <1>4, <1>5 DEF RequestInv, Req!TypeOK, Tasks, StartIsAllowed,
                                        ResultIsARecord, Req!ReasonIsTrue

\* What is detached begins and ends next to the request.
LEMMA DetachedInv ==
  ASSUME RequestInv, Req!Detach \/ Req!DetachedEnds
  PROVE  RequestInv'
  <1>1. UNCHANGED <<config, at, task, asked, spec, result, failures, steps>>
    BY DEF Req!Detach, Req!DetachedEnds
  <1>2. detached' \in BOOLEAN
    BY DEF Req!Detach, Req!DetachedEnds
  <1> QED BY <1>1, <1>2 DEF RequestInv, Req!TypeOK, TasksOfStage, Req!Running, StartIsAllowed,
                            ResultIsARecord, Req!ReasonIsTrue, Req!Used

\* The channels have ended; the request is cancelled; the access check fails.
LEMMA EndInv ==
  ASSUME Req!RequestAssumption, RequestInv, Req!Gather \/ Req!Cancel \/ Req!AccessCheckFails
  PROVE  RequestInv'
  <1>1. /\ UNCHANGED <<config, detached, asked, spec, result, failures, steps>>
        /\ at' \in {"deciding", "failed"}
    BY DEF Req!Gather, Req!Cancel, Req!AccessCheckFails
  <1>2. task' \in [Tasks -> Req!TaskStates]
    BY CancelledTasks DEF Req!Gather, Req!Cancel, Req!AccessCheckFails, RequestInv, Req!TypeOK,
                          Tasks
  <1>3. TasksOfStage'
    <2>1. CASE at' = "failed"
      BY <2>1 DEF TasksOfStage
    <2>2. CASE Req!Gather
      BY <2>2 DEF Req!Gather, RequestInv, TasksOfStage, Tasks, Req!Running
    <2> QED BY <2>1, <2>2 DEF Req!Cancel, Req!AccessCheckFails
  <1> QED BY <1>1, <1>2, <1>3, SameResult DEF RequestInv, Req!TypeOK

LEMMA RequestNextInv ==
  ASSUME Req!RequestAssumption, RequestInv, [Req!Next]_Req!vars
  PROVE  RequestInv'
  <1>1. CASE UNCHANGED Req!vars
    BY <1>1 DEF Req!vars, RequestInv, Req!TypeOK, TasksOfStage, Req!Running, StartIsAllowed,
                ResultIsARecord, Req!ReasonIsTrue, Req!Used
  <1>2. CASE Req!Continue
    BY <1>2, AskRetrievalInv, UnderstandInv, LeaveEarlyInv, CollectInv, StartChannelsInv,
       EndInv,
       DecideInv, PlanInv DEF Req!Continue
  <1> QED BY <1>1, <1>2, ClarifyInv, EndInv, PlanInv, EarlyInv, ChannelInv, DetachedInv
    DEF Req!Next

LEMMA NoTaskIsLeft == RequestInv => Req!NoTaskOutlivesAnswer
  BY DEF RequestInv, Req!TypeOK, TasksOfStage, Tasks, Req!NoTaskOutlivesAnswer

-----------------------------------------------------------------------------
(***************************************************************************)
(* MCRetrieval: a step is one of a part and leaves the others alone.       *)
(***************************************************************************)
RetrievalInv == RequestInv /\ CallsInv /\ EmbeddingInv /\ LimiterInv

LEMMA PartsStep ==
  ASSUME [Next]_vars
  PROVE  /\ [Req!Next]_Req!vars /\ [Calls!Next]_Calls!vars
         /\ [Embeddings!Next]_Embeddings!vars /\ [Limiter!Next]_Limiter!vars
  <1>1. CASE InRequest(Req!Next)
    BY <1>1 DEF InRequest, callVars, embeddingVars, limiterVars, Calls!vars, Calls!breakers,
                Embeddings!vars, Limiter!vars
  <1>2. CASE InCalls(Calls!Next)
    BY <1>2 DEF InCalls, requestVars, embeddingVars, limiterVars, Req!vars, Embeddings!vars,
                Limiter!vars
  <1>3. CASE InEmbeddings(Embeddings!Next)
    BY <1>3 DEF InEmbeddings, requestVars, callVars, limiterVars, Req!vars, Calls!vars,
                Calls!breakers, Limiter!vars
  <1>4. CASE InLimiter(Limiter!Next)
    BY <1>4 DEF InLimiter, requestVars, callVars, embeddingVars, Req!vars, Calls!vars,
                Calls!breakers, Embeddings!vars
  <1>5. CASE UNCHANGED vars
    BY <1>5 DEF vars, requestVars, callVars, embeddingVars, limiterVars, Req!vars, Calls!vars,
                Calls!breakers, Embeddings!vars, Limiter!vars
  <1> QED BY <1>1, <1>2, <1>3, <1>4, <1>5 DEF Next

\* The four invariants, whichever part is explored.
THEOREM RetrievalInvariant == Spec => []RetrievalInv
  <1>1. Init => RetrievalInv
    BY RetrievalAssumption, RequestInitInv, CallsInitInv, EmbeddingInitInv, LimiterInitInv
       DEF Init, RetrievalInv
  <1>2. RetrievalInv /\ [Next]_vars => RetrievalInv'
    BY RetrievalAssumption, PartsStep, RequestNextInv, CallsNextInv, EmbeddingNextInv,
       LimiterNextInv DEF RetrievalInv
  <1> QED BY <1>1, <1>2, PTL DEF Spec

\* Type correctness of the four modules: the cache never holds more than its limit, and the
\* breakers and the agent's steps stay within theirs.
THEOREM TypeCorrect == Spec => []TypeOK
  <1>1. RetrievalInv => TypeOK
    BY DEF RetrievalInv, RequestInv, CallsInv, EmbeddingInv, EmbeddingTypes, LimiterInv,
           LimiterTypes, TypeOK
  <1> QED BY <1>1, RetrievalInvariant, PTL

\* A question that was answered has left no task behind but for what is detached, and the
\* reason of a rejection is true.
THEOREM HonestRequests == Spec => []RequestIsHonest
  <1>1. RetrievalInv => RequestIsHonest
    BY NoTaskIsLeft DEF RetrievalInv, RequestInv, RequestIsHonest
  <1> QED BY <1>1, RetrievalInvariant, PTL

\* An answer has the tokens of one attempt and a model that works gives one; a text has one
\* request for its vector at a time; the limit of requests is exceeded by less than the checks
\* that are made together.
THEOREM SoundCalls == Spec => []CallsAreSound
  <1>1. RetrievalInv => CallsAreSound
    BY RetrievalAssumption, SoundAnswers, OneRequestPerText, Overshoot
       DEF RetrievalInv, CallsAreSound
  <1> QED BY <1>1, RetrievalInvariant, PTL

================================================================================
