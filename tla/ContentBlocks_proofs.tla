------------------------- MODULE ContentBlocks_proofs -------------------------
(***************************************************************************)
(* DocumentBlocks, for texts of any length and any limits on the pieces:   *)
(* what the scan finds, what its blocks are cut into, what is packed and   *)
(* grouped.  The variables of the part are the slots s1, s2, ... of        *)
(* MCContent, in the order of its INSTANCE there.                          *)
(***************************************************************************)
EXTENDS MCContent, FiniteSetTheorems, SequenceTheorems, WellFoundedInduction, TLAPS

-----------------------------------------------------------------------------
(***************************************************************************)
(* Numbers, functions with an equation for each argument, and falling      *)
(* lists: for the blocks here and for the other parts in MCContent_proofs. *)
(***************************************************************************)
LEMMA LeastExists ==
  ASSUME NEW S \in SUBSET Nat, S # {}
  PROVE  \E c \in S : \A d \in S : c <= d
  <1> DEFINE Less == {p \in Nat \X Nat : p[1] < p[2]}
  <1>1. IsWellFoundedOn(Less, Nat)
    BY NatLessThanWellFounded DEF OpToRel
  <1> HIDE DEF Less
  <1>2. PICK c \in S : \A d \in S : <<d, c>> \notin Less
    BY <1>1, WFMin
  <1>3. \A d \in S : ~(d < c)
    BY <1>2 DEF Less
  <1> QED BY <1>3

\* Induction over the numbers, for a set of them in place of a predicate.
LEMMA Inductive ==
  ASSUME NEW S, 0 \in S, \A n \in Nat : n \in S => n + 1 \in S
  PROVE  \A n \in Nat : n \in S
  <1> SUFFICES ASSUME NEW m \in Nat, m \notin S PROVE FALSE
    OBVIOUS
  <1>1. PICK c \in {n \in Nat : n \notin S} : \A d \in {n \in Nat : n \notin S} : c <= d
    BY LeastExists
  <1>2. c # 0 /\ c - 1 \in Nat /\ c - 1 \notin {n \in Nat : n \notin S}
    BY <1>1
  <1> QED BY <1>1, <1>2

LEMMA OneLess ==
  ASSUME NEW S, IsFiniteSet(S), NEW n \in Nat, Cardinality(S) = n + 1, NEW e \in S
  PROVE  Cardinality(S \ {e}) = n
  <1>1. Cardinality(S \ {e}) = Cardinality(S) - 1
    BY FS_RemoveElement
  <1> QED BY <1>1

\* What a loop over 1, 2, ..., N makes of a value: F[n] is what it is after n rounds.
Rounds(H, N, V) == \A v \in V, n \in 1 .. N : H[<<v, n>>] \in V

Iterates(F, H, N, V, base) ==
    F \in [0 .. N -> V] /\ F[0] = base /\ \A n \in 1 .. N : F[n] = H[<<F[n - 1], n>>]

LEMMA IterationExists ==
  ASSUME NEW N \in Nat, NEW V, NEW base \in V, NEW H, Rounds(H, N, V)
  PROVE  \E F : Iterates(F, H, N, V, base)
  <1> DEFINE Good == {n \in Nat : n <= N => \E F : Iterates(F, H, n, V, base)}
  <1>1. 0 \in Good
    <2>1. Iterates([n \in {0} |-> base], H, 0, V, base)
      BY DEF Iterates
    <2> QED BY <2>1
  <1>2. ASSUME NEW n \in Nat, n \in Good PROVE n + 1 \in Good
    <2>1. ASSUME n + 1 <= N PROVE \E F : Iterates(F, H, n + 1, V, base)
      <3>1. PICK F : Iterates(F, H, n, V, base)
        BY <1>2, <2>1
      <3> DEFINE G == [k \in 0 .. n + 1 |-> IF k = n + 1 THEN H[<<F[n], n + 1>>] ELSE F[k]]
      <3>2. F \in [0 .. n -> V] /\ F[0] = base /\ \A k \in 1 .. n : F[k] = H[<<F[k - 1], k>>]
        BY <3>1 DEF Iterates
      <3>3. F[n] \in V /\ n + 1 \in 1 .. N
        BY <2>1, <3>2
      <3>4. H[<<F[n], n + 1>>] \in V
        BY <3>3 DEF Rounds
      <3>5. \A k \in 0 .. n + 1 : k \in 0 .. n \/ k = n + 1
        OBVIOUS
      <3>6. G \in [0 .. n + 1 -> V] /\ G[0] = base
        BY <3>2, <3>4, <3>5
      <3>7. ASSUME NEW k \in 1 .. n + 1 PROVE G[k] = H[<<G[k - 1], k>>]
        <4>1. CASE k = n + 1
          <5>1. k - 1 = n /\ n \in 0 .. n + 1 /\ n + 1 \in 0 .. n + 1 /\ n # n + 1
            BY <4>1
          <5>2. G[n] = F[n] /\ G[n + 1] = H[<<F[n], n + 1>>]
            BY <5>1
          <5> HIDE DEF G
          <5> QED BY <4>1, <5>1, <5>2
        <4>2. CASE k # n + 1
          <5>1. k \in 1 .. n /\ k - 1 \in 0 .. n /\ k \in 0 .. n + 1 /\ k - 1 # n + 1
            BY <4>2
          <5>2. G[k] = F[k] /\ G[k - 1] = F[k - 1]
            BY <4>2, <5>1
          <5> HIDE DEF G
          <5> QED BY <3>2, <5>1, <5>2
        <4> QED BY <4>1, <4>2
      <3> HIDE DEF G
      <3> QED BY <3>6, <3>7 DEF Iterates
    <2> QED BY <2>1
  <1>3. \A n \in Nat : n \in Good
    <2> HIDE DEF Good
    <2> QED BY <1>1, <1>2, Inductive
  <1> QED BY <1>3

\* f lists a set, the elements with the larger values of g first.
Lists(f, S) == /\ f \in [1 .. Cardinality(S) -> S]
               /\ \A i, j \in 1 .. Cardinality(S) : i # j => f[i] # f[j]

Falls(f, g) == \A i, j \in DOMAIN f : i < j => g[f[i]] >= g[f[j]]

LEMMA ListsAll ==
  ASSUME NEW S, IsFiniteSet(S), NEW f, Lists(f, S)
  PROVE  \A x \in S : \E i \in 1 .. Cardinality(S) : f[i] = x
  <1> DEFINE n == Cardinality(S)
  <1>1. n \in Nat
    BY FS_CardinalityType
  <1>2. IsFiniteSet(1 .. n) /\ Cardinality(1 .. n) = n
    BY <1>1, FS_Interval
  <1>3. f \in Injection(1 .. n, S)
    BY DEF Lists, Injection, IsInjective
  <1>4. f \in Surjection(1 .. n, S)
    BY <1>2, <1>3, FS_Injection
  <1> QED BY <1>4 DEF Surjection

LEMMA SortedListExists ==
  ASSUME NEW S, IsFiniteSet(S), NEW g, \A x \in S : g[x] \in Nat
  PROVE  \E f : Lists(f, S) /\ Falls(f, g)
  <1> DEFINE Good == {n \in Nat : \A s \in SUBSET S : Cardinality(s) = n =>
                                     \E f : Lists(f, s) /\ Falls(f, g)}
  <1>1. ASSUME NEW s \in SUBSET S
        PROVE  IsFiniteSet(s) /\ Cardinality(s) \in Nat
               /\ (Cardinality(s) = 0 => s = {})
    BY FS_Subset, FS_CardinalityType, FS_EmptySet
  <1>2. 0 \in Good
    <2>1. ASSUME NEW s \in SUBSET S, Cardinality(s) = 0 PROVE Lists(<<>>, s) /\ Falls(<<>>, g)
      BY <2>1 DEF Lists, Falls
    <2> QED BY <2>1
  <1>3. ASSUME NEW n \in Nat, n \in Good PROVE n + 1 \in Good
    <2>1. ASSUME NEW s \in SUBSET S, Cardinality(s) = n + 1
          PROVE  \E f : Lists(f, s) /\ Falls(f, g)
      <3>1. {g[x] : x \in s} \in SUBSET Nat /\ {g[x] : x \in s} # {}
        <4>1. s # {}
          BY <2>1, FS_EmptySet
        <4> QED BY <4>1
      <3>2. PICK v \in {g[x] : x \in s} : \A w \in {g[x] : x \in s} : v <= w
        BY <3>1, LeastExists
      <3>3. PICK e \in s : g[e] = v
        BY <3>2
      <3>4. \A x \in s : g[x] >= g[e] /\ g[x] \in Nat
        BY <3>2, <3>3
      <3>5. Cardinality(s \ {e}) = n /\ s \ {e} \in SUBSET S
        BY <1>1, <2>1, OneLess
      <3>6. PICK f : Lists(f, s \ {e}) /\ Falls(f, g)
        BY <1>3, <3>5
      <3> DEFINE h == [i \in 1 .. n + 1 |-> IF i = n + 1 THEN e ELSE f[i]]
      <3>7. ASSUME NEW i \in 1 .. n
            PROVE  i \in 1 .. n + 1 /\ i # n + 1 /\ h[i] = f[i] /\ f[i] \in s /\ f[i] # e
        <4>1. f[i] \in s \ {e}
          BY <3>5, <3>6 DEF Lists
        <4> QED BY <4>1
      <3>8. h[n + 1] = e /\ n + 1 \in 1 .. n + 1
        OBVIOUS
      <3>9. \A i \in 1 .. n + 1 : i \in 1 .. n \/ i = n + 1
        OBVIOUS
      <3>10. DOMAIN h = 1 .. n + 1 /\ DOMAIN f = 1 .. n /\ h = [i \in 1 .. n + 1 |-> h[i]]
        BY <3>5, <3>6 DEF Lists
      <3>14. \A i, j \in 1 .. n : /\ i # j => f[i] # f[j]
                                  /\ i < j => g[f[i]] >= g[f[j]]
        BY <3>5, <3>6, <3>10 DEF Lists, Falls
      <3> HIDE DEF h
      <3>11. \A i \in 1 .. n + 1 : h[i] \in s
        BY <3>7, <3>8, <3>9
      <3>12. Lists(h, s)
        <4>1. h \in [1 .. n + 1 -> s]
          BY <3>10, <3>11
        <4>2. ASSUME NEW i \in 1 .. n + 1, NEW j \in 1 .. n + 1, i # j PROVE h[i] # h[j]
          BY <4>2, <3>7, <3>8, <3>9, <3>14
        <4> QED BY <2>1, <4>1, <4>2 DEF Lists
      <3>13. Falls(h, g)
        <4>1. ASSUME NEW i \in 1 .. n + 1, NEW j \in 1 .. n + 1, i < j
              PROVE  g[h[i]] >= g[h[j]]
          <5>1. i \in 1 .. n
            BY <4>1
          <5>2. CASE j = n + 1
            BY <3>4, <3>8, <3>11, <5>2
          <5>3. CASE j \in 1 .. n
            BY <3>7, <3>14, <4>1, <5>1, <5>3
          <5> QED BY <3>9, <5>2, <5>3
        <4> QED BY <3>10, <4>1 DEF Falls
      <3> QED BY <3>12, <3>13
    <2> QED BY <2>1
  <1>4. \A n \in Nat : n \in Good
    <2> HIDE DEF Good
    <2> QED BY <1>2, <1>3, Inductive
  <1> QED BY <1>1, <1>4

LEMMA UpTo == \A n \in Nat : IsFiniteSet(1 .. n) /\ Cardinality(1 .. n) = n
  <1> SUFFICES ASSUME NEW n \in Nat PROVE IsFiniteSet(1 .. n) /\ Cardinality(1 .. n) = n
    OBVIOUS
  <1> QED BY FS_Interval

\* Different positions hold different elements: as many elements as positions.
LEMMA SameSize ==
  ASSUME NEW D, IsFiniteSet(D), NEW f, \A i, j \in D : i # j => f[i] # f[j]
  PROVE  IsFiniteSet({f[j] : j \in D}) /\ Cardinality({f[j] : j \in D}) = Cardinality(D)
  <1> DEFINE g == [j \in D |-> f[j]]
  <1>1. g \in Bijection(D, {f[j] : j \in D})
    <2>1. g \in [D -> {f[j] : j \in D}] /\ \A y \in {f[j] : j \in D} : \E j \in D : g[j] = y
      OBVIOUS
    <2>2. IsInjective(g)
      BY DEF IsInjective
    <2> QED BY <2>1, <2>2 DEF Bijection, Injection, Surjection
  <1>2. ExistsBijection(D, {f[j] : j \in D})
    BY <1>1 DEF ExistsBijection
  <1> QED BY <1>2, FS_Bijection

\* A list of numbers, the greater ones first.
Descends(f, S) == Lists(f, S) /\ \A i, j \in 1 .. Cardinality(S) : i < j => f[i] > f[j]

LEMMA DescendingExists ==
  ASSUME NEW S \in SUBSET Nat, IsFiniteSet(S)
  PROVE  \E f : Descends(f, S)
  <1> DEFINE g == [x \in S |-> x]
  <1>1. \A x \in S : g[x] \in Nat
    OBVIOUS
  <1>2. PICK f : Lists(f, S) /\ Falls(f, g)
    <2> HIDE DEF g
    <2> QED BY <1>1, SortedListExists
  <1>3. ASSUME NEW i \in 1 .. Cardinality(S), NEW j \in 1 .. Cardinality(S), i < j
        PROVE  f[i] > f[j]
    <2>1. f[i] \in S /\ f[j] \in S /\ f[i] # f[j]
      BY <1>2, <1>3 DEF Lists
    <2>2. g[f[i]] >= g[f[j]]
      BY <1>2, <1>3 DEF Falls, Lists
    <2>3. f[i] \in Nat /\ f[j] \in Nat /\ g[f[i]] = f[i] /\ g[f[j]] = f[j]
      BY <2>1
    <2> HIDE DEF g
    <2> QED BY <2>1, <2>2, <2>3
  <1> QED BY <1>2, <1>3 DEF Descends

Above(c, S) == {d \in S : d > c}

Below(c, S) == {d \in S : d < c}

\* In such a list i - 1 elements are greater than the i-th, and n - i are smaller.
LEMMA RankInList ==
  ASSUME NEW S \in SUBSET Nat, IsFiniteSet(S), NEW f, Descends(f, S),
         NEW i \in 1 .. Cardinality(S)
  PROVE  /\ \A x \in S : x > f[i] <=> \E j \in 1 .. i - 1 : x = f[j]
         /\ Cardinality(Above(f[i], S)) = i - 1
         /\ Cardinality(Below(f[i], S)) = Cardinality(S) - i
  <1> DEFINE n == Cardinality(S)
  <1>1. n \in Nat /\ f \in [1 .. n -> S]
        /\ (\A j, k \in 1 .. n : j # k => f[j] # f[k])
        /\ (\A j, k \in 1 .. n : j < k => f[j] > f[k])
    BY FS_CardinalityType DEF Descends, Lists
  <1>2. \A x \in S : \E j \in 1 .. n : f[j] = x
    BY ListsAll DEF Descends
  <1> HIDE DEF n
  <1>3. i \in 1 .. n
    BY DEF n
  <1>4. ASSUME NEW x \in S PROVE x > f[i] <=> \E j \in 1 .. i - 1 : x = f[j]
    <2>1. PICK j \in 1 .. n : f[j] = x
      BY <1>2
    <2>2. CASE j < i
      <3>1. j \in 1 .. i - 1
        BY <1>1, <1>3, <2>2
      <3> QED BY <1>1, <1>3, <2>1, <2>2, <3>1
    <2>3. CASE j >= i
      <3>1. ~(x > f[i])
        <4>1. f[j] \in Nat /\ f[i] \in Nat
          BY <1>1, <1>3
        <4>2. CASE j = i
          BY <2>1, <4>1, <4>2
        <4>3. CASE i < j
          BY <1>1, <1>3, <2>1, <4>1, <4>3
        <4> QED BY <1>1, <1>3, <2>3, <4>2, <4>3
      <3>2. ASSUME NEW k \in 1 .. i - 1 PROVE x # f[k]
        <4>1. k \in 1 .. n /\ k # j
          BY <1>1, <1>3, <2>3
        <4> QED BY <1>1, <2>1, <4>1
      <3> QED BY <3>1, <3>2
    <2> QED BY <1>1, <1>3, <2>2, <2>3
  <1>5. ASSUME NEW x \in S PROVE x < f[i] <=> \E j \in i + 1 .. n : x = f[j]
    <2>1. PICK j \in 1 .. n : f[j] = x
      BY <1>2
    <2>2. CASE i < j
      <3>1. j \in i + 1 .. n
        BY <1>1, <1>3, <2>2
      <3>2. f[j] < f[i]
        BY <1>1, <1>3, <2>2
      <3> QED BY <2>1, <3>1, <3>2
    <2>3. CASE j <= i
      <3>1. ~(x < f[i])
        <4>1. f[j] \in Nat /\ f[i] \in Nat
          BY <1>1, <1>3
        <4>2. CASE j = i
          BY <2>1, <4>1, <4>2
        <4>3. CASE j < i
          BY <1>1, <1>3, <2>1, <4>1, <4>3
        <4> QED BY <1>1, <1>3, <2>3, <4>2, <4>3
      <3>2. ASSUME NEW k \in i + 1 .. n PROVE x # f[k]
        <4>1. k \in 1 .. n /\ k # j
          BY <1>1, <1>3, <2>3
        <4> QED BY <1>1, <2>1, <4>1
      <3> QED BY <3>1, <3>2
    <2> QED BY <1>1, <1>3, <2>2, <2>3
  <1>6. \A j \in (1 .. i - 1) \cup (i + 1 .. n) : j \in 1 .. n
    BY <1>1, <1>3
  <1>7. /\ {d \in S : d > f[i]} = {f[j] : j \in 1 .. i - 1}
        /\ {d \in S : d < f[i]} = {f[j] : j \in i + 1 .. n}
    <2>1. \A j \in 1 .. i - 1 : f[j] \in S
      BY <1>1, <1>6
    <2>2. \A j \in i + 1 .. n : f[j] \in S
      BY <1>1, <1>6
    <2>3. {d \in S : d > f[i]} = {f[j] : j \in 1 .. i - 1}
      BY <1>4, <2>1
    <2>4. {d \in S : d < f[i]} = {f[j] : j \in i + 1 .. n}
      BY <1>5, <2>2
    <2> QED BY <2>3, <2>4
  <1>8. ASSUME NEW D \in SUBSET (1 .. n), IsFiniteSet(D)
        PROVE  Cardinality({f[j] : j \in D}) = Cardinality(D)
    BY <1>1, <1>8, SameSize
  <1>9. /\ IsFiniteSet(1 .. i - 1) /\ Cardinality(1 .. i - 1) = i - 1
        /\ IsFiniteSet(i + 1 .. n) /\ Cardinality(i + 1 .. n) = n - i
    <2>1. \A a, b \in Int : /\ IsFiniteSet(a .. b)
                           /\ Cardinality(a .. b) = IF a > b THEN 0 ELSE b - a + 1
      BY FS_Interval
    <2>2. 1 \in Int /\ i - 1 \in Int /\ i + 1 \in Int /\ n \in Int /\ i >= 1 /\ i <= n
      BY <1>1, <1>3
    <2>3. Cardinality(1 .. i - 1) = IF 1 > i - 1 THEN 0 ELSE i - 1 - 1 + 1
      BY <2>1, <2>2
    <2>4. Cardinality(i + 1 .. n) = IF i + 1 > n THEN 0 ELSE n - (i + 1) + 1
      BY <2>1, <2>2
    <2>5. Cardinality(1 .. i - 1) = i - 1 /\ Cardinality(i + 1 .. n) = n - i
      BY <2>2, <2>3, <2>4
    <2> QED BY <2>1, <2>2, <2>5
  <1>10. 1 .. i - 1 \in SUBSET (1 .. n) /\ i + 1 .. n \in SUBSET (1 .. n)
    BY <1>6
  <1> QED BY <1>4, <1>7, <1>8, <1>9, <1>10 DEF n, Above, Below

\* So the element of a rank is the one at its position.
LEMMA AtRank ==
  ASSUME NEW S \in SUBSET Nat, IsFiniteSet(S), NEW f, Descends(f, S),
         NEW i \in 1 .. Cardinality(S)
  PROVE  /\ (CHOOSE c \in S : Cardinality(Above(c, S)) = i - 1) = f[i]
         /\ (CHOOSE c \in S : Cardinality(Below(c, S)) = i - 1) = f[Cardinality(S) + 1 - i]
  <1> DEFINE n == Cardinality(S)
             above(c) == Cardinality(Above(c, S))
             below(c) == Cardinality(Below(c, S))
  <1>1. n \in Nat /\ f \in [1 .. n -> S] /\ (\A x \in S : \E j \in 1 .. n : f[j] = x)
    BY FS_CardinalityType, ListsAll DEF Descends, Lists
  <1>2. ASSUME NEW j \in 1 .. n PROVE above(f[j]) = j - 1 /\ below(f[j]) = n - j
    BY RankInList
  <1> HIDE DEF n, above, below
  <1>3. i \in 1 .. n /\ n + 1 - i \in 1 .. n
    BY <1>1 DEF n
  <1>4. (CHOOSE c \in S : above(c) = i - 1) = f[i]
    <2> DEFINE c == CHOOSE c \in S : above(c) = i - 1
    <2>1. c \in S /\ above(c) = i - 1
      BY <1>1, <1>2, <1>3
    <2> HIDE DEF c
    <2>2. PICK j \in 1 .. n : f[j] = c
      BY <1>1, <2>1
    <2>3. j = i
      BY <1>1, <1>2, <1>3, <2>1, <2>2
    <2> QED BY <2>2, <2>3 DEF c
  <1>5. (CHOOSE c \in S : below(c) = i - 1) = f[n + 1 - i]
    <2> DEFINE c == CHOOSE c \in S : below(c) = i - 1
    <2>1. f[n + 1 - i] \in S /\ below(f[n + 1 - i]) = i - 1
      <3>1. below(f[n + 1 - i]) = n - (n + 1 - i)
        BY <1>2, <1>3
      <3> QED BY <1>1, <1>3, <3>1
    <2>2. c \in S /\ below(c) = i - 1
      BY <2>1
    <2> HIDE DEF c
    <2>3. PICK j \in 1 .. n : f[j] = c
      BY <1>1, <2>2
    <2>4. j = n + 1 - i
      BY <1>1, <1>2, <1>3, <2>2, <2>3
    <2> QED BY <2>3, <2>4 DEF c
  <1> QED BY <1>4, <1>5 DEF n, above, below

-----------------------------------------------------------------------------
(***************************************************************************)
(* DocumentBlocks.  The scan finds blocks one after the other with every   *)
(* line that is not blank; their pieces, cut and packed, keep the lines    *)
(* that count in their order; and so do the groups of paragraphs.          *)
(***************************************************************************)
\* What the helpers of the blocks return: least and greatest numbers, ranges of lines, and the
\* elements of a set in their order.
LEMMA BlocksFinite ==
  (\A S : Blocks!IsFiniteSet(S) <=> IsFiniteSet(S)) /\ \A S : Blocks!Cardinality(S) = Cardinality(S)
  BY DEF Blocks!IsFiniteSet, IsFiniteSet, Blocks!Cardinality, Cardinality

LEMMA BlocksLeast ==
  ASSUME NEW S \in SUBSET Nat, S # {}
  PROVE  Blocks!Min(S) \in S /\ \A p \in S : Blocks!Min(S) <= p
  <1>1. PICK c \in S : \A d \in S : c <= d
    BY LeastExists
  <1> QED BY <1>1 DEF Blocks!Min

LEMMA BlocksGreatest ==
  ASSUME NEW S \in SUBSET Int, S # {}, NEW b \in Int, \A p \in S : p <= b
  PROVE  Blocks!Max(S) \in S /\ \A p \in S : p <= Blocks!Max(S)
  <1> DEFINE T == {b - p : p \in S}
  <1>1. T \in SUBSET Nat /\ T # {}
    <2>1. \A p \in S : b - p \in Nat
      OBVIOUS
    <2>2. PICK p : p \in S
      OBVIOUS
    <2>3. b - p \in T
      BY <2>2
    <2> QED BY <2>1, <2>3
  <1>2. PICK c \in T : \A d \in T : c <= d
    <2> HIDE DEF T
    <2> QED BY <1>1, LeastExists
  <1>3. PICK p \in S : c = b - p
    OBVIOUS
  <1>4. ASSUME NEW q \in S PROVE p >= q
    <2>1. b - q \in T
      OBVIOUS
    <2>2. c <= b - q
      BY <1>2, <2>1
    <2> QED BY <1>3, <2>2
  <1>5. Blocks!Max(S) \in S /\ \A q \in S : Blocks!Max(S) >= q
    BY <1>4 DEF Blocks!Max
  <1> QED BY <1>5

LEMMA LinesOfIs ==
  ASSUME NEW a \in Nat, NEW b \in Nat, a <= b + 1
  PROVE  LET s == Blocks!LinesOf(a, b) IN
         /\ s \in Seq(Nat) /\ Len(s) = b - a + 1
         /\ \A k \in 1 .. Len(s) : s[k] = a + k - 1
         /\ Blocks!Range(s) = a .. b
  <1> DEFINE s == Blocks!LinesOf(a, b)
             n == b - a + 1
  <1>1. n \in Nat /\ s = [k \in 1 .. n |-> a + k - 1]
    BY DEF Blocks!LinesOf
  <1>2. \A k \in 1 .. n : a + k - 1 \in Nat
    OBVIOUS
  <1>3. s \in [1 .. n -> Nat] /\ \A k \in 1 .. n : s[k] = a + k - 1
    BY <1>1, <1>2
  <1>4. s \in Seq(Nat) /\ Len(s) = n /\ DOMAIN s = 1 .. n
    <2> HIDE DEF s, n
    <2> QED BY <1>1, <1>3
  <1>5. ASSUME NEW p \in a .. b PROVE p \in Blocks!Range(s)
    <2>1. p - a + 1 \in 1 .. n /\ a + (p - a + 1) - 1 = p
      OBVIOUS
    <2>2. s[p - a + 1] = p
      BY <1>3, <2>1
    <2> HIDE DEF s, n
    <2> QED BY <1>4, <2>1, <2>2 DEF Blocks!Range
  <1>6. ASSUME NEW p \in Blocks!Range(s) PROVE p \in a .. b
    <2> HIDE DEF s
    <2>1. PICK k \in 1 .. n : p = s[k]
      BY <1>4, <1>6 DEF Blocks!Range
    <2> QED BY <1>3, <2>1
  <1> QED BY <1>3, <1>4, <1>5, <1>6

LEMMA BlocksRising ==
  ASSUME NEW S \in SUBSET Nat, IsFiniteSet(S)
  PROVE  LET r == Blocks!Rising(S)
             n == Cardinality(S)
         IN  /\ n \in Nat /\ r \in [1 .. n -> S] /\ r \in Seq(Nat) /\ Len(r) = n
             /\ Blocks!Range(r) = S
             /\ \A i, j \in 1 .. n : i < j => r[i] < r[j]
             /\ \A f : Descends(f, S) => \A i \in 1 .. n : r[i] = f[n + 1 - i]
  <1> DEFINE n == Cardinality(S)
             r == Blocks!Rising(S)
  <1>1. PICK f : Descends(f, S)
    BY DescendingExists
  <1>2. r = [i \in 1 .. n |-> CHOOSE c \in S : Cardinality(Below(c, S)) = i - 1]
    BY DEF Blocks!Rising, Blocks!Cardinality, Cardinality, Below
  <1>3. ASSUME NEW g, Descends(g, S), NEW i \in 1 .. n
        PROVE  r[i] = g[n + 1 - i]
    <2>1. (CHOOSE c \in S : Cardinality(Below(c, S)) = i - 1) = g[n + 1 - i]
      BY <1>3, AtRank
    <2> HIDE DEF r, n
    <2> QED BY <1>2, <1>3, <2>1
  <1>4. /\ n \in Nat /\ f \in [1 .. n -> S]
        /\ \A j, k \in 1 .. n : j < k => f[j] > f[k]
        /\ \A x \in S : \E j \in 1 .. n : f[j] = x
    BY <1>1, FS_CardinalityType, ListsAll DEF Descends, Lists
  <1>5. DOMAIN r = 1 .. n /\ r = [i \in 1 .. n |-> r[i]]
    BY <1>2
  <1> HIDE DEF n, r
  <1>6. ASSUME NEW i \in 1 .. n PROVE n + 1 - i \in 1 .. n /\ r[i] = f[n + 1 - i] /\ r[i] \in S
    BY <1>1, <1>3, <1>4
  <1>7. r \in [1 .. n -> S] /\ r \in Seq(Nat) /\ Len(r) = n
    <2>1. r \in [1 .. n -> S]
      BY <1>5, <1>6
    <2>2. r \in [1 .. n -> Nat]
      BY <2>1
    <2> QED BY <1>4, <2>1, <2>2
  <1>8. ASSUME NEW i \in 1 .. n, NEW j \in 1 .. n, i < j PROVE r[i] < r[j]
    <2>1. n + 1 - j < n + 1 - i
      BY <1>4, <1>8
    <2> QED BY <1>4, <1>6, <2>1
  <1>9. ASSUME NEW x \in S PROVE x \in Blocks!Range(r)
    <2>1. PICK j \in 1 .. n : f[j] = x
      BY <1>4
    <2>2. n + 1 - j \in 1 .. n /\ n + 1 - (n + 1 - j) = j
      BY <1>4, <2>1
    <2>3. r[n + 1 - j] = x
      BY <1>6, <2>1, <2>2
    <2> QED BY <1>7, <2>2, <2>3 DEF Blocks!Range
  <1>10. Blocks!Range(r) \subseteq S
    BY <1>7 DEF Blocks!Range
  <1> QED BY <1>3, <1>4, <1>7, <1>8, <1>9, <1>10 DEF n, r

\* Only one sequence ascends through a set.
LEMMA RisingIsOnly ==
  ASSUME NEW s \in Seq(Nat), \A i, j \in 1 .. Len(s) : i < j => s[i] < s[j]
  PROVE  s = Blocks!Rising(Blocks!Range(s))
  <1> DEFINE n == Len(s)
             S == Blocks!Range(s)
             f == [i \in 1 .. n |-> s[n + 1 - i]]
  <1>1. n \in Nat /\ DOMAIN s = 1 .. n /\ S = {s[j] : j \in 1 .. n} /\ S \in SUBSET Nat
    BY DEF Blocks!Range
  <1>2. \A i, j \in 1 .. n : i # j => s[i] # s[j]
    BY <1>1
  <1>3. IsFiniteSet(S) /\ Cardinality(S) = n
    <2>1. IsFiniteSet(1 .. n) /\ Cardinality(1 .. n) = n
      BY <1>1, UpTo
    <2> HIDE DEF n, S
    <2> QED BY <1>1, <1>2, <2>1, SameSize
  <1> HIDE DEF S
  <1>4. Descends(f, S)
    <2>1. \A i \in 1 .. n : n + 1 - i \in 1 .. n /\ s[n + 1 - i] \in S
      BY <1>1
    <2>2. f \in [1 .. n -> S]
      BY <2>1
    <2>3. ASSUME NEW i \in 1 .. n, NEW j \in 1 .. n, i < j PROVE f[i] > f[j]
      <3>1. n + 1 - j < n + 1 - i
        BY <1>1, <2>3
      <3>2. f[i] = s[n + 1 - i] /\ f[j] = s[n + 1 - j]
        OBVIOUS
      <3>3. s[n + 1 - j] \in Nat /\ s[n + 1 - i] \in Nat /\ s[n + 1 - j] < s[n + 1 - i]
        BY <2>1, <3>1, <1>1
      <3> QED BY <3>2, <3>3
    <2> HIDE DEF f
    <2>4. \A i, j \in 1 .. n : i # j => f[i] # f[j]
      <3>1. \A i, j \in 1 .. n : f[i] \in Nat /\ (i < j => f[i] > f[j])
        BY <1>1, <2>2, <2>3
      <3> QED BY <1>1, <3>1
    <2> QED BY <1>3, <2>2, <2>3, <2>4 DEF Descends, Lists
  <1> DEFINE r == Blocks!Rising(S)
  <1>5. /\ r \in Seq(Nat) /\ Len(r) = n
        /\ \A i \in 1 .. n : r[i] = f[n + 1 - i]
    <2> HIDE DEF f
    <2>1. /\ r \in Seq(Nat) /\ Len(r) = Cardinality(S)
          /\ \A g : Descends(g, S) =>
               \A i \in 1 .. Cardinality(S) : r[i] = g[Cardinality(S) + 1 - i]
      BY <1>1, <1>3, BlocksRising
    <2> HIDE DEF r, n
    <2> QED BY <1>3, <1>4, <2>1
  <1>6. ASSUME NEW i \in 1 .. n PROVE r[i] = s[i]
    <2>1. n + 1 - i \in 1 .. n /\ n + 1 - (n + 1 - i) = i
      BY <1>1
    <2> HIDE DEF r, n
    <2> QED BY <1>5, <2>1
  <1> HIDE DEF r
  <1>7. s = r
    BY <1>1, <1>5, <1>6
  <1> QED BY <1>7 DEF r, S

\* Pieces of n lines.
LEMMA Division ==
  ASSUME NEW a \in Nat, NEW n \in Nat \ {0}
  PROVE  a \div n \in Nat /\ (a \div n) * n <= a /\ a < (a \div n) * n + n
  OBVIOUS

LEMMA Multiples ==
  ASSUME NEW k \in Int, NEW l \in Int, k < l, NEW n \in Nat
  PROVE  k * n \in Int /\ k * n + n <= l * n
  <1>1. k * n \in Int /\ l * n \in Int /\ (l - k - 1) * n \in Nat
    OBVIOUS
  <1>2. l * n = k * n + n + (l - k - 1) * n
    OBVIOUS
  <1> QED BY <1>1, <1>2

LEMMA PartOf ==
  ASSUME NEW s \in Seq(Nat), NEW f \in Nat, NEW e \in Nat, f < e, e <= Len(s)
  PROVE  LET p == SubSeq(s, f + 1, e) IN
         p \in Seq(Nat) /\ Len(p) = e - f /\ \A j \in 1 .. e - f : p[j] = s[f + j]
  <1> DEFINE m == f + 1
             p == SubSeq(s, m, e)
  <1>1. m \in Int /\ e \in Int /\ \A i \in m .. e : s[i] \in Nat
    OBVIOUS
  <1> HIDE DEF m
  <1>3. /\ p \in Seq(Nat) /\ Len(p) = IF m <= e THEN e - m + 1 ELSE 0
        /\ \A j \in 1 .. e - m + 1 : p[j] = s[m + j - 1]
    BY <1>1, SubSeqProperties
  <1>4. m <= e /\ e - m + 1 = e - f /\ \A j \in 1 .. e - f : m + j - 1 = f + j
    BY DEF m
  <1> HIDE DEF p
  <1>5. p \in Seq(Nat) /\ Len(p) = e - f /\ \A j \in 1 .. e - f : p[j] = s[f + j]
    BY <1>3, <1>4
  <1> QED BY <1>5 DEF p, m

LEMMA PieceOfSplit ==
  ASSUME NEW s \in Seq(Nat), NEW n \in Nat \ {0}
  PROVE  LET ps == Blocks!Split(s, n)
             first == [k \in 1 .. Len(ps) |-> (k - 1) * n]
         IN  /\ ps \in Seq(Seq(Nat))
             /\ \A k \in 1 .. Len(ps) :
                  /\ first[k] \in Nat /\ Len(ps[k]) \in 1 .. n
                  /\ \A j \in 1 .. Len(ps[k]) :
                       first[k] + j \in 1 .. Len(s) /\ ps[k][j] = s[first[k] + j]
             /\ \A k, l \in 1 .. Len(ps) : k < l => first[k] + n <= first[l]
             /\ \A i \in 1 .. Len(s) :
                  \E k \in 1 .. Len(ps) : \E j \in 1 .. Len(ps[k]) : i = first[k] + j
  <1> DEFINE L == Len(s)
             N == (L + n - 1) \div n
             ps == Blocks!Split(s, n)
             first == [k \in 1 .. N |-> (k - 1) * n]
             last(k) == IF k * n <= L THEN k * n ELSE L
  <1>1. L \in Nat /\ N \in Nat /\ N * n <= L + n - 1 /\ L + n - 1 < N * n + n
    <2>1. L \in Nat /\ L + n - 1 \in Nat
      OBVIOUS
    <2> HIDE DEF L
    <2> QED BY <2>1, Division
  <1>2. ASSUME NEW k \in 1 .. N
        PROVE  /\ (k - 1) * n \in Nat /\ (k - 1) * n < L /\ k * n = (k - 1) * n + n
               /\ Blocks!Min({k * n, L}) = last(k)
    <2>1. k \in Nat /\ k - 1 \in Nat /\ k <= N /\ k * n \in Nat /\ (k - 1) * n \in Nat
      BY <1>1
    <2>2. k * n = (k - 1) * n + n
      BY <2>1
    <2>3. k * n <= N * n
      <3>1. k = N \/ k < N
        BY <1>1, <2>1
      <3>2. k < N => k * n + n <= N * n
        BY <1>1, <2>1, Multiples, SMTT(30)
      <3> QED BY <1>1, <2>1, <3>1, <3>2
    <2>4. (k - 1) * n < L
      BY <1>1, <2>1, <2>2, <2>3
    <2>5. Blocks!Min({k * n, L}) = last(k)
      <3> DEFINE m == k * n
      <3>1. m \in Nat /\ L \in Nat
        BY <1>1, <2>1
      <3> HIDE DEF m, L
      <3>2. Blocks!Min({m, L}) = IF m <= L THEN m ELSE L
        BY <3>1 DEF Blocks!Min
      <3> QED BY <3>2 DEF m
    <2> QED BY <2>1, <2>2, <2>4, <2>5
  <1>3. ps = [k \in 1 .. N |-> SubSeq(s, (k - 1) * n + 1, last(k))]
    BY <1>2 DEF Blocks!Split
  <1> HIDE DEF N, ps
  <1>4. ASSUME NEW k \in 1 .. N
        PROVE  LET f == (k - 1) * n
                   p == SubSeq(s, f + 1, last(k))
               IN  /\ p \in Seq(Nat) /\ Len(p) = last(k) - f /\ Len(p) \in 1 .. n
                   /\ \A j \in 1 .. Len(p) : f + j \in 1 .. L /\ p[j] = s[f + j]
    <2> DEFINE f == (k - 1) * n
               e == last(k)
    <2>1. f \in Nat /\ e \in Nat /\ f < L /\ f < e /\ e <= L /\ e <= f + n /\ L \in Nat
      BY <1>1, <1>2
    <2> DEFINE p == SubSeq(s, f + 1, e)
    <2> HIDE DEF f, e
    <2>3. p \in Seq(Nat) /\ Len(p) = e - f /\ \A j \in 1 .. e - f : p[j] = s[f + j]
      BY <2>1, PartOf, Zenon DEF p
    <2> HIDE DEF p, L
    <2>5. ASSUME NEW j \in 1 .. e - f PROVE f + j \in 1 .. L /\ p[j] = s[f + j]
      BY <2>1, <2>3
    <2>6. p \in Seq(Nat) /\ Len(p) = e - f /\ Len(p) \in 1 .. n
      BY <2>1, <2>3
    <2> QED BY <2>5, <2>6 DEF f, e, p
  <1>5. ps \in Seq(Seq(Nat)) /\ Len(ps) = N
    <2>1. \A k \in 1 .. N : SubSeq(s, (k - 1) * n + 1, last(k)) \in Seq(Nat)
      BY <1>4
    <2> HIDE DEF last
    <2>2. ps \in [1 .. N -> Seq(Nat)]
      BY <1>3, <2>1
    <2> QED BY <1>1, <2>2
  <1>6. ASSUME NEW k \in 1 .. N
        PROVE  /\ first[k] = (k - 1) * n /\ first[k] \in Nat /\ first[k] < L
               /\ Len(ps[k]) = last(k) - first[k] /\ Len(ps[k]) \in 1 .. n
               /\ \A j \in 1 .. Len(ps[k]) : first[k] + j \in 1 .. L /\ ps[k][j] = s[first[k] + j]
    <2>1. ps[k] = SubSeq(s, (k - 1) * n + 1, last(k)) /\ first[k] = (k - 1) * n
      BY <1>3
    <2> HIDE DEF last, first, L
    <2> QED BY <1>2, <1>4, <2>1
  <1>7. ASSUME NEW k \in 1 .. N, NEW l \in 1 .. N, k < l PROVE first[k] + n <= first[l]
    <2>1. k - 1 \in Int /\ l - 1 \in Int /\ k - 1 < l - 1
      BY <1>1, <1>7
    <2>2. (k - 1) * n + n <= (l - 1) * n
      BY <2>1, Multiples
    <2> QED BY <2>2
  <1>8. ASSUME NEW i \in 1 .. L
        PROVE  \E k \in 1 .. N : \E j \in 1 .. Len(ps[k]) : i = first[k] + j
    <2> DEFINE q == (i - 1) \div n
    <2>1. i \in Nat /\ i - 1 \in Nat /\ i <= L
      BY <1>1
    <2>2. q \in Nat /\ q * n <= i - 1 /\ i - 1 < q * n + n /\ q * n \in Nat
      BY <2>1, Division
    <2> HIDE DEF q
    <2>3. q + 1 \in 1 .. N
      <3>1. CASE q + 1 <= N
        BY <1>1, <2>2, <3>1
      <3>2. CASE N < q + 1
        <4>1. N * n \in Int /\ (N = q \/ N < q)
          BY <1>1, <2>2, <3>2
        <4>2. N * n <= q * n
          <5>1. N < q => N * n + n <= q * n
            BY <1>1, <2>2, Multiples
          <5>2. N * n \in Int
            BY <1>1
          <5> QED BY <1>1, <2>2, <4>1, <5>1, <5>2
        <4>3. N * n \in Int /\ L + n - 1 < i - 1 + n
          BY <1>1, <2>1, <2>2, <4>2
        <4> QED BY <1>1, <2>1, <4>3
      <3> QED BY <1>1, <2>2, <3>1, <3>2
    <2> DEFINE k == q + 1
               j == i - q * n
    <2>4. k - 1 = q /\ first[k] = q * n
      BY <2>2, <2>3
    <2>5. (k * n = q * n + n) /\ last(k) = IF q * n + n <= L THEN q * n + n ELSE L
      <3>1. k * n = q * n + n
        BY <2>2
      <3> QED BY <3>1
    <2>6. j \in 1 .. last(k) - q * n /\ i = q * n + j
      <3> DEFINE m == q * n
      <3>1. m \in Nat /\ m <= i - 1 /\ i - 1 < m + n
        BY <2>2
      <3> HIDE DEF m, last, k
      <3> QED BY <1>1, <2>1, <2>5, <3>1, SMTT(30) DEF m
    <2> HIDE DEF last, first, L
    <2>7. Len(ps[k]) = last(k) - q * n
      BY <1>6, <2>3, <2>4
    <2> QED BY <2>3, <2>4, <2>6, <2>7
  <1> HIDE DEF last
  <1> QED BY <1>5, <1>6, <1>7, <1>8 DEF ps

\* A set of lines in pieces that ascend, one after the other.
Strictly(s) == \A i, j \in 1 .. Len(s) : i < j => s[i] < s[j]

CutInto(ps, S) ==
    /\ ps \in Seq(Seq(Nat))
    /\ \A k \in 1 .. Len(ps) : ps[k] # <<>> /\ Strictly(ps[k])
    /\ \A k, l \in 1 .. Len(ps) :
         k < l => \A x \in Blocks!Range(ps[k]), y \in Blocks!Range(ps[l]) : x < y
    /\ \A k \in 1 .. Len(ps) : Blocks!Range(ps[k]) \subseteq S
    /\ \A x \in S : \E k \in 1 .. Len(ps) : x \in Blocks!Range(ps[k])

LEMMA InRange ==
  ASSUME NEW V, NEW s \in Seq(V)
  PROVE  /\ \A x : x \in Blocks!Range(s) <=> \E j \in 1 .. Len(s) : x = s[j]
         /\ Blocks!Range(s) \subseteq V /\ Len(s) \in Nat
  BY DEF Blocks!Range

LEMMA SplitIs ==
  ASSUME NEW s \in Seq(Nat), Strictly(s), NEW n \in Nat \ {0}
  PROVE  /\ CutInto(Blocks!Split(s, n), Blocks!Range(s))
         /\ \A k \in 1 .. Len(Blocks!Split(s, n)) : Len(Blocks!Split(s, n)[k]) <= n
  <1> DEFINE ps == Blocks!Split(s, n)
             N == Len(ps)
  <1>1. PICK first :
          /\ \A k \in 1 .. N :
               /\ first[k] \in Nat /\ Len(ps[k]) \in 1 .. n
               /\ \A j \in 1 .. Len(ps[k]) :
                    first[k] + j \in 1 .. Len(s) /\ ps[k][j] = s[first[k] + j]
          /\ \A k, l \in 1 .. N : k < l => first[k] + n <= first[l]
          /\ \A i \in 1 .. Len(s) :
               \E k \in 1 .. N : \E j \in 1 .. Len(ps[k]) : i = first[k] + j
    <2> DEFINE f == [k \in 1 .. N |-> (k - 1) * n]
    <2>1. /\ \A k \in 1 .. N :
               /\ f[k] \in Nat /\ Len(ps[k]) \in 1 .. n
               /\ \A j \in 1 .. Len(ps[k]) :
                    f[k] + j \in 1 .. Len(s) /\ ps[k][j] = s[f[k] + j]
          /\ \A k, l \in 1 .. N : k < l => f[k] + n <= f[l]
          /\ \A i \in 1 .. Len(s) :
               \E k \in 1 .. N : \E j \in 1 .. Len(ps[k]) : i = f[k] + j
      BY PieceOfSplit, Zenon
    <2> HIDE DEF f, ps
    <2> QED BY <2>1
  <1>2. ps \in Seq(Seq(Nat))
    BY PieceOfSplit, Zenon
  <1> HIDE DEF ps
  <1>3. N \in Nat /\ Len(s) \in Nat /\ \A k \in 1 .. N : ps[k] \in Seq(Nat)
    BY <1>2
  <1>4. ASSUME NEW k \in 1 .. N
        PROVE  ps[k] # <<>> /\ Strictly(ps[k]) /\ Blocks!Range(ps[k]) \subseteq Blocks!Range(s)
    <2>1. ps[k] # <<>>
      BY <1>1, <1>3
    <2>2. Strictly(ps[k])
      <3> SUFFICES ASSUME NEW i \in 1 .. Len(ps[k]), NEW j \in 1 .. Len(ps[k]), i < j
                   PROVE  ps[k][i] < ps[k][j]
        BY DEF Strictly
      <3>1. /\ first[k] + i \in 1 .. Len(s) /\ first[k] + j \in 1 .. Len(s)
            /\ ps[k][i] = s[first[k] + i] /\ ps[k][j] = s[first[k] + j]
            /\ first[k] \in Nat
        BY <1>1
      <3>2. first[k] + i < first[k] + j
        BY <1>3, <3>1
      <3> QED BY <3>1, <3>2 DEF Strictly
    <2>3. ASSUME NEW x \in Blocks!Range(ps[k]) PROVE x \in Blocks!Range(s)
      <3>1. PICK j \in 1 .. Len(ps[k]) : x = ps[k][j]
        BY <1>3, <2>3, InRange
      <3>2. first[k] + j \in 1 .. Len(s) /\ x = s[first[k] + j]
        BY <1>1, <3>1
      <3> QED BY <3>2, InRange
    <2> QED BY <2>1, <2>2, <2>3
  <1>5. ASSUME NEW k \in 1 .. N, NEW l \in 1 .. N, k < l,
               NEW x \in Blocks!Range(ps[k]), NEW y \in Blocks!Range(ps[l])
        PROVE  x < y
    <2>1. PICK i \in 1 .. Len(ps[k]) : x = ps[k][i]
      BY <1>3, <1>5, InRange
    <2>2. PICK j \in 1 .. Len(ps[l]) : y = ps[l][j]
      BY <1>3, <1>5, InRange
    <2>3. first[k] + i \in 1 .. Len(s) /\ x = s[first[k] + i]
      BY <1>1, <2>1
    <2>4. first[l] + j \in 1 .. Len(s) /\ y = s[first[l] + j]
      BY <1>1, <2>2
    <2>5. /\ first[k] \in Nat /\ first[l] \in Nat /\ first[k] + n <= first[l]
          /\ i \in Nat /\ i <= n /\ j \in Nat /\ 1 <= j
      <3>1. i \in 1 .. n
        BY <1>1, <2>1
      <3>2. j \in 1 .. n
        BY <1>1, <2>2
      <3>3. first[k] \in Nat /\ first[l] \in Nat /\ first[k] + n <= first[l]
        BY <1>1, <1>5
      <3> QED BY <3>1, <3>2, <3>3
    <2>6. first[k] + i < first[l] + j
      BY <2>5
    <2> QED BY <2>3, <2>4, <2>6 DEF Strictly
  <1>6. ASSUME NEW x \in Blocks!Range(s) PROVE \E k \in 1 .. N : x \in Blocks!Range(ps[k])
    <2>1. PICK i \in 1 .. Len(s) : x = s[i]
      BY <1>6, InRange
    <2>2. PICK k \in 1 .. N : \E j \in 1 .. Len(ps[k]) : i = first[k] + j
      BY <1>1
    <2>3. PICK j \in 1 .. Len(ps[k]) : i = first[k] + j
      BY <2>2
    <2>4. x = ps[k][j]
      BY <1>1, <2>1, <2>3
    <2>5. x \in Blocks!Range(ps[k])
      BY <1>3, <2>4, InRange
    <2> QED BY <2>5
  <1>7. \A k \in 1 .. N : Len(ps[k]) <= n
    BY <1>1
  <1> QED BY <1>2, <1>4, <1>5, <1>6, <1>7 DEF CutInto, ps

\* What starts at the base and goes on by the step is the iteration of it.
LEMMA IteratesIs ==
  ASSUME NEW N \in Nat, NEW V, NEW base \in V, NEW H, Rounds(H, N, V),
         NEW t, DOMAIN t = 0 .. N, t = [n \in 0 .. N |-> t[n]], t[0] = base,
         \A n \in 1 .. N : t[n - 1] \in V => t[n] = H[<<t[n - 1], n>>]
  PROVE  Iterates(t, H, N, V, base)
  <1> DEFINE Good == {n \in Nat : n <= N => t[n] \in V}
  <1>1. 0 \in Good
    OBVIOUS
  <1>2. ASSUME NEW n \in Nat, n \in Good PROVE n + 1 \in Good
    <2>1. ASSUME n + 1 <= N PROVE t[n + 1] \in V
      <3>1. n + 1 \in 1 .. N /\ t[n] \in V /\ (n + 1) - 1 = n
        BY <1>2, <2>1
      <3>2. t[n + 1] = H[<<t[n], n + 1>>]
        BY <3>1
      <3> QED BY <3>1, <3>2 DEF Rounds
    <2> QED BY <2>1
  <1>3. \A n \in Nat : n \in Good
    <2> HIDE DEF Good
    <2> QED BY <1>1, <1>2, Inductive
  <1>4. \A n \in 0 .. N : t[n] \in V
    BY <1>3
  <1>5. t \in [0 .. N -> V]
    BY <1>4
  <1>6. \A n \in 1 .. N : n - 1 \in 0 .. N
    OBVIOUS
  <1> QED BY <1>4, <1>5, <1>6 DEF Iterates

\* The lines of the first chunks, of one chunk more in each round, and their sizes.
Unrolls(u, cs) ==
    /\ u \in [0 .. Len(cs) -> Seq(Nat)] /\ u[0] = <<>>
    /\ \A n \in 1 .. Len(cs) : u[n] = u[n - 1] \o cs[n].lines
    /\ Blocks!LinesIn(cs) = u[Len(cs)]

LEMMA LinesInUnrolls ==
  ASSUME NEW cs \in Seq(Blocks!Chunk)
  PROVE  \E u : Unrolls(u, cs)
  <1> DEFINE N == Len(cs)
             V == Seq(Nat)
             H == [p \in V \X (1 .. N) |-> p[1] \o cs[p[2]].lines]
             Eq(t) == t = [n \in 0 .. N |-> IF n = 0 THEN <<>> ELSE t[n - 1] \o cs[n].lines]
  <1>1. N \in Nat /\ <<>> \in V /\ \A n \in 1 .. N : cs[n].lines \in V
    <2>1. ASSUME NEW n \in 1 .. N PROVE cs[n].lines \in V
      <3>1. cs[n] \in Blocks!Chunk
        BY <2>1
      <3> QED BY <3>1 DEF Blocks!Chunk
    <2> QED BY <2>1
  <1>2. Blocks!LinesIn(cs) = (CHOOSE t : Eq(t))[N]
    BY DEF Blocks!LinesIn
  <1> HIDE DEF N
  <1>3. \A v \in V, n \in 1 .. N : H[<<v, n>>] = v \o cs[n].lines
    OBVIOUS
  <1>4. Rounds(H, N, V)
    <2>1. ASSUME NEW v \in V, NEW n \in 1 .. N PROVE H[<<v, n>>] \in V
      <3>1. cs[n].lines \in V
        BY <1>1
      <3>2. v \o cs[n].lines \in V
        BY <3>1
      <3> HIDE DEF H, V
      <3> QED BY <1>3, <3>2
    <2> HIDE DEF H, V
    <2> QED BY <2>1 DEF Rounds
  <1> HIDE DEF H
  <1>5. PICK F : Iterates(F, H, N, V, <<>>)
    <2> HIDE DEF V
    <2> QED BY <1>1, <1>4, IterationExists
  <1>6. F \in [0 .. N -> V] /\ F[0] = <<>> /\ \A n \in 1 .. N : F[n] = H[<<F[n - 1], n>>]
    BY <1>5 DEF Iterates
  <1>7. Eq(F)
    <2>1. ASSUME NEW n \in 0 .. N
          PROVE  F[n] = IF n = 0 THEN <<>> ELSE F[n - 1] \o cs[n].lines
      <3>1. n = 0 \/ (n \in 1 .. N /\ n # 0 /\ n - 1 \in 0 .. N)
        BY <1>1
      <3>2. ASSUME n \in 1 .. N, n - 1 \in 0 .. N PROVE F[n] = F[n - 1] \o cs[n].lines
        <4>1. F[n - 1] \in V
          BY <1>6, <3>2
        <4> HIDE DEF V
        <4> QED BY <1>3, <1>6, <3>2, <4>1
      <3> QED BY <1>6, <3>1, <3>2
    <2> QED BY <1>6, <2>1
  <1> DEFINE t == CHOOSE t : Eq(t)
  <1>8. Eq(t)
    <2> HIDE DEF Eq
    <2> QED BY <1>7
  <1> HIDE DEF t
  <1>9. /\ DOMAIN t = 0 .. N /\ t = [n \in 0 .. N |-> t[n]] /\ t[0] = <<>>
        /\ \A n \in 1 .. N : t[n] = t[n - 1] \o cs[n].lines
    <2>1. 0 \in 0 .. N /\ \A n \in 1 .. N : n \in 0 .. N /\ n # 0
      BY <1>1
    <2> QED BY <1>8, <2>1
  <1>10. \A n \in 1 .. N : t[n - 1] \in V => t[n] = H[<<t[n - 1], n>>]
    <2> HIDE DEF V
    <2> QED BY <1>3, <1>9
  <1>11. Iterates(t, H, N, V, <<>>)
    <2> HIDE DEF V
    <2> QED BY <1>1, <1>4, <1>9, <1>10, IteratesIs
  <1>12. t \in [0 .. N -> V]
    BY <1>11 DEF Iterates
  <1> QED BY <1>2, <1>9, <1>12 DEF Unrolls, t, N

Sums(z, cs) ==
    /\ z \in [0 .. Len(cs) -> Nat] /\ z[0] = 0
    /\ \A n \in 1 .. Len(cs) : z[n] = z[n - 1] + Blocks!Size(cs[n])
    /\ Blocks!SizeOf(cs) = z[Len(cs)]

LEMMA SizeIsNumber ==
  ASSUME NEW c \in Blocks!Chunk
  PROVE  Blocks!Size(c) \in Nat /\ Len(c.lines) \in Nat /\ Len(c.lines) <= Blocks!Size(c)
  <1>1. c.lines \in Seq(Nat)
    BY DEF Blocks!Chunk
  <1>2. Len(c.lines) \in Nat
    BY <1>1
  <1>3. Blocks!Size(c) = Len(c.lines) \/ Blocks!Size(c) = Len(c.lines) + 1
    <2>1. CASE c.path = <<>>
      BY <1>2, <2>1 DEF Blocks!Size
    <2>2. CASE c.path # <<>>
      BY <2>2 DEF Blocks!Size
    <2> QED BY <2>1, <2>2
  <1> QED BY <1>2, <1>3

LEMMA SizeOfUnrolls ==
  ASSUME NEW cs \in Seq(Blocks!Chunk)
  PROVE  \E z : Sums(z, cs)
  <1> DEFINE N == Len(cs)
             H == [p \in Nat \X (1 .. N) |-> p[1] + Blocks!Size(cs[p[2]])]
             Eq(t) == t = [n \in 0 .. N |-> IF n = 0 THEN 0 ELSE t[n - 1] + Blocks!Size(cs[n])]
  <1>1. N \in Nat /\ \A n \in 1 .. N : Blocks!Size(cs[n]) \in Nat
    BY SizeIsNumber
  <1>2. Blocks!SizeOf(cs) = (CHOOSE t : Eq(t))[N]
    BY DEF Blocks!SizeOf
  <1> HIDE DEF N
  <1>3. \A v \in Nat, n \in 1 .. N : H[<<v, n>>] = v + Blocks!Size(cs[n])
    OBVIOUS
  <1>4. Rounds(H, N, Nat)
    <2>1. ASSUME NEW v \in Nat, NEW n \in 1 .. N PROVE H[<<v, n>>] \in Nat
      <3>1. H[<<v, n>>] = v + Blocks!Size(cs[n]) /\ Blocks!Size(cs[n]) \in Nat
        BY <1>1, <1>3
      <3> QED BY <3>1
    <2> HIDE DEF H
    <2> QED BY <2>1 DEF Rounds
  <1> HIDE DEF H
  <1>5. PICK F : Iterates(F, H, N, Nat, 0)
    BY <1>1, <1>4, IterationExists
  <1>6. F \in [0 .. N -> Nat] /\ F[0] = 0 /\ \A n \in 1 .. N : F[n] = H[<<F[n - 1], n>>]
    BY <1>5 DEF Iterates
  <1>7. Eq(F)
    <2>1. ASSUME NEW n \in 0 .. N
          PROVE  F[n] = IF n = 0 THEN 0 ELSE F[n - 1] + Blocks!Size(cs[n])
      <3>1. n = 0 \/ (n \in 1 .. N /\ n # 0 /\ n - 1 \in 0 .. N)
        BY <1>1
      <3>2. ASSUME n \in 1 .. N, n - 1 \in 0 .. N PROVE F[n] = F[n - 1] + Blocks!Size(cs[n])
        <4>1. F[n - 1] \in Nat
          BY <1>6, <3>2
        <4> QED BY <1>3, <1>6, <3>2, <4>1
      <3> QED BY <1>6, <3>1, <3>2
    <2> QED BY <1>6, <2>1
  <1> DEFINE t == CHOOSE t : Eq(t)
  <1>8. Eq(t)
    <2> HIDE DEF Eq
    <2> QED BY <1>7
  <1> HIDE DEF t
  <1>9. /\ DOMAIN t = 0 .. N /\ t = [n \in 0 .. N |-> t[n]] /\ t[0] = 0
        /\ \A n \in 1 .. N : t[n] = t[n - 1] + Blocks!Size(cs[n])
    <2>1. 0 \in 0 .. N /\ \A n \in 1 .. N : n \in 0 .. N /\ n # 0
      BY <1>1
    <2> QED BY <1>8, <2>1
  <1>10. \A n \in 1 .. N : t[n - 1] \in Nat => t[n] = H[<<t[n - 1], n>>]
    BY <1>3, <1>9
  <1>11. Iterates(t, H, N, Nat, 0)
    BY <1>1, <1>4, <1>9, <1>10, IteratesIs
  <1>12. t \in [0 .. N -> Nat]
    BY <1>11 DEF Iterates
  <1> QED BY <1>2, <1>9, <1>12 DEF Sums, t, N

\* A chunk more adds its size.
LEMMA SizeOfMore ==
  ASSUME NEW cs \in Seq(Blocks!Chunk), NEW c \in Blocks!Chunk
  PROVE  /\ Blocks!SizeOf(Append(cs, c)) = Blocks!SizeOf(cs) + Blocks!Size(c)
         /\ Blocks!SizeOf(cs) \in Nat /\ Blocks!SizeOf(<<>>) = 0
  <1> DEFINE ds == Append(cs, c)
             N == Len(cs)
  <1>1. /\ ds \in Seq(Blocks!Chunk) /\ N \in Nat /\ Len(ds) = N + 1 /\ ds[N + 1] = c
        /\ \A n \in 1 .. N : ds[n] = cs[n]
    BY AppendProperties
  <1>2. PICK z : Sums(z, cs)
    BY SizeOfUnrolls
  <1> HIDE DEF ds
  <1>3. PICK y : Sums(y, ds)
    BY <1>1, SizeOfUnrolls
  <1>4. /\ z[0] = 0 /\ \A n \in 1 .. N : z[n] = z[n - 1] + Blocks!Size(cs[n])
        /\ Blocks!SizeOf(cs) = z[N] /\ z[N] \in Nat
    BY <1>1, <1>2 DEF Sums
  <1>5. /\ y[0] = 0 /\ \A n \in 1 .. N + 1 : y[n] = y[n - 1] + Blocks!Size(ds[n])
        /\ Blocks!SizeOf(ds) = y[N + 1]
    BY <1>1, <1>3 DEF Sums
  <1> DEFINE Good == {n \in Nat : n <= N => y[n] = z[n]}
  <1> HIDE DEF N
  <1>6. 0 \in Good
    BY <1>4, <1>5
  <1>7. ASSUME NEW n \in Nat, n \in Good PROVE n + 1 \in Good
    <2>1. ASSUME n + 1 <= N PROVE y[n + 1] = z[n + 1]
      <3>1. n + 1 \in 1 .. N /\ n + 1 \in 1 .. N + 1 /\ (n + 1) - 1 = n /\ y[n] = z[n]
        BY <1>1, <1>7, <2>1
      <3>2. y[n + 1] = y[n] + Blocks!Size(ds[n + 1]) /\ z[n + 1] = z[n] + Blocks!Size(cs[n + 1])
        BY <1>4, <1>5, <3>1
      <3> QED BY <1>1, <3>1, <3>2
    <2> QED BY <2>1
  <1>8. N \in Good
    <2> HIDE DEF Good
    <2> QED BY <1>1, <1>6, <1>7, Inductive
  <1>9. y[N + 1] = z[N] + Blocks!Size(c)
    <2>1. N + 1 \in 1 .. N + 1 /\ (N + 1) - 1 = N /\ y[N] = z[N]
      BY <1>1, <1>8
    <2> QED BY <1>1, <1>5, <2>1
  <1>10. Blocks!SizeOf(<<>>) = 0
    <2>1. <<>> \in Seq(Blocks!Chunk) /\ Len(<<>>) = 0
      OBVIOUS
    <2>2. PICK w : Sums(w, <<>>)
      BY <2>1, SizeOfUnrolls
    <2> QED BY <2>1, <2>2 DEF Sums
  <1> QED BY <1>4, <1>5, <1>9, <1>10 DEF ds

\* The lines in S ascend in a sequence, or in chunks one after the other.
Ascends(s, S) == \A i, j \in 1 .. Len(s) : i < j /\ s[i] \in S /\ s[j] \in S => s[i] < s[j]

Precedes(s, t, S) ==
    \A x \in Blocks!Range(s), y \in Blocks!Range(t) : x \in S /\ y \in S => x < y

InOrder(cs, S) ==
    /\ \A k \in 1 .. Len(cs) : Ascends(cs[k].lines, S)
    /\ \A k, l \in 1 .. Len(cs) : k < l => Precedes(cs[k].lines, cs[l].lines, S)

HasLine(cs, p) == \E k \in 1 .. Len(cs) : p \in Blocks!Range(cs[k].lines)

LEMMA Concatenated ==
  ASSUME NEW s \in Seq(Nat), NEW t \in Seq(Nat)
  PROVE  /\ s \o t \in Seq(Nat) /\ Len(s \o t) = Len(s) + Len(t)
         /\ \A i \in 1 .. Len(s) : (s \o t)[i] = s[i]
         /\ \A i \in 1 .. Len(t) : (s \o t)[Len(s) + i] = t[i]
         /\ \A i \in 1 .. Len(s \o t) :
              i \in 1 .. Len(s) \/ \E j \in 1 .. Len(t) : i = Len(s) + j
         /\ \A x : x \in Blocks!Range(s \o t) <=> x \in Blocks!Range(s) \/ x \in Blocks!Range(t)
  <1> DEFINE m == Len(s)
             n == Len(t)
             r == s \o t
  <1>1. m \in Nat /\ n \in Nat
    OBVIOUS
  <1>2. /\ r \in Seq(Nat) /\ Len(r) = m + n
        /\ \A i \in 1 .. m + n : r[i] = IF i <= m THEN s[i] ELSE t[i - m]
    BY ConcatProperties
  <1> HIDE DEF r, m, n
  <1>3. \A i \in 1 .. m : r[i] = s[i]
    BY <1>1, <1>2
  <1>4. ASSUME NEW i \in 1 .. n PROVE m + i \in 1 .. m + n /\ r[m + i] = t[i]
    <2>1. m + i \in 1 .. m + n /\ ~(m + i <= m) /\ (m + i) - m = i
      BY <1>1
    <2>2. r[m + i] = t[(m + i) - m]
      BY <1>2, <2>1, Zenon
    <2> QED BY <2>1, <2>2
  <1>5. ASSUME NEW i \in 1 .. m + n PROVE i \in 1 .. m \/ \E j \in 1 .. n : i = m + j
    <2>1. i \in 1 .. m \/ (i - m \in 1 .. n /\ i = m + (i - m))
      BY <1>1
    <2> QED BY <2>1
  <1>6. ASSUME NEW x
        PROVE  x \in Blocks!Range(r) <=> x \in Blocks!Range(s) \/ x \in Blocks!Range(t)
    <2>1. /\ x \in Blocks!Range(r) <=> \E i \in 1 .. m + n : x = r[i]
          /\ x \in Blocks!Range(s) <=> \E i \in 1 .. m : x = s[i]
          /\ x \in Blocks!Range(t) <=> \E i \in 1 .. n : x = t[i]
      BY <1>2, InRange, SMTT(30) DEF m, n
    <2>2. \A i \in 1 .. m : i \in 1 .. m + n
      BY <1>1
    <2> QED BY <1>3, <1>4, <1>5, <2>1, <2>2, ZenonT(40)
  <1> QED BY <1>2, <1>3, <1>4, <1>5, <1>6 DEF r, m, n

LEMMA ConcatAscends ==
  ASSUME NEW s \in Seq(Nat), NEW t \in Seq(Nat), NEW S,
         Ascends(s, S), Ascends(t, S), Precedes(s, t, S)
  PROVE  Ascends(s \o t, S)
  <1> DEFINE r == s \o t
             m == Len(s)
             n == Len(t)
  <1>1. /\ m \in Nat /\ n \in Nat /\ r \in Seq(Nat) /\ Len(r) = m + n
        /\ \A i \in 1 .. m : r[i] = s[i]
        /\ \A i \in 1 .. n : r[m + i] = t[i]
        /\ \A i \in 1 .. Len(r) : i \in 1 .. m \/ \E j \in 1 .. n : i = m + j
    BY Concatenated
  <1> HIDE DEF r
  <1>2. SUFFICES ASSUME NEW i \in 1 .. Len(r), NEW j \in 1 .. Len(r), i < j,
                        r[i] \in S, r[j] \in S
                 PROVE  r[i] < r[j]
    BY DEF Ascends, r
  <1>3. CASE i \in 1 .. m /\ j \in 1 .. m
    BY <1>1, <1>2, <1>3 DEF Ascends
  <1>4. CASE i \in 1 .. m /\ \E k \in 1 .. n : j = m + k
    <2>1. PICK k \in 1 .. n : j = m + k
      BY <1>4
    <2>2. r[i] = s[i] /\ r[j] = t[k]
      BY <1>1, <1>4, <2>1
    <2>3. r[i] \in Blocks!Range(s) /\ r[j] \in Blocks!Range(t)
      BY <1>4, <2>2, InRange
    <2> QED BY <1>2, <2>3 DEF Precedes
  <1>5. CASE (\E k \in 1 .. n : i = m + k) /\ \E k \in 1 .. n : j = m + k
    <2>1. PICK k \in 1 .. n : i = m + k
      BY <1>5
    <2>2. PICK l \in 1 .. n : j = m + l
      BY <1>5
    <2>3. k < l /\ r[i] = t[k] /\ r[j] = t[l]
      BY <1>1, <1>2, <2>1, <2>2
    <2> QED BY <1>2, <2>3 DEF Ascends
  <1>6. CASE (\E k \in 1 .. n : i = m + k) /\ j \in 1 .. m
    BY <1>1, <1>2, <1>6
  <1> QED BY <1>1, <1>3, <1>4, <1>5, <1>6

\* What the lines of chunks are, when they are put together.
LEMMA Joined ==
  ASSUME NEW cs \in Seq(Blocks!Chunk)
  PROVE  LET s == Blocks!LinesIn(cs) IN
         /\ s \in Seq(Nat) /\ Len(s) <= Blocks!SizeOf(cs)
         /\ \A x : x \in Blocks!Range(s) <=> HasLine(cs, x)
         /\ \A S : InOrder(cs, S) => Ascends(s, S)
         /\ cs # <<>> /\ cs[1].lines # <<>> => s # <<>> /\ s[1] = cs[1].lines[1]
  <1> DEFINE N == Len(cs)
             s == Blocks!LinesIn(cs)
  <1>1. PICK u : Unrolls(u, cs)
    BY LinesInUnrolls
  <1>2. PICK z : Sums(z, cs)
    BY SizeOfUnrolls
  <1>3. /\ u \in [0 .. N -> Seq(Nat)] /\ u[0] = <<>> /\ s = u[N]
        /\ \A n \in 1 .. N : u[n] = u[n - 1] \o cs[n].lines
    BY <1>1 DEF Unrolls
  <1>4. /\ z \in [0 .. N -> Nat] /\ z[0] = 0 /\ Blocks!SizeOf(cs) = z[N]
        /\ \A n \in 1 .. N : z[n] = z[n - 1] + Blocks!Size(cs[n])
    BY <1>2 DEF Sums
  <1>5. N \in Nat /\ (cs = <<>> <=> N = 0) /\ \A n \in 1 .. N : cs[n] \in Blocks!Chunk
    OBVIOUS
  <1>6. ASSUME NEW n \in 1 .. N
        PROVE  /\ cs[n].lines \in Seq(Nat) /\ Len(cs[n].lines) \in Nat
               /\ Blocks!Size(cs[n]) \in Nat /\ Len(cs[n].lines) <= Blocks!Size(cs[n])
    <2>1. cs[n] \in Blocks!Chunk
      BY <1>5
    <2> QED BY <2>1, SizeIsNumber DEF Blocks!Chunk
  <1> HIDE DEF N, s
  <1>7. ASSUME NEW n \in Nat, n + 1 <= N
        PROVE  LET v == u[n]
                   w == cs[n + 1].lines
               IN  /\ n + 1 \in 1 .. N /\ v \in Seq(Nat) /\ w \in Seq(Nat) /\ Len(v) \in Nat
                   /\ u[n + 1] = v \o w /\ Len(u[n + 1]) = Len(v) + Len(w)
                   /\ \A x : x \in Blocks!Range(u[n + 1])
                               <=> x \in Blocks!Range(v) \/ x \in Blocks!Range(w)
                   /\ z[n] \in Nat /\ z[n + 1] = z[n] + Blocks!Size(cs[n + 1])
                   /\ Len(w) \in Nat /\ Blocks!Size(cs[n + 1]) \in Nat
                   /\ Len(w) <= Blocks!Size(cs[n + 1])
    <2> DEFINE v == u[n]
               w == cs[n + 1].lines
    <2>1. n + 1 \in 1 .. N /\ (n + 1) - 1 = n /\ n \in 0 .. N
      BY <1>5, <1>7
    <2>2. v \in Seq(Nat) /\ u[n + 1] = v \o w
      BY <1>3, <2>1
    <2>3. z[n] \in Nat /\ z[n + 1] = z[n] + Blocks!Size(cs[n + 1])
      BY <1>4, <2>1
    <2>4. /\ w \in Seq(Nat) /\ Len(w) \in Nat /\ Blocks!Size(cs[n + 1]) \in Nat
          /\ Len(w) <= Blocks!Size(cs[n + 1])
      BY <1>6, <2>1
    <2> HIDE DEF v, w
    <2>5. /\ Len(v \o w) = Len(v) + Len(w) /\ Len(v) \in Nat
          /\ \A x : x \in Blocks!Range(v \o w)
                      <=> x \in Blocks!Range(v) \/ x \in Blocks!Range(w)
      BY <2>2, <2>4, Concatenated
    <2> QED BY <2>1, <2>2, <2>3, <2>4, <2>5 DEF v, w
  <1>8. Len(s) <= Blocks!SizeOf(cs)
    <2> DEFINE Good == {n \in Nat : n <= N => Len(u[n]) <= z[n]}
    <2>1. 0 \in Good
      BY <1>3, <1>4
    <2>2. ASSUME NEW n \in Nat, n \in Good PROVE n + 1 \in Good
      <3>1. ASSUME n + 1 <= N PROVE Len(u[n + 1]) <= z[n + 1]
        <4>1. Len(u[n]) <= z[n]
          BY <1>5, <1>7, <2>2, <3>1
        <4>2. Len(u[n + 1]) = Len(u[n]) + Len(cs[n + 1].lines)
          BY <1>7, <2>2, <3>1
        <4>3. /\ z[n + 1] = z[n] + Blocks!Size(cs[n + 1]) /\ z[n] \in Nat
              /\ Len(cs[n + 1].lines) \in Nat /\ Blocks!Size(cs[n + 1]) \in Nat
              /\ Len(cs[n + 1].lines) <= Blocks!Size(cs[n + 1])
          BY <1>7, <2>2, <3>1
        <4>4. Len(u[n]) \in Nat
          BY <1>7, <2>2, <3>1
        <4>5. \A a, b, c, d \in Nat : a <= b /\ c <= d => a + c <= b + d
          OBVIOUS
        <4>6. Len(u[n]) + Len(cs[n + 1].lines) <= z[n] + Blocks!Size(cs[n + 1])
          BY <4>1, <4>3, <4>4, <4>5
        <4> QED BY <4>2, <4>3, <4>6
      <3> QED BY <3>1
    <2>3. N \in Good
      <3> HIDE DEF Good
      <3> QED BY <1>5, <2>1, <2>2, Inductive
    <2> QED BY <1>3, <1>4, <1>5, <2>3
  <1>9. ASSUME NEW x PROVE x \in Blocks!Range(s) <=> HasLine(cs, x)
    <2> DEFINE Good == {n \in Nat : n <= N =>
                          (x \in Blocks!Range(u[n])
                             <=> \E k \in 1 .. n : x \in Blocks!Range(cs[k].lines))}
    <2>1. 0 \in Good
      <3>1. x \notin Blocks!Range(u[0])
        BY <1>3 DEF Blocks!Range
      <3> QED BY <3>1
    <2>2. ASSUME NEW n \in Nat, n \in Good PROVE n + 1 \in Good
      <3>1. ASSUME n + 1 <= N
            PROVE  x \in Blocks!Range(u[n + 1])
                     <=> \E k \in 1 .. n + 1 : x \in Blocks!Range(cs[k].lines)
        <4>1. x \in Blocks!Range(u[n]) <=> \E k \in 1 .. n : x \in Blocks!Range(cs[k].lines)
          BY <1>5, <1>7, <2>2, <3>1
        <4>2. x \in Blocks!Range(u[n + 1])
                <=> x \in Blocks!Range(u[n]) \/ x \in Blocks!Range(cs[n + 1].lines)
          BY <1>7, <2>2, <3>1
        <4>3. \A k : k \in 1 .. n + 1 <=> k \in 1 .. n \/ k = n + 1
          OBVIOUS
        <4> QED BY <4>1, <4>2, <4>3
      <3> QED BY <3>1
    <2>3. N \in Good
      <3> HIDE DEF Good
      <3> QED BY <1>5, <2>1, <2>2, Inductive
    <2> QED BY <1>3, <1>5, <2>3 DEF HasLine, N
  <1>10. ASSUME NEW S, InOrder(cs, S) PROVE Ascends(s, S)
    <2> DEFINE Good == {n \in Nat : n <= N =>
                          /\ Ascends(u[n], S)
                          /\ \A k \in 1 .. N : k > n => Precedes(u[n], cs[k].lines, S)}
    <2>1. 0 \in Good
      BY <1>3 DEF Ascends, Precedes, Blocks!Range
    <2>2. ASSUME NEW n \in Nat, n \in Good PROVE n + 1 \in Good
      <3>1. ASSUME n + 1 <= N
            PROVE  /\ Ascends(u[n + 1], S)
                   /\ \A k \in 1 .. N : k > n + 1 => Precedes(u[n + 1], cs[k].lines, S)
        <4>1. /\ Ascends(u[n], S)
              /\ \A k \in 1 .. N : k > n => Precedes(u[n], cs[k].lines, S)
          BY <1>5, <1>7, <2>2, <3>1
        <4>2. /\ n + 1 \in 1 .. N /\ u[n + 1] = u[n] \o cs[n + 1].lines
              /\ u[n] \in Seq(Nat) /\ cs[n + 1].lines \in Seq(Nat)
          BY <1>7, <2>2, <3>1
        <4>3. /\ Ascends(cs[n + 1].lines, S)
              /\ \A k \in 1 .. N : k > n + 1 => Precedes(cs[n + 1].lines, cs[k].lines, S)
          BY <1>10, <4>2 DEF InOrder, N
        <4>4. Ascends(u[n + 1], S)
          <5>1. n + 1 > n
            BY <2>2
          <5> QED BY <4>1, <4>2, <4>3, <5>1, ConcatAscends
        <4>5. ASSUME NEW k \in 1 .. N, k > n + 1 PROVE Precedes(u[n + 1], cs[k].lines, S)
          <5>1. Precedes(u[n], cs[k].lines, S) /\ Precedes(cs[n + 1].lines, cs[k].lines, S)
            BY <4>1, <4>3, <4>5
          <5>2. \A x : x \in Blocks!Range(u[n + 1])
                  <=> x \in Blocks!Range(u[n]) \/ x \in Blocks!Range(cs[n + 1].lines)
            BY <4>2, Concatenated
          <5> QED BY <5>1, <5>2 DEF Precedes
        <4> QED BY <4>4, <4>5
      <3> QED BY <3>1
    <2>3. N \in Good
      <3> HIDE DEF Good
      <3> QED BY <1>5, <2>1, <2>2, Inductive
    <2> QED BY <1>3, <1>5, <2>3
  <1>11. ASSUME cs # <<>>, cs[1].lines # <<>> PROVE s # <<>> /\ s[1] = cs[1].lines[1]
    <2> DEFINE first(n) == u[n] # <<>> /\ u[n][1] = cs[1].lines[1]
               Good == {n \in Nat : n + 1 <= N => first(n + 1)}
    <2>1. N >= 1 /\ 1 \in 1 .. N /\ cs[1].lines \in Seq(Nat)
      BY <1>5, <1>6, <1>11
    <2>2. 0 \in Good
      <3>1. u[1] = <<>> \o cs[1].lines
        <4>1. 0 \in Nat /\ 0 + 1 = 1 /\ 0 + 1 <= N
          BY <1>5, <2>1
        <4>2. u[0 + 1] = u[0] \o cs[0 + 1].lines
          BY <1>7, <4>1
        <4> QED BY <1>3, <4>1, <4>2
      <3>2. <<>> \o cs[1].lines = cs[1].lines
        BY <2>1, ConcatEmptySeq
      <3>3. first(0 + 1)
        BY <1>11, <3>1, <3>2
      <3> HIDE DEF first
      <3> QED BY <3>3
    <2>3. ASSUME NEW n \in Nat, n \in Good PROVE n + 1 \in Good
      <3>1. ASSUME n + 1 + 1 <= N PROVE first(n + 1 + 1)
        <4>1. first(n + 1) /\ n + 1 \in Nat
          BY <1>5, <2>3, <3>1
        <4>2. /\ u[n + 1 + 1] = u[n + 1] \o cs[n + 1 + 1].lines
              /\ u[n + 1] \in Seq(Nat) /\ cs[n + 1 + 1].lines \in Seq(Nat)
          BY <1>6, <1>7, <2>3, <3>1, <4>1
        <4>3. 1 \in 1 .. Len(u[n + 1]) /\ Len(u[n + 1]) \in Nat
          BY <4>1, <4>2
        <4>4. /\ u[n + 1 + 1][1] = u[n + 1][1]
              /\ Len(u[n + 1 + 1]) = Len(u[n + 1]) + Len(cs[n + 1 + 1].lines)
          <5> DEFINE v == u[n + 1]
                     w == cs[n + 1 + 1].lines
          <5>1. v \in Seq(Nat) /\ w \in Seq(Nat) /\ 1 \in 1 .. Len(v)
            BY <4>2, <4>3
          <5> HIDE DEF v, w
          <5>2. (v \o w)[1] = v[1] /\ Len(v \o w) = Len(v) + Len(w)
            BY <5>1, Concatenated
          <5> QED BY <4>2, <5>2 DEF v, w
        <4>5. u[n + 1 + 1] # <<>>
          BY <4>2, <4>3, <4>4
        <4> QED BY <4>1, <4>4, <4>5
      <3> QED BY <3>1
    <2>4. N - 1 \in Good
      <3>1. N - 1 \in Nat
        BY <1>5, <2>1
      <3> HIDE DEF Good
      <3> QED BY <2>2, <2>3, <3>1, Inductive
    <2>5. (N - 1) + 1 = N
      BY <1>5
    <2> QED BY <1>3, <1>5, <2>4, <2>5
  <1>12. s \in Seq(Nat)
    BY <1>3, <1>5
  <1> QED BY <1>8, <1>9, <1>10, <1>11, <1>12 DEF s

\* What is right about a chunk, given the lines that count, the tables and their headers, the
\* headings and the most lines of a chunk of text.
GoodChunk(c, F) ==
    /\ c \in Blocks!Chunk /\ c.lines # <<>>
    /\ Ascends(c.lines, F.counted) /\ Blocks!Range(c.lines) \subseteq F.text
    /\ \A t \in F.tables : \A x \in t[1] :
         x \in Blocks!Range(c.lines) => t[2] \subseteq Blocks!Range(c.lines)
    /\ c.type = "code" => Len(c.lines) <= CodeLines
    /\ c.type \in Blocks!Mergeable => Len(c.lines) <= F.longest
    /\ \A h \in Blocks!Range(c.path) : h \in F.headings /\ h < c.lines[1]

GoodChunks(cs, F) ==
    /\ cs \in Seq(Blocks!Chunk)
    /\ \A k \in 1 .. Len(cs) : GoodChunk(cs[k], F)
    /\ \A k, l \in 1 .. Len(cs) : k < l => Precedes(cs[k].lines, cs[l].lines, F.counted)

LEMMA CommonPathIs ==
  ASSUME NEW cs \in Seq(Blocks!Chunk), cs # <<>>
  PROVE  /\ Blocks!CommonPath(cs) \in Seq(Nat)
         /\ Blocks!Range(Blocks!CommonPath(cs)) \subseteq Blocks!Range(cs[1].path)
  <1> DEFINE p == cs[1].path
             S == {n \in 0 .. Len(p) : \A c \in Blocks!Range(cs) :
                     n <= Len(c.path) /\ SubSeq(c.path, 1, n) = SubSeq(p, 1, n)}
             n == Blocks!Max(S)
             r == SubSeq(p, 1, n)
  <1>1. p \in Seq(Nat) /\ Len(p) \in Nat
    <2>1. cs[1] \in Blocks!Chunk
      OBVIOUS
    <2>2. p \in Seq(Nat)
      BY <2>1 DEF Blocks!Chunk
    <2> QED BY <2>2
  <1>2. 0 \in S
    <2>1. ASSUME NEW c \in Blocks!Range(cs)
          PROVE  0 <= Len(c.path) /\ SubSeq(c.path, 1, 0) = SubSeq(p, 1, 0)
      <3>1. c \in Blocks!Chunk
        BY InRange
      <3>2. c.path \in Seq(Nat)
        BY <3>1 DEF Blocks!Chunk
      <3>3. SubSeq(c.path, 1, 0) = <<>> /\ SubSeq(p, 1, 0) = <<>>
        <4>1. 1 \in Int /\ 0 \in Int /\ 0 < 1
          OBVIOUS
        <4> QED BY <4>1, SubSeqEmpty
      <3> QED BY <3>2, <3>3
    <2> QED BY <1>1, <2>1
  <1>3. n \in S
    <2>1. S \in SUBSET Int /\ S # {} /\ Len(p) \in Int /\ \A m \in S : m <= Len(p)
      BY <1>1, <1>2
    <2> HIDE DEF S
    <2> QED BY <2>1, BlocksGreatest
  <1>4. n \in 0 .. Len(p)
    BY <1>3
  <1> HIDE DEF n
  <1>5. r \in Seq(Nat) /\ Blocks!Range(r) \subseteq Blocks!Range(p)
    <2>1. n = 0 => r = <<>>
      <3>1. 1 \in Int /\ 0 \in Int /\ 0 < 1
        OBVIOUS
      <3> QED BY <3>1, SubSeqEmpty
    <2>2. ASSUME n # 0
          PROVE  r \in Seq(Nat) /\ Len(r) = n /\ \A j \in 1 .. n : r[j] = p[j]
      <3>1. 1 \in Int /\ n \in Int /\ \A j \in 1 .. n : p[j] \in Nat
        BY <1>1, <1>4
      <3>2. /\ r \in Seq(Nat) /\ Len(r) = IF 1 <= n THEN n - 1 + 1 ELSE 0
            /\ \A j \in 1 .. n - 1 + 1 : r[j] = p[1 + j - 1]
        BY <3>1, SubSeqProperties
      <3>3. 1 <= n /\ n - 1 + 1 = n /\ \A j \in 1 .. n : 1 + j - 1 = j
        BY <1>4, <2>2
      <3> HIDE DEF r, p
      <3> QED BY <3>2, <3>3
    <2>3. CASE n = 0
      BY <2>1, <2>3 DEF Blocks!Range
    <2>4. CASE n # 0
      <3>1. \A j \in 1 .. n : j \in 1 .. Len(p) /\ r[j] = p[j]
        BY <1>1, <1>4, <2>2, <2>4
      <3> HIDE DEF r, p
      <3> QED BY <1>1, <2>2, <2>4, <3>1, InRange, SMTT(30)
    <2> QED BY <2>3, <2>4
  <1>6. Blocks!CommonPath(cs) = r
    BY DEF Blocks!CommonPath, n
  <1> QED BY <1>5, <1>6

\* Small chunks that are put together are as right as they were.
LEMMA MergedIsGood ==
  ASSUME NEW F, NEW cs, GoodChunks(cs, F), cs # <<>>,
         \A k \in 1 .. Len(cs) : cs[k].type \in Blocks!Mergeable,
         Len(cs) = 1 \/ Blocks!SizeOf(cs) <= F.longest, F.longest \in Nat
  PROVE  /\ GoodChunk(Blocks!Merged(cs), F)
         /\ \A x : x \in Blocks!Range(Blocks!Merged(cs).lines) <=> HasLine(cs, x)
  <1> DEFINE s == Blocks!LinesIn(cs)
             m == Blocks!Merged(cs)
             t == IF \A c \in Blocks!Range(cs) : c.type = cs[1].type THEN cs[1].type ELSE "para"
  <1>1. /\ cs \in Seq(Blocks!Chunk) /\ Len(cs) \in Nat /\ 1 \in 1 .. Len(cs)
        /\ \A k \in 1 .. Len(cs) : GoodChunk(cs[k], F) /\ cs[k] \in Blocks!Chunk
    BY DEF GoodChunks
  <1>2. CASE Len(cs) = 1
    <2>1. m = cs[1]
      BY <1>2 DEF Blocks!Merged
    <2>2. \A k : k \in 1 .. Len(cs) <=> k = 1
      BY <1>2
    <2> QED BY <1>1, <2>1, <2>2 DEF HasLine
  <1>3. CASE Len(cs) # 1
    <2>1. m = [lines |-> s, type |-> t, path |-> Blocks!CommonPath(cs)]
      BY <1>3 DEF Blocks!Merged
    <2>2. InOrder(cs, F.counted)
      BY <1>1 DEF GoodChunks, GoodChunk, InOrder
    <2>3. GoodChunk(cs[1], F) /\ cs[1].lines # <<>> /\ cs[1].type \in Blocks!Mergeable
      BY <1>1 DEF GoodChunk
    <2>4. /\ s \in Seq(Nat) /\ Len(s) <= Blocks!SizeOf(cs)
          /\ \A x : x \in Blocks!Range(s) <=> HasLine(cs, x)
          /\ Ascends(s, F.counted) /\ s # <<>> /\ s[1] = cs[1].lines[1]
      BY <1>1, <2>2, <2>3, Joined
    <2>5. Blocks!SizeOf(cs) \in Nat
      <3>1. PICK z : Sums(z, cs)
        BY <1>1, SizeOfUnrolls
      <3> QED BY <1>1, <3>1 DEF Sums
    <2>6. t \in Blocks!Mergeable /\ t \in Blocks!ChunkTypes /\ t # "code"
      <3>1. t = cs[1].type \/ t = "para"
        OBVIOUS
      <3> HIDE DEF t
      <3>2. t = "para" \/ t = "list" \/ t = "image"
        BY <2>3, <3>1 DEF Blocks!Mergeable
      <3> QED BY <3>2 DEF Blocks!Mergeable, Blocks!ChunkTypes
    <2> HIDE DEF s, t
    <2>7. m \in Blocks!Chunk /\ m.lines = s /\ m.type = t /\ m.path = Blocks!CommonPath(cs)
      <3>1. Blocks!CommonPath(cs) \in Seq(Nat)
        BY <1>1, CommonPathIs
      <3> HIDE DEF m
      <3> QED BY <2>1, <2>4, <2>6, <3>1 DEF Blocks!Chunk
    <2>8. ASSUME NEW a \in F.tables, NEW x \in a[1], x \in Blocks!Range(s)
          PROVE  a[2] \subseteq Blocks!Range(s)
      <3>1. PICK k \in 1 .. Len(cs) : x \in Blocks!Range(cs[k].lines)
        BY <2>4, <2>8 DEF HasLine
      <3>2. a[2] \subseteq Blocks!Range(cs[k].lines)
        BY <1>1, <2>8, <3>1 DEF GoodChunk
      <3> QED BY <2>4, <3>2 DEF HasLine
    <2>9. \A h \in Blocks!Range(m.path) : h \in F.headings /\ h < m.lines[1]
      BY <1>1, <2>3, <2>4, <2>7, CommonPathIs DEF GoodChunk
    <2>10. Len(s) \in Nat /\ Len(s) <= F.longest
      BY <1>3, <2>4, <2>5
    <2>11. Blocks!Range(s) \subseteq F.text
      BY <1>1, <2>4 DEF HasLine, GoodChunk
    <2> HIDE DEF m
    <2>12. GoodChunk(m, F)
      BY <2>4, <2>6, <2>7, <2>8, <2>9, <2>10, <2>11 DEF GoodChunk
    <2> QED BY <2>4, <2>7, <2>12 DEF m
  <1> QED BY <1>2, <1>3

\* What a block is made of, and what its pieces are to be: S are the lines that count.
Within(b) == b.from .. b.to

TableLines == {"row", "sep", "rule", "blank"}

Made(t, b) ==
    /\ b.from \in Nat /\ b.to \in Nat /\ 1 <= b.from /\ b.from <= b.to /\ b.to <= Len(t)
    /\ b.kind = "heading" => t[b.from] = "heading"
    /\ b.kind \in {"heading", "image"} => b.from = b.to
    /\ b.kind = "table" => \A p \in Within(b) : t[p] \in TableLines
    /\ b.kind = "list" =>
         /\ t[b.from] = "item"
         /\ \A p \in Within(b) : t[p] \in {"item", "blank"}
         /\ \A p \in Within(b) : p < b.to /\ t[p] = "blank" => t[p + 1] = "item"

MadeOf(b) == Made(s1, b)

MakeUp(ps, b, S) ==
    /\ ps \in Seq(Seq(Nat))
    /\ \A k \in 1 .. Len(ps) :
         ps[k] # <<>> /\ Ascends(ps[k], S) /\ Blocks!Range(ps[k]) \subseteq Within(b)
    /\ \A k, l \in 1 .. Len(ps) : k < l => Precedes(ps[k], ps[l], S)
    /\ \A p \in S : p \in Within(b) => \E k \in 1 .. Len(ps) : p \in Blocks!Range(ps[k])

LEMMA CutMakesUp ==
  ASSUME NEW ps, NEW T, CutInto(ps, T), NEW b, NEW S,
         T \subseteq Within(b), \A p \in S : p \in Within(b) => p \in T
  PROVE  MakeUp(ps, b, S)
  BY DEF CutInto, MakeUp, Ascends, Strictly, Precedes

LEMMA WholeIsCut ==
  ASSUME NEW a \in Nat, NEW b \in Nat, a <= b
  PROVE  /\ CutInto(<<Blocks!LinesOf(a, b)>>, a .. b)
         /\ Strictly(Blocks!LinesOf(a, b)) /\ Len(Blocks!LinesOf(a, b)) = b - a + 1
  <1> DEFINE s == Blocks!LinesOf(a, b)
             ps == <<s>>
  <1>1. /\ s \in Seq(Nat) /\ Len(s) = b - a + 1 /\ Blocks!Range(s) = a .. b
        /\ \A k \in 1 .. Len(s) : s[k] = a + k - 1
    <2>1. a <= b + 1
      OBVIOUS
    <2> QED BY <2>1, LinesOfIs
  <1> HIDE DEF s
  <1>2. Strictly(s)
    BY <1>1 DEF Strictly
  <1>3. s # <<>>
    BY <1>1
  <1>4. ps \in Seq(Seq(Nat)) /\ Len(ps) = 1 /\ ps[1] = s
    BY <1>1
  <1>5. \A k : k \in 1 .. Len(ps) <=> k = 1
    BY <1>4
  <1> HIDE DEF ps
  <1>6. CutInto(ps, a .. b)
    BY <1>1, <1>2, <1>3, <1>4, <1>5 DEF CutInto
  <1> QED BY <1>1, <1>2, <1>6 DEF s, ps

LEMMA CodeMakesUp ==
  ASSUME Blocks!BlockAssumption, NEW b, MadeOf(b), NEW S
  PROVE  /\ MakeUp(Blocks!CodePieces(b), b, S)
         /\ \A k \in 1 .. Len(Blocks!CodePieces(b)) : Len(Blocks!CodePieces(b)[k]) <= CodeLines
  <1> DEFINE s == Blocks!LinesOf(b.from, b.to)
  <1>1. b.from \in Nat /\ b.to \in Nat /\ b.from <= b.to /\ CodeLines \in Nat \ {0}
    BY DEF MadeOf, Made, Blocks!BlockAssumption
  <1>2. s \in Seq(Nat) /\ Blocks!Range(s) = Within(b) /\ Strictly(s)
    <2>1. b.from <= b.to + 1
      BY <1>1
    <2>2. s \in Seq(Nat) /\ Blocks!Range(s) = b.from .. b.to
      BY <1>1, <2>1, LinesOfIs
    <2>3. Strictly(s)
      BY <1>1, WholeIsCut
    <2> HIDE DEF s
    <2> QED BY <2>2, <2>3 DEF Within
  <1> HIDE DEF s
  <1>3. /\ CutInto(Blocks!Split(s, CodeLines), Within(b))
        /\ \A k \in 1 .. Len(Blocks!Split(s, CodeLines)) :
             Len(Blocks!Split(s, CodeLines)[k]) <= CodeLines
    BY <1>1, <1>2, SplitIs
  <1>4. Blocks!CodePieces(b) = Blocks!Split(s, CodeLines)
    BY DEF Blocks!CodePieces, s
  <1> QED BY <1>3, <1>4, CutMakesUp

\* The lines of some kinds in a block, and in a list at most one blank after each item.
LEMMA OfKindsIs ==
  ASSUME NEW b, MadeOf(b), NEW kinds
  PROVE  LET T == Blocks!OfKinds(b, kinds) IN
         T \in SUBSET Nat /\ IsFiniteSet(T) /\ T \subseteq Within(b)
         /\ \A p \in Within(b) : p \in T <=> s1[p] \in kinds
  <1> DEFINE T == Blocks!OfKinds(b, kinds)
  <1>1. b.from \in Nat /\ b.to \in Nat
    BY DEF MadeOf, Made
  <1>2. T \subseteq Within(b) /\ \A p \in Within(b) : p \in T <=> s1[p] \in kinds
    BY DEF Blocks!OfKinds, Within
  <1> HIDE DEF T
  <1>3. IsFiniteSet(Within(b)) /\ Within(b) \in SUBSET Nat
    <2>1. b.from \in Int /\ b.to \in Int
      BY <1>1
    <2>2. IsFiniteSet(b.from .. b.to)
      BY <2>1, FS_Interval
    <2> QED BY <1>1, <2>2 DEF Within
  <1>4. IsFiniteSet(T) /\ T \in SUBSET Nat
    BY <1>2, <1>3, FS_Subset
  <1> QED BY <1>2, <1>4 DEF T

LEMMA ListLength ==
  ASSUME NEW b, MadeOf(b), b.kind = "list"
  PROVE  b.to - b.from + 1 <= 2 * Cardinality(Blocks!OfKinds(b, {"item"}))
  <1> DEFINE I == Blocks!OfKinds(b, {"item"})
             B == Blocks!OfKinds(b, {"blank"})
             f == [p \in B |-> p - 1]
  <1>1. /\ b.from \in Nat /\ b.to \in Nat /\ b.from <= b.to /\ s1[b.from] = "item"
        /\ \A p \in Within(b) : s1[p] \in {"item", "blank"}
        /\ \A p \in Within(b) : p < b.to /\ s1[p] = "blank" => s1[p + 1] = "item"
    BY DEF MadeOf, Made
  <1>2. /\ I \in SUBSET Nat /\ IsFiniteSet(I) /\ I \subseteq Within(b)
        /\ \A p \in Within(b) : p \in I <=> s1[p] \in {"item"}
    BY OfKindsIs
  <1>3. /\ B \in SUBSET Nat /\ IsFiniteSet(B) /\ B \subseteq Within(b)
        /\ \A p \in Within(b) : p \in B <=> s1[p] \in {"blank"}
    BY OfKindsIs
  <1> HIDE DEF I, B
  <1>4. ASSUME NEW p \in B PROVE f[p] \in I
    <2>1. p \in Within(b) /\ p # b.from /\ s1[p] = "blank" /\ p \in Nat
      BY <1>1, <1>3, <1>4
    <2>2. p - 1 \in Within(b) /\ p - 1 < b.to /\ (p - 1) + 1 = p
      BY <1>1, <2>1 DEF Within
    <2>3. s1[p - 1] = "item"
      BY <1>1, <2>1, <2>2
    <2> QED BY <1>2, <1>4, <2>2, <2>3
  <1>5. \A p, q \in B : p # q => f[p] # f[q]
    BY <1>3
  <1> DEFINE A == {f[p] : p \in B}
  <1>6. IsFiniteSet(A) /\ Cardinality(A) = Cardinality(B)
    <2> HIDE DEF f
    <2> QED BY <1>3, <1>5, SameSize
  <1>7. A \subseteq I
    BY <1>4
  <1> HIDE DEF A
  <1>8. Cardinality(B) <= Cardinality(I)
    BY <1>2, <1>6, <1>7, FS_Subset
  <1>9. I \cup B = Within(b) /\ I \cap B = {}
    BY <1>1, <1>2, <1>3
  <1>10. Cardinality(I \cup B) = Cardinality(I) + Cardinality(B) - Cardinality(I \cap B)
    BY <1>2, <1>3, FS_Union
  <1>11. Cardinality({}) = 0 /\ Cardinality(I) \in Nat /\ Cardinality(B) \in Nat
    BY <1>2, <1>3, FS_EmptySet, FS_CardinalityType
  <1>12. Cardinality(Within(b)) = b.to - b.from + 1
    <2>1. b.from \in Int /\ b.to \in Int /\ ~(b.from > b.to)
      BY <1>1
    <2>2. Cardinality(b.from .. b.to) = IF b.from > b.to THEN 0 ELSE b.to - b.from + 1
      BY <2>1, FS_Interval
    <2> QED BY <2>1, <2>2 DEF Within
  <1>13. Cardinality(Within(b)) <= 2 * Cardinality(I)
    <2>1. Cardinality(Within(b)) = Cardinality(I) + Cardinality(B) - 0
      BY <1>9, <1>10, <1>11
    <2>2. Cardinality(Within(b)) = Cardinality(I) + Cardinality(B)
      BY <1>11, <2>1
    <2>3. \A m, n \in Nat : n <= m => m + n <= 2 * m
      OBVIOUS
    <2> QED BY <1>8, <1>11, <2>2, <2>3
  <1> QED BY <1>12, <1>13 DEF I

Longest == Blocks!Max({s3, MaxSize, 2 * ListItems, 2 * MinSize})

LEMMA LongestIs ==
  ASSUME Blocks!BlockAssumption, s3 \in Targets
  PROVE  /\ Longest \in Nat /\ s3 \in Nat /\ 1 <= s3 /\ s3 <= Longest /\ MaxSize <= Longest
         /\ 2 * ListItems <= Longest /\ 2 * MinSize <= Longest
         /\ Blocks!Max({s3, MaxSize}) <= Longest
  <1> DEFINE S == {s3, MaxSize, 2 * ListItems, 2 * MinSize}
             b == s3 + MaxSize + 2 * ListItems + 2 * MinSize
  <1>1. s3 \in Nat /\ 1 <= s3 /\ MaxSize \in Nat /\ ListItems \in Nat /\ MinSize \in Nat
    BY DEF Blocks!BlockAssumption
  <1>2. /\ 2 * ListItems \in Nat /\ 2 * MinSize \in Nat /\ b \in Int
        /\ s3 <= b /\ MaxSize <= b /\ 2 * ListItems <= b /\ 2 * MinSize <= b
    BY <1>1
  <1>3. S \in SUBSET Int /\ S # {} /\ \A p \in S : p <= b
    BY <1>1, <1>2
  <1>4. Longest \in S /\ \A p \in S : p <= Longest
    <2> HIDE DEF b
    <2>1. Blocks!Max(S) \in S /\ \A p \in S : p <= Blocks!Max(S)
      <3> HIDE DEF S
      <3> QED BY <1>2, <1>3, BlocksGreatest
    <2> QED BY <2>1 DEF Longest
  <1>5. Blocks!Max({s3, MaxSize}) = s3 \/ Blocks!Max({s3, MaxSize}) = MaxSize
    <2>1. {s3, MaxSize} \in SUBSET Int /\ {s3, MaxSize} # {}
      BY <1>1
    <2>2. \A p \in {s3, MaxSize} : p <= b
      BY <1>2
    <2> HIDE DEF b
    <2>3. Blocks!Max({s3, MaxSize}) \in {s3, MaxSize}
      BY <1>2, <2>1, <2>2, BlocksGreatest
    <2> QED BY <2>3
  <1> HIDE DEF b
  <1> QED BY <1>1, <1>2, <1>4, <1>5

LEMMA ListMakesUp ==
  ASSUME Blocks!BlockAssumption, NEW b, MadeOf(b), b.kind = "list",
         NEW S, \A p \in S : s1[p] # "blank"
  PROVE  /\ MakeUp(Blocks!ListPieces(b), b, S)
         /\ \A k \in 1 .. Len(Blocks!ListPieces(b)) :
              Len(Blocks!ListPieces(b)[k]) <= 2 * ListItems
  <1> DEFINE I == Blocks!OfKinds(b, {"item"})
             r == Blocks!Rising(I)
             s == Blocks!LinesOf(b.from, b.to)
  <1>1. /\ I \in SUBSET Nat /\ IsFiniteSet(I) /\ I \subseteq Within(b)
        /\ \A p \in Within(b) : p \in I <=> s1[p] \in {"item"}
        /\ Cardinality(I) \in Nat
    BY OfKindsIs, FS_CardinalityType
  <1>2. /\ b.from \in Nat /\ b.to \in Nat /\ b.from <= b.to
        /\ \A p \in Within(b) : s1[p] \in {"item", "blank"}
        /\ ListItems \in Nat \ {0}
    BY DEF MadeOf, Made, Blocks!BlockAssumption
  <1>3. \A p \in S : p \in Within(b) => p \in I
    BY <1>1, <1>2
  <1>4. b.to - b.from + 1 <= 2 * Cardinality(I)
    BY ListLength
  <1> HIDE DEF I
  <1>5. CASE Blocks!Cardinality(I) <= ListItems
    <2>1. Blocks!ListPieces(b) = <<s>>
      BY <1>5 DEF Blocks!ListPieces, I
    <2>2. CutInto(<<s>>, Within(b)) /\ Len(s) = b.to - b.from + 1
      BY <1>2, WholeIsCut DEF Within
    <2> HIDE DEF s
    <2>3. MakeUp(<<s>>, b, S)
      BY <2>2, CutMakesUp
    <2>4. Len(s) <= 2 * ListItems
      BY <1>1, <1>2, <1>4, <1>5, <2>2, BlocksFinite
    <2> QED BY <2>1, <2>3, <2>4
  <1>6. CASE ~(Blocks!Cardinality(I) <= ListItems)
    <2>1. Blocks!ListPieces(b) = Blocks!Split(r, ListItems)
      BY <1>6 DEF Blocks!ListPieces, I
    <2>2. r \in Seq(Nat) /\ Blocks!Range(r) = I /\ Strictly(r)
      BY <1>1, BlocksRising DEF Strictly
    <2> HIDE DEF r
    <2>3. /\ CutInto(Blocks!Split(r, ListItems), I)
          /\ \A k \in 1 .. Len(Blocks!Split(r, ListItems)) :
               Len(Blocks!Split(r, ListItems)[k]) <= ListItems
      BY <1>2, <2>2, SplitIs
    <2>4. MakeUp(Blocks!Split(r, ListItems), b, S)
      BY <1>1, <1>3, <2>3, CutMakesUp
    <2>5. ASSUME NEW k \in 1 .. Len(Blocks!Split(r, ListItems))
          PROVE  Len(Blocks!Split(r, ListItems)[k]) <= 2 * ListItems
      <3>1. Blocks!Split(r, ListItems)[k] \in Seq(Nat)
        BY <2>3, <2>5 DEF CutInto
      <3>2. Len(Blocks!Split(r, ListItems)[k]) \in Nat
        BY <3>1
      <3>3. \A m, n \in Nat : m <= n => m <= 2 * n
        OBVIOUS
      <3> QED BY <1>2, <2>3, <3>2, <3>3
    <2> QED BY <2>1, <2>4, <2>5
  <1> QED BY <1>5, <1>6

LEMMA ParaMakesUp ==
  ASSUME Blocks!BlockAssumption, s3 \in Targets, NEW b, MadeOf(b), NEW S,
         NEW ps \in Blocks!ParaPieces(b)
  PROVE  MakeUp(ps, b, S) /\ \A k \in 1 .. Len(ps) : Len(ps[k]) <= Longest
  <1> DEFINE a == b.from
             z == b.to
             M == Blocks!Max({s3, MaxSize})
  <1>1. a \in Nat /\ 1 <= a /\ z \in Nat /\ a <= z /\ MaxSize \in Nat
    BY DEF MadeOf, Made, Blocks!BlockAssumption
  <1>2. CASE z - a + 1 <= MaxSize
    <2>1. ps = <<Blocks!LinesOf(a, z)>>
      BY <1>2 DEF Blocks!ParaPieces
    <2>2. /\ CutInto(<<Blocks!LinesOf(a, z)>>, Within(b))
          /\ Len(Blocks!LinesOf(a, z)) = z - a + 1
      BY <1>1, WholeIsCut DEF Within
    <2>3. MakeUp(ps, b, S)
      BY <2>1, <2>2, CutMakesUp
    <2>4. z - a + 1 <= Longest
      BY <1>1, <1>2, LongestIs
    <2> QED BY <2>1, <2>2, <2>3, <2>4
  <1>3. CASE ~(z - a + 1 <= MaxSize)
    <2>1. PICK T \in SUBSET (a .. z) :
            LET e == Blocks!Rising(T \cup {z}) IN
            /\ ps = [k \in DOMAIN e |->
                       Blocks!LinesOf(IF k = 1 THEN a ELSE e[k - 1] + 1, e[k])]
            /\ \A k \in DOMAIN e :
                 LET n == e[k] - (IF k = 1 THEN a - 1 ELSE e[k - 1]) IN
                 n <= Blocks!Max({s3, MaxSize}) /\ (e[k] # z => n >= s3)
      <3>1. PICK ends \in {e \in {Blocks!Rising(U \cup {z}) : U \in SUBSET (a .. z)} :
                        \A k \in DOMAIN e :
                          LET n == e[k] - (IF k = 1 THEN a - 1 ELSE e[k - 1]) IN
                          n <= Blocks!Max({s3, MaxSize}) /\ (e[k] # z => n >= s3)} :
              ps = [k \in DOMAIN ends |->
                      Blocks!LinesOf(IF k = 1 THEN a ELSE ends[k - 1] + 1, ends[k])]
        BY <1>3 DEF Blocks!ParaPieces
      <3> QED BY <3>1
    <2> DEFINE E == T \cup {z}
               e == Blocks!Rising(E)
               N == Cardinality(E)
               start == [k \in 1 .. N |-> IF k = 1 THEN a ELSE e[k - 1] + 1]
    <2>2. E \in SUBSET Nat /\ E \subseteq Within(b) /\ IsFiniteSet(E)
      <3>1. E \subseteq a .. z
        <4>1. z \in a .. z /\ T \subseteq a .. z
          BY <1>1, <2>1
        <4> QED BY <4>1
      <3>2. a \in Int /\ z \in Int
        BY <1>1
      <3>3. IsFiniteSet(a .. z)
        BY <3>2, FS_Interval
      <3> QED BY <1>1, <3>1, <3>3, FS_Subset DEF Within
    <2>3. /\ N \in Nat /\ e \in [1 .. N -> E] /\ DOMAIN e = 1 .. N /\ Blocks!Range(e) = E
          /\ \A i, j \in 1 .. N : i < j => e[i] < e[j]
      <3> HIDE DEF E
      <3> QED BY <2>2, BlocksRising
    <2>4. z \in E
      OBVIOUS
    <2> HIDE DEF E, e, N
    <2>5. ps = [k \in 1 .. N |-> Blocks!LinesOf(start[k], e[k])]
      <3>1. ps = [k \in 1 .. N |-> Blocks!LinesOf(IF k = 1 THEN a ELSE e[k - 1] + 1, e[k])]
        BY <2>1, <2>3 DEF E, e
      <3> QED BY <3>1
    <2>6. ASSUME NEW k \in 1 .. N
          PROVE  e[k] \in Nat /\ a <= e[k] /\ e[k] <= z
      <3>1. e[k] \in E
        BY <2>3, <2>6
      <3>2. e[k] \in Within(b)
        BY <2>2, <3>1
      <3>3. e[k] \in a .. z
        BY <3>2 DEF Within
      <3> QED BY <1>1, <3>3
    <2>7. ASSUME NEW k \in 1 .. N
          PROVE  /\ start[k] \in Nat /\ a <= start[k] /\ start[k] <= e[k]
                 /\ e[k] - start[k] + 1 <= M
      <3>1. CASE k = 1
        <4>1. start[k] = a
          BY <3>1
        <4>2. e[k] - (a - 1) <= M
          BY <2>1, <2>3, <3>1 DEF E, e
        <4>3. e[k] - (a - 1) = e[k] - a + 1
          BY <1>1, <2>6
        <4> HIDE DEF M
        <4> QED BY <1>1, <2>6, <4>1, <4>2, <4>3
      <3>2. CASE k # 1
        <4>1. start[k] = e[k - 1] + 1 /\ k - 1 \in 1 .. N /\ k - 1 < k
          BY <2>3, <3>2
        <4>2. e[k] - e[k - 1] <= M
          BY <2>1, <2>3, <3>2 DEF E, e
        <4>3. e[k - 1] < e[k] /\ e[k - 1] \in Nat /\ a <= e[k - 1]
          BY <2>3, <2>6, <4>1
        <4>4. e[k] - (e[k - 1] + 1) + 1 = e[k] - e[k - 1]
          BY <2>6, <4>3
        <4> HIDE DEF M
        <4> QED BY <1>1, <2>6, <4>1, <4>2, <4>3, <4>4
      <3> QED BY <3>1, <3>2
    <2>8. ASSUME NEW k \in 1 .. N
          PROVE  /\ ps[k] = Blocks!LinesOf(start[k], e[k]) /\ ps[k] \in Seq(Nat)
                 /\ Blocks!Range(ps[k]) = start[k] .. e[k] /\ Strictly(ps[k])
                 /\ ps[k] # <<>> /\ Len(ps[k]) <= Longest
      <3> DEFINE c == start[k]
                 d == e[k]
                 s == Blocks!LinesOf(c, d)
      <3>1. c \in Nat /\ d \in Nat /\ c <= d /\ d - c + 1 <= M
        BY <2>6, <2>7
      <3>2. ps[k] = s
        BY <2>5
      <3> HIDE DEF c, d, M
      <3>3. s \in Seq(Nat) /\ Blocks!Range(s) = c .. d /\ Len(s) = d - c + 1
        <4>1. c <= d + 1
          BY <3>1
        <4> QED BY <3>1, <4>1, LinesOfIs
      <3>4. Strictly(s)
        BY <3>1, WholeIsCut
      <3> HIDE DEF s
      <3>5. s # <<>> /\ Len(s) <= Longest
        <4>1. M <= Longest /\ Longest \in Nat
          BY LongestIs DEF M
        <4>2. M \in Int
          <5>1. s3 \in Nat
            BY LongestIs
          <5> QED BY <1>1, <5>1 DEF M, Blocks!Max
        <4> QED BY <3>1, <3>3, <4>1, <4>2
      <3> QED BY <3>2, <3>3, <3>4, <3>5 DEF c, d, s
    <2>9. ASSUME NEW k \in 1 .. N, NEW l \in 1 .. N, k < l PROVE e[k] < start[l]
      <3>1. start[l] = e[l - 1] + 1 /\ l - 1 \in 1 .. N /\ k <= l - 1
        BY <2>3, <2>9
      <3>2. k = l - 1 \/ e[k] < e[l - 1]
        BY <2>3, <3>1
      <3> QED BY <2>6, <3>1, <3>2
    <2>10. ASSUME NEW p \in a .. z PROVE \E k \in 1 .. N : p \in start[k] .. e[k]
      <3> DEFINE K == {k \in 1 .. N : p <= e[k]}
      <3>1. K \in SUBSET Nat /\ K # {}
        <4>1. PICK k \in 1 .. N : e[k] = z
          <5>1. e \in Seq(E)
            BY <2>3
          <5>2. Len(e) = N
            BY <2>3
          <5> QED BY <2>3, <2>4, <5>1, <5>2, InRange
        <4>2. k \in K
          BY <4>1
        <4> QED BY <4>2
      <3>2. PICK k \in K : \A l \in K : k <= l
        <4> HIDE DEF K
        <4> QED BY <3>1, LeastExists
      <3>3. start[k] <= p
        <4>1. CASE k = 1
          BY <2>10, <4>1
        <4>2. CASE k # 1
          <5>1. start[k] = e[k - 1] + 1 /\ k - 1 \in 1 .. N /\ ~(k <= k - 1)
            BY <2>3, <3>2, <4>2
          <5>2. ~(p <= e[k - 1])
            BY <3>2, <5>1
          <5> QED BY <2>6, <2>10, <1>1, <5>1, <5>2
        <4> QED BY <4>1, <4>2
      <3>4. p \in start[k] .. e[k]
        BY <1>1, <2>6, <2>7, <2>10, <3>2, <3>3
      <3> QED BY <3>2, <3>4
    <2>11. ps \in Seq(Seq(Nat)) /\ Len(ps) = N
      <3>1. ps \in [1 .. N -> Seq(Nat)]
        <4>1. DOMAIN ps = 1 .. N /\ ps = [k \in 1 .. N |-> ps[k]]
          BY <2>5
        <4>2. \A k \in 1 .. N : ps[k] \in Seq(Nat)
          BY <2>8
        <4> QED BY <4>1, <4>2
      <3> QED BY <2>3, <3>1
    <2> HIDE DEF start
    <2>12. CutInto(ps, a .. z)
      <3>1. ASSUME NEW k \in 1 .. N PROVE Blocks!Range(ps[k]) \subseteq a .. z
        <4>1. /\ start[k] \in Nat /\ a <= start[k] /\ e[k] \in Nat /\ e[k] <= z
              /\ Blocks!Range(ps[k]) = start[k] .. e[k]
          BY <2>6, <2>7, <2>8
        <4> QED BY <1>1, <4>1
      <3>2. ASSUME NEW k \in 1 .. N, NEW l \in 1 .. N, k < l,
                   NEW x \in Blocks!Range(ps[k]), NEW y \in Blocks!Range(ps[l])
            PROVE  x < y
        <4>1. x \in start[k] .. e[k] /\ y \in start[l] .. e[l] /\ e[k] < start[l]
          BY <2>8, <2>9, <3>2
        <4>2. start[k] \in Nat /\ e[k] \in Nat /\ start[l] \in Nat /\ e[l] \in Nat
          BY <2>6, <2>7
        <4> QED BY <4>1, <4>2
      <3>3. ASSUME NEW x \in a .. z PROVE \E k \in 1 .. N : x \in Blocks!Range(ps[k])
        BY <2>8, <2>10, <3>3
      <3> QED BY <2>8, <2>11, <3>1, <3>2, <3>3 DEF CutInto
    <2>13. MakeUp(ps, b, S)
      BY <2>12, CutMakesUp DEF Within
    <2> QED BY <2>8, <2>11, <2>13
  <1> QED BY <1>2, <1>3

\* A table: each piece has the header, and the rows that count are in one of them.
LEMMA TableMakesUp ==
  ASSUME Blocks!BlockAssumption, NEW b, MadeOf(b), b.kind = "table",
         NEW S, \A p \in S : s1[p] \notin {"blank", "sep", "rule"},
         S \cap Blocks!Range(Blocks!HeaderOf(b)) = {}
  PROVE  /\ MakeUp(Blocks!TablePieces(b), b, S)
         /\ \A k \in 1 .. Len(Blocks!TablePieces(b)) :
              Blocks!Range(Blocks!HeaderOf(b)) \subseteq Blocks!Range(Blocks!TablePieces(b)[k])
         /\ Blocks!Range(Blocks!HeaderOf(b)) \subseteq Within(b)
  <1> DEFINE R == Blocks!Rules(b)
             A == {p \in Blocks!OfKinds(b, {"row"}) : R = {} \/ p < Blocks!Min(R)}
             B == {p \in Blocks!OfKinds(b, {"row"}) : R # {} /\ p > Blocks!Min(R)}
             h == Blocks!HeaderOf(b)
             d == Blocks!DataOf(b)
             sp == Blocks!Split(d, TableRows)
             ps == Blocks!TablePieces(b)
  <1>1. /\ b.from \in Nat /\ b.to \in Nat /\ b.from <= b.to
        /\ \A p \in Within(b) : s1[p] \in TableLines
        /\ TableRows \in Nat \ {0}
    BY DEF MadeOf, Made, Blocks!BlockAssumption
  <1>2. /\ Blocks!OfKinds(b, {"row"}) \in SUBSET Nat
        /\ IsFiniteSet(Blocks!OfKinds(b, {"row"}))
        /\ Blocks!OfKinds(b, {"row"}) \subseteq Within(b)
        /\ \A p \in Within(b) : p \in Blocks!OfKinds(b, {"row"}) <=> s1[p] \in {"row"}
    BY OfKindsIs
  <1>3. /\ R \in SUBSET Nat /\ R \subseteq Within(b)
        /\ \A p \in Within(b) : p \in R <=> s1[p] \in {"sep", "rule"}
    BY OfKindsIs DEF Blocks!Rules
  <1>4. /\ A \in SUBSET Nat /\ IsFiniteSet(A) /\ A \subseteq Within(b)
        /\ B \in SUBSET Nat /\ IsFiniteSet(B) /\ B \subseteq Within(b)
    <2>1. A \subseteq Blocks!OfKinds(b, {"row"}) /\ B \subseteq Blocks!OfKinds(b, {"row"})
      OBVIOUS
    <2> HIDE DEF A, B
    <2> QED BY <1>2, <2>1, FS_Subset
  <1>5. h = Blocks!Rising(A) /\ d = Blocks!Rising(B)
    BY DEF Blocks!HeaderOf, Blocks!DataOf
  <1>6. h \in Seq(Nat) /\ Blocks!Range(h) = A
    <2> HIDE DEF A, h
    <2> QED BY <1>4, <1>5, BlocksRising
  <1>7. d \in Seq(Nat) /\ Blocks!Range(d) = B /\ Strictly(d)
    <2> HIDE DEF B, d
    <2> QED BY <1>4, <1>5, BlocksRising DEF Strictly
  <1>8. ASSUME NEW p \in S, p \in Within(b) PROVE p \in B
    <2>1. s1[p] = "row" /\ p \notin A /\ p \in Nat
      BY <1>1, <1>6, <1>8 DEF TableLines, Within
    <2>2. p \in Blocks!OfKinds(b, {"row"})
      BY <1>2, <1>8, <2>1
    <2>3. R # {} /\ ~(p < Blocks!Min(R))
      BY <2>1, <2>2
    <2>4. Blocks!Min(R) \in R
      BY <1>3, <2>3, BlocksLeast
    <2>5. s1[Blocks!Min(R)] \in {"sep", "rule"} /\ Blocks!Min(R) \in Nat
      BY <1>3, <2>4
    <2>6. p # Blocks!Min(R)
      BY <2>1, <2>5
    <2>7. p > Blocks!Min(R)
      BY <2>1, <2>3, <2>5, <2>6
    <2> QED BY <2>2, <2>3, <2>7
  <1>9. CASE d = <<>>
    <2> DEFINE s == Blocks!LinesOf(b.from, b.to)
    <2>1. ps = <<s>>
      BY <1>9 DEF Blocks!TablePieces
    <2>2. CutInto(<<s>>, Within(b)) /\ Blocks!Range(s) = Within(b)
      <3>1. b.from <= b.to + 1
        BY <1>1
      <3> QED BY <1>1, <3>1, WholeIsCut, LinesOfIs DEF Within
    <2> HIDE DEF s
    <2>3. MakeUp(<<s>>, b, S)
      BY <2>2, CutMakesUp
    <2>4. Len(<<s>>) = 1 /\ <<s>>[1] = s
      OBVIOUS
    <2>5. \A k : k \in 1 .. Len(<<s>>) => <<s>>[k] = s
      BY <2>4
    <2>6. Blocks!Range(h) \subseteq Within(b)
      BY <1>4, <1>6
    <2> HIDE DEF ps, h
    <2>7. /\ MakeUp(ps, b, S)
          /\ \A k \in 1 .. Len(ps) : Blocks!Range(h) \subseteq Blocks!Range(ps[k])
      BY <2>1, <2>2, <2>3, <2>5, <2>6
    <2> QED BY <2>6, <2>7 DEF ps, h
  <1>10. CASE d # <<>>
    <2> DEFINE x == Blocks!Max(R)
               g == h \o <<x>>
    <2>1. R # {}
      <3>1. 1 \in 1 .. Len(d)
        BY <1>7, <1>10
      <3>2. d[1] \in Blocks!Range(d)
        BY <1>7, <3>1, InRange
      <3> QED BY <1>7, <3>2
    <2>2. x \in R
      <3>1. \A p \in R : p <= b.to
        BY <1>1, <1>3 DEF Within
      <3>2. R \in SUBSET Int /\ b.to \in Int
        BY <1>1, <1>3
      <3> HIDE DEF R
      <3> QED BY <2>1, <3>1, <3>2, BlocksGreatest
    <2>3. x \in Nat /\ x \in Within(b) /\ x \notin S
      BY <1>3, <2>2
    <2>4. CutInto(sp, B)
      <3> HIDE DEF d
      <3> QED BY <1>1, <1>7, SplitIs
    <2>5. sp \in Seq(Seq(Nat)) /\ Len(sp) \in Nat
      BY <2>4 DEF CutInto
    <2>6. ps = [k \in DOMAIN sp |-> h \o <<x>> \o sp[k]]
      BY <1>10 DEF Blocks!TablePieces
    <2> HIDE DEF x, R, A, B, d, h, sp, ps
    <2>7. /\ g \in Seq(Nat) /\ g # <<>>
          /\ \A y : y \in Blocks!Range(g) <=> y \in A \/ y = x
      <3> DEFINE o == <<x>>
      <3>1. o \in Seq(Nat) /\ Len(o) = 1 /\ o[1] = x
        BY <2>3
      <3> HIDE DEF o
      <3>2. \A y : y \in Blocks!Range(o) <=> y = x
        <4>1. \A y : y \in Blocks!Range(o) <=> \E j \in 1 .. Len(o) : y = o[j]
          BY <3>1, InRange
        <4>2. \A j : j \in 1 .. Len(o) <=> j = 1
          BY <3>1
        <4> QED BY <3>1, <4>1, <4>2
      <3>3. /\ g \in Seq(Nat) /\ Len(g) = Len(h) + 1
            /\ \A y : y \in Blocks!Range(g) <=> y \in Blocks!Range(h) \/ y \in Blocks!Range(o)
        <4>1. /\ h \o o \in Seq(Nat) /\ Len(h \o o) = Len(h) + Len(o)
              /\ \A y : y \in Blocks!Range(h \o o)
                          <=> y \in Blocks!Range(h) \/ y \in Blocks!Range(o)
          BY <1>6, <3>1, Concatenated
        <4> QED BY <3>1, <4>1 DEF o
      <3>4. Len(h) \in Nat
        BY <1>6
      <3> HIDE DEF g
      <3> QED BY <1>6, <3>2, <3>3, <3>4
    <2>8. \A y \in Blocks!Range(g) : y \notin S /\ y \in Within(b)
      BY <1>4, <1>6, <2>3, <2>7 DEF h
    <2> HIDE DEF g
    <2>9. Ascends(g, S)
      <3>1. \A j \in 1 .. Len(g) : g[j] \in Blocks!Range(g)
        BY <2>7, InRange
      <3> QED BY <2>8, <3>1 DEF Ascends
    <2>10. ps \in Seq(Seq(Nat)) /\ Len(ps) = Len(sp) /\ \A k \in 1 .. Len(sp) : ps[k] = g \o sp[k]
      <3>1. DOMAIN sp = 1 .. Len(sp) /\ \A k \in 1 .. Len(sp) : sp[k] \in Seq(Nat)
        BY <2>5
      <3>2. ps = [k \in 1 .. Len(sp) |-> g \o sp[k]]
        BY <2>6, <3>1 DEF g
      <3>3. \A k \in 1 .. Len(sp) : g \o sp[k] \in Seq(Nat)
        BY <2>7, <3>1, Concatenated
      <3>4. ps \in [1 .. Len(sp) -> Seq(Nat)]
        BY <3>2, <3>3
      <3>5. ps \in Seq(Seq(Nat)) /\ Len(ps) = Len(sp)
        <4> DEFINE N == Len(sp)
        <4>1. N \in Nat /\ ps \in [1 .. N -> Seq(Nat)]
          BY <2>5, <3>4
        <4> HIDE DEF N
        <4>2. ps \in Seq(Seq(Nat)) /\ Len(ps) = N
          BY <4>1
        <4> QED BY <4>2 DEF N
      <3> QED BY <3>2, <3>5
    <2>11. ASSUME NEW k \in 1 .. Len(sp)
           PROVE  /\ ps[k] # <<>> /\ Ascends(ps[k], S)
                  /\ \A y : y \in Blocks!Range(ps[k])
                              <=> y \in Blocks!Range(g) \/ y \in Blocks!Range(sp[k])
      <3>1. sp[k] \in Seq(Nat) /\ Strictly(sp[k])
        BY <2>4, <2>5 DEF CutInto
      <3>2. Ascends(sp[k], S)
        BY <3>1 DEF Strictly, Ascends
      <3>3. Precedes(g, sp[k], S)
        BY <2>8 DEF Precedes
      <3>4. Ascends(g \o sp[k], S)
        BY <2>7, <2>9, <3>1, <3>2, <3>3, ConcatAscends
      <3>5. /\ Len(g \o sp[k]) = Len(g) + Len(sp[k]) /\ g \o sp[k] \in Seq(Nat)
            /\ \A y : y \in Blocks!Range(g \o sp[k])
                        <=> y \in Blocks!Range(g) \/ y \in Blocks!Range(sp[k])
        BY <2>7, <3>1, Concatenated
      <3>6. Len(g) \in Nat /\ Len(g) # 0 /\ Len(sp[k]) \in Nat
        BY <2>7, <3>1
      <3>7. g \o sp[k] # <<>>
        BY <3>5, <3>6
      <3> QED BY <2>10, <3>4, <3>5, <3>7
    <2>12. \A k \in 1 .. Len(sp) : Blocks!Range(sp[k]) \subseteq Within(b)
      BY <1>4, <2>4 DEF CutInto
    <2>13. ASSUME NEW k \in 1 .. Len(sp), NEW l \in 1 .. Len(sp), k < l
           PROVE  Precedes(ps[k], ps[l], S)
      <3>1. \A y \in Blocks!Range(sp[k]), z \in Blocks!Range(sp[l]) : y < z
        BY <2>4, <2>13 DEF CutInto
      <3> QED BY <2>8, <2>11, <3>1 DEF Precedes
    <2>14. ASSUME NEW p \in S, p \in Within(b)
           PROVE  \E k \in 1 .. Len(sp) : p \in Blocks!Range(ps[k])
      <3>1. PICK k \in 1 .. Len(sp) : p \in Blocks!Range(sp[k])
        BY <1>8, <2>4, <2>14 DEF CutInto
      <3> QED BY <2>11, <3>1
    <2>15. MakeUp(ps, b, S)
      BY <2>8, <2>10, <2>11, <2>12, <2>13, <2>14 DEF MakeUp
    <2>16. Blocks!Range(h) \subseteq Within(b)
      BY <1>4, <1>6
    <2>17. \A k \in 1 .. Len(ps) : Blocks!Range(h) \subseteq Blocks!Range(ps[k])
      BY <1>6, <2>7, <2>10, <2>11
    <2> QED BY <2>15, <2>16, <2>17 DEF ps, h
  <1> QED BY <1>9, <1>10

\* The scan: what has been found of a text t before line p, and what is open since line f.
BlockKinds == {"para", "code", "table", "list", "heading", "image"}

BlockSet == [kind : BlockKinds, from : Nat, to : Nat]

Found(t, bs) ==
    /\ bs \in Seq(BlockSet)
    /\ \A j \in 1 .. Len(bs) : Made(t, bs[j])
    /\ \A i, j \in 1 .. Len(bs) : i < j => bs[i].to < bs[j].from

InBlock(bs, p) == \E j \in 1 .. Len(bs) : p \in Within(bs[j])

Scanned(t, bs, p, o, f) ==
    /\ Found(t, bs) /\ p \in 1 .. Len(t) + 1
    /\ \A j \in 1 .. Len(bs) : bs[j].to < p
    /\ o # "none" =>
         /\ f \in Nat /\ 1 <= f /\ f < p
         /\ \A j \in 1 .. Len(bs) : bs[j].to < f
    /\ o = "table" => \A q \in 1 .. Len(t) : f <= q /\ q < p => t[q] \in TableLines
    /\ \A q \in 1 .. Len(t) : t[q] # "blank" /\ q < p =>
         InBlock(bs, q) \/ (o # "none" /\ f <= q)

\* A block after those that were found.
LEMMA FoundMore ==
  ASSUME NEW t, Len(t) \in Nat, NEW bs, Found(t, bs), NEW b \in BlockSet, Made(t, b),
         \A j \in 1 .. Len(bs) : bs[j].to < b.from
  PROVE  /\ Found(t, Append(bs, b))
         /\ \A q : InBlock(Append(bs, b), q) <=> InBlock(bs, q) \/ q \in Within(b)
         /\ \A e \in Nat : (\A j \in 1 .. Len(bs) : bs[j].to < e) /\ b.to < e =>
              \A j \in 1 .. Len(Append(bs, b)) : Append(bs, b)[j].to < e
  <1> DEFINE cs == Append(bs, b)
             n == Len(bs)
  <1>1. /\ n \in Nat /\ bs \in Seq(BlockSet)
        /\ \A j \in 1 .. n : Made(t, bs[j])
        /\ \A i, j \in 1 .. n : i < j => bs[i].to < bs[j].from
    BY DEF Found
  <1>2. /\ cs \in Seq(BlockSet) /\ Len(cs) = n + 1 /\ cs[n + 1] = b
        /\ \A j \in 1 .. n : cs[j] = bs[j]
    BY <1>1
  <1>3. \A j : j \in 1 .. n + 1 <=> j \in 1 .. n \/ j = n + 1
    BY <1>1
  <1>4. \A i, j \in 1 .. n + 1 : i < j => i \in 1 .. n
    BY <1>1
  <1> HIDE DEF cs, n
  <1>5. Found(t, cs)
    <2>1. \A j \in 1 .. n + 1 : Made(t, cs[j])
      BY <1>1, <1>2, <1>3
    <2>2. ASSUME NEW i \in 1 .. n + 1, NEW j \in 1 .. n + 1, i < j
          PROVE  cs[i].to < cs[j].from
      <3>1. i \in 1 .. n
        BY <1>4, <2>2
      <3>2. CASE j \in 1 .. n
        BY <1>1, <1>2, <2>2, <3>1, <3>2
      <3>3. CASE j = n + 1
        BY <1>2, <3>1, <3>3 DEF n
      <3> QED BY <1>3, <3>2, <3>3
    <2> QED BY <1>2, <2>1, <2>2 DEF Found
  <1>6. ASSUME NEW q PROVE InBlock(cs, q) <=> InBlock(bs, q) \/ q \in Within(b)
    BY <1>2, <1>3 DEF InBlock, n
  <1>7. ASSUME NEW e \in Nat, \A j \in 1 .. n : bs[j].to < e, b.to < e
        PROVE  \A j \in 1 .. n + 1 : cs[j].to < e
    BY <1>2, <1>3, <1>7
  <1> QED BY <1>2, <1>5, <1>6, <1>7 DEF cs, n

LEMMA FoundTypes ==
  ASSUME NEW t, NEW bs, Found(t, bs), NEW j \in 1 .. Len(bs)
  PROVE  /\ bs[j] \in BlockSet /\ bs[j].from \in Nat /\ bs[j].to \in Nat
         /\ 1 <= bs[j].from /\ bs[j].from <= bs[j].to /\ bs[j].to <= Len(t)
  <1>1. bs[j] \in BlockSet /\ Made(t, bs[j])
    BY DEF Found
  <1>2. bs[j].from \in Nat /\ bs[j].to \in Nat
    BY <1>1 DEF BlockSet
  <1> QED BY <1>1, <1>2 DEF Made

\* What is open ends before line p.
LEMMA ScanClose ==
  ASSUME NEW t, Len(t) \in Nat, NEW bs, NEW p, NEW o \in {"para", "code", "table"}, NEW f,
         Scanned(t, bs, p, o, f), NEW g
  PROVE  Scanned(t, Append(bs, Blocks!Block(o, f, p - 1)), p, "none", g)
  <1> DEFINE b == Blocks!Block(o, f, p - 1)
  <1>1. /\ Found(t, bs) /\ p \in 1 .. Len(t) + 1
        /\ \A j \in 1 .. Len(bs) : bs[j].to < p
        /\ f \in Nat /\ 1 <= f /\ f < p
        /\ \A j \in 1 .. Len(bs) : bs[j].to < f
        /\ o = "table" => \A q \in 1 .. Len(t) : f <= q /\ q < p => t[q] \in TableLines
        /\ \A q \in 1 .. Len(t) : t[q] # "blank" /\ q < p => InBlock(bs, q) \/ f <= q
    BY DEF Scanned
  <1>2. b.kind = o /\ b.from = f /\ b.to = p - 1 /\ b \in BlockSet
    <2>1. f \in Nat /\ p - 1 \in Nat /\ o \in BlockKinds
      BY <1>1 DEF BlockKinds
    <2> QED BY <2>1 DEF Blocks!Block, BlockSet
  <1> HIDE DEF b
  <1>3. Made(t, b)
    <2>1. f <= p - 1 /\ p - 1 <= Len(t) /\ p - 1 \in Nat
      BY <1>1
    <2>2. o \notin {"heading", "image", "list"}
      OBVIOUS
    <2>3. ASSUME o = "table", NEW q \in Within(b) PROVE t[q] \in TableLines
      <3>1. q \in 1 .. Len(t) /\ f <= q /\ q < p
        BY <1>1, <1>2, <2>3 DEF Within
      <3> QED BY <1>1, <2>3, <3>1
    <2> QED BY <1>1, <1>2, <2>1, <2>2, <2>3 DEF Made
  <1>4. /\ Found(t, Append(bs, b))
        /\ \A q : InBlock(Append(bs, b), q) <=> InBlock(bs, q) \/ q \in Within(b)
        /\ \A j \in 1 .. Len(Append(bs, b)) : Append(bs, b)[j].to < p
    <2>1. p \in Nat /\ b.to < p
      BY <1>1, <1>2
    <2> QED BY <1>1, <1>2, <1>3, <2>1, FoundMore
  <1>5. ASSUME NEW q \in 1 .. Len(t), t[q] # "blank", q < p PROVE InBlock(Append(bs, b), q)
    <2>1. CASE InBlock(bs, q)
      BY <1>4, <2>1
    <2>2. CASE f <= q
      <3>1. q \in Within(b)
        BY <1>1, <1>2, <1>5, <2>2 DEF Within
      <3> QED BY <1>4, <3>1
    <2> QED BY <1>1, <1>5, <2>1, <2>2
  <1>6. Scanned(t, Append(bs, b), p, "none", g)
    BY <1>1, <1>4, <1>5 DEF Scanned
  <1> QED BY <1>6 DEF b

\* A block stands at line p, where nothing is open.
LEMMA ScanAlone ==
  ASSUME NEW t, Len(t) \in Nat, NEW bs, NEW p, NEW f, Scanned(t, bs, p, "none", f),
         NEW b \in BlockSet, Made(t, b), b.from = p, NEW g
  PROVE  Scanned(t, Append(bs, b), b.to + 1, "none", g)
  <1>1. /\ Found(t, bs) /\ p \in 1 .. Len(t) + 1
        /\ \A j \in 1 .. Len(bs) : bs[j].to < p
        /\ \A q \in 1 .. Len(t) : t[q] # "blank" /\ q < p => InBlock(bs, q)
    BY DEF Scanned
  <1>2. b.to \in Nat /\ p <= b.to /\ b.to <= Len(t) /\ b.to + 1 \in 1 .. Len(t) + 1
    BY <1>1 DEF Made
  <1>3. \A j \in 1 .. Len(bs) : bs[j].to < b.to + 1
    BY <1>1, <1>2, FoundTypes
  <1>4. /\ Found(t, Append(bs, b))
        /\ \A q : InBlock(Append(bs, b), q) <=> InBlock(bs, q) \/ q \in Within(b)
        /\ \A j \in 1 .. Len(Append(bs, b)) : Append(bs, b)[j].to < b.to + 1
    <2>1. b.to + 1 \in Nat /\ b.to < b.to + 1
      BY <1>2
    <2> QED BY <1>1, <1>3, <2>1, FoundMore
  <1>5. ASSUME NEW q \in 1 .. Len(t), t[q] # "blank", q < b.to + 1
        PROVE  InBlock(Append(bs, b), q)
    <2>1. q < p \/ q \in Within(b)
      BY <1>1, <1>2, <1>5 DEF Within
    <2> QED BY <1>1, <1>4, <1>5, <2>1
  <1> QED BY <1>2, <1>4, <1>5 DEF Scanned

\* A blank line, a line that opens something, and a line of what is open.
LEMMA ScanLine ==
  ASSUME NEW t, Len(t) \in Nat, NEW bs, NEW p, NEW o, NEW f, Scanned(t, bs, p, o, f),
         p <= Len(t), NEW g
  PROVE  /\ o = "none" /\ t[p] = "blank" => Scanned(t, bs, p + 1, "none", g)
         /\ \A k \in {"para", "code", "table"} :
              o = "none" /\ (k = "table" => t[p] \in TableLines) => Scanned(t, bs, p + 1, k, p)
         /\ o # "none" /\ (o = "table" => t[p] \in TableLines) => Scanned(t, bs, p + 1, o, f)
  <1>1. /\ Found(t, bs) /\ p \in 1 .. Len(t) + 1
        /\ \A j \in 1 .. Len(bs) : bs[j].to < p
        /\ o # "none" =>
             /\ f \in Nat /\ 1 <= f /\ f < p
             /\ \A j \in 1 .. Len(bs) : bs[j].to < f
        /\ o = "table" => \A q \in 1 .. Len(t) : f <= q /\ q < p => t[q] \in TableLines
        /\ \A q \in 1 .. Len(t) : t[q] # "blank" /\ q < p =>
             InBlock(bs, q) \/ (o # "none" /\ f <= q)
    BY DEF Scanned
  <1>2. p \in Nat /\ p + 1 \in 1 .. Len(t) + 1 /\ \A q \in 1 .. Len(t) : q < p + 1 <=> q < p \/ q = p
    BY <1>1
  <1>3. \A j \in 1 .. Len(bs) : bs[j].to < p + 1
    BY <1>1, <1>2, FoundTypes
  <1>4. ASSUME o = "none", t[p] = "blank" PROVE Scanned(t, bs, p + 1, "none", g)
    BY <1>1, <1>2, <1>3, <1>4 DEF Scanned
  <1>5. ASSUME NEW k \in {"para", "code", "table"}, o = "none",
               k = "table" => t[p] \in TableLines
        PROVE  Scanned(t, bs, p + 1, k, p)
    <2>1. k # "none" /\ 1 <= p /\ p < p + 1 /\ \A q \in 1 .. Len(t) : p <= q /\ q < p + 1 => q = p
      BY <1>1, <1>2
    <2>2. p <= p
      BY <1>2
    <2> QED BY <1>1, <1>2, <1>3, <1>5, <2>1, <2>2 DEF Scanned
  <1>6. ASSUME o # "none", o = "table" => t[p] \in TableLines PROVE Scanned(t, bs, p + 1, o, f)
    <2>1. f < p + 1 /\ f <= p
      BY <1>1, <1>2, <1>6
    <2> QED BY <1>1, <1>2, <1>3, <1>6, <2>1 DEF Scanned
  <1> QED BY <1>4, <1>5, <1>6

\* What chunks are measured by: the lines that count, and so on.
Counted == {p \in 1 .. Len(s1) : Blocks!Counts(p)}

Facts ==
    [text |-> 1 .. Len(s1),
     counted |-> Counted,
     tables |-> {<<Within(s8[i]), Blocks!Range(Blocks!HeaderOf(s8[i]))>> :
                   i \in {j \in 1 .. Len(s8) : s8[j].kind = "table"}},
     headings |-> {h \in 1 .. Len(s1) : s1[h] = "heading"},
     longest |-> Longest]

LEMMA FactsStay ==
  ASSUME UNCHANGED <<s1, s3, s8>>
  PROVE  Facts' = Facts /\ Counted' = Counted
  <1>1. ASSUME NEW b PROVE Blocks!HeaderOf(b)' = Blocks!HeaderOf(b)
    <2> DEFINE A == {p \in Blocks!OfKinds(b, {"row"}) : Blocks!Rules(b) = {}
                                                        \/ p < Blocks!Min(Blocks!Rules(b))}
    <2>1. \A k : Blocks!OfKinds(b, k)' = Blocks!OfKinds(b, k)
      BY DEF Blocks!OfKinds
    <2>2. Blocks!Rules(b)' = Blocks!Rules(b)
      BY DEF Blocks!Rules, Blocks!OfKinds
    <2>3. A' = A
      <3> DEFINE R == Blocks!Rules(b)
                 m == Blocks!Min(R)
      <3>1. R' = R
        BY <2>2
      <3> HIDE DEF R
      <3>2. m' = m
        BY <3>1 DEF Blocks!Min
      <3> HIDE DEF m
      <3> QED BY <2>1, <3>1, <3>2 DEF R, m
    <2> HIDE DEF A
    <2>4. Blocks!Rising(A)' = Blocks!Rising(A)
      BY <2>3 DEF Blocks!Rising, Blocks!Cardinality
    <2> QED BY <2>4 DEF A, Blocks!HeaderOf
  <1> QED BY <1>1 DEF Facts, Counted, Blocks!Counts, Blocks!Repeated, Longest, Blocks!Max

\* The state of the chunker, phase by phase.
TextTypes == s2 \in {"blocks", "semantic"} /\ s3 \in Targets /\ s1 \in Blocks!Texts(s2)

Many == s2 = "semantic" /\ Blocks!Cardinality(Blocks!Paragraphs) > 1

Phases ==
    /\ s4 \in {"grouping", "scanning", "cutting", "packing", "done"}
    /\ s6 \in {"none", "para", "code", "table"}
    /\ s4 = "grouping" => Many
    /\ s4 \in {"scanning", "cutting"} => ~Many
    /\ s4 = "packing" => s2 = "blocks"

Fresh == s9 = 1 /\ s10 = <<>> /\ s11 = <<>> /\ s12 = <<>> /\ s13 = <<>>

Begun(p) == Cardinality({q \in Blocks!Paragraphs : q[1] <= p})

Grouping ==
    /\ s9 \in Nat /\ 1 <= s9 /\ s9 <= Cardinality(Blocks!Paragraphs) + 1
    /\ s11 \in Seq(Blocks!Chunk) /\ InOrder(s11, Blocks!NotBlank)
    /\ \A p : HasLine(s11, p) <=> p \in Blocks!NotBlank /\ Begun(p) < s9
    /\ s10 = <<>> /\ s13 = <<>>

Grouped ==
    /\ InOrder(s13, Blocks!NotBlank)
    /\ \A p : HasLine(s13, p) <=> p \in Blocks!NotBlank

Coming == s9 .. Len(s8)

Cutting ==
    /\ s9 \in Nat /\ 1 <= s9 /\ s9 <= Len(s8) + 1
    /\ GoodChunks(s11, Facts)
    /\ \A p : HasLine(s11, p) => \A j \in Coming : p < s8[j].from
    /\ \A p \in Counted : HasLine(s11, p) \/ \E j \in Coming : p \in Within(s8[j])
    /\ s10 \in Seq(Nat)
    /\ \A h \in Blocks!Range(s10) : h \in Facts.headings /\ \A j \in Coming : h < s8[j].from
    /\ s12 = <<>> /\ s13 = <<>>

Sectioning ==
    /\ s9 \in Nat /\ 1 <= s9
    /\ s11 \in Seq(Blocks!Chunk) /\ \A k \in 1 .. Len(s11) : s11[k].lines # <<>>
    /\ s10 = <<>> /\ s13 = <<>>

Waiting(p) == \E l \in 1 .. Len(s11) : s9 <= l /\ p \in Blocks!Range(s11[l].lines)

Packing ==
    /\ s9 \in Nat /\ 1 <= s9 /\ s9 <= Len(s11) + 1
    /\ GoodChunks(s11, Facts) /\ GoodChunks(s12, Facts) /\ GoodChunks(s13, Facts)
    /\ \A p, q \in Counted :
         /\ HasLine(s13, p) /\ (HasLine(s12, q) \/ Waiting(q)) => p < q
         /\ HasLine(s12, p) /\ Waiting(q) => p < q
    /\ \A p \in Counted : HasLine(s13, p) \/ HasLine(s12, p) \/ Waiting(p)
    /\ \A k \in 1 .. Len(s12) : s12[k].type \in Blocks!Mergeable
    /\ s12 # <<>> => Blocks!SizeOf(s12) < MinSize

Finished == GoodChunks(s13, Facts) /\ \A p \in Counted : HasLine(s13, p)

BlocksInv ==
    /\ TextTypes /\ Phases /\ Scanned(s1, s8, s5, s6, s7)
    /\ s4 = "grouping" => Grouping
    /\ s4 = "scanning" => Fresh
    /\ s4 = "cutting" /\ s2 = "blocks" => Cutting
    /\ s4 = "cutting" /\ s2 = "semantic" => Sectioning
    /\ s4 = "packing" => Packing
    /\ s4 = "done" /\ s2 = "blocks" => Finished
    /\ s4 = "done" /\ Many => Grouped
    /\ s11 \in Seq(Blocks!Chunk) /\ s13 \in Seq(Blocks!Chunk)

LEMMA TextIs ==
  ASSUME TextTypes, Blocks!BlockAssumption
  PROVE  Len(s1) \in Nat /\ DOMAIN s1 = 1 .. Len(s1)
         /\ \A p \in 1 .. Len(s1) : s1[p] \in Blocks!Kinds(s2)
  <1>1. PICK n \in 0 .. MaxLines : s1 \in [1 .. n -> Blocks!Kinds(s2)]
    BY DEF TextTypes, Blocks!Texts
  <1>2. n \in Nat
    BY DEF Blocks!BlockAssumption
  <1>3. s1 \in Seq(Blocks!Kinds(s2)) /\ Len(s1) = n
    BY <1>1, <1>2
  <1> QED BY <1>1, <1>2, <1>3

LEMMA TextStays ==
  ASSUME TextTypes, UNCHANGED Blocks!textVars
  PROVE  /\ TextTypes' /\ (Many' <=> Many) /\ Blocks!NotBlank' = Blocks!NotBlank
         /\ Blocks!Paragraphs' = Blocks!Paragraphs
  <1>1. s1' = s1 /\ s2' = s2 /\ s3' = s3
    BY DEF Blocks!textVars
  <1>2. TextTypes'
    BY <1>1 DEF TextTypes
  <1>3. Blocks!NotBlank' = Blocks!NotBlank
    BY <1>1 DEF Blocks!NotBlank
  <1>4. Blocks!Paragraphs' = Blocks!Paragraphs
    BY <1>3 DEF Blocks!Paragraphs
  <1>5. Many' <=> Many
    BY <1>1, <1>4 DEF Many, Blocks!Cardinality
  <1> QED BY <1>2, <1>3, <1>4, <1>5

\* A line of the scan leaves the rest as it is.
LEMMA ScanGoesOn ==
  ASSUME BlocksInv, s4 = "scanning", UNCHANGED <<Blocks!textVars, s4, Blocks!packVars>>,
         Scanned(s1, s8', s5', s6', s7'), s6' \in {"none", "para", "code", "table"}
  PROVE  BlocksInv'
  <1>1. /\ s1' = s1 /\ s4' = "scanning"
        /\ s9' = s9 /\ s10' = s10 /\ s11' = s11 /\ s12' = s12 /\ s13' = s13
    BY DEF Blocks!textVars, Blocks!packVars
  <1>2. TextTypes' /\ (Many' <=> Many)
    BY TextStays DEF BlocksInv
  <1>3. Phases'
    BY <1>1, <1>2 DEF BlocksInv, Phases
  <1>4. Fresh'
    BY <1>1 DEF BlocksInv, Fresh
  <1>5. Scanned(s1, s8, s5, s6, s7)'
    BY <1>1
  <1> QED BY <1>1, <1>2, <1>3, <1>4, <1>5 DEF BlocksInv

\* What is open is closed before the line, and a list ends before what is not its own.
LEMMA Closes ==
  ASSUME BlocksInv, Blocks!BlockAssumption, NEW g
  PROVE  Scanned(s1, Blocks!Closed, s5, "none", g)
  <1>1. Len(s1) \in Nat /\ Scanned(s1, s8, s5, s6, s7) /\ s6 \in {"none", "para", "code", "table"}
    BY TextIs DEF BlocksInv, Phases
  <1>2. CASE s6 = "none"
    <2>1. Blocks!Closed = s8
      BY <1>2 DEF Blocks!Closed
    <2> QED BY <1>1, <1>2, <2>1 DEF Scanned
  <1>3. CASE s6 # "none"
    <2>1. Blocks!Closed = Append(s8, Blocks!Block(s6, s7, s5 - 1))
      BY <1>3 DEF Blocks!Closed
    <2> QED BY <1>1, <1>3, <2>1, ScanClose
  <1> QED BY <1>2, <1>3

LEMMA ListBlock ==
  ASSUME BlocksInv, Blocks!BlockAssumption, s5 <= Len(s1), s1[s5] = "item"
  PROVE  LET b == Blocks!Block("list", s5, Blocks!ListEnd - 1) IN
         b \in BlockSet /\ Made(s1, b) /\ b.from = s5 /\ b.to + 1 = Blocks!ListEnd
  <1> DEFINE e == Blocks!ListEnd
             n == Len(s1)
             E == {p \in s5 .. n + 1 : \/ p = n + 1
                                       \/ s1[p] # "item" /\ s1[p] # "blank"
                                       \/ p > s5 /\ s1[p - 1] = "blank" /\ s1[p] # "item"}
             b == Blocks!Block("list", s5, e - 1)
  <1>1. n \in Nat /\ s5 \in Nat /\ 1 <= s5 /\ s5 <= n
    BY TextIs DEF BlocksInv, Scanned
  <1>2. e = Blocks!Min(E)
    BY DEF Blocks!ListEnd
  <1>3. E \in SUBSET Nat /\ n + 1 \in E
    BY <1>1
  <1>4. e \in E /\ \A p \in E : e <= p
    <2> HIDE DEF E, e
    <2> QED BY <1>2, <1>3, BlocksLeast
  <1>5. s5 \notin E
    BY <1>1
  <1> HIDE DEF e
  <1>6. e \in Nat /\ s5 < e /\ e <= n + 1
    BY <1>1, <1>3, <1>4, <1>5
  <1>7. ASSUME NEW p \in Nat, s5 <= p, p < e
        PROVE  /\ s1[p] \in {"item", "blank"}
               /\ p > s5 /\ s1[p - 1] = "blank" => s1[p] = "item"
    <2>1. p \notin E
      BY <1>4, <1>6, <1>7
    <2>2. p \in s5 .. n + 1 /\ p # n + 1
      BY <1>1, <1>6, <1>7
    <2> QED BY <2>1, <2>2
  <1> HIDE DEF E
  <1>8. b.kind = "list" /\ b.from = s5 /\ b.to = e - 1 /\ b \in BlockSet
    <2>1. e - 1 \in Nat /\ "list" \in BlockKinds
      BY <1>1, <1>6 DEF BlockKinds
    <2> QED BY <1>1, <2>1 DEF Blocks!Block, BlockSet
  <1> HIDE DEF b
  <1>9. Made(s1, b)
    <2>1. b.from \in Nat /\ b.to \in Nat /\ 1 <= b.from /\ b.from <= b.to /\ b.to <= n
      BY <1>1, <1>6, <1>8
    <2>2. ASSUME NEW p \in Within(b)
          PROVE  /\ s1[p] \in {"item", "blank"}
                 /\ p < b.to /\ s1[p] = "blank" => s1[p + 1] = "item"
      <3>1. p \in Nat /\ s5 <= p /\ p < e
        BY <1>1, <1>6, <1>8 DEF Within
      <3>2. ASSUME p < b.to, s1[p] = "blank" PROVE s1[p + 1] = "item"
        <4>1. p + 1 \in Nat /\ s5 <= p + 1 /\ p + 1 < e /\ p + 1 > s5 /\ (p + 1) - 1 = p
          BY <1>1, <1>6, <1>8, <3>1, <3>2
        <4>2. s1[(p + 1) - 1] = "blank"
          BY <3>2, <4>1
        <4> QED BY <1>7, <4>1, <4>2
      <3> QED BY <1>7, <3>1, <3>2
    <2> QED BY <1>8, <2>1, <2>2 DEF Made, n
  <1> QED BY <1>6, <1>8, <1>9 DEF b, e

LEMMA ScanStep ==
  ASSUME BlocksInv, Blocks!BlockAssumption,
         \/ Blocks!Fence \/ Blocks!InCode \/ Blocks!InTable \/ Blocks!StartTable
         \/ Blocks!Blank \/ Blocks!Single \/ Blocks!List \/ Blocks!Text
  PROVE  BlocksInv'
  <1> USE DEF Blocks!Scans, Blocks!Line, Blocks!Free
  <1>1. /\ s4 = "scanning" /\ UNCHANGED <<Blocks!textVars, s4, Blocks!packVars>> /\ s5 <= Len(s1)
    BY DEF Blocks!Fence, Blocks!InCode, Blocks!InTable, Blocks!StartTable, Blocks!Blank,
           Blocks!Single, Blocks!List, Blocks!Text, Blocks!packVars
  <1>2. /\ Len(s1) \in Nat /\ Scanned(s1, s8, s5, s6, s7) /\ s5 \in Nat /\ 1 <= s5
        /\ s6 \in {"none", "para", "code", "table"}
    BY TextIs DEF BlocksInv, Phases, Scanned
  <1>3. Scanned(s1, s8', s5', s6', s7') /\ s6' \in {"none", "para", "code", "table"}
    <2>1. CASE Blocks!Fence
      <3>1. CASE s6 = "code"
        <4>1. /\ s5' = s5 + 1 /\ s6' = "none" /\ s7' = s7
              /\ s8' = Append(s8, Blocks!Block("code", s7, s5))
          BY <2>1, <3>1 DEF Blocks!Fence
        <4>2. Scanned(s1, s8, s5 + 1, "code", s7)
          BY <1>1, <1>2, <3>1, ScanLine
        <4>3. Scanned(s1, Append(s8, Blocks!Block("code", s7, (s5 + 1) - 1)), s5 + 1, "none", s7)
          BY <1>2, <4>2, ScanClose
        <4>4. (s5 + 1) - 1 = s5
          BY <1>2
        <4> QED BY <4>1, <4>3, <4>4
      <3>2. CASE s6 # "code"
        <4>1. s5' = s5 + 1 /\ s8' = Blocks!Closed /\ s6' = "code" /\ s7' = s5
          BY <2>1, <3>2 DEF Blocks!Fence
        <4>2. Scanned(s1, Blocks!Closed, s5, "none", s7)
          BY Closes
        <4>3. Scanned(s1, Blocks!Closed, s5 + 1, "code", s5)
          BY <1>1, <1>2, <4>2, ScanLine
        <4> QED BY <4>1, <4>3
      <3> QED BY <3>1, <3>2
    <2>2. CASE Blocks!InCode
      <3>1. s6 = "code" /\ s5' = s5 + 1 /\ s6' = s6 /\ s7' = s7 /\ s8' = s8
        BY <2>2 DEF Blocks!InCode
      <3>2. Scanned(s1, s8, s5 + 1, "code", s7)
        BY <1>1, <1>2, <3>1, ScanLine
      <3> QED BY <3>1, <3>2
    <2>3. CASE Blocks!InTable
      <3>1. s6 = "table" /\ s7' = s7
        BY <2>3 DEF Blocks!InTable
      <3>2. CASE s1[s5] \in {"row", "sep", "blank"}
        <4>1. s5' = s5 + 1 /\ s6' = s6 /\ s8' = s8
          BY <2>3, <3>2 DEF Blocks!InTable
        <4>2. s1[s5] \in TableLines
          BY <3>2 DEF TableLines
        <4>3. Scanned(s1, s8, s5 + 1, "table", s7)
          BY <1>1, <1>2, <3>1, <4>2, ScanLine
        <4> QED BY <3>1, <4>1, <4>3
      <3>3. CASE s1[s5] \notin {"row", "sep", "blank"}
        <4>1. s5' = s5 /\ s6' = "none" /\ s8' = Blocks!Closed
          BY <2>3, <3>3 DEF Blocks!InTable
        <4> QED BY <3>1, <4>1, Closes
      <3> QED BY <3>2, <3>3
    <2>4. CASE Blocks!StartTable
      <3>1. /\ s1[s5] \in {"row", "sep", "rule"}
            /\ s5' = s5 + 1 /\ s8' = Blocks!Closed /\ s6' = "table" /\ s7' = s5
        BY <2>4 DEF Blocks!StartTable
      <3>2. Scanned(s1, Blocks!Closed, s5, "none", s7)
        BY Closes
      <3>3. s1[s5] \in TableLines
        BY <3>1 DEF TableLines
      <3>4. Scanned(s1, Blocks!Closed, s5 + 1, "table", s5)
        BY <1>1, <1>2, <3>2, <3>3, ScanLine
      <3> QED BY <3>1, <3>4
    <2>5. CASE Blocks!Blank
      <3>1. /\ s1[s5] = "blank"
            /\ s5' = s5 + 1 /\ s8' = Blocks!Closed /\ s6' = "none" /\ s7' = s7
        BY <2>5 DEF Blocks!Blank
      <3>2. Scanned(s1, Blocks!Closed, s5, "none", s7)
        BY Closes
      <3>3. Scanned(s1, Blocks!Closed, s5 + 1, "none", s7)
        BY <1>1, <1>2, <3>1, <3>2, ScanLine
      <3> QED BY <3>1, <3>3
    <2>6. CASE Blocks!Single
      <3> DEFINE b == Blocks!Block(s1[s5], s5, s5)
      <3>1. /\ s1[s5] \in {"heading", "image"} /\ s5' = s5 + 1
            /\ s8' = Append(Blocks!Closed, b) /\ s6' = "none" /\ s7' = s7
        BY <2>6 DEF Blocks!Single
      <3>2. b.kind = s1[s5] /\ b.from = s5 /\ b.to = s5 /\ b \in BlockSet
        BY <1>2, <3>1 DEF Blocks!Block, BlockSet, BlockKinds
      <3> HIDE DEF b
      <3>3. Made(s1, b)
        <4>1. b.kind # "table" /\ b.kind # "list"
          BY <3>1, <3>2
        <4> QED BY <1>1, <1>2, <3>2, <4>1 DEF Made
      <3>4. Scanned(s1, Blocks!Closed, s5, "none", s7)
        BY Closes
      <3>5. Scanned(s1, Append(Blocks!Closed, b), s5 + 1, "none", s7)
        BY <1>2, <3>2, <3>3, <3>4, ScanAlone
      <3> QED BY <3>1, <3>5
    <2>7. CASE Blocks!List
      <3> DEFINE b == Blocks!Block("list", s5, Blocks!ListEnd - 1)
      <3>1. /\ s1[s5] = "item" /\ s5' = Blocks!ListEnd
            /\ s8' = Append(Blocks!Closed, b) /\ s6' = "none" /\ s7' = s7
        BY <2>7 DEF Blocks!List
      <3>2. b \in BlockSet /\ Made(s1, b) /\ b.from = s5 /\ b.to + 1 = Blocks!ListEnd
        BY <1>1, <3>1, ListBlock
      <3> HIDE DEF b
      <3>3. Scanned(s1, Blocks!Closed, s5, "none", s7)
        BY Closes
      <3>4. Scanned(s1, Append(Blocks!Closed, b), Blocks!ListEnd, "none", s7)
        BY <1>2, <3>2, <3>3, ScanAlone
      <3> QED BY <3>1, <3>4
    <2>8. CASE Blocks!Text
      <3>1. /\ s6 \in {"none", "para"} /\ s5' = s5 + 1 /\ s6' = "para" /\ s8' = s8
            /\ s7' = IF s6 = "para" THEN s7 ELSE s5
        BY <2>8 DEF Blocks!Text
      <3>2. CASE s6 = "para"
        BY <1>1, <1>2, <3>1, <3>2, ScanLine
      <3>3. CASE s6 = "none"
        <4>1. Scanned(s1, s8, s5 + 1, "para", s5)
          BY <1>1, <1>2, <3>3, ScanLine
        <4> QED BY <3>1, <3>3, <4>1
      <3> QED BY <3>1, <3>2, <3>3
    <2> QED BY <2>1, <2>2, <2>3, <2>4, <2>5, <2>6, <2>7, <2>8
  <1> QED BY <1>1, <1>3, ScanGoesOn

\* Chunks one after the other.
LEMMA GoodConcat ==
  ASSUME NEW F, NEW cs, GoodChunks(cs, F), NEW ds, GoodChunks(ds, F),
         \A p, q \in F.counted : HasLine(cs, p) /\ HasLine(ds, q) => p < q
  PROVE  /\ GoodChunks(cs \o ds, F)
         /\ \A p : HasLine(cs \o ds, p) <=> HasLine(cs, p) \/ HasLine(ds, p)
  <1> DEFINE m == Len(cs)
             n == Len(ds)
             r == cs \o ds
  <1>1. /\ cs \in Seq(Blocks!Chunk) /\ ds \in Seq(Blocks!Chunk) /\ m \in Nat /\ n \in Nat
        /\ \A k \in 1 .. m : GoodChunk(cs[k], F)
        /\ \A k \in 1 .. n : GoodChunk(ds[k], F)
        /\ \A k, l \in 1 .. m : k < l => Precedes(cs[k].lines, cs[l].lines, F.counted)
        /\ \A k, l \in 1 .. n : k < l => Precedes(ds[k].lines, ds[l].lines, F.counted)
    BY DEF GoodChunks
  <1>2. /\ r \in Seq(Blocks!Chunk) /\ Len(r) = m + n
        /\ \A i \in 1 .. m + n : r[i] = IF i <= m THEN cs[i] ELSE ds[i - m]
    BY <1>1, ConcatProperties
  <1> HIDE DEF r, m, n
  <1>3. \A i \in 1 .. m : i \in 1 .. m + n /\ r[i] = cs[i]
    BY <1>1, <1>2
  <1>4. ASSUME NEW i \in 1 .. n PROVE m + i \in 1 .. m + n /\ r[m + i] = ds[i]
    <2>1. m + i \in 1 .. m + n /\ ~(m + i <= m) /\ (m + i) - m = i
      BY <1>1
    <2>2. r[m + i] = ds[(m + i) - m]
      BY <1>2, <2>1, Zenon
    <2> QED BY <2>1, <2>2
  <1>5. ASSUME NEW i \in 1 .. m + n PROVE i \in 1 .. m \/ \E j \in 1 .. n : i = m + j
    <2>1. i \in 1 .. m \/ (i - m \in 1 .. n /\ i = m + (i - m))
      BY <1>1
    <2> QED BY <2>1
  <1>6. ASSUME NEW i \in 1 .. m + n PROVE GoodChunk(r[i], F)
    <2>1. CASE i \in 1 .. m
      BY <1>1, <1>3, <2>1
    <2>2. ASSUME NEW j \in 1 .. n, i = m + j PROVE GoodChunk(r[i], F)
      BY <1>1, <1>4, <2>2
    <2> QED BY <1>5, <2>1, <2>2
  <1>7. ASSUME NEW k \in 1 .. m + n, NEW l \in 1 .. m + n, k < l
        PROVE  Precedes(r[k].lines, r[l].lines, F.counted)
    <2>1. CASE k \in 1 .. m /\ l \in 1 .. m
      BY <1>1, <1>3, <1>7, <2>1
    <2>2. ASSUME k \in 1 .. m, NEW j \in 1 .. n, l = m + j
          PROVE  Precedes(r[k].lines, r[l].lines, F.counted)
      <3>1. r[k] = cs[k] /\ r[l] = ds[j]
        BY <1>3, <1>4, <2>2
      <3>2. /\ \A p \in Blocks!Range(cs[k].lines) : HasLine(cs, p)
            /\ \A p \in Blocks!Range(ds[j].lines) : HasLine(ds, p)
        BY <2>2 DEF HasLine, m, n
      <3> QED BY <3>1, <3>2 DEF Precedes
    <2>3. ASSUME NEW i \in 1 .. n, k = m + i, NEW j \in 1 .. n, l = m + j
          PROVE  Precedes(r[k].lines, r[l].lines, F.counted)
      <3>1. i < j
        BY <1>1, <1>7, <2>3
      <3>2. r[k] = ds[i] /\ r[l] = ds[j]
        BY <1>4, <2>3
      <3> QED BY <1>1, <2>3, <3>1, <3>2
    <2>4. l \in 1 .. m => k \in 1 .. m
      BY <1>1, <1>7
    <2> QED BY <1>5, <2>1, <2>2, <2>3, <2>4
  <1>8. GoodChunks(r, F)
    BY <1>2, <1>6, <1>7 DEF GoodChunks
  <1>9. ASSUME NEW p PROVE HasLine(r, p) <=> HasLine(cs, p) \/ HasLine(ds, p)
    <2>1. /\ HasLine(r, p) <=> \E k \in 1 .. m + n : p \in Blocks!Range(r[k].lines)
          /\ HasLine(cs, p) <=> \E k \in 1 .. m : p \in Blocks!Range(cs[k].lines)
          /\ HasLine(ds, p) <=> \E k \in 1 .. n : p \in Blocks!Range(ds[k].lines)
      BY <1>2 DEF HasLine, m, n
    <2> QED BY <1>3, <1>4, <1>5, <2>1
  <1> QED BY <1>8, <1>9 DEF r

LEMMA GoodOne ==
  ASSUME NEW F, NEW c, GoodChunk(c, F)
  PROVE  GoodChunks(<<c>>, F) /\ \A p : HasLine(<<c>>, p) <=> p \in Blocks!Range(c.lines)
  <1> DEFINE cs == <<c>>
  <1>1. c \in Blocks!Chunk
    BY DEF GoodChunk
  <1>2. cs \in Seq(Blocks!Chunk) /\ Len(cs) = 1 /\ cs[1] = c
    BY <1>1
  <1> HIDE DEF cs
  <1>3. \A k : k \in 1 .. Len(cs) <=> k = 1
    BY <1>2
  <1>4. \A k, l \in 1 .. Len(cs) : ~(k < l)
    BY <1>3
  <1>5. GoodChunks(cs, F)
    BY <1>2, <1>3, <1>4 DEF GoodChunks
  <1>6. \A p : HasLine(cs, p) <=> p \in Blocks!Range(c.lines)
    BY <1>2, <1>3 DEF HasLine
  <1> QED BY <1>5, <1>6 DEF cs

LEMMA GoodNone ==
  ASSUME NEW F
  PROVE  GoodChunks(<<>>, F) /\ \A p : ~HasLine(<<>>, p)
  <1>1. <<>> \in Seq(Blocks!Chunk) /\ \A k : k \notin 1 .. Len(<<>>)
    OBVIOUS
  <1> QED BY <1>1 DEF GoodChunks, HasLine

LEMMA GoodAppend ==
  ASSUME NEW F, NEW cs, GoodChunks(cs, F), NEW c, GoodChunk(c, F),
         \A p, q \in F.counted : HasLine(cs, p) /\ q \in Blocks!Range(c.lines) => p < q
  PROVE  /\ GoodChunks(Append(cs, c), F)
         /\ \A p : HasLine(Append(cs, c), p) <=> HasLine(cs, p) \/ p \in Blocks!Range(c.lines)
  <1>1. GoodChunks(<<c>>, F) /\ \A p : HasLine(<<c>>, p) <=> p \in Blocks!Range(c.lines)
    BY GoodOne
  <1>2. Append(cs, c) = cs \o <<c>>
    <2>1. cs \in Seq(Blocks!Chunk) /\ c \in Blocks!Chunk
      BY DEF GoodChunks, GoodChunk
    <2> QED BY <2>1, AppendIsConcat
  <1> QED BY <1>1, <1>2, GoodConcat

\* The pieces of every block but a heading.
LEMMA PiecesMakeUp ==
  ASSUME Blocks!BlockAssumption, s3 \in Targets, NEW b \in BlockSet, MadeOf(b),
         b.kind # "heading",
         NEW S, \A p \in S : s1[p] \notin {"blank", "sep", "rule"},
         b.kind = "table" => S \cap Blocks!Range(Blocks!HeaderOf(b)) = {},
         NEW ps \in Blocks!PiecesOf(b)
  PROVE  /\ MakeUp(ps, b, S) /\ b.kind \in Blocks!ChunkTypes
         /\ \A k \in 1 .. Len(ps) :
              /\ b.kind = "table" =>
                   Blocks!Range(Blocks!HeaderOf(b)) \subseteq Blocks!Range(ps[k])
              /\ b.kind = "code" => Len(ps[k]) <= CodeLines
              /\ b.kind \in Blocks!Mergeable => Len(ps[k]) <= Longest
  <1>1. b.kind \in {"para", "code", "table", "list", "image"}
    BY DEF BlockSet, BlockKinds
  <1>2. b.kind \in Blocks!ChunkTypes
    BY <1>1 DEF Blocks!ChunkTypes
  <1>3. "table" \notin Blocks!Mergeable /\ "code" \notin Blocks!Mergeable
    BY DEF Blocks!Mergeable
  <1>4. CASE b.kind = "table"
    <2>1. ps = Blocks!TablePieces(b)
      BY <1>4 DEF Blocks!PiecesOf
    <2> QED BY <1>2, <1>3, <1>4, <2>1, TableMakesUp
  <1>5. CASE b.kind = "code"
    <2>1. ps = Blocks!CodePieces(b)
      BY <1>5 DEF Blocks!PiecesOf
    <2> QED BY <1>2, <1>3, <1>5, <2>1, CodeMakesUp
  <1>6. CASE b.kind = "list"
    <2>1. ps = Blocks!ListPieces(b)
      BY <1>6 DEF Blocks!PiecesOf
    <2>2. /\ MakeUp(ps, b, S)
          /\ \A k \in 1 .. Len(ps) : Len(ps[k]) <= 2 * ListItems
      BY <1>6, <2>1, ListMakesUp
    <2>3. ASSUME NEW k \in 1 .. Len(ps) PROVE Len(ps[k]) <= Longest
      <3>1. ps[k] \in Seq(Nat)
        BY <2>2 DEF MakeUp
      <3>2. Len(ps[k]) \in Nat /\ ListItems \in Nat
        BY <3>1 DEF Blocks!BlockAssumption
      <3>3. 2 * ListItems <= Longest /\ Longest \in Nat
        BY LongestIs
      <3> QED BY <2>2, <3>2, <3>3
    <2> QED BY <1>2, <1>6, <2>2, <2>3
  <1>7. CASE b.kind = "image"
    <2> DEFINE s == Blocks!LinesOf(b.from, b.to)
    <2>1. ps = <<s>>
      BY <1>7 DEF Blocks!PiecesOf
    <2>2. b.from \in Nat /\ b.to \in Nat /\ b.from = b.to
      BY <1>7 DEF MadeOf, Made
    <2>3. CutInto(<<s>>, Within(b)) /\ Len(s) = b.to - b.from + 1
      <3>1. b.from <= b.to
        BY <2>2
      <3> QED BY <2>2, <3>1, WholeIsCut DEF Within
    <2> HIDE DEF s
    <2>4. MakeUp(<<s>>, b, S)
      BY <2>3, CutMakesUp
    <2>5. Len(s) = 1
      BY <2>2, <2>3
    <2>6. Len(s) <= Longest
      BY <2>5, LongestIs
    <2>7. \A k \in 1 .. Len(ps) : ps[k] = s
      BY <2>1
    <2> QED BY <1>2, <1>7, <2>1, <2>4, <2>6, <2>7
  <1>8. CASE b.kind = "para"
    <2>1. ps \in Blocks!ParaPieces(b)
      BY <1>8 DEF Blocks!PiecesOf
    <2> QED BY <1>2, <1>8, <2>1, ParaMakesUp
  <1> QED BY <1>1, <1>4, <1>5, <1>6, <1>7, <1>8

\* Lines that count.
LEMMA CountedIs ==
  ASSUME BlocksInv, Blocks!BlockAssumption
  PROVE  \A p \in Counted :
           /\ p \in 1 .. Len(s1) /\ s1[p] \notin {"blank", "heading", "sep", "rule"}
           /\ \A j \in 1 .. Len(s8) :
                s8[j].kind = "table" => p \notin Blocks!Range(Blocks!HeaderOf(s8[j]))
  <1>1. s8 \in Seq(BlockSet)
    BY DEF BlocksInv, Scanned, Found
  <1>2. \A j \in 1 .. Len(s8) : s8[j] \in Blocks!Range(s8)
    BY <1>1, InRange
  <1> QED BY <1>2 DEF Counted, Blocks!Counts, Blocks!Repeated

LEMMA PiecesAreGood ==
  ASSUME BlocksInv, Blocks!BlockAssumption, Cutting, s9 <= Len(s8), s8[s9].kind # "heading",
         NEW ps \in Blocks!PiecesOf(s8[s9])
  PROVE  LET b == s8[s9]
             ds == [k \in DOMAIN ps |-> Blocks!Piece(ps[k], b.kind)]
         IN  /\ GoodChunks(ds, Facts)
             /\ \A p : HasLine(ds, p) => p \in Within(b)
             /\ \A p \in Counted : p \in Within(b) => HasLine(ds, p)
  <1> DEFINE b == s8[s9]
             n == Len(ps)
             ds == [k \in DOMAIN ps |-> Blocks!Piece(ps[k], b.kind)]
             S == Counted
  <1>1. s9 \in 1 .. Len(s8) /\ s9 \in Coming
    <2>1. Len(s8) \in Nat
      BY DEF BlocksInv, Scanned, Found
    <2> QED BY <2>1 DEF Cutting, Coming
  <1>2. /\ b \in BlockSet /\ MadeOf(b)
        /\ \A i \in 1 .. Len(s8) : s8[i] \in BlockSet /\ MadeOf(s8[i])
        /\ \A i, j \in 1 .. Len(s8) : i < j => s8[i].to < s8[j].from
    BY <1>1 DEF BlocksInv, Scanned, Found, MadeOf
  <1>3. \A p \in S : /\ p \in 1 .. Len(s1) /\ s1[p] \notin {"blank", "heading", "sep", "rule"}
                     /\ b.kind = "table" => p \notin Blocks!Range(Blocks!HeaderOf(b))
    BY <1>1, CountedIs
  <1>4. s3 \in Targets
    BY DEF BlocksInv, TextTypes
  <1>5. /\ MakeUp(ps, b, S) /\ b.kind \in Blocks!ChunkTypes
        /\ \A k \in 1 .. n :
              /\ b.kind = "table" =>
                   Blocks!Range(Blocks!HeaderOf(b)) \subseteq Blocks!Range(ps[k])
              /\ b.kind = "code" => Len(ps[k]) <= CodeLines
              /\ b.kind \in Blocks!Mergeable => Len(ps[k]) <= Longest
    <2>1. b.kind # "heading" /\ ps \in Blocks!PiecesOf(b)
      OBVIOUS
    <2>2. b.kind = "table" => S \cap Blocks!Range(Blocks!HeaderOf(b)) = {}
      BY <1>3
    <2>3. \A p \in S : s1[p] \notin {"blank", "sep", "rule"}
      BY <1>3
    <2> HIDE DEF b, S
    <2> QED BY <1>2, <1>4, <2>1, <2>2, <2>3, PiecesMakeUp
  <1>6. /\ ps \in Seq(Seq(Nat)) /\ n \in Nat /\ DOMAIN ps = 1 .. n
        /\ \A k \in 1 .. n :
             /\ ps[k] \in Seq(Nat) /\ ps[k] # <<>> /\ Ascends(ps[k], S)
             /\ Blocks!Range(ps[k]) \subseteq Within(b)
        /\ \A k, l \in 1 .. n : k < l => Precedes(ps[k], ps[l], S)
        /\ \A p \in S : p \in Within(b) => \E k \in 1 .. n : p \in Blocks!Range(ps[k])
    <2>1. MakeUp(ps, b, S)
      BY <1>5
    <2> HIDE DEF b, S
    <2> QED BY <2>1 DEF MakeUp
  <1>7. ASSUME NEW k \in 1 .. n
        PROVE  /\ ds[k] = [lines |-> ps[k], type |-> b.kind, path |-> s10]
               /\ ds[k] \in Blocks!Chunk
    <2>1. ds[k] = [lines |-> ps[k], type |-> b.kind, path |-> s10]
      BY <1>6 DEF Blocks!Piece
    <2>2. s10 \in Seq(Nat)
      BY DEF Cutting
    <2> HIDE DEF b
    <2> QED BY <1>5, <1>6, <2>1, <2>2 DEF Blocks!Chunk
  <1>8. ds \in Seq(Blocks!Chunk) /\ Len(ds) = n
    <2>1. ds \in [1 .. n -> Blocks!Chunk]
      <3>1. DOMAIN ds = 1 .. n /\ ds = [k \in 1 .. n |-> ds[k]]
        BY <1>6
      <3> QED BY <1>7, <3>1
    <2> HIDE DEF ds, n
    <2>2. n \in Nat
      BY <1>6
    <2> QED BY <2>1, <2>2
  <1>9. ASSUME NEW k \in 1 .. n
        PROVE  ds[k].lines = ps[k] /\ ds[k].type = b.kind /\ ds[k].path = s10
    <2>1. ds[k] = [lines |-> ps[k], type |-> b.kind, path |-> s10]
      BY <1>7
    <2> HIDE DEF ds, b, n
    <2> QED BY <2>1
  <1>10. /\ Facts.counted = S /\ Facts.longest = Longest /\ Facts.text = 1 .. Len(s1)
         /\ Facts.headings = {h \in 1 .. Len(s1) : s1[h] = "heading"}
         /\ Facts.tables = {<<Within(s8[i]), Blocks!Range(Blocks!HeaderOf(s8[i]))>> :
                              i \in {j \in 1 .. Len(s8) : s8[j].kind = "table"}}
    BY DEF Facts
  <1>11. ASSUME NEW k \in 1 .. n, NEW t \in Facts.tables, NEW x \in t[1],
                x \in Blocks!Range(ps[k])
         PROVE  t[2] \subseteq Blocks!Range(ps[k])
    <2>1. PICK i \in 1 .. Len(s8) :
            /\ s8[i].kind = "table"
            /\ t = <<Within(s8[i]), Blocks!Range(Blocks!HeaderOf(s8[i]))>>
      BY <1>10
    <2>2. x \in Within(s8[i]) /\ x \in Within(b) /\ t[2] = Blocks!Range(Blocks!HeaderOf(s8[i]))
      BY <1>6, <1>11, <2>1
    <2>3. i = s9
      <3>1. /\ s8[i].from \in Nat /\ s8[i].to \in Nat /\ b.from \in Nat /\ b.to \in Nat
            /\ s8[i].from <= x /\ x <= s8[i].to /\ b.from <= x /\ x <= b.to /\ x \in Int
        BY <1>1, <1>2, <2>2 DEF Within, BlockSet
      <3>2. ~(s8[i].to < b.from) /\ ~(b.to < s8[i].from)
        BY <3>1
      <3>3. ~(i < s9) /\ ~(s9 < i)
        BY <1>1, <1>2, <3>2
      <3> QED BY <1>1, <3>3
    <2> QED BY <1>5, <2>1, <2>2, <2>3
  <1>12. ASSUME NEW h \in Blocks!Range(s10), NEW k \in 1 .. n
         PROVE  h \in Facts.headings /\ h < ps[k][1]
    <2>1. h \in Facts.headings /\ h < b.from
      BY <1>1 DEF Cutting
    <2>2. 1 \in 1 .. Len(ps[k])
      BY <1>6
    <2>3. ps[k][1] \in Within(b)
      BY <1>6, <2>2, InRange
    <2>4. ps[k][1] \in Int /\ b.from <= ps[k][1] /\ h \in Int /\ b.from \in Int
      <3>1. b.from \in Nat /\ b.to \in Nat
        BY <1>2 DEF BlockSet
      <3>2. h \in Int
        BY <1>10, <2>1
      <3> QED BY <2>3, <3>1, <3>2 DEF Within
    <2> QED BY <2>1, <2>4
  <1>13. Within(b) \subseteq 1 .. Len(s1)
    <2>1. MadeOf(b) /\ Len(s1) \in Nat
      BY <1>2, TextIs DEF BlocksInv
    <2> HIDE DEF b
    <2> QED BY <2>1 DEF MadeOf, Made, Within
  <1> HIDE DEF ds, b, n, S
  <1>14. ASSUME NEW k \in 1 .. n PROVE GoodChunk(ds[k], Facts)
    <2>1. ds[k] \in Blocks!Chunk /\ ds[k].lines # <<>> /\ Ascends(ds[k].lines, Facts.counted)
      BY <1>6, <1>7, <1>9, <1>10
    <2>2. \A t \in Facts.tables : \A x \in t[1] :
            x \in Blocks!Range(ds[k].lines) => t[2] \subseteq Blocks!Range(ds[k].lines)
      BY <1>9, <1>11
    <2>3. /\ ds[k].type = "code" => Len(ds[k].lines) <= CodeLines
          /\ ds[k].type \in Blocks!Mergeable => Len(ds[k].lines) <= Facts.longest
      BY <1>5, <1>9, <1>10
    <2>4. \A h \in Blocks!Range(ds[k].path) : h \in Facts.headings /\ h < ds[k].lines[1]
      BY <1>9, <1>12
    <2>5. Blocks!Range(ds[k].lines) \subseteq Facts.text
      BY <1>6, <1>9, <1>10, <1>13
    <2> QED BY <2>1, <2>2, <2>3, <2>4, <2>5 DEF GoodChunk
  <1>15. GoodChunks(ds, Facts)
    BY <1>6, <1>8, <1>9, <1>10, <1>14 DEF GoodChunks
  <1>16. \A p : HasLine(ds, p) => p \in Within(b)
    BY <1>6, <1>8, <1>9 DEF HasLine
  <1>17. \A p \in S : p \in Within(b) => HasLine(ds, p)
    BY <1>6, <1>8, <1>9 DEF HasLine
  <1> QED BY <1>15, <1>16, <1>17 DEF ds, b, S

\* The paragraph or table at the end, and the chunkers begin.
LEMMA FlushStep ==
  ASSUME BlocksInv, Blocks!BlockAssumption, Blocks!Flush
  PROVE  BlocksInv'
  <1>1. /\ s4 = "scanning" /\ s5 > Len(s1) /\ s8' = Blocks!Closed /\ s4' = "cutting"
        /\ s6' = "none" /\ s5' = s5 /\ s7' = s7 /\ s1' = s1 /\ s3' = s3
        /\ s9' = s9 /\ s10' = s10 /\ s11' = s11 /\ s12' = s12 /\ s13' = s13
        /\ UNCHANGED Blocks!textVars
    BY DEF Blocks!Flush, Blocks!packVars, Blocks!textVars
  <1>2. Scanned(s1, Blocks!Closed, s5, "none", s7)
    BY Closes
  <1>3. Scanned(s1, s8, s5, s6, s7)'
    BY <1>1, <1>2
  <1>4. TextTypes' /\ (Many' <=> Many)
    BY <1>1, TextStays DEF BlocksInv
  <1>5. Phases'
    BY <1>1, <1>4 DEF BlocksInv, Phases
  <1>6. s9' = 1 /\ s10' = <<>> /\ s11' = <<>> /\ s12' = <<>> /\ s13' = <<>>
    BY <1>1 DEF BlocksInv, Fresh
  <1>7. s11' \in Seq(Blocks!Chunk) /\ s13' \in Seq(Blocks!Chunk) /\ Len(s11') = 0
        /\ s10' \in Seq(Nat) /\ Blocks!Range(s10') = {}
    BY <1>6 DEF Blocks!Range
  <1>8. Cutting'
    <2>1. GoodChunks(s11', Facts') /\ \A p : ~HasLine(s11', p)
      BY <1>6, GoodNone
    <2>2. s8' \in Seq(BlockSet) /\ Len(s8') \in Nat
      BY <1>3 DEF Scanned, Found
    <2>3. ASSUME NEW p \in Counted' PROVE \E j \in 1 .. Len(s8') : p \in Within(s8'[j])
      <3>1. p \in 1 .. Len(s1) /\ s1[p] # "blank"
        BY <1>1 DEF Counted, Blocks!Counts
      <3>2. p < s5
        <4>1. Len(s1) \in Nat /\ s5 \in Nat
          BY TextIs DEF BlocksInv, Scanned
        <4> QED BY <1>1, <3>1, <4>1
      <3>3. InBlock(Blocks!Closed, p)
        BY <1>2, <3>1, <3>2 DEF Scanned
      <3> QED BY <1>1, <3>3 DEF InBlock
    <2>4. Coming' = 1 .. Len(s8')
      BY <1>6 DEF Coming
    <2>5. s9' \in Nat /\ 1 <= s9' /\ s9' <= Len(s8') + 1
      BY <1>6, <2>2
    <2> QED BY <1>6, <1>7, <2>1, <2>3, <2>4, <2>5 DEF Cutting
  <1>9. Sectioning'
    BY <1>6, <1>7 DEF Sectioning
  <1> QED BY <1>1, <1>3, <1>4, <1>5, <1>7, <1>8, <1>9 DEF BlocksInv

\* What every step after the scan leaves as it is.
LEMMA CutGoesOn ==
  ASSUME BlocksInv, UNCHANGED <<Blocks!textVars, Blocks!scanVars>>
  PROVE  /\ TextTypes' /\ (Many' <=> Many) /\ Scanned(s1, s8, s5, s6, s7)'
         /\ s6' \in {"none", "para", "code", "table"}
         /\ Facts' = Facts /\ Counted' = Counted /\ s8' = s8 /\ s1' = s1 /\ s2' = s2 /\ s3' = s3
         /\ Blocks!NotBlank' = Blocks!NotBlank /\ Blocks!Paragraphs' = Blocks!Paragraphs
  <1>1. /\ s1' = s1 /\ s2' = s2 /\ s3' = s3 /\ s5' = s5 /\ s6' = s6 /\ s7' = s7 /\ s8' = s8
        /\ UNCHANGED Blocks!textVars
    BY DEF Blocks!scanVars, Blocks!textVars
  <1>2. TextTypes' /\ (Many' <=> Many)
        /\ Blocks!NotBlank' = Blocks!NotBlank /\ Blocks!Paragraphs' = Blocks!Paragraphs
    BY <1>1, TextStays DEF BlocksInv
  <1>3. Scanned(s1, s8, s5, s6, s7)'
    BY <1>1 DEF BlocksInv
  <1>4. Facts' = Facts /\ Counted' = Counted
    BY <1>1, FactsStay
  <1> QED BY <1>1, <1>2, <1>3, <1>4 DEF BlocksInv, Phases

\* A block in pieces, or a heading in the path.
LEMMA DispatchStep ==
  ASSUME BlocksInv, Blocks!BlockAssumption, Blocks!Dispatch
  PROVE  BlocksInv'
  <1> DEFINE b == s8[s9]
  <1>1. /\ s4 = "cutting" /\ s2 = "blocks" /\ s9 <= Len(s8) /\ s9' = s9 + 1 /\ s4' = s4
        /\ s12' = s12 /\ s13' = s13 /\ UNCHANGED <<Blocks!textVars, Blocks!scanVars>>
    BY DEF Blocks!Dispatch
  <1>2. Cutting
    BY <1>1 DEF BlocksInv
  <1>3. /\ TextTypes' /\ (Many' <=> Many) /\ Scanned(s1, s8, s5, s6, s7)'
        /\ s6' \in {"none", "para", "code", "table"}
        /\ Facts' = Facts /\ Counted' = Counted /\ s8' = s8 /\ s2' = s2
    BY <1>1, CutGoesOn
  <1>4. Phases'
    BY <1>1, <1>3 DEF BlocksInv, Phases
  <1>5. /\ s8 \in Seq(BlockSet) /\ Len(s8) \in Nat /\ Found(s1, s8) /\ s9 \in Nat /\ 1 <= s9
        /\ \A i, j \in 1 .. Len(s8) : i < j => s8[i].to < s8[j].from
    BY <1>2 DEF BlocksInv, Scanned, Found, Cutting
  <1>6. /\ s9 \in 1 .. Len(s8) /\ s9 \in Coming /\ Coming' = s9 + 1 .. Len(s8)
        /\ s9' \in Nat /\ 1 <= s9' /\ s9' <= Len(s8') + 1
    BY <1>1, <1>3, <1>5 DEF Coming
  <1>7. /\ \A j : j \in Coming <=> j = s9 \/ j \in Coming'
        /\ \A j \in Coming' : j \in 1 .. Len(s8) /\ s9 < j
    BY <1>5, <1>6 DEF Coming
  <1>8. \A j \in 1 .. Len(s8) : /\ s8[j].from \in Nat /\ s8[j].to \in Nat
                                /\ s8[j].from <= s8[j].to
    BY <1>5, FoundTypes
  <1>9. ASSUME NEW j \in Coming', NEW x \in Within(b) PROVE x < s8[j].from
    <2>1. b.to < s8[j].from
      BY <1>5, <1>6, <1>7
    <2> QED BY <1>6, <1>7, <1>8, <2>1 DEF Within
  <1>10. s12' = <<>> /\ s13' = <<>> /\ s13' \in Seq(Blocks!Chunk)
    BY <1>1, <1>2 DEF Cutting
  <1>11. /\ GoodChunks(s11, Facts) /\ s10 \in Seq(Nat)
         /\ \A p : HasLine(s11, p) => \A j \in Coming : p < s8[j].from
         /\ \A p \in Counted : HasLine(s11, p) \/ \E j \in Coming : p \in Within(s8[j])
         /\ \A h \in Blocks!Range(s10) : h \in Facts.headings /\ \A j \in Coming : h < s8[j].from
    BY <1>2 DEF Cutting
  <1>12. CASE b.kind = "heading"
    <2>1. /\ s11' = s11
          /\ Len(s10) = PathDepth => s10' = Append(Tail(s10), b.from)
          /\ Len(s10) # PathDepth => s10' = Append(s10, b.from)
      BY <1>12 DEF Blocks!Dispatch
    <2>2. /\ b.from \in Nat /\ b.from = b.to /\ s1[b.from] = "heading" /\ b.from \in 1 .. Len(s1)
      <3>1. Made(s1, b)
        BY <1>5, <1>6 DEF Found
      <3> QED BY <1>12, <3>1 DEF Made
    <2>3. b.from \in Facts.headings
      BY <2>2 DEF Facts
    <2>4. \A j \in Coming' : b.from < s8[j].from
      BY <1>9, <2>2 DEF Within
    <2> HIDE DEF b
    <2>5. /\ s10' \in Seq(Nat)
          /\ \A h \in Blocks!Range(s10') : h \in Blocks!Range(s10) \/ h = b.from
      <3> DEFINE e == b.from
      <3>1. e \in Nat
        BY <2>2
      <3> HIDE DEF e
      <3>2. ASSUME NEW q \in Seq(Nat)
            PROVE  /\ Append(q, e) \in Seq(Nat)
                   /\ \A h \in Blocks!Range(Append(q, e)) : h \in Blocks!Range(q) \/ h = e
        <4>1. /\ Append(q, e) \in Seq(Nat) /\ Len(Append(q, e)) = Len(q) + 1
              /\ Append(q, e)[Len(q) + 1] = e
              /\ \A j \in 1 .. Len(q) : Append(q, e)[j] = q[j]
          BY <3>1
        <4>2. \A j \in 1 .. Len(q) + 1 : j \in 1 .. Len(q) \/ j = Len(q) + 1
          OBVIOUS
        <4>3. /\ \A h : h \in Blocks!Range(Append(q, e))
                          <=> \E j \in 1 .. Len(Append(q, e)) : h = Append(q, e)[j]
              /\ \A h : h \in Blocks!Range(q) <=> \E j \in 1 .. Len(q) : h = q[j]
          BY <4>1, InRange
        <4> QED BY <4>1, <4>2, <4>3
      <3>3. CASE Len(s10) # PathDepth
        BY <1>11, <2>1, <3>2, <3>3 DEF e
      <3>4. CASE Len(s10) = PathDepth
        <4> DEFINE q == Tail(s10)
        <4>1. s10' = Append(q, e) /\ s10 # <<>>
          BY <2>1, <3>4 DEF e, Blocks!BlockAssumption
        <4>2. q \in Seq(Nat) /\ Len(q) = Len(s10) - 1
              /\ \A j \in 1 .. Len(q) : q[j] = s10[j + 1] /\ j + 1 \in 1 .. Len(s10)
          BY <1>11, <4>1
        <4> HIDE DEF q
        <4>3. ASSUME NEW h \in Blocks!Range(q) PROVE h \in Blocks!Range(s10)
          <5>1. PICK j \in 1 .. Len(q) : h = q[j]
            BY <4>2, <4>3, InRange
          <5> QED BY <1>11, <4>2, <5>1, InRange
        <4> QED BY <3>2, <4>1, <4>2, <4>3 DEF e
      <3> QED BY <3>3, <3>4
    <2>6. ASSUME NEW h \in Blocks!Range(s10')
          PROVE  h \in Facts'.headings /\ \A j \in Coming' : h < s8'[j].from
      <3>1. CASE h = b.from
        BY <1>3, <2>3, <2>4, <3>1
      <3>2. CASE h \in Blocks!Range(s10)
        BY <1>3, <1>7, <1>11, <3>2
      <3> QED BY <2>5, <3>1, <3>2
    <2>7. ASSUME NEW p \in Counted
          PROVE  HasLine(s11, p) \/ \E j \in Coming' : p \in Within(s8[j])
      <3>1. p \notin Within(b)
        <4>1. s1[p] # "heading" /\ p \in Int
          BY CountedIs
        <4> QED BY <2>2, <4>1 DEF Within
      <3> QED BY <1>7, <1>11, <3>1 DEF b
    <2>8. Cutting'
      BY <1>3, <1>6, <1>7, <1>10, <1>11, <2>1, <2>5, <2>6, <2>7 DEF Cutting
    <2>9. s11' \in Seq(Blocks!Chunk)
      BY <2>1 DEF BlocksInv
    <2> QED BY <1>1, <1>3, <1>4, <1>10, <2>8, <2>9 DEF BlocksInv
  <1>13. CASE b.kind # "heading"
    <2>1. PICK ps \in Blocks!PiecesOf(b) :
            s11' = s11 \o [k \in DOMAIN ps |-> Blocks!Piece(ps[k], b.kind)]
      BY <1>13 DEF Blocks!Dispatch
    <2> DEFINE ds == [k \in DOMAIN ps |-> Blocks!Piece(ps[k], b.kind)]
    <2>2. /\ GoodChunks(ds, Facts)
          /\ \A p : HasLine(ds, p) => p \in Within(b)
          /\ \A p \in Counted : p \in Within(b) => HasLine(ds, p)
      BY <1>1, <1>2, <1>13, PiecesAreGood
    <2>3. s11' = s11 \o ds /\ s10' = s10
      BY <1>13, <2>1 DEF Blocks!Dispatch
    <2> HIDE DEF ds
    <2>4. ASSUME NEW p, NEW q, HasLine(s11, p), HasLine(ds, q), p \in Counted PROVE p < q
      <3>1. p < b.from /\ q \in Within(b) /\ p \in Int
        BY <1>6, <1>11, <2>2, <2>4, CountedIs
      <3> QED BY <1>6, <1>8, <3>1 DEF Within
    <2>5. Facts.counted = Counted
      BY DEF Facts
    <2>6. /\ GoodChunks(s11', Facts)
          /\ \A p : HasLine(s11', p) <=> HasLine(s11, p) \/ HasLine(ds, p)
      BY <1>11, <2>2, <2>3, <2>4, <2>5, GoodConcat
    <2> HIDE DEF b
    <2>7. ASSUME NEW p, HasLine(s11', p), NEW j \in Coming' PROVE p < s8'[j].from
      <3>1. CASE HasLine(s11, p)
        BY <1>3, <1>7, <1>11, <3>1
      <3>2. CASE HasLine(ds, p)
        BY <1>3, <1>9, <2>2, <2>7, <3>2
      <3> QED BY <2>6, <2>7, <3>1, <3>2
    <2>8. ASSUME NEW p \in Counted
          PROVE  HasLine(s11', p) \/ \E j \in Coming' : p \in Within(s8[j])
      BY <1>7, <1>11, <2>2, <2>6 DEF b
    <2>9. \A h \in Blocks!Range(s10') :
            h \in Facts'.headings /\ \A j \in Coming' : h < s8'[j].from
      BY <1>3, <1>7, <1>11, <2>3
    <2>10. Cutting'
      BY <1>3, <1>6, <1>10, <1>11, <2>3, <2>6, <2>7, <2>8, <2>9 DEF Cutting
    <2>11. s11' \in Seq(Blocks!Chunk)
      BY <2>6 DEF GoodChunks
    <2> QED BY <1>1, <1>3, <1>4, <1>10, <2>10, <2>11 DEF BlocksInv
  <1> QED BY <1>12, <1>13

LEMMA DispatchedStep ==
  ASSUME BlocksInv, Blocks!BlockAssumption, Blocks!Dispatched
  PROVE  BlocksInv'
  <1>1. /\ s4 = "cutting" /\ s2 = "blocks" /\ s9 > Len(s8) /\ s9' = 1 /\ s11' = s11 /\ s12' = s12
        /\ UNCHANGED <<Blocks!textVars, Blocks!scanVars>>
        /\ (s4' = "done" /\ s13' = s11) \/ (s4' = "packing" /\ s13' = s13)
    BY DEF Blocks!Dispatched
  <1>2. /\ TextTypes' /\ (Many' <=> Many) /\ Scanned(s1, s8, s5, s6, s7)'
        /\ s6' \in {"none", "para", "code", "table"}
        /\ Facts' = Facts /\ Counted' = Counted /\ s8' = s8 /\ s2' = s2
    BY <1>1, CutGoesOn
  <1>3. Phases'
    BY <1>1, <1>2 DEF BlocksInv, Phases
  <1>4. ~Many
    BY <1>1 DEF Many
  <1>5. Cutting
    BY <1>1 DEF BlocksInv
  <1>6. Coming = {}
    <2>1. Len(s8) \in Nat /\ s9 \in Nat
      BY <1>5 DEF BlocksInv, Scanned, Found, Cutting
    <2> QED BY <1>1, <2>1 DEF Coming
  <1>7. /\ GoodChunks(s11, Facts) /\ s11 \in Seq(Blocks!Chunk) /\ Len(s11) \in Nat
        /\ \A p \in Counted : HasLine(s11, p)
        /\ s12 = <<>> /\ s13 = <<>>
    BY <1>5, <1>6 DEF Cutting, GoodChunks
  <1>8. CASE s4' = "done" /\ s13' = s11
    <2>1. Finished'
      BY <1>2, <1>7, <1>8 DEF Finished
    <2>2. s13' \in Seq(Blocks!Chunk) /\ s11' \in Seq(Blocks!Chunk)
      BY <1>1, <1>7, <1>8
    <2> QED BY <1>2, <1>3, <1>4, <1>8, <2>1, <2>2 DEF BlocksInv
  <1>9. CASE s4' = "packing" /\ s13' = s13
    <2>1. s12' = <<>> /\ s13' = <<>> /\ s11' = s11 /\ s9' = 1
      BY <1>1, <1>7, <1>9
    <2>2. GoodChunks(<<>>, Facts) /\ \A p : ~HasLine(<<>>, p)
      BY GoodNone
    <2>3. ASSUME NEW p \in Counted PROVE Waiting(p)'
      <3>1. PICK l \in 1 .. Len(s11) : p \in Blocks!Range(s11[l].lines)
        BY <1>7 DEF HasLine
      <3>2. s9' <= l
        BY <2>1
      <3> QED BY <2>1, <3>1, <3>2 DEF Waiting
    <2>4. s9' \in Nat /\ 1 <= s9' /\ s9' <= Len(s11') + 1 /\ Len(s12') = 0
      BY <1>7, <2>1
    <2>5. Packing'
      <3>1. GoodChunks(s11', Facts') /\ GoodChunks(s12', Facts') /\ GoodChunks(s13', Facts')
        BY <1>2, <1>7, <2>1, <2>2
      <3>2. \A p : ~HasLine(s12', p) /\ ~HasLine(s13', p)
        BY <2>1, <2>2
      <3>3. \A p \in Counted' : HasLine(s13', p) \/ HasLine(s12', p) \/ Waiting(p)'
        BY <1>2, <2>3
      <3> QED BY <2>1, <2>4, <3>1, <3>2, <3>3 DEF Packing
    <2>6. s13' \in Seq(Blocks!Chunk) /\ s11' \in Seq(Blocks!Chunk)
      BY <1>7, <2>1
    <2> QED BY <1>2, <1>3, <1>9, <2>5, <2>6 DEF BlocksInv
  <1> QED BY <1>1, <1>8, <1>9

\* What waited comes out before what comes after it.
LEMMA OutIsGood ==
  ASSUME NEW F, F.longest \in Nat, NEW ps, GoodChunks(ps, F), NEW bs, GoodChunks(bs, F),
         \A p, q \in F.counted : HasLine(ps, p) /\ HasLine(bs, q) => p < q,
         \A k \in 1 .. Len(bs) : bs[k].type \in Blocks!Mergeable,
         Len(bs) = 1 \/ Blocks!SizeOf(bs) <= F.longest
  PROVE  LET o == IF bs = <<>> THEN ps ELSE Append(ps, Blocks!Merged(bs)) IN
         GoodChunks(o, F) /\ \A p : HasLine(o, p) <=> HasLine(ps, p) \/ HasLine(bs, p)
  <1>1. CASE bs = <<>>
    <2>1. \A p : ~HasLine(bs, p)
      BY <1>1, GoodNone
    <2> QED BY <1>1, <2>1
  <1>2. CASE bs # <<>>
    <2> DEFINE m == Blocks!Merged(bs)
    <2>1. /\ GoodChunk(m, F)
          /\ \A x : x \in Blocks!Range(m.lines) <=> HasLine(bs, x)
      BY <1>2, MergedIsGood
    <2> HIDE DEF m
    <2>2. /\ GoodChunks(Append(ps, m), F)
          /\ \A p : HasLine(Append(ps, m), p) <=> HasLine(ps, p) \/ p \in Blocks!Range(m.lines)
      BY <2>1, GoodAppend
    <2> QED BY <1>2, <2>1, <2>2 DEF m
  <1> QED BY <1>1, <1>2

\* The next chunk: out with what waited, or put together with it, or waiting as well.
LEMMA PackStep ==
  ASSUME BlocksInv, Blocks!BlockAssumption, Blocks!Pack
  PROVE  BlocksInv'
  <1> DEFINE c == s11[s9]
             more == Append(s12, c)
             W(p) == \E l \in 1 .. Len(s11) : s9 + 1 <= l /\ p \in Blocks!Range(s11[l].lines)
  <1>1. /\ s4 = "packing" /\ s4' = s4 /\ s9 <= Len(s11) /\ s9' = s9 + 1 /\ s11' = s11
        /\ UNCHANGED <<Blocks!textVars, Blocks!scanVars>>
    BY DEF Blocks!Pack
  <1>2. /\ TextTypes' /\ (Many' <=> Many) /\ Scanned(s1, s8, s5, s6, s7)'
        /\ s6' \in {"none", "para", "code", "table"}
        /\ Facts' = Facts /\ Counted' = Counted /\ s2' = s2
    BY <1>1, CutGoesOn
  <1>3. Phases'
    BY <1>1, <1>2 DEF BlocksInv, Phases
  <1>4. Packing
    BY <1>1 DEF BlocksInv
  <1>5. /\ s9 \in Nat /\ 1 <= s9
        /\ GoodChunks(s11, Facts) /\ GoodChunks(s12, Facts) /\ GoodChunks(s13, Facts)
        /\ \A p, q \in Counted :
             /\ HasLine(s13, p) /\ (HasLine(s12, q) \/ Waiting(q)) => p < q
             /\ HasLine(s12, p) /\ Waiting(q) => p < q
        /\ \A p \in Counted : HasLine(s13, p) \/ HasLine(s12, p) \/ Waiting(p)
        /\ \A k \in 1 .. Len(s12) : s12[k].type \in Blocks!Mergeable
        /\ s12 # <<>> => Blocks!SizeOf(s12) < MinSize
    BY <1>4 DEF Packing
  <1>6. /\ s11 \in Seq(Blocks!Chunk) /\ s12 \in Seq(Blocks!Chunk) /\ s13 \in Seq(Blocks!Chunk)
        /\ Len(s11) \in Nat /\ s9 \in 1 .. Len(s11) /\ GoodChunk(c, Facts)
        /\ c \in Blocks!Chunk
        /\ \A l \in 1 .. Len(s11) : s9 < l => Precedes(c.lines, s11[l].lines, Facts.counted)
    <2>1. s11 \in Seq(Blocks!Chunk) /\ s12 \in Seq(Blocks!Chunk) /\ s13 \in Seq(Blocks!Chunk)
      BY <1>5 DEF GoodChunks
    <2>2. s9 \in 1 .. Len(s11)
      BY <1>1, <1>5, <2>1
    <2> QED BY <1>5, <2>1, <2>2 DEF GoodChunks, GoodChunk
  <1>7. Facts.counted = Counted /\ Facts.longest = Longest
    BY DEF Facts
  <1>8. /\ Longest \in Nat /\ 2 * MinSize <= Longest /\ MinSize \in Nat
    <2>1. s3 \in Targets
      BY DEF BlocksInv, TextTypes
    <2> QED BY <2>1, LongestIs DEF Blocks!BlockAssumption
  <1> HIDE DEF c
  <1>9. \A p : Waiting(p) <=> p \in Blocks!Range(c.lines) \/ W(p)
    <2>1. \A l \in 1 .. Len(s11) : s9 <= l <=> l = s9 \/ s9 + 1 <= l
      BY <1>6
    <2> QED BY <1>6, <2>1 DEF Waiting, c
  <1>10. ASSUME NEW p \in Counted, NEW q \in Counted, p \in Blocks!Range(c.lines), W(q)
         PROVE  p < q
    <2>1. PICK l \in 1 .. Len(s11) : s9 + 1 <= l /\ q \in Blocks!Range(s11[l].lines)
      BY <1>10
    <2>2. s9 < l
      BY <1>6, <2>1
    <2> QED BY <1>6, <1>7, <1>10, <2>1, <2>2 DEF Precedes
  <1>11. \A p : Waiting(p)' <=> W(p)
    BY <1>1 DEF Waiting
  <1> HIDE DEF W
  <1>12. Blocks!Size(c) \in Nat /\ Blocks!SizeOf(s12) \in Nat
         /\ Blocks!SizeOf(more) = Blocks!SizeOf(s12) + Blocks!Size(c)
         /\ (s12 = <<>> => Blocks!SizeOf(s12) = 0)
    BY <1>6, SizeIsNumber, SizeOfMore
  <1>13. /\ GoodChunks(more, Facts)
         /\ \A p : HasLine(more, p) <=> HasLine(s12, p) \/ p \in Blocks!Range(c.lines)
    BY <1>5, <1>6, <1>7, <1>9, GoodAppend
  <1>14. more # <<>> /\ Len(more) = Len(s12) + 1 /\ Len(s12) \in Nat
         /\ (c.type \in Blocks!Mergeable =>
               \A k \in 1 .. Len(more) : more[k].type \in Blocks!Mergeable)
    <2>1. /\ more \in Seq(Blocks!Chunk) /\ Len(more) = Len(s12) + 1 /\ more[Len(s12) + 1] = c
          /\ \A k \in 1 .. Len(s12) : more[k] = s12[k]
          /\ Len(s12) \in Nat
      BY <1>6
    <2>2. \A k \in 1 .. Len(s12) + 1 : k \in 1 .. Len(s12) \/ k = Len(s12) + 1
      BY <2>1
    <2> HIDE DEF more
    <2> QED BY <1>5, <2>1, <2>2
  <1> HIDE DEF more
  <1>15. s12 = <<>> \/ Blocks!SizeOf(s12) <= Facts.longest
    BY <1>5, <1>7, <1>8, <1>12
  <1>16. s9' \in Nat /\ 1 <= s9' /\ s9' <= Len(s11') + 1 /\ s11' \in Seq(Blocks!Chunk)
    BY <1>1, <1>6
  <1>17. GoodChunks(<<>>, Facts) /\ (\A p : ~HasLine(<<>>, p)) /\ Len(<<>>) = 0
    BY GoodNone
  <1>18. CASE c.type \notin Blocks!Mergeable \/ Blocks!Size(c) >= MinSize
    <2> DEFINE o == Blocks!Out(s12)
    <2>1. s13' = Append(o, c) /\ s12' = <<>>
      BY <1>18 DEF Blocks!Pack, c
    <2>2. GoodChunks(o, Facts) /\ \A p : HasLine(o, p) <=> HasLine(s13, p) \/ HasLine(s12, p)
      <3>1. CASE s12 = <<>>
        BY <1>5, <1>17, <3>1 DEF Blocks!Out
      <3>2. CASE s12 # <<>>
        BY <1>5, <1>7, <1>8, <1>15, <3>2, OutIsGood DEF Blocks!Out
      <3> QED BY <3>1, <3>2
    <2> HIDE DEF o
    <2>3. /\ GoodChunks(s13', Facts)
          /\ \A p : HasLine(s13', p) <=> HasLine(o, p) \/ p \in Blocks!Range(c.lines)
      BY <1>5, <1>6, <1>7, <1>9, <2>1, <2>2, GoodAppend
    <2>4. Packing'
      <3>1. \A p, q \in Counted : HasLine(s13', p) /\ W(q) => p < q
        BY <1>5, <1>9, <1>10, <2>2, <2>3
      <3>2. \A p \in Counted : HasLine(s13', p) \/ W(p)
        BY <1>5, <1>9, <2>2, <2>3
      <3>3. \A p : ~HasLine(s12', p)
        BY <1>17, <2>1
      <3>4. GoodChunks(s11', Facts') /\ GoodChunks(s12', Facts') /\ GoodChunks(s13', Facts')
        BY <1>1, <1>2, <1>5, <1>17, <2>1, <2>3
      <3>5. \A k \in 1 .. Len(s12') : s12'[k].type \in Blocks!Mergeable
        BY <1>17, <2>1
      <3> QED BY <1>2, <1>11, <1>16, <2>1, <3>1, <3>2, <3>3, <3>4, <3>5 DEF Packing
    <2>5. s13' \in Seq(Blocks!Chunk)
      BY <2>3 DEF GoodChunks
    <2> QED BY <1>1, <1>2, <1>3, <1>16, <2>4, <2>5 DEF BlocksInv
  <1>19. CASE /\ ~(c.type \notin Blocks!Mergeable \/ Blocks!Size(c) >= MinSize)
              /\ s12 # <<>> /\ Blocks!SizeOf(more) >= MinSize
    <2>1. s13' = Blocks!Out(more) /\ s12' = <<>>
      BY <1>19 DEF Blocks!Pack, c, more
    <2>2. Blocks!SizeOf(more) <= Facts.longest
      BY <1>5, <1>7, <1>8, <1>12, <1>19
    <2>3. \A p, q \in Facts.counted : HasLine(s13, p) /\ HasLine(more, q) => p < q
      BY <1>5, <1>7, <1>9, <1>13
    <2>4. /\ GoodChunks(s13', Facts)
          /\ \A p : HasLine(s13', p) <=> HasLine(s13, p) \/ HasLine(more, p)
      <3>1. Facts.longest \in Nat
        BY <1>7, <1>8
      <3>2. \A k \in 1 .. Len(more) : more[k].type \in Blocks!Mergeable
        BY <1>14, <1>19
      <3>3. LET o == IF more = <<>> THEN s13 ELSE Append(s13, Blocks!Merged(more)) IN
            GoodChunks(o, Facts) /\ \A p : HasLine(o, p) <=> HasLine(s13, p) \/ HasLine(more, p)
        BY <1>5, <1>13, <2>2, <2>3, <3>1, <3>2, OutIsGood
      <3>4. s13' = IF more = <<>> THEN s13 ELSE Append(s13, Blocks!Merged(more))
        BY <2>1 DEF Blocks!Out
      <3> QED BY <3>3, <3>4
    <2>5. Packing'
      <3>1. \A p, q \in Counted : HasLine(s13', p) /\ W(q) => p < q
        BY <1>5, <1>9, <1>10, <1>13, <2>4
      <3>2. \A p \in Counted : HasLine(s13', p) \/ W(p)
        BY <1>5, <1>9, <1>13, <2>4
      <3>3. \A p : ~HasLine(s12', p)
        BY <1>17, <2>1
      <3>4. GoodChunks(s11', Facts') /\ GoodChunks(s12', Facts') /\ GoodChunks(s13', Facts')
        BY <1>1, <1>2, <1>5, <1>17, <2>1, <2>4
      <3>5. \A k \in 1 .. Len(s12') : s12'[k].type \in Blocks!Mergeable
        BY <1>17, <2>1
      <3> QED BY <1>2, <1>11, <1>16, <2>1, <3>1, <3>2, <3>3, <3>4, <3>5 DEF Packing
    <2>6. s13' \in Seq(Blocks!Chunk)
      BY <2>4 DEF GoodChunks
    <2> QED BY <1>1, <1>2, <1>3, <1>16, <2>5, <2>6 DEF BlocksInv
  <1>20. CASE /\ ~(c.type \notin Blocks!Mergeable \/ Blocks!Size(c) >= MinSize)
              /\ ~(s12 # <<>> /\ Blocks!SizeOf(more) >= MinSize)
    <2>1. s13' = s13 /\ s12' = more
      BY <1>20 DEF Blocks!Pack, c, more
    <2>2. Blocks!SizeOf(more) < MinSize
      BY <1>8, <1>12, <1>20
    <2>3. Packing'
      <3>1. \A p, q \in Counted : /\ HasLine(s13, p) /\ (HasLine(more, q) \/ W(q)) => p < q
                                  /\ HasLine(more, p) /\ W(q) => p < q
        BY <1>5, <1>9, <1>10, <1>13
      <3>2. \A p \in Counted : HasLine(s13, p) \/ HasLine(more, p) \/ W(p)
        BY <1>5, <1>9, <1>13
      <3>3. GoodChunks(s11', Facts') /\ GoodChunks(s12', Facts') /\ GoodChunks(s13', Facts')
        BY <1>1, <1>2, <1>5, <1>13, <2>1
      <3>4. \A k \in 1 .. Len(s12') : s12'[k].type \in Blocks!Mergeable
        BY <1>14, <1>20, <2>1
      <3>5. Blocks!SizeOf(s12)' < MinSize
        <4>1. Blocks!SizeOf(s12)' = Blocks!SizeOf(more)
          BY <2>1
        <4> QED BY <2>2, <4>1
      <3> QED BY <1>2, <1>11, <1>16, <2>1, <3>1, <3>2, <3>3, <3>4, <3>5 DEF Packing
    <2> QED BY <1>1, <1>2, <1>3, <1>6, <1>16, <2>1, <2>3 DEF BlocksInv
  <1> QED BY <1>18, <1>19, <1>20

LEMMA PackedStep ==
  ASSUME BlocksInv, Blocks!BlockAssumption, Blocks!Packed
  PROVE  BlocksInv'
  <1>1. /\ s4 = "packing" /\ s4' = "done" /\ s9 > Len(s11) /\ s11' = s11
        /\ s13' = Blocks!Out(s12) /\ UNCHANGED <<Blocks!textVars, Blocks!scanVars>>
    BY DEF Blocks!Packed
  <1>2. /\ TextTypes' /\ (Many' <=> Many) /\ Scanned(s1, s8, s5, s6, s7)'
        /\ s6' \in {"none", "para", "code", "table"}
        /\ Facts' = Facts /\ Counted' = Counted /\ s2' = s2
    BY <1>1, CutGoesOn
  <1>3. Phases' /\ ~Many'
    BY <1>1, <1>2 DEF BlocksInv, Phases, Many
  <1>4. Packing
    BY <1>1 DEF BlocksInv
  <1>5. \A p : ~Waiting(p)
    <2>1. Len(s11) \in Nat /\ s9 \in Nat
      BY <1>4 DEF Packing, GoodChunks
    <2>2. \A l \in 1 .. Len(s11) : ~(s9 <= l)
      BY <1>1, <2>1
    <2> QED BY <2>2 DEF Waiting
  <1>6. Facts.counted = Counted /\ Facts.longest = Longest
    BY DEF Facts
  <1>7. /\ Longest \in Nat /\ 2 * MinSize <= Longest /\ MinSize \in Nat
    <2>1. s3 \in Targets
      BY DEF BlocksInv, TextTypes
    <2> QED BY <2>1, LongestIs DEF Blocks!BlockAssumption
  <1>8. /\ GoodChunks(s12, Facts) /\ GoodChunks(s13, Facts)
        /\ \A p, q \in Counted : HasLine(s13, p) /\ HasLine(s12, q) => p < q
        /\ \A p \in Counted : HasLine(s13, p) \/ HasLine(s12, p)
        /\ \A k \in 1 .. Len(s12) : s12[k].type \in Blocks!Mergeable
        /\ s12 # <<>> => Blocks!SizeOf(s12) < MinSize
        /\ s11 \in Seq(Blocks!Chunk)
    BY <1>4, <1>5 DEF Packing, GoodChunks
  <1>9. GoodChunks(s13', Facts) /\ \A p : HasLine(s13', p) <=> HasLine(s13, p) \/ HasLine(s12, p)
    <2>1. CASE s12 = <<>>
      BY <1>1, <1>8, <2>1, GoodNone DEF Blocks!Out
    <2>2. CASE s12 # <<>>
      <3>1. Blocks!SizeOf(s12) \in Nat
        BY <1>8, SizeOfMore, GoodNone, SizeOfUnrolls DEF GoodChunks, Sums
      <3>2. Blocks!SizeOf(s12) <= Facts.longest
        BY <1>6, <1>7, <1>8, <2>2, <3>1
      <3> QED BY <1>1, <1>6, <1>7, <1>8, <2>2, <3>2, OutIsGood DEF Blocks!Out
    <2> QED BY <2>1, <2>2
  <1>10. Finished'
    BY <1>2, <1>8, <1>9 DEF Finished
  <1>11. s13' \in Seq(Blocks!Chunk) /\ s11' \in Seq(Blocks!Chunk)
    BY <1>1, <1>8, <1>9 DEF GoodChunks
  <1> QED BY <1>1, <1>2, <1>3, <1>10, <1>11 DEF BlocksInv

\* Blocks that are joined where only blanks lie between them are apart as before.
Apart(v, e) ==
    /\ v \in Seq(BlockSet)
    /\ \A j \in 1 .. Len(v) : v[j].from <= v[j].to /\ v[j].to < e
    /\ \A i, j \in 1 .. Len(v) : i < j => v[i].to < v[j].from

Grown(v, n) == [v EXCEPT ![Len(v)].to = s8[n].from - 1]

Joins(v, n) == v # <<>> /\ Blocks!NotBlank \cap v[Len(v)].to + 1 .. s8[n].from - 1 = {}

EndOf(n) == IF n = 0 THEN 1 ELSE s8[n].to + 1

LEMMA ApartMore ==
  ASSUME NEW n \in 1 .. Len(s8), s8 \in Seq(BlockSet), NEW v, NEW e \in Nat, Apart(v, e), 1 <= e,
         e <= s8[n].from, s8[n].from <= s8[n].to
  PROVE  /\ Apart(Append(v, s8[n]), s8[n].to + 1)
         /\ v # <<>> => Apart(Grown(v, n), s8[n].to + 1)
  <1> DEFINE b == s8[n]
             m == Len(v)
  <1>1. /\ b \in BlockSet /\ b.from \in Nat /\ b.to \in Nat /\ e <= b.from /\ b.from <= b.to
    <2>1. b \in BlockSet
      OBVIOUS
    <2> QED BY <2>1 DEF BlockSet
  <1>2. /\ v \in Seq(BlockSet) /\ m \in Nat
        /\ \A j \in 1 .. m : v[j] \in BlockSet
        /\ \A j \in 1 .. m : v[j].from \in Nat /\ v[j].to \in Nat
    <2>1. v \in Seq(BlockSet)
      BY DEF Apart
    <2>2. m \in Nat /\ \A j \in 1 .. m : v[j] \in BlockSet
      BY <2>1
    <2>3. \A d \in BlockSet : d.from \in Nat /\ d.to \in Nat
      BY DEF BlockSet
    <2> QED BY <2>1, <2>2, <2>3
  <1>3. /\ \A j \in 1 .. m : v[j].from <= v[j].to /\ v[j].to < b.to + 1 /\ v[j].to < b.from
        /\ \A i, j \in 1 .. m : i < j => v[i].to < v[j].from
    <2>1. /\ \A j \in 1 .. m : v[j].from <= v[j].to /\ v[j].to < e
          /\ \A i, j \in 1 .. m : i < j => v[i].to < v[j].from
      BY DEF Apart
    <2> HIDE DEF b, m
    <2>2. ASSUME NEW j \in 1 .. m PROVE v[j].to < b.to + 1 /\ v[j].to < b.from
      <3>1. v[j].to < e /\ v[j].to \in Nat
        BY <1>2, <2>1
      <3> QED BY <1>1, <3>1
    <2> QED BY <2>1, <2>2
  <1>4. Apart(Append(v, b), b.to + 1)
    <2> DEFINE w == Append(v, b)
    <2> HIDE DEF b
    <2>1. /\ w \in Seq(BlockSet) /\ Len(w) = m + 1 /\ w[m + 1] = b
          /\ \A j \in 1 .. m : w[j] = v[j]
      BY <1>1, <1>2
    <2>2. \A j \in 1 .. m + 1 : j \in 1 .. m \/ j = m + 1
      BY <1>2
    <2>3. \A i, j \in 1 .. m + 1 : i < j => i \in 1 .. m
      BY <1>2
    <2> HIDE DEF w, m
    <2>4. ASSUME NEW j \in 1 .. m + 1 PROVE w[j].from <= w[j].to /\ w[j].to < b.to + 1
      <3>1. CASE j \in 1 .. m
        BY <1>3, <2>1, <3>1
      <3>2. CASE j = m + 1
        BY <1>1, <2>1, <3>2
      <3> QED BY <2>2, <3>1, <3>2
    <2>5. ASSUME NEW i \in 1 .. m + 1, NEW j \in 1 .. m + 1, i < j PROVE w[i].to < w[j].from
      <3>1. i \in 1 .. m
        BY <2>3, <2>5
      <3>2. CASE j \in 1 .. m
        BY <1>3, <2>1, <2>5, <3>1, <3>2
      <3>3. CASE j = m + 1
        BY <1>3, <2>1, <3>1, <3>3
      <3> QED BY <2>2, <3>2, <3>3
    <2> QED BY <2>1, <2>4, <2>5 DEF Apart, w
  <1>5. ASSUME v # <<>> PROVE Apart(Grown(v, n), b.to + 1)
    <2> DEFINE w == Grown(v, n)
               r == [v[m] EXCEPT !.to = b.from - 1]
    <2>1. m \in 1 .. m
      BY <1>2, <1>5
    <2>2. w = [v EXCEPT ![m] = r]
      BY DEF Grown
    <2>3. b.from - 1 \in Nat /\ v[m] \in BlockSet
      <3>1. v[m].from \in Nat /\ v[m].to \in Nat /\ v[m].to < b.from
        BY <1>2, <1>3, <2>1
      <3> QED BY <1>1, <1>2, <2>1, <3>1
    <2>4. r \in BlockSet /\ r.from = v[m].from /\ r.to = b.from - 1
      <3> DEFINE q == b.from - 1
      <3> HIDE DEF q
      <3> QED BY <2>3 DEF BlockSet
    <2> HIDE DEF w, r, b
    <2>5. /\ w \in Seq(BlockSet) /\ Len(w) = m /\ w[m] = r
          /\ \A j \in 1 .. m : j # m => w[j] = v[j]
      BY <1>2, <2>1, <2>2, <2>4
    <2> HIDE DEF m
    <2>6. ASSUME NEW j \in 1 .. m
          PROVE  /\ w[j].from = v[j].from
                 /\ w[j].from <= w[j].to /\ w[j].to < b.to + 1
      <3>1. CASE j = m
        <4>1. v[m].from <= v[m].to /\ v[m].to < b.from /\ v[m].from \in Nat /\ v[m].to \in Nat
          BY <1>2, <1>3, <2>1
        <4> QED BY <1>1, <2>4, <2>5, <3>1, <4>1, SMTT(30)
      <3>2. CASE j # m
        BY <1>3, <2>5, <3>2
      <3> QED BY <3>1, <3>2
    <2>7. ASSUME NEW i \in 1 .. m, NEW j \in 1 .. m, i < j PROVE w[i].to < w[j].from
      <3>1. i # m
        BY <1>2, <2>7
      <3> QED BY <1>3, <2>5, <2>6, <2>7, <3>1
    <2> QED BY <2>5, <2>6, <2>7 DEF Apart, w
  <1> QED BY <1>4, <1>5 DEF b

LEMMA CoalescedIs ==
  ASSUME Found(s1, s8), Len(s1) \in Nat
  PROVE  \E e \in Nat : Apart(Blocks!Coalesced, e)
  <1> DEFINE N == Len(s8)
             V == Seq(BlockSet)
             H == [p \in V \X (1 .. N) |-> IF Joins(p[1], p[2]) THEN Grown(p[1], p[2])
                                           ELSE Append(p[1], s8[p[2]])]
             Eq(t) == t = [i \in 0 .. N |->
                             IF i = 0 THEN <<>>
                             ELSE IF Joins(t[i - 1], i) THEN Grown(t[i - 1], i)
                                  ELSE Append(t[i - 1], s8[i])]
  <1>1. N \in Nat /\ s8 \in V /\ <<>> \in V /\ \A n \in 1 .. N : s8[n] \in BlockSet
    BY DEF Found
  <1>2. /\ \A n \in 1 .. N : /\ s8[n].from \in Nat /\ s8[n].to \in Nat /\ 1 <= s8[n].from
                             /\ s8[n].from <= s8[n].to
        /\ \A i, j \in 1 .. N : i < j => s8[i].to < s8[j].from
    BY FoundTypes DEF Found
  <1>3. Blocks!Coalesced = (CHOOSE t : Eq(t))[N]
    BY DEF Blocks!Coalesced, Joins, Grown
  <1> HIDE DEF N
  <1>4. \A v \in V, n \in 1 .. N :
          H[<<v, n>>] = IF Joins(v, n) THEN Grown(v, n) ELSE Append(v, s8[n])
    OBVIOUS
  <1>5. Rounds(H, N, V)
    <2>1. ASSUME NEW v \in V, NEW n \in 1 .. N PROVE H[<<v, n>>] \in V
      <3>1. s8[n] \in BlockSet /\ Append(v, s8[n]) \in V
        BY <1>1
      <3>2. ASSUME v # <<>> PROVE Grown(v, n) \in V
        <4> DEFINE m == Len(v)
                   q == s8[n].from - 1
                   r == [v[m] EXCEPT !.to = q]
        <4>1. m \in 1 .. m /\ v[m] \in BlockSet
          BY <3>2
        <4>2. q \in Nat
          BY <1>2
        <4>3. r \in BlockSet
          <5> HIDE DEF q, m
          <5> QED BY <4>1, <4>2 DEF BlockSet
        <4>4. Grown(v, n) = [v EXCEPT ![m] = r]
          BY DEF Grown
        <4> HIDE DEF r
        <4> QED BY <4>1, <4>3, <4>4
      <3> HIDE DEF H, V
      <3> QED BY <1>4, <3>1, <3>2 DEF Joins
    <2> HIDE DEF H, V
    <2> QED BY <2>1 DEF Rounds
  <1> HIDE DEF H
  <1>6. PICK F : Iterates(F, H, N, V, <<>>)
    <2> HIDE DEF V
    <2> QED BY <1>1, <1>5, IterationExists
  <1>7. F \in [0 .. N -> V] /\ F[0] = <<>> /\ \A n \in 1 .. N : F[n] = H[<<F[n - 1], n>>]
    BY <1>6 DEF Iterates
  <1>8. Eq(F)
    <2>1. ASSUME NEW n \in 0 .. N
          PROVE  F[n] = IF n = 0 THEN <<>>
                        ELSE IF Joins(F[n - 1], n) THEN Grown(F[n - 1], n)
                             ELSE Append(F[n - 1], s8[n])
      <3>1. n = 0 \/ (n \in 1 .. N /\ n # 0 /\ n - 1 \in 0 .. N)
        BY <1>1
      <3>2. ASSUME n \in 1 .. N, n - 1 \in 0 .. N
            PROVE  F[n] = IF Joins(F[n - 1], n) THEN Grown(F[n - 1], n)
                          ELSE Append(F[n - 1], s8[n])
        <4>1. F[n - 1] \in V
          BY <1>7, <3>2
        <4> HIDE DEF V
        <4> QED BY <1>4, <1>7, <3>2, <4>1
      <3> QED BY <1>7, <3>1, <3>2
    <2> QED BY <1>7, <2>1
  <1> DEFINE t == CHOOSE t : Eq(t)
  <1>9. Eq(t)
    <2> HIDE DEF Eq
    <2> QED BY <1>8
  <1> HIDE DEF t
  <1>10. /\ t[0] = <<>>
         /\ \A n \in 1 .. N :
              t[n] = IF Joins(t[n - 1], n) THEN Grown(t[n - 1], n) ELSE Append(t[n - 1], s8[n])
    <2>1. 0 \in 0 .. N /\ \A n \in 1 .. N : n \in 0 .. N /\ n # 0
      BY <1>1
    <2> QED BY <1>9, <2>1
  <1> HIDE DEF Eq
  <1> DEFINE Good == {n \in Nat : n <= N => Apart(t[n], EndOf(n))}
  <1>11. 0 \in Good
    <2>1. t[0] \in Seq(BlockSet) /\ \A j : j \notin 1 .. Len(t[0])
      BY <1>10
    <2>2. Apart(t[0], EndOf(0))
      BY <2>1 DEF Apart
    <2> QED BY <2>2
  <1>12. ASSUME NEW n \in Nat, n \in Good PROVE n + 1 \in Good
    <2>1. ASSUME n + 1 <= N PROVE Apart(t[n + 1], EndOf(n + 1))
      <3>1. n + 1 \in 1 .. N /\ (n + 1) - 1 = n /\ Apart(t[n], EndOf(n)) /\ n + 1 # 0
        BY <1>1, <1>12, <2>1
      <3>2. EndOf(n) \in Nat /\ 1 <= EndOf(n) /\ EndOf(n) <= s8[n + 1].from
        <4>1. CASE n = 0
          BY <1>2, <3>1, <4>1 DEF EndOf
        <4>2. CASE n # 0
          <5>1. n \in 1 .. N /\ n < n + 1
            BY <1>1, <2>1, <4>2
          <5>2. s8[n].to \in Nat /\ s8[n].to < s8[n + 1].from /\ s8[n + 1].from \in Nat
            BY <1>2, <3>1, <5>1
          <5> QED BY <4>2, <5>2 DEF EndOf
        <4> QED BY <4>1, <4>2
      <3>3. EndOf(n + 1) = s8[n + 1].to + 1
        BY <3>1 DEF EndOf
      <3>4. /\ Apart(Append(t[n], s8[n + 1]), s8[n + 1].to + 1)
            /\ t[n] # <<>> => Apart(Grown(t[n], n + 1), s8[n + 1].to + 1)
        BY <1>1, <1>2, <3>1, <3>2, ApartMore DEF N
      <3>5. t[n + 1] = IF Joins(t[n], n + 1) THEN Grown(t[n], n + 1)
                       ELSE Append(t[n], s8[n + 1])
        BY <1>10, <3>1
      <3> QED BY <3>3, <3>4, <3>5 DEF Joins
    <2> QED BY <2>1
  <1>13. N \in Good
    <2> HIDE DEF Good
    <2> QED BY <1>1, <1>11, <1>12, Inductive
  <1>14. Apart(t[N], EndOf(N)) /\ EndOf(N) \in Nat
    <2>1. N = 0 \/ N \in 1 .. N
      BY <1>1
    <2> QED BY <1>1, <1>2, <1>13, <2>1 DEF EndOf
  <1> QED BY <1>3, <1>14 DEF t

LEMMA LinesTyped ==
  ASSUME NEW a \in Nat, NEW b \in Nat
  PROVE  Blocks!LinesOf(a, b) \in Seq(Nat)
  <1>1. CASE a <= b + 1
    BY <1>1, LinesOfIs
  <1>2. CASE ~(a <= b + 1)
    <2>1. 1 .. b - a + 1 = 1 .. 0
      BY <1>2
    <2>2. Blocks!LinesOf(a, b) = [k \in 1 .. 0 |-> a + k - 1]
      BY <2>1 DEF Blocks!LinesOf
    <2>3. [k \in 1 .. 0 |-> a + k - 1] = <<>>
      OBVIOUS
    <2> QED BY <2>2, <2>3
  <1> QED BY <1>1, <1>2

\* A range of blocks becomes a section.
LEMMA TakeStep ==
  ASSUME BlocksInv, Blocks!BlockAssumption, Blocks!TakeRange
  PROVE  BlocksInv'
  <1> DEFINE C == Blocks!Coalesced
             z == Blocks!LastInRange(C, s9)
             s == Blocks!LinesOf(C[s9].from, C[z].to)
             c == Blocks!Piece(s, "SECTION")
  <1>1. /\ s4 = "cutting" /\ s4' = s4 /\ s2 = "semantic" /\ s9 <= Len(C)
        /\ s11' = Append(s11, c) /\ s9' = z + 1 /\ s10' = s10 /\ s13' = s13
        /\ UNCHANGED <<Blocks!textVars, Blocks!scanVars>>
    BY DEF Blocks!TakeRange
  <1>2. /\ TextTypes' /\ (Many' <=> Many) /\ Scanned(s1, s8, s5, s6, s7)'
        /\ s6' \in {"none", "para", "code", "table"} /\ s2' = s2
    BY <1>1, CutGoesOn
  <1>3. Phases' /\ ~Many'
    BY <1>1, <1>2 DEF BlocksInv, Phases
  <1>4. /\ s9 \in Nat /\ 1 <= s9 /\ s11 \in Seq(Blocks!Chunk) /\ s10 = <<>> /\ s13 = <<>>
        /\ \A k \in 1 .. Len(s11) : s11[k].lines # <<>>
    BY <1>1 DEF BlocksInv, Sectioning
  <1>5. PICK e \in Nat : Apart(C, e)
    <2>1. Found(s1, s8) /\ Len(s1) \in Nat
      BY TextIs DEF BlocksInv, Scanned
    <2> QED BY <2>1, CoalescedIs
  <1> HIDE DEF C
  <1>6. /\ C \in Seq(BlockSet) /\ Len(C) \in Nat
        /\ \A j \in 1 .. Len(C) : C[j].from \in Nat /\ C[j].to \in Nat
        /\ \A j \in 1 .. Len(C) : C[j].from <= C[j].to
        /\ \A i, j \in 1 .. Len(C) : i < j => C[i].to < C[j].from
    <2>1. C \in Seq(BlockSet)
      BY <1>5 DEF Apart
    <2>2. Len(C) \in Nat /\ \A j \in 1 .. Len(C) : C[j] \in BlockSet
      BY <2>1
    <2>3. \A d \in BlockSet : d.from \in Nat /\ d.to \in Nat
      BY DEF BlockSet
    <2> QED BY <1>5, <2>1, <2>2, <2>3 DEF Apart
  <1>7. z \in 1 .. Len(C) /\ s9 <= z
    <2> DEFINE O == {j \in s9 + 1 .. Len(C) : C[j].to - C[s9].from + 1 > MaxSize}
    <2>1. z = IF O = {} THEN Len(C)
              ELSE IF C[Blocks!Min(O) - 1].to - C[s9].from + 1 < MinSize THEN Blocks!Min(O)
                   ELSE Blocks!Min(O) - 1
      BY DEF Blocks!LastInRange
    <2>2. O = {} \/ Blocks!Min(O) \in O
      <3>1. O \in SUBSET Nat
        BY <1>4, <1>6
      <3> HIDE DEF O
      <3> QED BY <3>1, BlocksLeast
    <2>3. O = {} \/ Blocks!Min(O) \in s9 + 1 .. Len(C)
      BY <2>2
    <2>4. \/ z = Len(C)
          \/ Blocks!Min(O) \in s9 + 1 .. Len(C) /\ (z = Blocks!Min(O) \/ z = Blocks!Min(O) - 1)
      BY <2>1, <2>3
    <2> HIDE DEF O, z
    <2> QED BY <1>1, <1>4, <1>6, <2>4
  <1>8. s9 \in 1 .. Len(C)
    BY <1>1, <1>4, <1>6
  <1> HIDE DEF z
  <1>9. C[s9].from \in Nat /\ C[z].to \in Nat /\ C[s9].from <= C[z].to
    <2>1. /\ C[s9].from \in Nat /\ C[s9].to \in Nat /\ C[s9].from <= C[s9].to
          /\ C[z].from \in Nat /\ C[z].to \in Nat /\ C[z].from <= C[z].to
      BY <1>6, <1>7, <1>8
    <2>2. z = s9 \/ C[s9].to < C[z].from
      BY <1>4, <1>6, <1>7, <1>8
    <2>3. CASE z = s9
      BY <2>1, <2>3
    <2>4. CASE C[s9].to < C[z].from
      BY <2>1, <2>4
    <2> QED BY <2>2, <2>3, <2>4
  <1>10. s \in Seq(Nat) /\ s # <<>>
    <2> DEFINE f == C[s9].from
               u == C[z].to
    <2>1. f \in Nat /\ u \in Nat /\ f <= u /\ f <= u + 1
      BY <1>9
    <2> HIDE DEF f, u
    <2>2. Blocks!LinesOf(f, u) \in Seq(Nat) /\ Len(Blocks!LinesOf(f, u)) = u - f + 1
      BY <2>1, LinesOfIs
    <2>3. Blocks!LinesOf(f, u) # <<>>
      BY <2>1, <2>2
    <2> QED BY <2>2, <2>3 DEF f, u
  <1> HIDE DEF s
  <1>11. c \in Blocks!Chunk /\ c.lines = s
    <2>1. "SECTION" \in Blocks!ChunkTypes /\ s10 \in Seq(Nat)
      BY <1>4 DEF Blocks!ChunkTypes
    <2> QED BY <1>10, <2>1 DEF Blocks!Piece, Blocks!Chunk
  <1> HIDE DEF c
  <1>12. s11' \in Seq(Blocks!Chunk) /\ \A k \in 1 .. Len(s11') : s11'[k].lines # <<>>
    <2>1. /\ s11' \in Seq(Blocks!Chunk) /\ Len(s11') = Len(s11) + 1 /\ s11'[Len(s11) + 1] = c
          /\ \A k \in 1 .. Len(s11) : s11'[k] = s11[k]
      BY <1>1, <1>4, <1>11
    <2>2. \A k \in 1 .. Len(s11) + 1 : k \in 1 .. Len(s11) \/ k = Len(s11) + 1
      BY <1>4
    <2> QED BY <1>4, <1>10, <1>11, <2>1, <2>2
  <1>13. Sectioning'
    BY <1>1, <1>4, <1>7, <1>12 DEF Sectioning
  <1>14. s13' \in Seq(Blocks!Chunk)
    BY <1>1, <1>4
  <1> QED BY <1>1, <1>2, <1>3, <1>12, <1>13, <1>14 DEF BlocksInv

\* A small last section goes to the one before it.
LEMMA LastStep ==
  ASSUME BlocksInv, Blocks!BlockAssumption, Blocks!LastRange
  PROVE  BlocksInv'
  <1> DEFINE n == Len(s11)
             a == s11[n - 1].lines[1]
             z == s11[n]
             e == z.lines[Len(z.lines)]
             c == Blocks!Piece(Blocks!LinesOf(a, e), "SECTION")
  <1>1. /\ s4 = "cutting" /\ s2 = "semantic" /\ s4' = "done" /\ s11' = s11
        /\ s13' = s11 \/ (n > 1 /\ s13' = Append(SubSeq(s11, 1, n - 2), c))
        /\ UNCHANGED <<Blocks!textVars, Blocks!scanVars>>
    BY DEF Blocks!LastRange
  <1>2. /\ TextTypes' /\ (Many' <=> Many) /\ Scanned(s1, s8, s5, s6, s7)'
        /\ s6' \in {"none", "para", "code", "table"} /\ s2' = s2
    BY <1>1, CutGoesOn
  <1>3. Phases' /\ ~Many'
    BY <1>1, <1>2 DEF BlocksInv, Phases
  <1>4. /\ s11 \in Seq(Blocks!Chunk) /\ s10 = <<>>
        /\ \A k \in 1 .. Len(s11) : s11[k].lines # <<>>
    BY <1>1 DEF BlocksInv, Sectioning
  <1>5. n \in Nat
    BY <1>4
  <1>6. ASSUME n > 1 PROVE Append(SubSeq(s11, 1, n - 2), c) \in Seq(Blocks!Chunk)
    <2>1. n - 1 \in 1 .. n /\ n \in 1 .. n
      BY <1>5, <1>6
    <2>2. ASSUME NEW k \in 1 .. n
          PROVE  s11[k].lines \in Seq(Nat) /\ s11[k].lines # <<>>
      <3>1. s11[k] \in Blocks!Chunk
        BY <1>4
      <3> QED BY <1>4, <3>1 DEF Blocks!Chunk
    <2>3. a \in Nat
      <3>1. s11[n - 1].lines \in Seq(Nat) /\ s11[n - 1].lines # <<>>
        BY <2>1, <2>2
      <3> QED BY <3>1
    <2>4. e \in Nat
      <3>1. z.lines \in Seq(Nat) /\ z.lines # <<>>
        BY <2>1, <2>2
      <3> HIDE DEF z
      <3> QED BY <3>1
    <2> HIDE DEF a, e
    <2>5. Blocks!LinesOf(a, e) \in Seq(Nat)
      BY <2>3, <2>4, LinesTyped
    <2>6. c \in Blocks!Chunk
      <3>1. "SECTION" \in Blocks!ChunkTypes /\ s10 \in Seq(Nat)
        BY <1>4 DEF Blocks!ChunkTypes
      <3> QED BY <2>5, <3>1 DEF Blocks!Piece, Blocks!Chunk
    <2> HIDE DEF c
    <2>7. SubSeq(s11, 1, n - 2) \in Seq(Blocks!Chunk)
      <3> DEFINE m == n - 2
      <3>1. 1 \in Int /\ m \in Int /\ \A i \in 1 .. m : i \in 1 .. n
        BY <1>5, <1>6
      <3>2. \A i \in 1 .. m : s11[i] \in Blocks!Chunk
        BY <1>4, <3>1
      <3> HIDE DEF m
      <3>3. SubSeq(s11, 1, m) \in Seq(Blocks!Chunk)
        BY <3>1, <3>2, SubSeqProperties
      <3> QED BY <3>3 DEF m
    <2> QED BY <2>6, <2>7
  <1>7. s11' \in Seq(Blocks!Chunk) /\ s13' \in Seq(Blocks!Chunk)
    <2> HIDE DEF c, n
    <2> QED BY <1>1, <1>4, <1>6
  <1> QED BY <1>1, <1>2, <1>3, <1>7 DEF BlocksInv

\* Paragraphs are apart, and every line that is not blank is in one.
Run(r) ==
    /\ r[1] \in Nat /\ r[2] \in Nat /\ 1 <= r[1] /\ r[1] <= r[2] /\ r[2] <= Len(s1)
    /\ r[1] .. r[2] \subseteq Blocks!NotBlank
    /\ r[1] - 1 \notin Blocks!NotBlank /\ r[2] + 1 \notin Blocks!NotBlank
    /\ r = <<r[1], r[2]>>

LEMMA NotBlankIs ==
  ASSUME TextTypes, Blocks!BlockAssumption
  PROVE  /\ Len(s1) \in Nat /\ Blocks!NotBlank \subseteq 1 .. Len(s1)
         /\ Blocks!NotBlank \in SUBSET Nat /\ IsFiniteSet(Blocks!NotBlank)
  <1>1. Len(s1) \in Nat /\ Blocks!NotBlank \subseteq 1 .. Len(s1)
    BY TextIs DEF Blocks!NotBlank
  <1>2. IsFiniteSet(1 .. Len(s1))
    BY <1>1, UpTo
  <1>3. Blocks!NotBlank \in SUBSET Nat
    <2>1. \A x \in 1 .. Len(s1) : x \in Nat
      BY <1>1
    <2> QED BY <1>1, <2>1
  <1>4. IsFiniteSet(Blocks!NotBlank)
    BY ONLY <1>1, <1>2, FS_Subset
  <1> QED BY <1>1, <1>3, <1>4

LEMMA ParagraphsAre ==
  ASSUME TextTypes, Blocks!BlockAssumption
  PROVE  /\ IsFiniteSet(Blocks!Paragraphs)
         /\ \A r \in Blocks!Paragraphs : Run(r)
         /\ \A r : Run(r) => r \in Blocks!Paragraphs
  <1> DEFINE N == Blocks!NotBlank
             P == Blocks!Paragraphs
  <1>1. Len(s1) \in Nat /\ N \subseteq 1 .. Len(s1) /\ N \in SUBSET Nat /\ IsFiniteSet(N)
    BY NotBlankIs
  <1>2. P = {r \in N \X N : /\ r[1] <= r[2] /\ r[1] .. r[2] \subseteq N
                            /\ r[1] - 1 \notin N /\ r[2] + 1 \notin N}
    BY DEF Blocks!Paragraphs
  <1> HIDE DEF N, P
  <1>3. IsFiniteSet(P)
    <2>1. IsFiniteSet(N \X N)
      BY <1>1, FS_Product
    <2>2. P \subseteq N \X N
      BY <1>2
    <2> QED BY <2>1, <2>2, FS_Subset
  <1>4. ASSUME NEW r \in P PROVE Run(r)
    <2>1. /\ r[1] \in N /\ r[2] \in N /\ r = <<r[1], r[2]>>
          /\ r[1] <= r[2] /\ r[1] .. r[2] \subseteq N /\ r[1] - 1 \notin N /\ r[2] + 1 \notin N
      BY <1>2
    <2>2. r[1] \in Nat /\ r[2] \in Nat /\ 1 <= r[1] /\ r[2] <= Len(s1)
      BY <1>1, <2>1
    <2> QED BY <2>1, <2>2 DEF Run, N
  <1>5. ASSUME NEW r, Run(r) PROVE r \in P
    <2>1. /\ r[1] \in Nat /\ r[2] \in Nat /\ r[1] <= r[2] /\ r = <<r[1], r[2]>>
          /\ r[1] .. r[2] \subseteq N /\ r[1] - 1 \notin N /\ r[2] + 1 \notin N
      BY <1>5 DEF Run, N
    <2>2. r[1] \in r[1] .. r[2] /\ r[2] \in r[1] .. r[2]
      BY <2>1
    <2>3. <<r[1], r[2]>> \in N \X N
      BY <2>1, <2>2
    <2> QED BY <1>2, <2>1, <2>3
  <1> QED BY <1>3, <1>4, <1>5 DEF P

LEMMA ParagraphsApart ==
  ASSUME NEW q, Run(q), NEW r, Run(r), NEW x \in Nat,
         q[1] <= x, x <= q[2], r[1] <= x, x <= r[2]
  PROVE  q = r
  <1> DEFINE a == q[1]
             b == q[2]
             c == r[1]
             d == r[2]
             N == Blocks!NotBlank
  <1>1. /\ a \in Nat /\ b \in Nat /\ c \in Nat /\ d \in Nat
        /\ a <= x /\ x <= b /\ c <= x /\ x <= d
        /\ a .. b \subseteq N /\ c .. d \subseteq N
        /\ a - 1 \notin N /\ b + 1 \notin N /\ c - 1 \notin N /\ d + 1 \notin N
        /\ q = <<a, b>> /\ r = <<c, d>>
    BY DEF Run
  <1> HIDE DEF a, b, c, d, N
  <1>2. a = c
    <2>1. CASE a < c
      <3>1. c - 1 \in a .. b
        BY <1>1, <2>1
      <3> QED BY <1>1, <3>1
    <2>2. CASE c < a
      <3>1. a - 1 \in c .. d
        BY <1>1, <2>2
      <3> QED BY <1>1, <3>1
    <2> QED BY <1>1, <2>1, <2>2
  <1>3. b = d
    <2>1. CASE b < d
      <3>1. b + 1 \in c .. d
        BY <1>1, <2>1
      <3> QED BY <1>1, <3>1
    <2>2. CASE d < b
      <3>1. d + 1 \in a .. b
        BY <1>1, <2>2
      <3> QED BY <1>1, <3>1
    <2> QED BY <1>1, <2>1, <2>2
  <1> QED BY <1>1, <1>2, <1>3

LEMMA InParagraph ==
  ASSUME TextTypes, Blocks!BlockAssumption, NEW p \in Blocks!NotBlank
  PROVE  \E r \in Blocks!Paragraphs : r[1] <= p /\ p <= r[2]
  <1> DEFINE N == Blocks!NotBlank
             n == Len(s1)
             A == {a \in N : a <= p /\ a .. p \subseteq N}
             B == {b \in N : p <= b /\ p .. b \subseteq N}
  <1>1. n \in Nat /\ N \subseteq 1 .. n /\ N \in SUBSET Nat /\ p \in N
    BY NotBlankIs
  <1> HIDE DEF N, n
  <1>2. p \in Nat /\ p .. p \subseteq N
    <2>1. \A x \in p .. p : x = p
      BY <1>1
    <2> QED BY <1>1, <2>1
  <1>3. A \in SUBSET Nat /\ A # {} /\ B \in SUBSET Int /\ B # {} /\ \A b \in B : b <= n
    <2>1. p \in A /\ p \in B
      BY <1>1, <1>2
    <2>2. A \subseteq N /\ B \subseteq N /\ N \subseteq Int
      BY <1>1
    <2>4. A \in SUBSET Nat /\ B \in SUBSET Int
      <3> HIDE DEF A, B
      <3> QED BY <1>1, <2>2
    <2>3. \A b \in B : b <= n
      BY <1>1
    <2> QED BY <2>1, <2>3, <2>4
  <1>4. PICK a \in A : \A d \in A : a <= d
    <2> HIDE DEF A
    <2> QED BY <1>3, LeastExists
  <1>5. PICK b \in B : \A d \in B : d <= b
    <2> HIDE DEF B
    <2>1. n \in Int
      BY <1>1
    <2> QED BY <1>3, <2>1, BlocksGreatest
  <1>6. a \in Nat /\ b \in Nat /\ 1 <= a /\ a <= p /\ p <= b /\ b <= n
        /\ a .. p \subseteq N /\ p .. b \subseteq N
    BY <1>1, <1>4, <1>5
  <1>7. a - 1 \notin N
    <2> SUFFICES ASSUME a - 1 \in N PROVE FALSE
      OBVIOUS
    <2>1. \A x \in a - 1 .. p : x = a - 1 \/ x \in a .. p
      BY <1>2, <1>6
    <2>2. a - 1 .. p \subseteq N /\ a - 1 <= p
      BY <1>2, <1>6, <2>1
    <2>3. a - 1 \in A
      BY <2>2
    <2> QED BY <1>4, <1>6, <2>3
  <1>8. b + 1 \notin N
    <2> SUFFICES ASSUME b + 1 \in N PROVE FALSE
      OBVIOUS
    <2>1. \A x \in p .. b + 1 : x = b + 1 \/ x \in p .. b
      BY <1>2, <1>6
    <2>2. p .. b + 1 \subseteq N /\ p <= b + 1
      BY <1>2, <1>6, <2>1
    <2>3. b + 1 \in B
      BY <2>2
    <2> QED BY <1>5, <1>6, <2>3
  <1>9. a .. b \subseteq N
    <2>1. \A x \in a .. b : x \in a .. p \/ x \in p .. b
      BY <1>2, <1>6
    <2> QED BY <1>6, <2>1
  <1> DEFINE r == <<a, b>>
  <1>10. r[1] = a /\ r[2] = b
    OBVIOUS
  <1> HIDE DEF r
  <1>11. r = <<r[1], r[2]>>
    BY <1>10 DEF r
  <1>12. a <= b
    BY <1>2, <1>6
  <1>13. Run(r)
    BY <1>6, <1>7, <1>8, <1>9, <1>10, <1>11, <1>12 DEF Run, N, n
  <1> QED BY <1>6, <1>10, <1>13, ParagraphsAre

\* The k-th paragraph: the lines of those before it, and its own.
Before(r) == {q \in Blocks!Paragraphs : q[1] < r[1]}

LEMMA RankedParagraph ==
  ASSUME TextTypes, Blocks!BlockAssumption, NEW k \in 1 .. Cardinality(Blocks!Paragraphs)
  PROVE  \E r \in Blocks!Paragraphs : Cardinality(Before(r)) = k - 1
  <1> DEFINE P == Blocks!Paragraphs
             S == {q[1] : q \in P}
             f == Blocks!Rising(S)
             n == Cardinality(P)
  <1>1. IsFiniteSet(P) /\ \A r \in P : Run(r)
    BY ParagraphsAre
  <1>2. ASSUME NEW q \in P, NEW r \in P, q[1] = r[1] PROVE q = r
    <2>1. Run(q) /\ Run(r)
      BY <1>1
    <2>2. q[1] \in Nat /\ q[1] <= q[1] /\ q[1] <= q[2] /\ r[1] <= q[1] /\ q[1] <= r[2]
      BY <1>2, <2>1 DEF Run
    <2> QED BY <2>1, <2>2, ParagraphsApart
  <1>3. \A D : D \subseteq P =>
          IsFiniteSet({q[1] : q \in D}) /\ Cardinality({q[1] : q \in D}) = Cardinality(D)
    <2> SUFFICES ASSUME NEW D, D \subseteq P
                 PROVE  /\ IsFiniteSet({q[1] : q \in D})
                        /\ Cardinality({q[1] : q \in D}) = Cardinality(D)
      OBVIOUS
    <2> DEFINE g == [q \in D |-> q[1]]
    <2>1. IsFiniteSet(D)
      BY <1>1, FS_Subset
    <2>2. \A q, r \in D : q # r => g[q] # g[r]
      BY <1>2
    <2>3. {g[q] : q \in D} = {q[1] : q \in D}
      OBVIOUS
    <2> HIDE DEF g
    <2>4. IsFiniteSet({g[q] : q \in D}) /\ Cardinality({g[q] : q \in D}) = Cardinality(D)
      BY <2>1, <2>2, SameSize
    <2> QED BY <2>3, <2>4
  <1>4. S \in SUBSET Nat /\ IsFiniteSet(S) /\ Cardinality(S) = n
    <2>1. S \in SUBSET Nat
      BY <1>1 DEF Run
    <2> QED BY <1>3, <2>1
  <1> HIDE DEF S
  <1>5. /\ n \in Nat /\ f \in [1 .. n -> S] /\ f \in Seq(Nat) /\ Len(f) = n
        /\ Blocks!Range(f) = S
        /\ \A i, j \in 1 .. n : i < j => f[i] < f[j]
    BY <1>4, BlocksRising
  <1> HIDE DEF f
  <1>6. k \in 1 .. n /\ k \in Nat
    OBVIOUS
  <1> HIDE DEF n
  <1>7. PICK r \in P : r[1] = f[k]
    BY <1>5, <1>6 DEF S
  <1> DEFINE D == Before(r)
             L == 1 .. k - 1
  <1>8. {q[1] : q \in D} = {f[j] : j \in L}
    <2>1. ASSUME NEW q \in D PROVE q[1] \in {f[j] : j \in L}
      <3>1. q \in P /\ q[1] < f[k]
        BY <1>7 DEF Before
      <3>2. q[1] \in S
        BY <3>1 DEF S
      <3>3. PICK j \in 1 .. n : q[1] = f[j]
        BY <1>5, <3>2, InRange
      <3>4. f[j] \in Nat /\ f[k] \in Nat
        BY <1>4, <1>5, <1>6
      <3>5. ~(k < j) /\ j # k
        <4>1. ~(f[k] < f[j])
          BY <3>1, <3>3, <3>4
        <4> QED BY <1>5, <1>6, <3>1, <3>3, <3>4, <4>1
      <3>6. j \in L
        BY <1>6, <3>5
      <3> QED BY <3>3, <3>6
    <2>2. ASSUME NEW j \in L PROVE f[j] \in {q[1] : q \in D}
      <3>1. j \in 1 .. n /\ j < k
        BY <1>5, <1>6
      <3>2. f[j] < f[k] /\ f[j] \in S
        BY <1>5, <1>6, <3>1
      <3>3. PICK q \in P : q[1] = f[j]
        BY <3>2 DEF S
      <3>4. q \in D
        BY <1>7, <3>2, <3>3 DEF Before
      <3> QED BY <3>3, <3>4
    <2> HIDE DEF D, L
    <2> QED BY <2>1, <2>2
  <1>9. Cardinality({f[j] : j \in L}) = k - 1
    <2>1. k - 1 \in Nat
      BY <1>6
    <2>2. IsFiniteSet(L) /\ Cardinality(L) = k - 1
      BY <2>1, UpTo
    <2>3. \A i, j \in L : i # j => f[i] # f[j]
      <3> SUFFICES ASSUME NEW i \in L, NEW j \in L, i # j PROVE f[i] # f[j]
        OBVIOUS
      <3>1. i \in 1 .. n /\ j \in 1 .. n /\ (i < j \/ j < i)
        BY <1>5, <1>6
      <3>2. f[i] \in Nat /\ f[j] \in Nat
        BY <1>4, <1>5, <3>1
      <3>3. f[i] < f[j] \/ f[j] < f[i]
        BY <1>5, <3>1
      <3> QED BY <3>2, <3>3
    <2> HIDE DEF L
    <2> QED BY <2>2, <2>3, SameSize
  <1>10. Cardinality({q[1] : q \in D}) = Cardinality(D)
    <2>1. D \subseteq P
      BY DEF Before
    <2> QED BY <1>3, <2>1
  <1> QED BY <1>7, <1>8, <1>9, <1>10

LEMMA NextParagraph ==
  ASSUME TextTypes, Blocks!BlockAssumption, s9 \in 1 .. Cardinality(Blocks!Paragraphs)
  PROVE  /\ Blocks!Paragraph \in Blocks!Paragraphs
         /\ Run(Blocks!Paragraph) /\ Cardinality(Before(Blocks!Paragraph)) = s9 - 1
  <1>1. \E r \in Blocks!Paragraphs : Cardinality(Before(r)) = s9 - 1
    BY RankedParagraph
  <1>2. \E r \in Blocks!Paragraphs : Blocks!Cardinality(Before(r)) = s9 - 1
    BY <1>1, BlocksFinite
  <1>3. Blocks!Paragraph \in Blocks!Paragraphs
        /\ Blocks!Cardinality(Before(Blocks!Paragraph)) = s9 - 1
    BY <1>2 DEF Blocks!Paragraph, Before
  <1> QED BY <1>3, BlocksFinite, ParagraphsAre

\* How many paragraphs have begun before, in and after the k-th.
LEMMA BegunAround ==
  ASSUME TextTypes, Blocks!BlockAssumption, NEW r \in Blocks!Paragraphs, NEW k \in Nat, 1 <= k,
         Cardinality(Before(r)) = k - 1, NEW p \in Blocks!NotBlank
  PROVE  /\ p \in Nat /\ Begun(p) \in Nat
         /\ p < r[1] => Begun(p) < k
         /\ p \in r[1] .. r[2] => Begun(p) = k
         /\ r[2] < p => Begun(p) > k
  <1> DEFINE P == Blocks!Paragraphs
             T == {q \in P : q[1] <= p}
             B == Before(r)
             R == B \cup {r}
  <1>1. IsFiniteSet(P) /\ \A q \in P : Run(q)
    BY ParagraphsAre
  <1>2. \A q \in P : q[1] \in Nat /\ q[2] \in Nat /\ q[1] <= q[2]
    BY <1>1 DEF Run
  <1>3. p \in Nat
    BY NotBlankIs
  <1>4. T \subseteq P /\ B \subseteq P /\ r \notin B /\ r \in P
    BY <1>2 DEF Before
  <1> HIDE DEF P
  <1>5. IsFiniteSet(T) /\ IsFiniteSet(B) /\ Cardinality(T) \in Nat
    <2> HIDE DEF T, B
    <2> QED BY <1>1, <1>4, FS_Subset, FS_CardinalityType
  <1>6. Cardinality(R) = k /\ IsFiniteSet(R)
    <2> HIDE DEF B
    <2>1. Cardinality(R) = k - 1 + 1 /\ IsFiniteSet(R)
      BY <1>4, <1>5, FS_AddElement DEF B
    <2> QED BY <2>1
  <1>7. ASSUME p < r[1] PROVE Cardinality(T) < k
    <2>1. T \subseteq B
      BY <1>2, <1>3, <1>4, <1>7 DEF Before, P
    <2>2. Cardinality(T) <= Cardinality(B)
      <3> HIDE DEF T, B
      <3> QED BY <2>1, <1>5, FS_Subset
    <2> QED BY <1>5, <2>2
  <1>8. ASSUME p \in r[1] .. r[2] PROVE Cardinality(T) = k
    <2>1. ASSUME NEW q \in T PROVE q \in R
      <3>1. q \in P /\ q[1] <= p
        OBVIOUS
      <3>2. CASE q[1] < r[1]
        BY <3>1, <3>2 DEF Before, P
      <3>3. CASE r[1] <= q[1]
        <4>1. q[1] \in Nat /\ q[1] <= q[1] /\ q[1] <= q[2] /\ q[1] <= r[2]
          BY <1>2, <1>3, <1>4, <1>8, <3>1
        <4>2. q = r
          BY <1>1, <1>4, <3>1, <3>3, <4>1, ParagraphsApart
        <4> QED BY <4>2
      <3> QED BY <1>2, <1>4, <3>1, <3>2, <3>3
    <2>2. ASSUME NEW q \in R PROVE q \in T
      <3>1. q \in P /\ q[1] <= r[1]
        BY <1>2, <1>4 DEF Before, P
      <3>2. q[1] <= p
        BY <1>2, <1>3, <1>4, <1>8, <3>1
      <3> QED BY <3>1, <3>2
    <2>3. T = R
      <3> HIDE DEF T, R
      <3> QED BY <2>1, <2>2
    <2> QED BY <1>6, <2>3
  <1>9. ASSUME r[2] < p PROVE Cardinality(T) > k
    <2>1. PICK q \in P : q[1] <= p /\ p <= q[2]
      BY InParagraph DEF P
    <2>2. q # r
      BY <1>2, <1>3, <1>4, <1>9, <2>1
    <2>3. q \notin B
      <3> SUFFICES ASSUME q[1] < r[1] PROVE FALSE
        BY DEF Before
      <3>1. /\ r[1] \in Nat /\ q[1] <= r[1] /\ r[1] <= q[2]
            /\ r[1] <= r[1] /\ r[1] <= r[2]
        BY <1>2, <1>3, <1>4, <1>9, <2>1
      <3> QED BY <1>1, <1>4, <2>1, <2>2, <3>1, ParagraphsApart
    <2> DEFINE U == R \cup {q}
    <2>4. Cardinality(U) = k + 1 /\ IsFiniteSet(U)
      <3> q \notin R
        BY <2>2, <2>3
      <3> HIDE DEF R
      <3> QED BY <1>6, FS_AddElement
    <2>5. U \subseteq T
      <3> SUFFICES ASSUME NEW x \in U PROVE x \in T
        OBVIOUS
      <3>1. CASE x = q
        BY <2>1, <3>1
      <3>2. CASE x \in R
        <4>1. x \in P /\ x[1] <= r[1]
          BY <1>2, <1>4, <3>2 DEF Before, P
        <4>2. x[1] <= p
          BY <1>2, <1>3, <1>4, <1>9, <4>1
        <4> QED BY <4>1, <4>2
      <3> QED BY <3>1, <3>2
    <2>6. Cardinality(U) <= Cardinality(T)
      <3> HIDE DEF U, T
      <3> QED BY <1>5, <2>5, FS_Subset
    <2> QED BY <1>5, <2>4, <2>6
  <1>10. Begun(p) = Cardinality(T)
    BY DEF Begun, P
  <1> HIDE DEF T
  <1> QED BY <1>3, <1>5, <1>7, <1>8, <1>9, <1>10

\* The lines of the paragraph that comes next are after those of the ones before.
LEMMA NextLines ==
  ASSUME TextTypes, Blocks!BlockAssumption, s9 \in 1 .. Cardinality(Blocks!Paragraphs)
  PROVE  LET r == Blocks!Paragraph IN
         /\ \A p \in Blocks!NotBlank :
              Begun(p) < s9 + 1 <=> Begun(p) < s9 \/ p \in r[1] .. r[2]
         /\ \A p \in Blocks!NotBlank : Begun(p) < s9 => p < r[1]
         /\ \A p \in Blocks!NotBlank : p \in Nat
         /\ r[1] \in Nat /\ r[2] \in Nat /\ r[1] <= r[2] /\ r[1] .. r[2] \subseteq Blocks!NotBlank
  <1> DEFINE r == Blocks!Paragraph
             k == s9
  <1>1. r \in Blocks!Paragraphs /\ Run(r) /\ Cardinality(Before(r)) = k - 1
    BY NextParagraph
  <1>2. k \in Nat /\ 1 <= k
    <2>1. Cardinality(Blocks!Paragraphs) \in Nat
      BY ParagraphsAre, FS_CardinalityType
    <2> QED BY <2>1
  <1> HIDE DEF r, k
  <1>3. /\ r[1] \in Nat /\ r[2] \in Nat /\ r[1] <= r[2]
        /\ r[1] .. r[2] \subseteq Blocks!NotBlank
    BY <1>1 DEF Run
  <1>4. ASSUME NEW p \in Blocks!NotBlank
        PROVE  /\ Begun(p) < k + 1 <=> Begun(p) < k \/ p \in r[1] .. r[2]
               /\ Begun(p) < k => p < r[1]
               /\ p \in Nat
    <2>1. /\ p \in Nat /\ Begun(p) \in Nat
          /\ p < r[1] => Begun(p) < k
          /\ p \in r[1] .. r[2] => Begun(p) = k
          /\ r[2] < p => Begun(p) > k
      BY <1>1, <1>2, BegunAround
    <2> QED BY <1>2, <1>3, <2>1
  <1> QED BY <1>3, <1>4 DEF r, k

\* A chunk more, and lines more in the last chunk.
LEMMA OrderedAppend ==
  ASSUME NEW cs \in Seq(Blocks!Chunk), NEW c \in Blocks!Chunk, NEW S, InOrder(cs, S),
         Ascends(c.lines, S),
         \A x, y \in S : HasLine(cs, x) /\ y \in Blocks!Range(c.lines) => x < y
  PROVE  LET g == Append(cs, c) IN
         /\ g \in Seq(Blocks!Chunk) /\ InOrder(g, S)
         /\ \A p : HasLine(g, p) <=> HasLine(cs, p) \/ p \in Blocks!Range(c.lines)
  <1> DEFINE g == Append(cs, c)
             n == Len(cs)
  <1>1. /\ g \in Seq(Blocks!Chunk) /\ n \in Nat /\ Len(g) = n + 1 /\ g[n + 1] = c
        /\ \A k \in 1 .. n : g[k] = cs[k]
    OBVIOUS
  <1> HIDE DEF g, n
  <1>2. \A k \in 1 .. Len(g) : k \in 1 .. n \/ k = n + 1
    BY <1>1
  <1>3. n + 1 \in 1 .. Len(g) /\ \A k \in 1 .. n : k \in 1 .. Len(g)
    BY <1>1
  <1>4. ASSUME NEW k \in 1 .. Len(g) PROVE Ascends(g[k].lines, S)
    <2>1. CASE k \in 1 .. n
      BY <1>1, <2>1 DEF InOrder, n
    <2>2. CASE k = n + 1
      BY <1>1, <2>2
    <2> QED BY <1>2, <2>1, <2>2
  <1>5. ASSUME NEW k \in 1 .. Len(g), NEW l \in 1 .. Len(g), k < l
        PROVE  Precedes(g[k].lines, g[l].lines, S)
    <2>1. k \in 1 .. n
      BY <1>1, <1>5
    <2>2. CASE l \in 1 .. n
      BY <1>1, <1>5, <2>1, <2>2 DEF InOrder, n
    <2>3. CASE l = n + 1
      <3>1. \A x \in Blocks!Range(cs[k].lines) : HasLine(cs, x)
        BY <2>1 DEF HasLine, n
      <3>2. Precedes(cs[k].lines, c.lines, S)
        BY <3>1 DEF Precedes
      <3> QED BY <1>1, <2>1, <2>3, <3>2
    <2> QED BY <1>2, <2>2, <2>3
  <1>6. ASSUME NEW p PROVE HasLine(g, p) <=> HasLine(cs, p) \/ p \in Blocks!Range(c.lines)
    <2>1. HasLine(g, p) => HasLine(cs, p) \/ p \in Blocks!Range(c.lines)
      BY <1>1, <1>2 DEF HasLine, n
    <2>2. HasLine(cs, p) => HasLine(g, p)
      BY <1>1, <1>3 DEF HasLine, n
    <2>3. p \in Blocks!Range(c.lines) => HasLine(g, p)
      BY <1>1, <1>3 DEF HasLine
    <2> QED BY <2>1, <2>2, <2>3
  <1>7. InOrder(g, S)
    BY <1>4, <1>5 DEF InOrder
  <1> QED BY <1>1, <1>6, <1>7 DEF g

LEMMA OrderedGrowth ==
  ASSUME NEW cs \in Seq(Blocks!Chunk), cs # <<>>, NEW s \in Seq(Nat), NEW S, InOrder(cs, S),
         Ascends(s, S), \A x, y \in S : HasLine(cs, x) /\ y \in Blocks!Range(s) => x < y
  PROVE  LET g == [cs EXCEPT ![Len(cs)].lines = @ \o s] IN
         /\ g \in Seq(Blocks!Chunk) /\ InOrder(g, S)
         /\ \A p : HasLine(g, p) <=> HasLine(cs, p) \/ p \in Blocks!Range(s)
  <1> DEFINE g == [cs EXCEPT ![Len(cs)].lines = @ \o s]
             n == Len(cs)
             a == cs[n].lines
             d == [cs[n] EXCEPT !.lines = @ \o s]
  <1>1. n \in Nat /\ n \in 1 .. n /\ cs[n] \in Blocks!Chunk
    OBVIOUS
  <1>2. a \in Seq(Nat) /\ a \o s \in Seq(Nat)
    BY <1>1, Concatenated DEF Blocks!Chunk
  <1>3. d \in Blocks!Chunk /\ d.lines = a \o s
    BY <1>1, <1>2 DEF Blocks!Chunk
  <1>4. g = [cs EXCEPT ![n] = d]
    OBVIOUS
  <1> HIDE DEF d, g
  <1>5. g \in Seq(Blocks!Chunk) /\ Len(g) = n
    BY <1>1, <1>3, <1>4
  <1>6. g[n] = d /\ \A k \in 1 .. n : k # n => g[k] = cs[k]
    BY <1>1, <1>4
  <1> HIDE DEF n, a
  <1>7. \A x : x \in Blocks!Range(a \o s) <=> x \in Blocks!Range(a) \/ x \in Blocks!Range(s)
    BY <1>2, Concatenated
  <1>8. Ascends(a, S) /\ \A x \in Blocks!Range(a) : HasLine(cs, x)
    BY <1>1 DEF InOrder, HasLine, a, n
  <1>9. Ascends(a \o s, S)
    <2>1. Precedes(a, s, S)
      BY <1>8 DEF Precedes
    <2> QED BY <1>2, <1>8, <2>1, ConcatAscends
  <1>10. ASSUME NEW k \in 1 .. n PROVE Ascends(g[k].lines, S)
    <2>1. CASE k = n
      BY <1>3, <1>6, <1>9, <2>1
    <2>2. CASE k # n
      BY <1>6, <2>2 DEF InOrder, n
    <2> QED BY <2>1, <2>2
  <1>11. ASSUME NEW k \in 1 .. n, NEW l \in 1 .. n, k < l
         PROVE  Precedes(g[k].lines, g[l].lines, S)
    <2>1. k # n /\ g[k] = cs[k]
      BY <1>1, <1>6, <1>11
    <2>2. Precedes(cs[k].lines, cs[l].lines, S)
      BY <1>11 DEF InOrder, n
    <2>3. CASE l # n
      BY <1>6, <2>1, <2>2, <2>3
    <2>4. CASE l = n
      <3>1. \A x \in Blocks!Range(cs[k].lines) : HasLine(cs, x)
        BY DEF HasLine, n
      <3>2. Precedes(cs[k].lines, a, S)
        BY <2>2, <2>4 DEF a
      <3>3. Precedes(cs[k].lines, a \o s, S)
        BY <1>7, <3>1, <3>2 DEF Precedes
      <3> QED BY <1>3, <1>6, <2>1, <2>4, <3>3
    <2> QED BY <2>3, <2>4
  <1>12. ASSUME NEW p PROVE HasLine(g, p) <=> HasLine(cs, p) \/ p \in Blocks!Range(s)
    <2>1. ASSUME NEW k \in 1 .. n, p \in Blocks!Range(g[k].lines)
          PROVE  HasLine(cs, p) \/ p \in Blocks!Range(s)
      <3>1. CASE k = n
        BY <1>3, <1>6, <1>7, <1>8, <2>1, <3>1
      <3>2. CASE k # n
        BY <1>6, <2>1, <3>2 DEF HasLine, n
      <3> QED BY <3>1, <3>2
    <2>2. ASSUME NEW k \in 1 .. n, p \in Blocks!Range(cs[k].lines) PROVE HasLine(g, p)
      <3>1. p \in Blocks!Range(g[k].lines)
        BY <1>3, <1>6, <1>7, <2>2 DEF a
      <3> QED BY <1>5, <3>1 DEF HasLine
    <2>3. p \in Blocks!Range(s) => HasLine(g, p)
      <3>1. p \in Blocks!Range(s) => p \in Blocks!Range(g[n].lines)
        BY <1>3, <1>6, <1>7
      <3> QED BY <1>1, <1>5, <3>1 DEF HasLine
    <2> QED BY <1>5, <2>1, <2>2, <2>3 DEF HasLine, n
  <1>13. InOrder(g, S)
    BY <1>5, <1>10, <1>11 DEF InOrder
  <1> QED BY <1>5, <1>12, <1>13 DEF g, n

\* A paragraph joins the last group, or begins one.
LEMMA GroupStep ==
  ASSUME BlocksInv, Blocks!BlockAssumption, Blocks!Group
  PROVE  BlocksInv'
  <1> DEFINE P == Blocks!Paragraphs
             N == Blocks!NotBlank
             r == Blocks!Paragraph
             s == Blocks!LinesOf(r[1], r[2])
             c == Blocks!Piece(s, "SEMANTIC")
             g == [s11 EXCEPT ![Len(s11)].lines = @ \o s]
  <1>1. /\ s4 = "grouping" /\ s4' = s4 /\ s9 <= Blocks!Cardinality(P)
        /\ s9' = s9 + 1 /\ s10' = s10 /\ s13' = s13
        /\ UNCHANGED <<Blocks!textVars, Blocks!scanVars>>
    BY DEF Blocks!Group
  <1>2. s11' = Append(s11, c) \/ (s11 # <<>> /\ s11' = g)
    BY DEF Blocks!Group
  <1>3. /\ TextTypes' /\ (Many' <=> Many) /\ Scanned(s1, s8, s5, s6, s7)'
        /\ s6' \in {"none", "para", "code", "table"} /\ s2' = s2
        /\ N' = N /\ P' = P
    BY <1>1, CutGoesOn
  <1>4. Phases' /\ s4' = "grouping"
    BY <1>1, <1>3 DEF BlocksInv, Phases
  <1>5. /\ s9 \in Nat /\ 1 <= s9 /\ s11 \in Seq(Blocks!Chunk) /\ InOrder(s11, N)
        /\ \A p : HasLine(s11, p) <=> p \in N /\ Begun(p) < s9
        /\ s10 = <<>> /\ s13 = <<>>
    BY <1>1 DEF BlocksInv, Grouping
  <1>6. Cardinality(P) \in Nat /\ s9 <= Cardinality(P) /\ s9 \in 1 .. Cardinality(P)
    <2>1. Cardinality(P) \in Nat /\ s9 <= Cardinality(P)
      BY <1>1, BlocksFinite, ParagraphsAre, FS_CardinalityType DEF BlocksInv
    <2> QED BY <1>5, <2>1
  <1>7. /\ \A p \in N : Begun(p) < s9 + 1 <=> Begun(p) < s9 \/ p \in r[1] .. r[2]
        /\ \A p \in N : Begun(p) < s9 => p < r[1]
        /\ \A p \in N : p \in Nat
        /\ r[1] \in Nat /\ r[2] \in Nat /\ r[1] <= r[2] /\ r[1] .. r[2] \subseteq N
    BY <1>6, NextLines DEF BlocksInv
  <1> HIDE DEF P, N, r
  <1>8. /\ s \in Seq(Nat) /\ Blocks!Range(s) = r[1] .. r[2] /\ Ascends(s, N)
    <2> DEFINE a == r[1]
               b == r[2]
    <2>1. a \in Nat /\ b \in Nat /\ a <= b + 1
      BY <1>7
    <2> HIDE DEF a, b
    <2>2. LET u == Blocks!LinesOf(a, b) IN
          /\ u \in Seq(Nat) /\ \A k \in 1 .. Len(u) : u[k] = a + k - 1
          /\ Blocks!Range(u) = a .. b
      BY <2>1, LinesOfIs
    <2>3. Ascends(Blocks!LinesOf(a, b), N)
      BY <2>1, <2>2 DEF Ascends
    <2> QED BY <2>2, <2>3 DEF a, b
  <1>9. \A x, y \in N : HasLine(s11, x) /\ y \in Blocks!Range(s) => x < y
    <2> SUFFICES ASSUME NEW x \in N, NEW y \in N, HasLine(s11, x), y \in r[1] .. r[2]
                 PROVE  x < y
      BY <1>8
    <2>1. x < r[1] /\ x \in Nat
      BY <1>5, <1>7
    <2> QED BY <1>7, <2>1
  <1>10. c \in Blocks!Chunk /\ c.lines = s
    BY <1>5, <1>8 DEF Blocks!Piece, Blocks!Chunk, Blocks!ChunkTypes
  <1> HIDE DEF c, s
  <1>11. /\ s11' \in Seq(Blocks!Chunk) /\ InOrder(s11', N)
         /\ \A p : HasLine(s11', p) <=> HasLine(s11, p) \/ p \in Blocks!Range(s)
    <2>1. CASE s11' = Append(s11, c)
      <3>1. LET h == Append(s11, c) IN
            /\ h \in Seq(Blocks!Chunk) /\ InOrder(h, N)
            /\ \A p : HasLine(h, p) <=> HasLine(s11, p) \/ p \in Blocks!Range(c.lines)
        BY <1>5, <1>8, <1>9, <1>10, OrderedAppend
      <3> QED BY <1>10, <2>1, <3>1
    <2>2. CASE s11 # <<>> /\ s11' = g
      <3>1. LET h == [s11 EXCEPT ![Len(s11)].lines = @ \o s] IN
            /\ h \in Seq(Blocks!Chunk) /\ InOrder(h, N)
            /\ \A p : HasLine(h, p) <=> HasLine(s11, p) \/ p \in Blocks!Range(s)
        BY <1>5, <1>8, <1>9, <2>2, OrderedGrowth
      <3> QED BY <2>2, <3>1
    <2> QED BY <1>2, <2>1, <2>2
  <1> HIDE DEF g
  <1>12. ASSUME NEW p PROVE HasLine(s11', p) <=> p \in N /\ Begun(p) < s9 + 1
    <2>1. HasLine(s11', p) <=> (p \in N /\ Begun(p) < s9) \/ p \in r[1] .. r[2]
      BY <1>5, <1>8, <1>11
    <2> QED BY <1>7, <2>1
  <1>13. \A p : Begun(p)' = Begun(p)
    BY <1>3 DEF Begun, P
  <1>14. Grouping'
    <2>1. s9' \in Nat /\ 1 <= s9' /\ s9' <= Cardinality(P') + 1
      BY <1>1, <1>3, <1>5, <1>6
    <2>2. InOrder(s11', N')
      BY <1>3, <1>11
    <2>3. \A p : HasLine(s11', p) <=> p \in N' /\ Begun(p)' < s9'
      BY <1>1, <1>3, <1>12, <1>13
    <2>4. s10' = <<>> /\ s13' = <<>>
      BY <1>1, <1>5
    <2> QED BY <1>11, <2>1, <2>2, <2>3, <2>4 DEF Grouping, N, P
  <1>15. s13' \in Seq(Blocks!Chunk)
    BY <1>1 DEF BlocksInv
  <1> QED BY <1>3, <1>4, <1>11, <1>14, <1>15 DEF BlocksInv

\* After the last paragraph.
LEMMA GroupedStep ==
  ASSUME BlocksInv, Blocks!BlockAssumption, Blocks!Grouped
  PROVE  BlocksInv'
  <1> DEFINE P == Blocks!Paragraphs
             N == Blocks!NotBlank
  <1>1. /\ s4 = "grouping" /\ s4' = "done" /\ s9 > Blocks!Cardinality(P)
        /\ s11' = s11 /\ s13' = s11 /\ UNCHANGED <<Blocks!textVars, Blocks!scanVars>>
    BY DEF Blocks!Grouped
  <1>2. /\ TextTypes' /\ (Many' <=> Many) /\ Scanned(s1, s8, s5, s6, s7)'
        /\ s6' \in {"none", "para", "code", "table"} /\ s2' = s2 /\ N' = N
    BY <1>1, CutGoesOn
  <1>3. Phases' /\ s2' = "semantic" /\ s4' = "done"
    BY <1>1, <1>2 DEF BlocksInv, Phases, Many
  <1>4. /\ s9 \in Nat /\ s11 \in Seq(Blocks!Chunk) /\ InOrder(s11, N)
        /\ \A p : HasLine(s11, p) <=> p \in N /\ Begun(p) < s9
    BY <1>1 DEF BlocksInv, Grouping
  <1>5. s9 > Cardinality(P) /\ IsFiniteSet(P) /\ Cardinality(P) \in Nat
    BY <1>1, BlocksFinite, ParagraphsAre, FS_CardinalityType DEF BlocksInv
  <1>6. \A p : Begun(p) < s9
    <2> SUFFICES ASSUME NEW p PROVE Begun(p) < s9
      OBVIOUS
    <2> DEFINE T == {q \in P : q[1] <= p}
    <2>1. T \subseteq P
      OBVIOUS
    <2> HIDE DEF T, P
    <2>2. Cardinality(T) <= Cardinality(P) /\ Cardinality(T) \in Nat
      BY <1>5, <2>1, FS_Subset, FS_CardinalityType
    <2>3. Begun(p) = Cardinality(T)
      BY DEF Begun, T, P
    <2> QED BY <1>4, <1>5, <2>2, <2>3
  <1> HIDE DEF N, P
  <1>7. Grouped'
    <2>1. InOrder(s13', N') /\ \A p : HasLine(s13', p) <=> p \in N'
      BY <1>1, <1>2, <1>4, <1>6
    <2> QED BY <2>1 DEF Grouped, N
  <1> QED BY <1>1, <1>2, <1>3, <1>4, <1>7 DEF BlocksInv

LEMMA BlocksInitInv ==
  ASSUME Blocks!BlockAssumption, Blocks!Init
  PROVE  BlocksInv
  <1>1. /\ TextTypes /\ s5 = 1 /\ s6 = "none" /\ s7 = 0 /\ s8 = <<>> /\ Fresh
        /\ s4 = IF Many THEN "grouping" ELSE "scanning"
    BY DEF Blocks!Init, TextTypes, Many, Fresh
  <1>2. Phases
    BY <1>1 DEF Phases
  <1>3. Scanned(s1, s8, s5, s6, s7)
    <2>1. Len(s1) \in Nat
      BY <1>1, TextIs
    <2>2. Found(s1, <<>>) /\ Len(<<>>) = 0
      BY DEF Found
    <2>3. 1 \in 1 .. Len(s1) + 1 /\ \A q \in 1 .. Len(s1) : ~(q < 1)
      BY <2>1
    <2> QED BY <1>1, <2>2, <2>3 DEF Scanned
  <1>4. s11 = <<>> /\ s13 = <<>> /\ s10 = <<>> /\ s9 = 1
    BY <1>1 DEF Fresh
  <1>5. /\ s11 \in Seq(Blocks!Chunk) /\ s13 \in Seq(Blocks!Chunk) /\ Len(s11) = 0
        /\ \A p : ~HasLine(s11, p)
    BY <1>4 DEF HasLine
  <1>6. ASSUME NEW p \in Blocks!NotBlank PROVE ~(Begun(p) < 1)
    <2> DEFINE T == {q \in Blocks!Paragraphs : q[1] <= p}
    <2>1. T # {} /\ T \subseteq Blocks!Paragraphs /\ IsFiniteSet(Blocks!Paragraphs)
      BY <1>1, InParagraph, ParagraphsAre
    <2>2. Begun(p) = Cardinality(T)
      BY DEF Begun
    <2> HIDE DEF T
    <2>3. IsFiniteSet(T)
      BY <2>1, FS_Subset
    <2>4. Cardinality(T) \in Nat /\ Cardinality(T) # 0
      BY <2>1, <2>3, FS_CardinalityType, FS_EmptySet
    <2> QED BY <2>2, <2>4
  <1>7. Grouping
    <2>1. Cardinality(Blocks!Paragraphs) \in Nat
      BY <1>1, ParagraphsAre, FS_CardinalityType
    <2>2. s9 \in Nat /\ 1 <= s9 /\ s9 <= Cardinality(Blocks!Paragraphs) + 1
      BY <1>4, <2>1
    <2>3. InOrder(s11, Blocks!NotBlank)
      BY <1>5 DEF InOrder
    <2> QED BY <1>4, <1>5, <1>6, <2>2, <2>3 DEF Grouping
  <1> QED BY <1>1, <1>2, <1>3, <1>5, <1>7 DEF BlocksInv

LEMMA BlocksStutterInv ==
  ASSUME BlocksInv, UNCHANGED Blocks!vars
  PROVE  BlocksInv'
  <1>1. /\ UNCHANGED <<s1, s2, s3, s4, s5, s6, s7, s8, s9, s10, s11, s12, s13>>
        /\ UNCHANGED <<Blocks!textVars, Blocks!scanVars>>
    BY DEF Blocks!vars, Blocks!textVars, Blocks!scanVars
  <1>2. /\ TextTypes' /\ (Many' <=> Many) /\ Scanned(s1, s8, s5, s6, s7)'
        /\ Facts' = Facts /\ Counted' = Counted
        /\ Blocks!NotBlank' = Blocks!NotBlank /\ Blocks!Paragraphs' = Blocks!Paragraphs
    BY <1>1, CutGoesOn
  <1>3. Phases'
    BY <1>1, <1>2 DEF BlocksInv, Phases
  <1>4. Grouping => Grouping'
    BY <1>1, <1>2 DEF Grouping, Begun
  <1>5. Grouped => Grouped'
    BY <1>1, <1>2 DEF Grouped
  <1>6. Fresh => Fresh'
    BY <1>1 DEF Fresh
  <1>7. Cutting => Cutting'
    BY <1>1, <1>2 DEF Cutting, Coming
  <1>8. Sectioning => Sectioning'
    BY <1>1 DEF Sectioning
  <1>9. Packing => Packing'
    <2>1. \A p : Waiting(p)' <=> Waiting(p)
      BY <1>1 DEF Waiting
    <2>2. (Blocks!SizeOf(s12) < MinSize) => (Blocks!SizeOf(s12) < MinSize)'
      BY <1>1 DEF Blocks!SizeOf, Blocks!Size
    <2> QED BY <1>1, <1>2, <2>1, <2>2 DEF Packing
  <1>10. Finished => Finished'
    BY <1>1, <1>2 DEF Finished
  <1> QED BY <1>1, <1>2, <1>3, <1>4, <1>5, <1>6, <1>7, <1>8, <1>9, <1>10 DEF BlocksInv

LEMMA BlocksNextInv ==
  ASSUME BlocksInv, Blocks!BlockAssumption, [Blocks!Next]_Blocks!vars
  PROVE  BlocksInv'
  <1>1. CASE UNCHANGED Blocks!vars
    BY <1>1, BlocksStutterInv
  <1>2. CASE Blocks!Group
    BY <1>2, GroupStep
  <1>3. CASE Blocks!Grouped
    BY <1>3, GroupedStep
  <1>4. CASE \/ Blocks!Fence \/ Blocks!InCode \/ Blocks!InTable \/ Blocks!StartTable
             \/ Blocks!Blank \/ Blocks!Single \/ Blocks!List \/ Blocks!Text
    BY <1>4, ScanStep
  <1>5. CASE Blocks!Flush
    BY <1>5, FlushStep
  <1>6. CASE Blocks!TakeRange
    BY <1>6, TakeStep
  <1>7. CASE Blocks!LastRange
    BY <1>7, LastStep
  <1>8. CASE Blocks!Dispatch
    BY <1>8, DispatchStep
  <1>9. CASE Blocks!Dispatched
    BY <1>9, DispatchedStep
  <1>10. CASE Blocks!Pack
    BY <1>10, PackStep
  <1>11. CASE Blocks!Packed
    BY <1>11, PackedStep
  <1> QED BY <1>1, <1>2, <1>3, <1>4, <1>5, <1>6, <1>7, <1>8, <1>9, <1>10, <1>11 DEF Blocks!Next

\* What the chunks of a document are when it is done.
LEMMA BlocksAreKept ==
  ASSUME BlocksInv, Blocks!BlockAssumption
  PROVE  Blocks!BlocksKeepText
  <1> SUFFICES ASSUME s4 = "done", s2 = "blocks"
               PROVE  Blocks!BlocksKeepText
    BY DEF Blocks!BlocksKeepText
  <1> DEFINE kept == Blocks!LinesIn(s13)
             N == Len(s1)
  <1>1. GoodChunks(s13, Facts) /\ \A p \in Counted : HasLine(s13, p)
    BY DEF BlocksInv, Finished
  <1>2. /\ s13 \in Seq(Blocks!Chunk) /\ InOrder(s13, Counted)
        /\ \A k \in 1 .. Len(s13) : GoodChunk(s13[k], Facts)
    <2>1. Facts.counted = Counted
      BY DEF Facts
    <2> QED BY <1>1, <2>1 DEF GoodChunks, GoodChunk, InOrder
  <1>3. /\ kept \in Seq(Nat) /\ \A x : x \in Blocks!Range(kept) <=> HasLine(s13, x)
        /\ Ascends(kept, Counted)
    BY <1>2, Joined
  <1> HIDE DEF kept
  <1>4. N \in Nat /\ DOMAIN s1 = 1 .. N /\ DOMAIN kept = 1 .. Len(kept)
    BY <1>3, TextIs DEF BlocksInv
  <1>5. {p \in DOMAIN s1 : Blocks!Counts(p)} \subseteq Blocks!Range(kept)
    BY <1>1, <1>3, <1>4 DEF Counted
  <1>6. ASSUME NEW i \in 1 .. Len(kept) PROVE kept[i] \in 1 .. N
    <2>1. HasLine(s13, kept[i])
      BY <1>3, InRange
    <2>2. PICK k \in 1 .. Len(s13) : kept[i] \in Blocks!Range(s13[k].lines)
      BY <2>1 DEF HasLine
    <2>3. kept[i] \in Facts.text
      BY <1>2, <2>2 DEF GoodChunk
    <2>4. Facts.text = 1 .. N
      BY DEF Facts
    <2> QED BY <2>3, <2>4
  <1>7. \A i, j \in DOMAIN kept :
          i < j /\ Blocks!Counts(kept[i]) /\ Blocks!Counts(kept[j]) => kept[i] < kept[j]
    <2> SUFFICES ASSUME NEW i \in 1 .. Len(kept), NEW j \in 1 .. Len(kept), i < j,
                        Blocks!Counts(kept[i]), Blocks!Counts(kept[j])
                 PROVE  kept[i] < kept[j]
      BY <1>4
    <2>1. kept[i] \in Counted /\ kept[j] \in Counted
      BY <1>6 DEF Counted
    <2> QED BY <1>3, <2>1 DEF Ascends
  <1>8. ASSUME NEW b \in Blocks!Range(s8), b.kind = "table", NEW c \in Blocks!Range(s13),
               Blocks!Range(c.lines) \cap (b.from .. b.to) # {}
        PROVE  Blocks!Range(Blocks!HeaderOf(b)) \subseteq Blocks!Range(c.lines)
    <2>1. s8 \in Seq(BlockSet)
      BY DEF BlocksInv, Scanned, Found
    <2>2. PICK i \in 1 .. Len(s8) : b = s8[i]
      BY <2>1, InRange
    <2>3. PICK k \in 1 .. Len(s13) : c = s13[k]
      BY <1>2, InRange
    <2> DEFINE t == <<Within(b), Blocks!Range(Blocks!HeaderOf(b))>>
    <2>4. t \in Facts.tables
      BY <1>8, <2>2 DEF Facts
    <2>5. t[1] = Within(b) /\ t[2] = Blocks!Range(Blocks!HeaderOf(b))
      OBVIOUS
    <2> HIDE DEF t
    <2>6. PICK x \in t[1] : x \in Blocks!Range(c.lines)
      BY <1>8, <2>5 DEF Within
    <2>7. t[2] \subseteq Blocks!Range(c.lines)
      BY <1>2, <2>3, <2>4, <2>6 DEF GoodChunk
    <2> QED BY <2>5, <2>7
  <1> QED BY <1>5, <1>7, <1>8 DEF Blocks!BlocksKeepText, kept

LEMMA BlocksDoFit ==
  ASSUME BlocksInv, Blocks!BlockAssumption
  PROVE  Blocks!BlocksFit
  <1> SUFFICES ASSUME s4 = "done", s2 = "blocks", NEW c \in Blocks!Range(s13)
               PROVE  /\ c.type = "code" => Len(c.lines) <= CodeLines
                      /\ c.type \in Blocks!Mergeable => Len(c.lines) <= Longest
                      /\ \A h \in Blocks!Range(c.path) : s1[h] = "heading" /\ h < c.lines[1]
    BY DEF Blocks!BlocksFit, Longest
  <1>1. GoodChunks(s13, Facts)
    BY DEF BlocksInv, Finished
  <1>2. PICK k \in 1 .. Len(s13) : c = s13[k]
    BY <1>1, InRange DEF GoodChunks
  <1>3. GoodChunk(c, Facts)
    BY <1>1, <1>2 DEF GoodChunks
  <1>4. Facts.longest = Longest /\ Facts.headings = {h \in 1 .. Len(s1) : s1[h] = "heading"}
    BY DEF Facts
  <1> QED BY <1>3, <1>4 DEF GoodChunk

LEMMA GroupsAreKept ==
  ASSUME BlocksInv, Blocks!BlockAssumption
  PROVE  Blocks!GroupsKeepText
  <1> DEFINE kept == Blocks!LinesIn(s13)
             N == Blocks!NotBlank
  <1> SUFFICES ASSUME s4 = "done", Many
               PROVE  kept = Blocks!Rising(N)
    BY DEF Blocks!GroupsKeepText, Many
  <1>1. /\ s13 \in Seq(Blocks!Chunk) /\ InOrder(s13, N)
        /\ \A p : HasLine(s13, p) <=> p \in N
    BY DEF BlocksInv, Grouped
  <1>2. /\ kept \in Seq(Nat) /\ \A x : x \in Blocks!Range(kept) <=> HasLine(s13, x)
        /\ Ascends(kept, N)
    BY <1>1, Joined
  <1> HIDE DEF kept, N
  <1>3. Blocks!Range(kept) = N
    BY <1>1, <1>2
  <1>4. \A i \in 1 .. Len(kept) : kept[i] \in N
    BY <1>2, <1>3, InRange
  <1>5. \A i, j \in 1 .. Len(kept) : i < j => kept[i] < kept[j]
    BY <1>2, <1>4 DEF Ascends
  <1>6. kept = Blocks!Rising(Blocks!Range(kept))
    BY <1>2, <1>5, RisingIsOnly
  <1> QED BY <1>3, <1>6

LEMMA BlocksSound ==
  ASSUME BlocksInv, Blocks!BlockAssumption
  PROVE  Blocks!BlocksKeepText /\ Blocks!BlocksFit /\ Blocks!GroupsKeepText /\ Blocks!TypeOK
  <1>1. Blocks!TypeOK
    BY DEF BlocksInv, TextTypes, Phases, Scanned, Blocks!TypeOK
  <1> QED BY <1>1, BlocksAreKept, BlocksDoFit, GroupsAreKept
=============================================================================
