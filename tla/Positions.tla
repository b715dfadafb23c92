----------------------------- MODULE Positions ------------------------------
(* Lemmas about positions in a sequence, for the proofs that choose the    *)
(* first or the last line of a run, the first task that holds a path, or   *)
(* the k-th line that speaks; and induction and recursion up to a number.  *)
EXTENDS Naturals, FiniteSets, TLAPS, WellFoundedInduction, FiniteSetTheorems

\* A non-empty set of positions has a first and a last member.
LEMMA FirstExists ==
  ASSUME NEW n \in Nat, NEW S \in SUBSET (1 .. n), S # {}
  PROVE  \E i \in S : \A j \in S : i <= j
<1> DEFINE R == OpToRel(<, Nat)
<1>1. S \subseteq Nat
  OBVIOUS
<1>2. PICK i \in S : \A j \in S : ~(<<j, i>> \in R)
  BY <1>1, NatLessThanWellFounded, WFMin
<1>3. \A j \in S : ~(j < i)
  BY <1>1, <1>2 DEF OpToRel
<1> QED
  BY <1>1, <1>3

\* Induction on the numbers up to N, with a set for the predicate: otherwise the
\* first number that is not in the set has its predecessor in it.
LEMMA UpTo ==
  ASSUME NEW N \in Nat, NEW G, 0 \in G, \A n \in 1 .. N : n - 1 \in G => n \in G
  PROVE  \A n \in 0 .. N : n \in G
<1> DEFINE Bad == {n \in 1 .. N : n \notin G}
<1>1. Bad \in SUBSET (1 .. N)
  OBVIOUS
<1>2. Bad = {}
  <2> SUFFICES ASSUME Bad # {} PROVE FALSE
    OBVIOUS
  <2>1. PICK m \in Bad : \A k \in Bad : m <= k
    BY <1>1, FirstExists
  <2>2. m \in 1 .. N /\ m - 1 \in 0 .. N /\ m - 1 \notin Bad
    BY <1>1, <2>1
  <2>3. m - 1 \in G
    BY <2>2
  <2> QED
    BY <2>2, <2>3
<1> QED
  BY <1>2

LEMMA LastExists ==
  ASSUME NEW n \in Nat, NEW S \in SUBSET (1 .. n), S # {}
  PROVE  \E i \in S : \A j \in S : j <= i
<1> DEFINE T == {n + 1 - i : i \in S}
<1>1. \A i \in S : i \in Nat /\ n + 1 - i \in 1 .. n
  OBVIOUS
<1>2. T \in SUBSET (1 .. n) /\ T # {}
  BY <1>1
<1>3. PICK k \in T : \A m \in T : k <= m
  BY <1>2, FirstExists
<1>4. PICK i \in S : k = n + 1 - i
  BY <1>3
<1>5. \A j \in S : n + 1 - i <= n + 1 - j
  BY <1>3, <1>4
<1> QED
  BY <1>1, <1>5

\* How many members of S are at i or before it.
Rank(S, i) == Cardinality({j \in S : j <= i})

LEMMA RankType ==
  ASSUME NEW n \in Nat, NEW S \in SUBSET (1 .. n), NEW i \in Nat
  PROVE  /\ IsFiniteSet(S) /\ Cardinality(S) \in Nat
         /\ IsFiniteSet({j \in S : j <= i})
         /\ Rank(S, i) \in Nat /\ Rank(S, i) <= Cardinality(S)
<1>1. IsFiniteSet(1 .. n)
  BY FS_Interval
<1>2. IsFiniteSet(S)
  BY <1>1, FS_Subset
<1> QED
  BY <1>2, FS_Subset, FS_CardinalityType DEF Rank

\* Members of S are told apart by their rank.
LEMMA RankUnique ==
  ASSUME NEW n \in Nat, NEW S \in SUBSET (1 .. n), NEW a \in S, NEW b \in S,
         a < b
  PROVE  Rank(S, a) < Rank(S, b)
<1> DEFINE A == {j \in S : j <= a}
           B == {j \in S : j <= b}
<1>1. IsFiniteSet(A) /\ IsFiniteSet(B)
  BY RankType
<1>2. A \subseteq B /\ b \in B /\ b \notin A
  <2>1. \A j \in S : j \in Nat
    OBVIOUS
  <2>2. \A j \in S : j <= a => j <= b
    BY <2>1
  <2>3. ~(b <= a) /\ b <= b
    BY <2>1
  <2> QED
    BY <2>2, <2>3
<1>3. Cardinality(A) < Cardinality(B)
  BY <1>1, <1>2, FS_Subset, FS_CardinalityType
<1> QED
  BY <1>3 DEF Rank

\* Every rank up to the size of S is the rank of a member: otherwise the first
\* member above the gap has a neighbour below it whose rank is in the gap.
LEMMA RankExists ==
  ASSUME NEW n \in Nat, NEW S \in SUBSET (1 .. n), NEW k \in 1 .. Cardinality(S)
  PROVE  \E i \in S : Rank(S, i) = k
<1> SUFFICES ASSUME \A i \in S : Rank(S, i) # k
             PROVE  FALSE
  OBVIOUS
<1> DEFINE Above == {i \in S : Rank(S, i) > k}
<1>0. S \subseteq Nat
  OBVIOUS
<1>1. IsFiniteSet(S) /\ \A i \in S : Rank(S, i) \in Nat
  <2>1. IsFiniteSet(S)
    BY RankType, 0 \in Nat
  <2>2. \A i \in Nat : Rank(S, i) \in Nat
    BY RankType
  <2> QED
    BY <1>0, <2>1, <2>2
<1>2. S # {} /\ Cardinality(S) \in Nat
  BY <1>1, FS_EmptySet, FS_CardinalityType
<1>3. Above # {}
  <2>1. PICK l \in S : \A j \in S : j <= l
    BY <1>2, LastExists
  <2>2. {j \in S : j <= l} = S
    BY <2>1
  <2>3. Rank(S, l) = Cardinality(S)
    BY <2>2 DEF Rank
  <2> QED
    BY <1>1, <1>2, <2>3
<1>4. PICK i \in Above : \A j \in Above : i <= j
  BY <1>3, FirstExists, Above \in SUBSET (1 .. n)
<1> DEFINE Below == {j \in S : j < i}
<1>5. {j \in S : j <= i} = Below \cup {i} /\ i \notin Below /\ IsFiniteSet(Below)
  <2>1. i \in S /\ \A j \in S : j \in Nat
    BY <1>0
  <2>2. \A j \in S : j <= i <=> (j < i \/ j = i)
    BY <2>1
  <2>3. ~(i < i)
    BY <2>1
  <2>4. Below \in SUBSET S
    OBVIOUS
  <2>5. IsFiniteSet(Below)
    BY <1>1, <2>4, FS_Subset
  <2> QED
    BY <2>1, <2>2, <2>3, <2>5
<1>6. Rank(S, i) = Cardinality(Below) + 1 /\ Cardinality(Below) \in Nat
  BY <1>5, FS_AddElement, FS_CardinalityType DEF Rank
<1>7. Below # {}
  BY <1>4, <1>6, FS_EmptySet
<1>8. PICK m \in Below : \A j \in Below : j <= m
  BY <1>7, LastExists, Below \in SUBSET (1 .. n)
<1>9. {j \in S : j <= m} = Below
  <2>1. \A j \in S : j \in Nat
    BY <1>0
  <2>2. m \in S /\ m < i /\ i \in S
    OBVIOUS
  <2>3. \A j \in S : j <= m => j < i
    BY <2>1, <2>2
  <2>4. \A j \in S : j < i => j <= m
    BY <1>8
  <2> QED
    BY <2>3, <2>4
<1>10. Rank(S, m) >= k
  BY <1>4, <1>6, <1>9 DEF Rank
<1>11. m \in Above /\ m < i
  BY <1>1, <1>8, <1>10
<1> QED
  BY <1>4, <1>11

\* A member is chosen by its rank.
LEMMA RankChosen ==
  ASSUME NEW n \in Nat, NEW S \in SUBSET (1 .. n), NEW i \in S
  PROVE  (CHOOSE j \in S : Rank(S, j) = Rank(S, i)) = i
<1> DEFINE c == CHOOSE j \in S : Rank(S, j) = Rank(S, i)
<1>1. c \in S /\ Rank(S, c) = Rank(S, i)
  OBVIOUS
<1>2. c \in Nat /\ i \in Nat
  <2>1. \A j \in S : j \in Nat
    OBVIOUS
  <2> QED
    BY <1>1, <2>1
<1>3. Rank(S, c) \in Nat /\ Rank(S, i) \in Nat
  BY <1>2, RankType
<1> HIDE DEF c
<1>4. ~(c < i)
  <2> SUFFICES ASSUME c < i PROVE FALSE
    OBVIOUS
  <2>1. Rank(S, c) < Rank(S, i)
    BY <1>1, RankUnique
  <2> QED
    BY <1>1, <1>3, <2>1
<1>5. ~(i < c)
  <2> SUFFICES ASSUME i < c PROVE FALSE
    OBVIOUS
  <2>1. Rank(S, i) < Rank(S, c)
    BY <1>1, RankUnique
  <2> QED
    BY <1>1, <1>3, <2>1
<1>6. c = i
  BY <1>2, <1>4, <1>5
<1> QED
  BY <1>6 DEF c

-----------------------------------------------------------------------------
(* Recursive functions on 0 .. N.                                          *)

\* g is the recursion from a0 by a step up to N.
Recursion(g, N, A, a0, step) ==
  /\ g \in [0 .. N -> A] /\ g[0] = a0
  /\ \A n \in 1 .. N : g[n] = step[<<n, g[n - 1]>>]

\* A recursion from a value of A by a step within A exists: at the first place
\* that had none, the one up to the place before would extend to it.
LEMMA RecursionExists ==
  ASSUME NEW N \in Nat, NEW A, NEW a0 \in A, NEW step \in [(1 .. N) \X A -> A]
  PROVE  \E g : Recursion(g, N, A, a0, step)
<1> DEFINE Solves(g, m) ==
             /\ g \in [0 .. m -> A] /\ g[0] = a0
             /\ \A n \in 1 .. m : g[n] = step[<<n, g[n - 1]>>]
           P(m) == \E g : Solves(g, m)
           G == {m \in 0 .. N : P(m)}
<1>1. P(0)
  <2>1. Solves([n \in 0 .. 0 |-> a0], 0)
    OBVIOUS
  <2> QED
    BY <2>1
<1>2. ASSUME NEW m \in 1 .. N, P(m - 1) PROVE P(m)
  <2>1. PICK g : Solves(g, m - 1)
    BY <1>2
  <2> DEFINE h == [n \in 0 .. m |-> IF n = m THEN step[<<m, g[m - 1]>>] ELSE g[n]]
  <2>2. g[m - 1] \in A
    BY <2>1
  <2>3. <<m, g[m - 1]>> \in (1 .. N) \X A
    BY <2>2
  <2>4. step[<<m, g[m - 1]>>] \in A
    BY <2>3
  <2>5. h \in [0 .. m -> A] /\ h[0] = a0
    BY <2>1, <2>4
  <2>6. ASSUME NEW n \in 1 .. m PROVE h[n] = step[<<n, h[n - 1]>>]
    <3>1. n - 1 \in 0 .. m /\ n - 1 # m /\ n \in 0 .. m
      OBVIOUS
    <3>2. h[n - 1] = g[n - 1]
      BY <3>1
    <3>3. CASE n = m
      BY <3>1, <3>2, <3>3
    <3>4. CASE n # m
      <4>1. n \in 1 .. m - 1
        BY <3>4
      <4>2. h[n] = g[n]
        BY <3>1, <3>4
      <4> QED
        BY <2>1, <3>2, <4>1, <4>2
    <3> QED
      BY <3>3, <3>4
  <2>7. Solves(h, m)
    BY <2>5, <2>6
  <2> QED
    BY <2>7
<1> HIDE DEF P
<1>3. \A m \in 0 .. N : m \in G
  <2>1. 0 \in G
    BY <1>1
  <2>2. \A m \in 1 .. N : m - 1 \in G => m \in G
    BY <1>2
  <2> HIDE DEF G
  <2> QED
    BY <2>1, <2>2, UpTo
<1>4. P(N)
  BY <1>3
<1> QED
  BY <1>4 DEF P, Recursion

\* Whatever satisfies such a recursion stays within A.
LEMMA RecursionTyped ==
  ASSUME NEW N \in Nat, NEW A, NEW f, f[0] \in A,
         \A n \in 1 .. N : f[n - 1] \in A => f[n] \in A
  PROVE  \A n \in 0 .. N : f[n] \in A
<1> DEFINE G == {n \in 0 .. N : f[n] \in A}
<1>1. 0 \in G /\ \A n \in 1 .. N : n - 1 \in G => n \in G
  OBVIOUS
<1> HIDE DEF G
<1>2. \A n \in 0 .. N : n \in G
  BY <1>1, UpTo
<1> QED
  BY <1>2 DEF G

=============================================================================
