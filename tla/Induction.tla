------------------------------ MODULE Induction ------------------------------
(***************************************************************************)
(* Lemmas that several proofs use.  Well-ordering and induction over the   *)
(* naturals are about sets instead of predicates: the provers cannot       *)
(* instantiate the library's theorems, which take a predicate as a         *)
(* parameter.  The others say what Subsequence keeps of a sequence.        *)
(***************************************************************************)
EXTENDS Subsequences, Sequences, FiniteSetTheorems, WellFoundedInduction, TLAPS

LEMMA LessWellFounded ==
  IsWellFoundedOn({p \in Nat \X Nat : p[1] < p[2]}, Nat)
BY NatLessThanWellFounded DEF OpToRel

\* A set of naturals has a least element.
LEMMA LeastNatural ==
  ASSUME NEW S \in SUBSET Nat, S # {}
  PROVE  \E m \in S : \A n \in S : m <= n
<1>1. PICK m \in S : \A n \in S : <<n, m>> \notin {p \in Nat \X Nat : p[1] < p[2]}
  BY WFMin, LessWellFounded, Zenon
<1>2. ASSUME NEW n \in S PROVE m <= n
  <2>1. <<n, m>> \notin {p \in Nat \X Nat : p[1] < p[2]}
    BY <1>1
  <2> QED
    BY <2>1
<1> QED
  BY <1>2

\* A bounded one has a greatest.
LEMMA GreatestNatural ==
  ASSUME NEW S \in SUBSET Nat, S # {}, NEW bound \in Nat, \A n \in S : n <= bound
  PROVE  \E m \in S : \A n \in S : n <= m
<1>1. {bound - n : n \in S} \in SUBSET Nat /\ {bound - n : n \in S} # {}
  <2>1. ASSUME NEW d \in {bound - n : n \in S} PROVE d \in Nat
    <3>1. PICK n \in S : d = bound - n
      OBVIOUS
    <3> QED
      BY <3>1
  <2> QED
    BY <2>1
<1>2. PICK d \in {bound - n : n \in S} : \A e \in {bound - n : n \in S} : d <= e
  BY <1>1, LeastNatural
<1>3. PICK m \in S : d = bound - m
  OBVIOUS
<1>4. ASSUME NEW n \in S PROVE n <= m
  BY <1>2, <1>3
<1> QED
  BY <1>4

\* What holds of 0, and of n + 1 when it holds of n, holds of every n.
LEMMA SetInduction ==
  ASSUME NEW S \in SUBSET Nat, 0 \in S, \A n \in S : n + 1 \in S
  PROVE  S = Nat
<1> SUFFICES ASSUME Nat \ S # {} PROVE FALSE
  OBVIOUS
<1>1. PICK m \in Nat \ S : \A n \in Nat \ S : m <= n
  BY LeastNatural
<1> QED
  BY <1>1

\* There is a function with a given first value and a given step from each
\* value to the next.
Steps(N, S) == [1..N -> [S -> S]]

Recursion(g, N, S, base, step) ==
  g \in [0..N -> S] /\ g[0] = base /\ \A n \in 1..N : g[n] = step[n][g[n - 1]]

LEMMA RecursionExists ==
  ASSUME NEW N \in Nat, NEW S, NEW base \in S, NEW step \in Steps(N, S)
  PROVE  \E g : Recursion(g, N, S, base, step)
<1>0. step \in [1..N -> [S -> S]]
  BY DEF Steps
<1> DEFINE Upto(g, k) == g[0] = base /\ \A n \in 1..k : g[n] = step[n][g[n - 1]]
           A == {k \in Nat : k <= N => \E g \in [0..k -> S] : Upto(g, k)}
<1>1. 0 \in A
  <2>1. [n \in 0..0 |-> base] \in [0..0 -> S] /\ Upto([n \in 0..0 |-> base], 0)
    OBVIOUS
  <2> QED
    BY <2>1
<1>2. ASSUME NEW k \in A PROVE k + 1 \in A
  <2> SUFFICES ASSUME k + 1 <= N PROVE \E g \in [0..(k + 1) -> S] : Upto(g, k + 1)
    OBVIOUS
  <2>1. PICK g \in [0..k -> S] : Upto(g, k)
    OBVIOUS
  <2>2. k \in Nat /\ k \in 0..k /\ k + 1 \in 1..N
    OBVIOUS
  <2>3. step[k + 1][g[k]] \in S
    <3>1. g[k] \in S /\ step[k + 1] \in [S -> S]
      BY <1>0, <2>2
    <3> QED
      BY <3>1
  <2> DEFINE h == [n \in 0..(k + 1) |-> IF n = k + 1 THEN step[k + 1][g[k]] ELSE g[n]]
  <2>4. h \in [0..(k + 1) -> S]
    <3>1. ASSUME NEW n \in 0..(k + 1) PROVE h[n] \in S
      <4>1. n = k + 1 \/ n \in 0..k
        BY <2>2
      <4> QED
        BY <4>1, <2>3
    <3> QED
      BY <3>1
  <2>5. h[0] = base
    BY <2>1, <2>2
  <2>6. ASSUME NEW n \in 1..(k + 1) PROVE h[n] = step[n][h[n - 1]]
    <3>1. CASE n = k + 1
      <4>1. h[n] = step[k + 1][g[k]] /\ h[n - 1] = g[k]
        BY <3>1, <2>2
      <4> QED
        BY <3>1, <4>1
    <3>2. CASE n # k + 1
      <4>1. n \in 1..k /\ n \in 0..(k + 1) /\ n - 1 \in 0..(k + 1) /\ n - 1 # k + 1
        BY <3>2, <2>2
      <4>2. h[n] = g[n] /\ h[n - 1] = g[n - 1]
        BY <3>2, <4>1
      <4> QED
        BY <4>1, <4>2, <2>1
    <3> QED
      BY <3>1, <3>2
  <2> HIDE DEF h
  <2> QED
    BY <2>4, <2>5, <2>6
<1> HIDE DEF A
<1>3. A = Nat
  <2>1. A \in SUBSET Nat
    BY DEF A
  <2> QED
    BY <1>1, <1>2, <2>1, SetInduction
<1> QED
  BY <1>3 DEF A, Recursion

\* And only one: functions that start alike and step alike are alike.
StepAlike(g, h, N) == \A n \in 1..N : g[n - 1] = h[n - 1] => g[n] = h[n]

Alike(g, h, N) == \A n \in 0..N : g[n] = h[n]

LEMMA RecursionUnique ==
  ASSUME NEW N \in Nat, NEW g, NEW h, g[0] = h[0], StepAlike(g, h, N)
  PROVE  Alike(g, h, N)
<1>0. \A n \in 1..N : g[n - 1] = h[n - 1] => g[n] = h[n]
  BY DEF StepAlike
<1> DEFINE A == {n \in Nat : n <= N => g[n] = h[n]}
<1>1. 0 \in A
  OBVIOUS
<1>2. ASSUME NEW n \in A PROVE n + 1 \in A
  <2> SUFFICES ASSUME n + 1 <= N PROVE g[n + 1] = h[n + 1]
    OBVIOUS
  <2>1. n + 1 \in 1..N /\ (n + 1) - 1 = n /\ g[n] = h[n]
    OBVIOUS
  <2> QED
    BY <1>0, <2>1
<1>3. A = Nat
  <2>1. A \in SUBSET Nat
    OBVIOUS
  <2> HIDE DEF A
  <2> QED
    BY <1>1, <1>2, <2>1, SetInduction
<1> QED
  BY <1>3 DEF Alike

-----------------------------------------------------------------------------
(* Subsequences.                                                           *)

LEMMA RankType ==
  ASSUME NEW n \in Nat, NEW K \in SUBSET (1..n), NEW i
  PROVE  /\ IsFiniteSet({k \in K : k <= i})
         /\ Rank(K, i) \in Nat
         /\ IsFiniteSet(K) /\ Cardinality(K) \in Nat
         /\ Rank(K, i) <= Cardinality(K)
<1>1. IsFiniteSet(1..n)
  BY FS_Interval
<1>2. IsFiniteSet(K) /\ Cardinality(K) \in Nat
  BY <1>1, FS_Subset, FS_CardinalityType
<1>3. {k \in K : k <= i} \in SUBSET K
  OBVIOUS
<1>4. IsFiniteSet({k \in K : k <= i}) /\ Cardinality({k \in K : k <= i}) <= Cardinality(K)
  BY <1>2, <1>3, FS_Subset
<1> QED
  BY <1>2, <1>4, FS_CardinalityType DEF Rank

LEMMA RankStep ==
  ASSUME NEW n \in Nat, NEW K \in SUBSET (1..n), NEW i \in Nat
  PROVE  Rank(K, i + 1) = IF i + 1 \in K THEN Rank(K, i) + 1 ELSE Rank(K, i)
<1> DEFINE below == {k \in K : k <= i}
<1>1. IsFiniteSet(below)
  BY RankType
<1>2. i + 1 \notin below
  OBVIOUS
<1>3. {k \in K : k <= i + 1} = IF i + 1 \in K THEN below \cup {i + 1} ELSE below
  <2>1. \A k \in K : k \in Int /\ (k <= i + 1 <=> k <= i \/ k = i + 1)
    <3>1. \A k \in K : k \in 1..n
      OBVIOUS
    <3> QED
      BY <3>1
  <2> QED
    BY <2>1
<1> HIDE DEF below
<1>4. Cardinality(below \cup {i + 1}) = Cardinality(below) + 1
  BY <1>1, <1>2, FS_AddElement
<1> QED
  BY <1>3, <1>4 DEF Rank, below

\* Elements are told apart by their ranks.
LEMMA RankGrows ==
  ASSUME NEW n \in Nat, NEW K \in SUBSET (1..n), NEW i \in Nat, NEW j \in K, i < j
  PROVE  Rank(K, i) < Rank(K, j)
<1> DEFINE low == {k \in K : k <= i}
           high == {k \in K : k <= j}
<1>1. low \in SUBSET high /\ low # high
  <2>1. j \in high /\ j \notin low
    OBVIOUS
  <2>2. low \subseteq high
    <3>1. \A k \in K : k \in 1..n
      OBVIOUS
    <3>2. \A k \in K : k <= i => k <= j
      BY <3>1
    <3> QED
      BY <3>2
  <2> QED
    BY <2>1, <2>2
<1>2. IsFiniteSet(high)
  BY RankType
<1> HIDE DEF low, high
<1>3. Cardinality(low) <= Cardinality(high) /\ Cardinality(low) # Cardinality(high)
  BY <1>1, <1>2, FS_Subset
<1>4. Rank(K, i) \in Nat /\ Rank(K, j) \in Nat
  BY RankType
<1> QED
  BY <1>3, <1>4 DEF Rank, low, high

LEMMA RankInjective ==
  ASSUME NEW n \in Nat, NEW K \in SUBSET (1..n), NEW i \in K, NEW j \in K, Rank(K, i) = Rank(K, j)
  PROVE  i = j
<1>1. Rank(K, i) \in Nat /\ i \in Nat /\ j \in Nat
  <2>1. i \in 1..n /\ j \in 1..n
    OBVIOUS
  <2>2. Rank(K, i) \in Nat
    BY RankType
  <2> QED
    BY <2>1, <2>2
<1>2. CASE i < j
  <2>1. Rank(K, i) < Rank(K, j)
    BY <1>1, <1>2, RankGrows
  <2> QED
    BY <1>1, <2>1
<1>3. CASE j < i
  <2>1. Rank(K, j) < Rank(K, i)
    BY <1>1, <1>3, RankGrows
  <2> QED
    BY <1>1, <2>1
<1> QED
  BY <1>1, <1>2, <1>3

\* Every rank is that of an element.
LEMMA RankSurjective ==
  ASSUME NEW n \in Nat, NEW K \in SUBSET (1..n), NEW j \in 1..Cardinality(K)
  PROVE  \E i \in K : Rank(K, i) = j
<1>0. Cardinality(K) \in Nat
  BY RankType
<1> DEFINE A == {i \in 0..n : j <= Rank(K, i)}
<1>1. n \in A
  <2>1. {k \in K : k <= n} = K
    <3>1. \A k \in K : k \in 1..n
      OBVIOUS
    <3>2. \A k \in K : k <= n
      BY <3>1
    <3> QED
      BY <3>2
  <2> QED
    <3>1. Rank(K, n) = Cardinality(K)
      BY <2>1 DEF Rank
    <3>2. j <= Cardinality(K) /\ n \in 0..n
      BY <1>0
    <3> QED
      BY <3>1, <3>2
<1>2. PICK m \in A : \A i \in A : m <= i
  <2>1. A \in SUBSET Nat /\ A # {}
    BY <1>1
  <2> HIDE DEF A
  <2> QED
    BY <2>1, LeastNatural
<1>3. Rank(K, 0) = 0
  <2>1. {k \in K : k <= 0} = {}
    <3>1. \A k \in K : k \in 1..n
      OBVIOUS
    <3>2. \A k \in K : ~(k <= 0)
      BY <3>1
    <3> QED
      BY <3>2
  <2> QED
    BY <2>1, FS_EmptySet DEF Rank
<1>4. m \in 1..n /\ m - 1 \in 0..n /\ m - 1 \notin A
  BY <1>0, <1>2, <1>3
<1>5. Rank(K, m - 1) \in Nat /\ Rank(K, m) \in Nat
  BY RankType
<1>6. Rank(K, m) = IF m \in K THEN Rank(K, m - 1) + 1 ELSE Rank(K, m - 1)
  <2> DEFINE l == m - 1
  <2>1. l \in Nat /\ l + 1 = m
    BY <1>4
  <2> HIDE DEF l
  <2>2. Rank(K, l + 1) = IF l + 1 \in K THEN Rank(K, l) + 1 ELSE Rank(K, l)
    BY <2>1, RankStep
  <2> QED
    BY <2>1, <2>2 DEF l
<1>7. j <= Rank(K, m) /\ Rank(K, m - 1) < j
  BY <1>0, <1>2, <1>4, <1>5
<1>8. m \in K /\ Rank(K, m) = j
  BY <1>0, <1>5, <1>6, <1>7
<1> QED
  BY <1>8

\* A subsequence has the elements at the places in K, each once, and if the
\* first is among them it stays the first.
LEMMA SubsequencePlaces ==
  ASSUME NEW S, NEW s \in Seq(S), NEW K \in SUBSET (DOMAIN s)
  PROVE  /\ Cardinality(K) \in Nat
         /\ Subsequence(s, K) \in Seq(S) /\ Len(Subsequence(s, K)) = Cardinality(K)
         /\ \E g \in [1..Cardinality(K) -> K] :
              /\ \A j \in 1..Cardinality(K) : Subsequence(s, K)[j] = s[g[j]]
              /\ \A j, k \in 1..Cardinality(K) : g[j] = g[k] => j = k
              /\ \A i \in K : \E j \in 1..Cardinality(K) : g[j] = i
              /\ 1 \in K => 1 \in 1..Cardinality(K) /\ g[1] = 1
<1> DEFINE n == Len(s)
           N == Cardinality(K)
           g == [j \in 1..N |-> CHOOSE i \in K : Rank(K, i) = j]
<1>1. n \in Nat /\ DOMAIN s = 1..n /\ K \in SUBSET (1..n)
  OBVIOUS
<1> HIDE DEF n
<1>2. N \in Nat
  BY <1>1, RankType
<1> HIDE DEF N
<1>3. ASSUME NEW j \in 1..N PROVE g[j] \in K /\ Rank(K, g[j]) = j
  <2>1. \E i \in K : Rank(K, i) = j
    BY <1>1, RankSurjective DEF N
  <2> QED
    BY <2>1
<1>4. Subsequence(s, K) = [j \in 1..N |-> s[g[j]]]
  BY DEF Subsequence, N
<1>5. g \in [1..N -> K]
  BY <1>3
<1> HIDE DEF g
<1>6. \A j \in 1..N : s[g[j]] \in S
  BY <1>1, <1>3
<1>7. Subsequence(s, K) \in Seq(S) /\ Len(Subsequence(s, K)) = N
  BY <1>2, <1>4, <1>6
<1>8. \A j, k \in 1..N : g[j] = g[k] => j = k
  BY <1>3
<1>9. ASSUME NEW i \in K PROVE Rank(K, i) \in 1..N /\ g[Rank(K, i)] = i
  <2>1. Rank(K, i) \in Nat /\ Rank(K, i) <= N
    BY <1>1, RankType DEF N
  <2>2. Rank(K, 0) < Rank(K, i) /\ Rank(K, 0) \in Nat
    <3>1. i \in 1..n
      BY <1>1
    <3>2. 0 < i
      BY <3>1
    <3> QED
      BY <1>1, <3>2, RankGrows, RankType
  <2>3. Rank(K, i) \in 1..N
    BY <1>2, <2>1, <2>2
  <2>4. g[Rank(K, i)] \in K /\ Rank(K, g[Rank(K, i)]) = Rank(K, i)
    BY <2>3, <1>3
  <2> QED
    BY <2>3, <2>4, <1>1, RankInjective
<1>10. ASSUME 1 \in K PROVE 1 \in 1..N /\ g[1] = 1
  <2>1. {k \in K : k <= 1} = {1}
    BY <1>1, <1>10
  <2>2. Rank(K, 1) = 1
    BY <2>1, FS_Singleton DEF Rank
  <2> QED
    BY <2>2, <1>9, <1>10
<1> QED
  BY <1>2, <1>4, <1>5, <1>7, <1>8, <1>9, <1>10 DEF N
=============================================================================
