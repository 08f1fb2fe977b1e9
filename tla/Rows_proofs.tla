----------------------------- MODULE Rows_proofs -----------------------------
(***************************************************************************)
(* Lemmas about Ascending and Only (Conformance.tla), through which the    *)
(* corrupters, the truncated tape and the producer filter rows: the rows   *)
(* kept are in their physical order and none is lost or told twice.        *)
(***************************************************************************)
EXTENDS Conformance, FiniteSetTheorems, SequenceTheorems, WellFoundedInduction, TLAPS


\* Every set of naturals that is not empty has a least element.
LEMMA LeastNatural ==
    ASSUME NEW S \in SUBSET Nat, S # {}
    PROVE  \E w \in S : \A x \in S : w <= x
<1> DEFINE U == {0 .. y : y \in S}
<1>1. U \subseteq FiniteSubsetsOf(Nat) /\ U # {}
  <2>1. \A y \in S : IsFiniteSet(0 .. y) /\ 0 .. y \subseteq Nat
    BY FS_Interval
  <2> QED
    BY <2>1 DEF FiniteSubsetsOf
<1>2. PICK m \in U : \A n \in U : <<n, m>> \notin StrictSubsetOrdering(Nat)
  <2> HIDE DEF U
  <2> QED
    BY <1>1, FS_StrictSubsetOrderingWellFounded, WFMin
<1>3. PICK w \in S : m = 0 .. w
  OBVIOUS
<1>4. ASSUME NEW x \in S, x < w PROVE FALSE
  <2>1. 0 .. x \subseteq 0 .. w /\ w \in 0 .. w /\ w \notin 0 .. x
    BY <1>4
  <2>2. 0 .. x \subseteq Nat /\ 0 .. w \subseteq Nat /\ 0 .. x \in U
    OBVIOUS
  <2> HIDE DEF U
  <2>3. <<0 .. x, 0 .. w>> \in StrictSubsetOrdering(Nat)
    BY <2>1, <2>2 DEF StrictSubsetOrdering
  <2> QED
    BY <1>2, <1>3, <2>2, <2>3
<1> QED
  BY <1>4

Below(S, k) == {j \in S : j <= k}
Rank(S, k)  == Cardinality(Below(S, k))

\* What lies at or below a position, from one position to the next.
LEMMA BelowFacts ==
    ASSUME NEW N \in Nat, NEW S, \A x \in S : x \in 1 .. N
    PROVE  /\ Below(S, 0) = {} /\ Below(S, N) = S
           /\ \A k : Below(S, k) \subseteq S
           /\ \A k \in 1 .. N : k \in S =>
                 Below(S, k) = Below(S, k - 1) \cup {k} /\ k \notin Below(S, k - 1)
           /\ \A k \in 1 .. N : k \notin S => Below(S, k) = Below(S, k - 1)
           /\ \A m, k \in 0 .. N : m <= k => Below(S, m) \subseteq Below(S, k)
           /\ \A m \in 0 .. N, k \in S : m < k => k \in Below(S, k) /\ k \notin Below(S, m)
<1>1. \A k, x : x \in Below(S, k) <=> x \in S /\ x <= k
  BY DEF Below
<1>2. Below(S, 0) = {} /\ Below(S, N) = S
  BY DEF Below
<1>3. ASSUME NEW k \in 1 .. N, k \in S
      PROVE  Below(S, k) = Below(S, k - 1) \cup {k} /\ k \notin Below(S, k - 1)
  <2>1. \A x \in S : x <= k <=> x <= k - 1 \/ x = k
    OBVIOUS
  <2>2. \A x : x \in Below(S, k) <=> x \in Below(S, k - 1) \/ x = k
    BY <1>1, <1>3, <2>1
  <2>3. ~(k <= k - 1)
    OBVIOUS
  <2>4. k \notin Below(S, k - 1)
    BY <1>1, <2>3
  <2> HIDE DEF Below
  <2> QED
    BY <2>2, <2>4
<1>4. ASSUME NEW k \in 1 .. N, k \notin S PROVE Below(S, k) = Below(S, k - 1)
  BY <1>4 DEF Below
<1>5. ASSUME NEW m \in 0 .. N, NEW k \in 0 .. N, m <= k PROVE Below(S, m) \subseteq Below(S, k)
  BY <1>5 DEF Below
<1>6. ASSUME NEW m \in 0 .. N, NEW k \in S, m < k PROVE k \in Below(S, k) /\ k \notin Below(S, m)
  BY <1>6 DEF Below
<1>7. \A k : Below(S, k) \subseteq S
  BY DEF Below
<1> QED
  BY <1>2, <1>3, <1>4, <1>5, <1>6, <1>7

\* The rank of a position is a count, and only a member of S advances it.
LEMMA RankFacts ==
    ASSUME NEW N \in Nat, NEW S, \A x \in S : x \in 1 .. N
    PROVE  /\ IsFiniteSet(S) /\ Cardinality(S) \in 0 .. N
           /\ \A k \in 0 .. N : Rank(S, k) \in 0 .. Cardinality(S)
           /\ Rank(S, 0) = 0 /\ Rank(S, N) = Cardinality(S)
           /\ \A k \in 1 .. N : Rank(S, k) = IF k \in S THEN Rank(S, k - 1) + 1 ELSE Rank(S, k - 1)
           /\ \A m, k \in 0 .. N : m <= k => Rank(S, m) <= Rank(S, k)
           /\ \A m \in 0 .. N, k \in S : m < k => Rank(S, m) < Rank(S, k)
<1>1. IsFiniteSet(S) /\ Cardinality(S) \in 0 .. N
  <2>1. IsFiniteSet(1 .. N) /\ Cardinality(1 .. N) = N
    BY FS_Interval
  <2>2. S \in SUBSET (1 .. N)
    OBVIOUS
  <2>3. IsFiniteSet(S) /\ Cardinality(S) <= N
    BY <2>1, <2>2, FS_Subset
  <2> QED
    BY <2>3, FS_CardinalityType
<1>2. \A k \in 0 .. N : Below(S, k) \subseteq S /\ IsFiniteSet(Below(S, k))
                        /\ Cardinality(Below(S, k)) \in 0 .. Cardinality(S)
  <2> SUFFICES ASSUME NEW k \in 0 .. N
               PROVE  Below(S, k) \subseteq S /\ IsFiniteSet(Below(S, k))
                      /\ Cardinality(Below(S, k)) \in 0 .. Cardinality(S)
    OBVIOUS
  <2>1. Below(S, k) \in SUBSET S
    BY BelowFacts
  <2>2. IsFiniteSet(Below(S, k)) /\ Cardinality(Below(S, k)) <= Cardinality(S)
    BY <1>1, <2>1, FS_Subset
  <2>3. Cardinality(Below(S, k)) \in Nat
    BY <2>2, FS_CardinalityType
  <2> QED
    BY <1>1, <2>1, <2>2, <2>3
<1>3. Rank(S, 0) = 0 /\ Rank(S, N) = Cardinality(S)
  <2>1. Below(S, 0) = {} /\ Below(S, N) = S
    BY BelowFacts
  <2> QED
    BY <2>1, FS_EmptySet DEF Rank
<1>4. ASSUME NEW k \in 1 .. N
      PROVE  Rank(S, k) = IF k \in S THEN Rank(S, k - 1) + 1 ELSE Rank(S, k - 1)
  <2>1. k \in 0 .. N /\ k - 1 \in 0 .. N
    OBVIOUS
  <2>2. CASE k \in S
    <3>1. Below(S, k) = Below(S, k - 1) \cup {k} /\ k \notin Below(S, k - 1)
      BY <2>2, BelowFacts
    <3> DEFINE B == Below(S, k - 1)
    <3>2. IsFiniteSet(B)
      BY <1>2, <2>1
    <3> HIDE DEF B
    <3>3. k \notin B => Cardinality(B \cup {k}) = Cardinality(B) + 1
      BY <3>2, FS_AddElement
    <3> QED
      BY <2>2, <3>1, <3>3 DEF Rank, B
  <2>3. CASE k \notin S
    <3>1. Below(S, k) = Below(S, k - 1)
      BY <2>3, BelowFacts
    <3> QED
      BY <2>3, <3>1 DEF Rank
  <2> QED
    BY <2>2, <2>3
<1>5. ASSUME NEW m \in 0 .. N, NEW k \in 0 .. N, m <= k
      PROVE  /\ Rank(S, m) <= Rank(S, k)
             /\ k \in S /\ m < k => Rank(S, m) < Rank(S, k)
  <2>1. Below(S, m) \in SUBSET Below(S, k)
    BY <1>5, BelowFacts
  <2>2. Rank(S, m) \in Nat /\ Rank(S, k) \in Nat
    BY <1>1, <1>2 DEF Rank
  <2>3. /\ Rank(S, m) <= Rank(S, k)
        /\ Rank(S, m) = Rank(S, k) => Below(S, k) = Below(S, m)
    BY <1>2, <2>1, FS_Subset DEF Rank
  <2>4. k \in S /\ m < k => k \in Below(S, k) /\ k \notin Below(S, m)
    BY BelowFacts
  <2> QED
    BY <2>2, <2>3, <2>4
<1>6. S \subseteq 0 .. N
  OBVIOUS
<1>7. \A k \in 0 .. N : Rank(S, k) \in 0 .. Cardinality(S)
  BY <1>2 DEF Rank
<1>8. \A m, k \in 0 .. N : m <= k => Rank(S, m) <= Rank(S, k)
  BY <1>5
<1>9. \A m \in 0 .. N, k \in S : m < k => Rank(S, m) < Rank(S, k)
  <2> SUFFICES ASSUME NEW m \in 0 .. N, NEW k \in S, m < k PROVE Rank(S, m) < Rank(S, k)
    OBVIOUS
  <2>1. k \in 0 .. N /\ m <= k
    OBVIOUS
  <2> QED
    BY <1>5, <2>1
<1> QED
  BY <1>1, <1>3, <1>4, <1>7, <1>8, <1>9

\* Ascending(S) enumerates S: each position once, in ascending order.
LEMMA AscendingFacts ==
    ASSUME NEW N \in Nat, NEW S, \A x \in S : x \in 1 .. N
    PROVE  /\ Cardinality(S) \in Nat
           /\ Ascending(S) \in [1 .. Cardinality(S) -> S]
           /\ \A i, j \in 1 .. Cardinality(S) : i < j => Ascending(S)[i] < Ascending(S)[j]
           /\ \A k \in S : Rank(S, k) \in 1 .. Cardinality(S) /\ Ascending(S)[Rank(S, k)] = k
<1>0. \A x \in S : x \in Nat /\ 1 <= x /\ x <= N
  OBVIOUS
<1>1. Cardinality(S) \in 0 .. N /\ Rank(S, 0) = 0 /\ Rank(S, N) = Cardinality(S)
  BY RankFacts
<1>2. ASSUME NEW i \in 1 .. Cardinality(S) PROVE \E k \in S : Rank(S, k) = i
  <2> DEFINE M == {k \in 1 .. N : Rank(S, k) >= i}
  <2>1. N \in M /\ M \in SUBSET Nat
    BY <1>1
  <2>2. PICK w \in M : \A x \in M : w <= x
    <3> HIDE DEF M
    <3> QED
      BY <2>1, LeastNatural
  <2>3. w \in 1 .. N /\ w - 1 \in 0 .. N /\ Rank(S, w) >= i
    OBVIOUS
  <2>4. Rank(S, w) \in Nat /\ Rank(S, w - 1) \in Nat
    BY <1>1, <2>3, RankFacts
  <2>5. Rank(S, w - 1) < i
    <3>1. CASE w - 1 = 0
      BY <1>1, <3>1
    <3>2. CASE w - 1 # 0
      <4>1. w - 1 \in 1 .. N /\ w - 1 \notin M
        BY <2>2, <2>3, <3>2
      <4> QED
        BY <2>4, <4>1
    <3> QED
      BY <3>1, <3>2
  <2>6. Rank(S, w) = IF w \in S THEN Rank(S, w - 1) + 1 ELSE Rank(S, w - 1)
    BY <2>3, RankFacts
  <2> HIDE DEF M
  <2>7. w \in S /\ Rank(S, w) = i
    BY <2>3, <2>4, <2>5, <2>6
  <2> QED
    BY <2>7
<1>3. ASSUME NEW i \in 1 .. Cardinality(S)
      PROVE  Ascending(S)[i] \in S /\ Rank(S, Ascending(S)[i]) = i
  BY <1>2, <1>3 DEF Ascending, Rank, Below
<1>4. Ascending(S) \in [1 .. Cardinality(S) -> S]
  BY <1>3 DEF Ascending
<1>5. ASSUME NEW i \in 1 .. Cardinality(S), NEW j \in 1 .. Cardinality(S), i < j
      PROVE  Ascending(S)[i] < Ascending(S)[j]
  <2> DEFINE p == Ascending(S)[i]
             q == Ascending(S)[j]
  <2>1. p \in S /\ q \in S /\ Rank(S, p) = i /\ Rank(S, q) = j
    BY <1>3
  <2>2. p \in 0 .. N /\ q \in 0 .. N
    BY <1>0, <2>1
  <2> HIDE DEF p, q
  <2>3. q <= p => Rank(S, q) <= Rank(S, p)
    BY <2>2, RankFacts
  <2>4. p < q
    BY <1>5, <2>1, <2>2, <2>3
  <2> QED
    BY <2>4 DEF p, q
<1>6. ASSUME NEW k \in S
      PROVE  Rank(S, k) \in 1 .. Cardinality(S) /\ Ascending(S)[Rank(S, k)] = k
  <2>1. k \in 0 .. N /\ 0 \in 0 .. N /\ 0 < k
    OBVIOUS
  <2>2. Rank(S, k) \in 0 .. Cardinality(S) /\ 0 < Rank(S, k)
    <3>1. Rank(S, k) \in 0 .. Cardinality(S)
      BY <2>1, RankFacts
    <3>2. \A m \in 0 .. N, x \in S : m < x => Rank(S, m) < Rank(S, x)
      BY RankFacts
    <3>3. Rank(S, 0) < Rank(S, k)
      BY <2>1, <3>2
    <3> QED
      BY <1>1, <3>1, <3>3
  <2>3. Rank(S, k) \in 1 .. Cardinality(S)
    BY <1>1, <2>2
  <2> DEFINE m == Ascending(S)[Rank(S, k)]
  <2>4. m \in S /\ Rank(S, m) = Rank(S, k)
    BY <1>3, <2>3
  <2> HIDE DEF m
  <2>5. m \in 0 .. N /\ k \in 0 .. N /\ Rank(S, m) \in Nat /\ Rank(S, k) \in Nat
    BY <1>1, <2>2, <2>4
  <2>6. ~(m < k)
    <3>1. m < k => Rank(S, m) < Rank(S, k)
      BY <2>5, RankFacts
    <3> QED
      BY <2>4, <2>5, <3>1
  <2>7. ~(k < m)
    <3>1. k < m => Rank(S, k) < Rank(S, m)
      BY <2>4, <2>5, RankFacts
    <3> QED
      BY <2>4, <2>5, <3>1
  <2>8. m = k
    BY <2>5, <2>6, <2>7
  <2> QED
    BY <2>3, <2>8 DEF m
<1> QED
  BY <1>1, <1>4, <1>5, <1>6

\* What stands side by side in S stands side by side in the enumeration.
LEMMA AscendingAdjacent ==
    ASSUME NEW N \in Nat, NEW S, \A x \in S : x \in 1 .. N, NEW i \in 1 .. Cardinality(S),
           Ascending(S)[i] + 1 \in S
    PROVE  i + 1 \in 1 .. Cardinality(S) /\ Ascending(S)[i + 1] = Ascending(S)[i] + 1
<1> DEFINE C == Cardinality(S)
           A == Ascending(S)
<1>0. \A x \in S : x \in Nat /\ 1 <= x /\ x <= N
  OBVIOUS
<1>1. C \in Nat /\ A \in [1 .. C -> S] /\ (\A k, j \in 1 .. C : k < j => A[k] < A[j])
  BY AscendingFacts
<1>2. PICK j \in 1 .. C : A[j] = A[i] + 1
  BY AscendingFacts
<1>3. i \in 1 .. C /\ A[i] \in Nat
  BY <1>0, <1>1
<1> HIDE DEF C, A
<1>4. \A k \in 1 .. C : A[k] \in Nat
  BY <1>0, <1>1
<1>5. i < j
  BY <1>1, <1>2, <1>3
<1>6. i + 1 \in 1 .. C
  BY <1>1, <1>2, <1>3, <1>5
<1>7. ~(i + 1 < j)
  <2>1. i + 1 < j => A[i] < A[i + 1] /\ A[i + 1] < A[j]
    BY <1>1, <1>3, <1>6
  <2> QED
    BY <1>2, <1>3, <1>4, <1>6, <2>1
<1>8. j = i + 1
  BY <1>2, <1>3, <1>5, <1>7
<1> QED
  BY <1>2, <1>6, <1>8 DEF A, C

\* A prefix that is in S whole keeps its places.
LEMMA AscendingPrefix ==
    ASSUME NEW N \in Nat, NEW S, \A x \in S : x \in 1 .. N, NEW m \in Nat, 1 .. m \subseteq S
    PROVE  m <= Cardinality(S) /\ \A i \in 1 .. m : Ascending(S)[i] = i
<1>0. \A x \in S : x \in Nat /\ 1 <= x /\ x <= N
  OBVIOUS
<1>1. ASSUME NEW i \in 1 .. m PROVE i \in S /\ Rank(S, i) = i
  <2>1. Below(S, i) = 1 .. i
    <3>1. \A x \in 1 .. i : x \in S /\ x <= i
      OBVIOUS
    <3> QED
      BY <1>0, <3>1 DEF Below
  <2>2. Cardinality(1 .. i) = i
    BY FS_Interval
  <2> QED
    BY <2>1, <2>2 DEF Rank
<1>2. \A i \in 1 .. m : i \in 1 .. Cardinality(S) /\ Ascending(S)[i] = i
  BY <1>1, AscendingFacts
<1>3. m <= Cardinality(S)
  <2>1. Cardinality(S) \in Nat
    BY AscendingFacts
  <2>2. CASE m = 0 BY <2>1, <2>2
  <2>3. CASE m # 0
    <3>1. m \in 1 .. m
      BY <2>3
    <3> QED
      BY <1>2, <2>1, <3>1
  <2> QED
    BY <2>2, <2>3
<1> QED
  BY <1>2, <1>3

\* Only(rows, S) is a sequence of just the elements at the positions of S.
LEMMA OnlyFacts ==
    ASSUME NEW rows, rows \in Seq(Range(rows)), NEW S \in SUBSET DOMAIN rows
    PROVE  /\ Cardinality(S) \in Nat
           /\ DOMAIN Only(rows, S) = 1 .. Cardinality(S)
           /\ \A i \in 1 .. Cardinality(S) : /\ Ascending(S)[i] \in S
                                             /\ Only(rows, S)[i] = rows[Ascending(S)[i]]
           /\ Only(rows, S) \in Seq(Range(rows))
           /\ Only(rows, S) \in Seq(Range(Only(rows, S)))
           /\ Range(Only(rows, S)) = {rows[k] : k \in S}
<1> DEFINE C == Cardinality(S)
           A == Ascending(S)
           R == Only(rows, S)
<1>1. Len(rows) \in Nat /\ DOMAIN rows = 1 .. Len(rows)
  OBVIOUS
<1>2. C \in Nat /\ A \in [1 .. C -> S] /\ (\A k \in S : \E i \in 1 .. C : A[i] = k)
  BY <1>1, AscendingFacts
<1>3. DOMAIN A = 1 .. C
  BY <1>2
<1>4. R = [i \in 1 .. C |-> rows[A[i]]]
  BY <1>3 DEF Only
<1> HIDE DEF A, C, R
<1>5. \A i \in 1 .. C : A[i] \in S /\ R[i] = rows[A[i]] /\ rows[A[i]] \in Range(rows)
  BY <1>2, <1>4 DEF Range
<1>6. R \in [1 .. C -> Range(rows)] /\ R \in [1 .. C -> Range(R)] /\ DOMAIN R = 1 .. C
  BY <1>4, <1>5 DEF Range
<1>7. R \in Seq(Range(rows)) /\ R \in Seq(Range(R))
  BY <1>2, <1>6
<1>8. Range(R) = {rows[k] : k \in S}
  BY <1>2, <1>5, <1>6 DEF Range
<1> QED
  BY <1>2, <1>5, <1>6, <1>7, <1>8 DEF A, C, R
=============================================================================
