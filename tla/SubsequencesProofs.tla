------------------------- MODULE SubsequencesProofs -------------------------
(***************************************************************************)
(* What Keep returns: the elements of the sequence that are in the set.    *)
(***************************************************************************)
EXTENDS Subsequences, Integers, SequencesExt, FiniteSetTheorems, TLAPS

\* The least-number principle, for a set.
LEMMA LeastElement ==
    ASSUME NEW T, T \subseteq Nat, T # {}
    PROVE  \E x \in T : \A y \in T : x <= y
<1> DEFINE Less == OpToRel(<, Nat)
<1>1. IsWellFoundedOn(Less, Nat)
  BY NatLessThanWellFounded
<1>2. \E x \in T : \A y \in T : <<y, x>> \notin Less
  <2> HIDE DEF Less
  <2> QED BY <1>1, WFMin
<1>3. \A x, y \in Nat : <<y, x>> \in Less <=> y < x
  BY DEF OpToRel
<1>4. \E x \in T : \A y \in T : ~ (y < x)
  <2> HIDE DEF Less
  <2> QED BY <1>2, <1>3
<1> QED BY <1>4

\* In a set of positions, every rank up to the size of the set is taken.
LEMMA EveryRankTaken ==
    ASSUME NEW n \in Nat, NEW kept \in SUBSET (1..n),
           NEW k \in 1..Cardinality(kept)
    PROVE  \E i \in kept : Cardinality({j \in kept : j <= i}) = k
<1> DEFINE Upto(m) == {j \in kept : j <= m}
           Count(m) == Cardinality(Upto(m))
           T == {m \in 0..n : Count(m) >= k}
<1>1. \A i \in kept : i \in Nat /\ 1 <= i /\ i <= n
  OBVIOUS
<1>2. IsFiniteSet(kept)
  <2>1. IsFiniteSet(1..n)
    BY FS_Interval
  <2> QED BY <2>1, FS_Subset
<1>3. k \in Nat /\ k > 0 /\ k <= Cardinality(kept) /\ Cardinality(kept) \in Nat
  BY <1>2, FS_CardinalityType
<1>4. \A m \in Nat : IsFiniteSet(Upto(m)) /\ Count(m) \in Nat
  <2> TAKE m \in Nat
  <2>1. Upto(m) \in SUBSET kept
    OBVIOUS
  <2> QED BY <2>1, <1>2, FS_Subset, FS_CardinalityType
<1>5. Count(0) = 0
  <2>1. \A j \in kept : ~ (j <= 0)
    BY <1>1
  <2>2. Upto(0) = {}
    BY <2>1
  <2> QED BY <2>2, FS_EmptySet
<1>6. Count(n) = Cardinality(kept)
  <2>1. Upto(n) = kept
    BY <1>1
  <2> QED BY <2>1
<1>7. \A m \in 1..n : Count(m) = IF m \in kept THEN Count(m - 1) + 1 ELSE Count(m - 1)
  <2> TAKE m \in 1..n
  <2>1. m - 1 \in Nat
    OBVIOUS
  <2>2. IsFiniteSet(Upto(m - 1))
    BY <2>1, <1>4
  <2>3. m \notin Upto(m - 1)
    OBVIOUS
  <2>6. \A j \in kept : j <= m <=> (j <= m - 1 \/ j = m)
    BY <1>1, <2>1
  <2>4. CASE m \in kept
    <3>1. Upto(m) = Upto(m - 1) \cup {m}
      <4>1. m \in Upto(m)
        BY <2>4
      <4>2. \A j : j \in Upto(m) <=> j \in Upto(m - 1) \/ j = m
        BY <2>6, <4>1
      <4> HIDE DEF Upto
      <4> QED BY <4>2
    <3> HIDE DEF Upto
    <3> QED BY <3>1, <2>2, <2>3, <2>4, FS_AddElement
  <2>5. CASE m \notin kept
    <3>1. Upto(m) = Upto(m - 1)
      <4>1. \A j \in kept : j <= m <=> j <= m - 1
        BY <2>6, <2>5
      <4> QED BY <4>1
    <3> HIDE DEF Upto
    <3> QED BY <3>1, <2>5
  <2> QED BY <2>4, <2>5
<1> HIDE DEF Count
<1>8. PICK m \in T : \A x \in T : m <= x
  <2>1. n \in T
    BY <1>3, <1>6
  <2>2. T \subseteq Nat
    OBVIOUS
  <2> HIDE DEF T
  <2> QED BY <2>1, <2>2, LeastElement
<1>9. m \in 1..n /\ Count(m) >= k
  BY <1>3, <1>5, <1>8
<1>10. Count(m - 1) < k
  <2>1. m - 1 \in 0..n /\ m - 1 \in Nat
    BY <1>9
  <2>2. m - 1 \notin T
    <3> HIDE DEF T
    <3> QED BY <1>8, <1>9
  <2>3. Count(m - 1) \in Nat
    BY <2>1, <1>4
  <2> QED BY <2>1, <2>2, <2>3, <1>3
<1>11. Count(m) \in Nat /\ Count(m - 1) \in Nat
  <2>1. m \in Nat /\ m - 1 \in Nat
    BY <1>9
  <2> QED BY <2>1, <1>4
<1>12. m \in kept /\ Count(m) = k
  BY <1>3, <1>7, <1>9, <1>10, <1>11
<1> QED BY <1>12 DEF Count

\* Every element of Keep(s, S) is an element of s, at some place, and is in S.
LEMMA KeepElements ==
    ASSUME NEW A, NEW s \in Seq(A), NEW S
    PROVE  /\ Keep(s, S) \in Seq(A)
           /\ \A k \in DOMAIN Keep(s, S) : Keep(s, S)[k] \in ToSet(s) \cap S
<1> DEFINE kept == {i \in DOMAIN s : s[i] \in S}
           rank(i) == Cardinality({j \in kept : j <= i})
           at(k) == CHOOSE i \in kept : rank(i) = k
           N == Cardinality(kept)
<1>1. Keep(s, S) = [k \in 1..N |-> s[at(k)]]
  BY DEF Keep
<1>2. kept \in SUBSET (1..Len(s)) /\ Len(s) \in Nat
  OBVIOUS
<1>3. N \in Nat
  <2>1. IsFiniteSet(1..Len(s))
    BY FS_Interval
  <2> QED BY <1>2, <2>1, FS_Subset, FS_CardinalityType
<1>4. \A k \in 1..N : at(k) \in kept
  <2> TAKE k \in 1..N
  <2>1. \E i \in kept : rank(i) = k
    BY <1>2, EveryRankTaken
  <2> QED BY <2>1
<1>5. \A k \in 1..N : s[at(k)] \in A /\ s[at(k)] \in ToSet(s) \cap S
  <2>1. \A i \in kept : s[i] \in A /\ s[i] \in ToSet(s) \cap S
    BY DEF ToSet
  <2> HIDE DEF kept, at, N
  <2> QED BY <2>1, <1>4
<1> HIDE DEF kept, at, N
<1>6. [k \in 1..N |-> s[at(k)]] \in Seq(A)
  BY <1>3, <1>5
<1> QED BY <1>1, <1>5, <1>6

\* When all its elements are in the set, the whole sequence is kept.
LEMMA KeepAll ==
    ASSUME NEW A, NEW s \in Seq(A), NEW S, \A i \in DOMAIN s : s[i] \in S
    PROVE  Keep(s, S) = s
<1> DEFINE kept == {i \in DOMAIN s : s[i] \in S}
           rank(i) == Cardinality({j \in kept : j <= i})
<1>1. Len(s) \in Nat /\ kept = 1..Len(s) /\ DOMAIN s = 1..Len(s)
  OBVIOUS
<1>2. Cardinality(kept) = Len(s)
  <2>1. Cardinality(1..Len(s)) = Len(s)
    BY <1>1, FS_Interval
  <2> QED BY <1>1, <2>1
<1>3. \A i \in kept : rank(i) = i
  <2> TAKE i \in kept
  <2>1. i \in Nat /\ 1 <= i /\ i <= Len(s)
    BY <1>1
  <2>2. {j \in kept : j <= i} = 1..i
    BY <1>1, <2>1
  <2>3. Cardinality(1..i) = i
    BY <2>1, FS_Interval
  <2> QED BY <2>2, <2>3
<1>4. \A k \in 1..Len(s) : (CHOOSE i \in kept : rank(i) = k) = k
  <2> HIDE DEF rank
  <2> QED BY <1>1, <1>3
<1>5. Keep(s, S) = [k \in 1..Len(s) |-> s[CHOOSE i \in kept : rank(i) = k]]
  BY <1>2 DEF Keep
<1>6. Keep(s, S) = [k \in 1..Len(s) |-> s[k]]
  <2> HIDE DEF rank
  <2> QED BY <1>4, <1>5
<1> QED BY <1>1, <1>6

\* Ranks tell positions apart.
LEMMA RanksDiffer ==
    ASSUME NEW n \in Nat, NEW kept \in SUBSET (1..n), NEW i \in kept, NEW j \in kept, i < j
    PROVE  Cardinality({k \in kept : k <= i}) < Cardinality({k \in kept : k <= j})
<1> DEFINE Upto(m) == {k \in kept : k <= m}
<1>1. \A k \in kept : k \in Nat
  OBVIOUS
<1>2. IsFiniteSet(kept)
  <2>1. IsFiniteSet(1..n)
    BY FS_Interval
  <2> QED BY <2>1, FS_Subset
<1>3. IsFiniteSet(Upto(i)) /\ IsFiniteSet(Upto(j))
  <2>1. Upto(i) \in SUBSET kept /\ Upto(j) \in SUBSET kept
    OBVIOUS
  <2> QED BY <2>1, <1>2, FS_Subset
<1>4. j \notin Upto(i) /\ Upto(i) \cup {j} \subseteq Upto(j)
  <2>1. i \in Nat /\ j \in Nat /\ ~ (j <= i) /\ j <= j
    BY <1>1
  <2>2. \A k \in kept : k <= i => k <= j
    BY <1>1, <2>1
  <2>3. j \in Upto(j) /\ Upto(i) \subseteq Upto(j)
    BY <2>1, <2>2
  <2> QED BY <2>1, <2>3
<1> HIDE DEF Upto
<1>5. IsFiniteSet(Upto(i) \cup {j}) /\ Cardinality(Upto(i) \cup {j}) = Cardinality(Upto(i)) + 1
  BY <1>3, <1>4, FS_AddElement
<1>6. Cardinality(Upto(i) \cup {j}) <= Cardinality(Upto(j))
  BY <1>3, <1>4, <1>5, FS_Subset
<1>7. Cardinality(Upto(i)) \in Nat /\ Cardinality(Upto(j)) \in Nat
  BY <1>3, FS_CardinalityType
<1>8. Cardinality(Upto(i)) < Cardinality(Upto(j))
  BY <1>5, <1>6, <1>7
<1> QED BY <1>8 DEF Upto

\* Filtering keeps exactly the elements that are in the set, each place of the
\* sequence once and in order: what the filters and push loops of the code do.
THEOREM KeepIsFilter ==
    ASSUME NEW A, NEW s \in Seq(A), NEW S
    PROVE  \E place \in [DOMAIN Keep(s, S) -> DOMAIN s] :
              /\ \A k \in DOMAIN place : Keep(s, S)[k] = s[place[k]]
              /\ \A k, l \in DOMAIN place : k < l => place[k] < place[l]
              /\ {place[k] : k \in DOMAIN place} = {i \in DOMAIN s : s[i] \in S}
<1> DEFINE kept == {i \in DOMAIN s : s[i] \in S}
           rank(i) == Cardinality({j \in kept : j <= i})
           at(k) == CHOOSE i \in kept : rank(i) = k
           N == Cardinality(kept)
           place == [k \in 1..N |-> at(k)]
<1>1. Keep(s, S) = [k \in 1..N |-> s[at(k)]]
  BY DEF Keep
<1>2. kept \in SUBSET (1..Len(s)) /\ Len(s) \in Nat /\ \A i \in kept : i \in Nat
  OBVIOUS
<1>3. IsFiniteSet(kept) /\ N \in Nat
  <2>1. IsFiniteSet(1..Len(s))
    BY FS_Interval
  <2> QED BY <1>2, <2>1, FS_Subset, FS_CardinalityType
<1>4. \A k \in 1..N : at(k) \in kept /\ rank(at(k)) = k
  <2> TAKE k \in 1..N
  <2>1. \E i \in kept : rank(i) = k
    BY <1>2, EveryRankTaken
  <2> HIDE DEF rank
  <2> QED BY <2>1
<1>5. \A i, j \in kept : i < j => rank(i) < rank(j)
  BY <1>2, RanksDiffer
<1>6. \A j \in kept : rank(j) \in 1..N
  <2> TAKE j \in kept
  <2>1. {i \in kept : i <= j} \in SUBSET kept /\ j \in {i \in kept : i <= j}
    BY <1>2
  <2>2. IsFiniteSet({i \in kept : i <= j}) /\ rank(j) <= N
    BY <1>3, <2>1, FS_Subset
  <2>3. rank(j) \in Nat /\ rank(j) # 0
    BY <2>1, <2>2, FS_CardinalityType, FS_EmptySet
  <2> QED BY <1>3, <2>2, <2>3
<1> HIDE DEF rank
<1>7. \A j \in kept : at(rank(j)) = j
  <2> TAKE j \in kept
  <2>1. at(rank(j)) \in kept /\ rank(at(rank(j))) = rank(j)
    BY <1>4, <1>6
  <2>2. rank(j) \in Nat /\ at(rank(j)) \in Nat /\ j \in Nat
    BY <1>2, <1>3, <1>6, <2>1
  <2> HIDE DEF at, kept, N
  <2>3. ~ (at(rank(j)) < j) /\ ~ (j < at(rank(j)))
    BY <1>5, <2>1, <2>2
  <2> QED BY <2>2, <2>3
<1> HIDE DEF at
<1>8. \A k, l \in 1..N : k < l => at(k) < at(l)
  <2> SUFFICES ASSUME NEW k \in 1..N, NEW l \in 1..N, k < l, ~ (at(k) < at(l))
               PROVE  FALSE
    OBVIOUS
  <2>1. /\ at(k) \in kept /\ rank(at(k)) = k /\ at(k) \in Nat
        /\ at(l) \in kept /\ rank(at(l)) = l /\ at(l) \in Nat
    BY <1>2, <1>4
  <2>2. at(l) # at(k)
    BY <1>3, <2>1
  <2> HIDE DEF kept, N
  <2>3. at(l) < at(k)
    BY <2>1, <2>2
  <2>4. l < k
    BY <1>5, <2>1, <2>3
  <2> QED BY <1>3, <2>4
<1>9. {at(k) : k \in 1..N} = kept
  <2> HIDE DEF kept, N
  <2>1. \A j \in kept : \E k \in 1..N : j = at(k)
    BY <1>6, <1>7
  <2> QED BY <1>4, <2>1
<1>10. /\ DOMAIN Keep(s, S) = 1..N /\ DOMAIN place = 1..N
       /\ \A k \in 1..N : place[k] = at(k) /\ Keep(s, S)[k] = s[at(k)]
  <2> HIDE DEF N, kept
  <2> QED BY <1>1
<1>11. place \in [DOMAIN Keep(s, S) -> DOMAIN s]
  <2>1. \A k \in 1..N : at(k) \in DOMAIN s
    BY <1>4
  <2> HIDE DEF N, kept
  <2> QED BY <1>10, <2>1
<1>12. {place[k] : k \in DOMAIN place} = kept
  <2> HIDE DEF place, N, kept
  <2> QED BY <1>9, <1>10
<1>13. \A k, l \in DOMAIN place : k < l => place[k] < place[l]
  <2> HIDE DEF place, N, kept
  <2> QED BY <1>8, <1>10
<1>14. \A k \in DOMAIN place : Keep(s, S)[k] = s[place[k]]
  <2> HIDE DEF place, N, kept
  <2> QED BY <1>10
<1> HIDE DEF place
<1> QED BY <1>11, <1>12, <1>13, <1>14

\* No element of s that is in S is left out.
THEOREM KeepMissesNothing ==
    ASSUME NEW A, NEW s \in Seq(A), NEW S
    PROVE  ToSet(Keep(s, S)) = ToSet(s) \cap S
<1>1. PICK place \in [DOMAIN Keep(s, S) -> DOMAIN s] :
         /\ \A k \in DOMAIN place : Keep(s, S)[k] = s[place[k]]
         /\ \A k, l \in DOMAIN place : k < l => place[k] < place[l]
         /\ {place[k] : k \in DOMAIN place} = {i \in DOMAIN s : s[i] \in S}
  BY KeepIsFilter
<1>2. ASSUME NEW x \in ToSet(s) \cap S
      PROVE  x \in ToSet(Keep(s, S))
  <2>1. PICK i \in DOMAIN s : x = s[i] /\ s[i] \in S
    BY DEF ToSet
  <2>2. i \in {place[k] : k \in DOMAIN place}
    BY <1>1, <2>1
  <2>3. PICK k \in DOMAIN place : i = place[k]
    BY <2>2
  <2>4. k \in DOMAIN Keep(s, S) /\ Keep(s, S)[k] = x
    BY <1>1, <2>1, <2>3
  <2> QED BY <2>4 DEF ToSet
<1>3. ToSet(Keep(s, S)) \subseteq ToSet(s) \cap S
  <2>1. \A k \in DOMAIN Keep(s, S) : Keep(s, S)[k] \in ToSet(s) \cap S
    BY KeepElements
  <2> QED BY <2>1 DEF ToSet
<1> QED BY <1>2, <1>3

=============================================================================
