-------------------------- MODULE SubsequencesProofs --------------------------
(***************************************************************************)
(* What the subsequence at a set of indices and a sorted set contain, and  *)
(* in which order.                                                         *)
(***************************************************************************)
EXTENDS Subsequences, SequencesExt, FiniteSetTheorems, NaturalsInduction, TLAPS

(* Ranks are positive, at most the number of indices, and strictly         *)
(* increasing.                                                             *)
LEMMA RankOrder ==
    ASSUME NEW indices \in SUBSET Nat, IsFiniteSet(indices)
    PROVE  /\ \A i \in indices : Rank(indices, i) \in 1..Cardinality(indices)
           /\ \A i, j \in indices : i < j => Rank(indices, i) < Rank(indices, j)
<1> DEFINE upto(i) == {k \in indices : k <= i}
<1>1. \A i \in indices : upto(i) \in SUBSET indices /\ i \in upto(i)
  OBVIOUS
<1>2. \A i \in indices : /\ IsFiniteSet(upto(i))
                         /\ Cardinality(upto(i)) \in Nat
                         /\ Cardinality(upto(i)) <= Cardinality(indices)
                         /\ Cardinality(upto(i)) # 0
  <2> HIDE DEF upto
  <2> QED BY <1>1, FS_Subset, FS_CardinalityType, FS_EmptySet
<1>3. ASSUME NEW i \in indices, NEW j \in indices, i < j
      PROVE  Cardinality(upto(i)) < Cardinality(upto(j))
  <2>1. upto(i) \in SUBSET upto(j) /\ j \in upto(j) /\ j \notin upto(i)
    <3>1. i \in Nat /\ j \in Nat
      OBVIOUS
    <3>2. ASSUME NEW k \in indices, k <= i
          PROVE  k <= j
      <4>1. k \in Nat
        OBVIOUS
      <4> QED BY <1>3, <3>1, <3>2, <4>1
    <3>3. j <= j /\ ~(j <= i)
      BY <1>3, <3>1
    <3> QED BY <3>2, <3>3
  <2>2. /\ Cardinality(upto(i)) <= Cardinality(upto(j))
        /\ Cardinality(upto(j)) # Cardinality(upto(i))
    <3> HIDE DEF upto
    <3> QED BY <1>2, <2>1, FS_Subset
  <2> HIDE DEF upto
  <2> QED BY <1>2, <2>2
<1>4. \A i : Rank(indices, i) = Cardinality(upto(i))
  BY DEF Rank
<1>5. Cardinality(indices) \in Nat
  BY FS_CardinalityType
<1> HIDE DEF upto
<1>6. \A i \in indices : Rank(indices, i) \in 1..Cardinality(indices)
  BY <1>2, <1>4, <1>5
<1>7. \A i, j \in indices : i < j => Rank(indices, i) < Rank(indices, j)
  BY <1>3, <1>4
<1> QED BY <1>6, <1>7

(* Every rank up to the number of indices is taken by one index, and every *)
(* index is the one of its rank.                                           *)
LEMMA NthIndex ==
    ASSUME NEW indices \in SUBSET Nat, IsFiniteSet(indices)
    PROVE  /\ \A n \in 1..Cardinality(indices) : /\ Nth(indices, n) \in indices
                                                 /\ Rank(indices, Nth(indices, n)) = n
           /\ \A i \in indices : Nth(indices, Rank(indices, i)) = i
           /\ \A m, n \in 1..Cardinality(indices) : m < n => Nth(indices, m) < Nth(indices, n)
<1> DEFINE c == Cardinality(indices)
           rank == [i \in indices |-> Rank(indices, i)]
<1>1. /\ \A i \in indices : Rank(indices, i) \in 1..c
      /\ \A i, j \in indices : i < j => Rank(indices, i) < Rank(indices, j)
  BY RankOrder
<1>2. \A i, j \in indices : Rank(indices, i) = Rank(indices, j) => i = j
  <2> SUFFICES ASSUME NEW i \in indices, NEW j \in indices,
                      Rank(indices, i) = Rank(indices, j), i # j
               PROVE  FALSE
    OBVIOUS
  <2>1. i < j \/ j < i
    BY DEF Rank
  <2>2. Rank(indices, i) \in Int
    BY <1>1
  <2> QED BY <1>1, <2>1, <2>2
<1>3. c \in Nat
  BY FS_CardinalityType
<1>4. rank \in Injection(indices, 1..c)
  <2>1. rank \in [indices -> 1..c]
    BY <1>1
  <2>2. \A i, j \in indices : rank[i] = rank[j] => i = j
    BY <1>2
  <2> HIDE DEF rank
  <2> QED BY <2>1, <2>2 DEF Injection, IsInjective
<1>5. IsFiniteSet(1..c) /\ Cardinality(1..c) = c
  <2> HIDE DEF c
  <2> QED BY <1>3, FS_Interval
<1>6. rank \in Surjection(indices, 1..c)
  <2>1. Cardinality(indices) = Cardinality(1..c)
    BY <1>5
  <2> HIDE DEF rank, c
  <2> QED BY <1>4, <1>5, <2>1, FS_Injection
<1>7. \A n \in 1..c : \E i \in indices : Rank(indices, i) = n
  <2>1. \A n \in 1..c : \E i \in indices : rank[i] = n
    <3> HIDE DEF rank, c
    <3> QED BY <1>6 DEF Surjection
  <2> QED BY <2>1
<1>8. \A n \in 1..c : Nth(indices, n) \in indices /\ Rank(indices, Nth(indices, n)) = n
  BY <1>7 DEF Nth
<1>9. \A i \in indices : Nth(indices, Rank(indices, i)) = i
  BY <1>1, <1>2, <1>8
<1>10. ASSUME NEW m \in 1..c, NEW n \in 1..c, m < n
       PROVE  Nth(indices, m) < Nth(indices, n)
  <2>1. /\ Nth(indices, m) \in Nat /\ Nth(indices, n) \in Nat
        /\ Rank(indices, Nth(indices, m)) = m /\ Rank(indices, Nth(indices, n)) = n
    BY <1>8
  <2>2. ~(Nth(indices, n) < Nth(indices, m)) /\ Nth(indices, n) # Nth(indices, m)
    <3>1. m \in Int /\ n \in Int
      BY <1>3
    <3> HIDE DEF c
    <3> QED BY <1>1, <1>8, <1>10, <2>1, <3>1
  <2> QED BY <2>1, <2>2
<1> QED BY <1>8, <1>9, <1>10

(* A subsequence is a sequence of the elements at its indices, each of     *)
(* them once.                                                              *)
LEMMA SubsequenceAtIndices ==
    ASSUME NEW S, NEW s \in Seq(S), NEW indices \in SUBSET DOMAIN s
    PROVE  /\ IsFiniteSet(indices)
           /\ AtIndices(s, indices) \in Seq(S)
           /\ Len(AtIndices(s, indices)) = Cardinality(indices)
           /\ Cardinality(indices) <= Len(s)
           /\ \A n \in 1..Cardinality(indices) :
                  /\ Nth(indices, n) \in indices
                  /\ AtIndices(s, indices)[n] = s[Nth(indices, n)]
           /\ \A i \in indices :
                  /\ Rank(indices, i) \in 1..Cardinality(indices)
                  /\ AtIndices(s, indices)[Rank(indices, i)] = s[i]
<1>1. DOMAIN s = 1..Len(s) /\ Len(s) \in Nat
  OBVIOUS
<1>2. IsFiniteSet(1..Len(s)) /\ Cardinality(1..Len(s)) = Len(s)
  <2>1. 1 \in Int /\ Len(s) \in Int /\ (1 > Len(s) => Len(s) = 0)
    BY <1>1
  <2>2. /\ IsFiniteSet(1..Len(s))
        /\ Cardinality(1..Len(s)) = IF 1 > Len(s) THEN 0 ELSE Len(s) - 1 + 1
    BY <2>1, FS_Interval
  <2> QED BY <2>1, <2>2
<1>3. IsFiniteSet(indices) /\ indices \in SUBSET Nat /\ Cardinality(indices) <= Len(s)
  BY <1>1, <1>2, FS_Subset
<1>4. Cardinality(indices) \in Nat
  BY <1>3, FS_CardinalityType
<1>5. \A n \in 1..Cardinality(indices) : Nth(indices, n) \in indices /\ s[Nth(indices, n)] \in S
  BY <1>3, NthIndex
<1>6. AtIndices(s, indices) \in Seq(S) /\ Len(AtIndices(s, indices)) = Cardinality(indices)
  BY <1>4, <1>5 DEF AtIndices
<1>7. \A n \in 1..Cardinality(indices) :
          /\ Nth(indices, n) \in indices
          /\ AtIndices(s, indices)[n] = s[Nth(indices, n)]
  BY <1>5 DEF AtIndices
<1>8. \A i \in indices :
          /\ Rank(indices, i) \in 1..Cardinality(indices)
          /\ AtIndices(s, indices)[Rank(indices, i)] = s[i]
  BY <1>3, <1>7, RankOrder, NthIndex
<1> QED BY <1>3, <1>6, <1>7, <1>8

LEMMA Indices ==
    ASSUME NEW S, NEW s \in Seq(S), NEW indices \in SUBSET DOMAIN s
    PROVE  IsFiniteSet(indices) /\ indices \in SUBSET Nat
<1>1. indices \in SUBSET Nat
  OBVIOUS
<1> QED BY <1>1, SubsequenceAtIndices

(* The first n numbers are as many. *)
LEMMA FirstNumbers ==
    ASSUME NEW n \in Nat
    PROVE  IsFiniteSet(1..n) /\ Cardinality(1..n) = n
<1>1. 1 \in Int /\ n \in Int /\ (1 > n => n = 0)
  OBVIOUS
<1>2. IsFiniteSet(1..n) /\ Cardinality(1..n) = IF 1 > n THEN 0 ELSE n - 1 + 1
  BY <1>1, FS_Interval
<1> QED BY <1>1, <1>2

(* An increasing list of all the indices lists them by rank.               *)
LEMMA IncreasingList ==
    ASSUME NEW indices \in SUBSET Nat, NEW n \in Nat, NEW f \in [1..n -> indices],
           \A p, q \in 1..n : p < q => f[p] < f[q],
           \A i \in indices : \E p \in 1..n : f[p] = i
    PROVE  /\ IsFiniteSet(indices) /\ Cardinality(indices) = n
           /\ \A p \in 1..n : f[p] = Nth(indices, p)
<1>1. \A p \in 1..n : f[p] \in indices /\ f[p] \in Nat
  OBVIOUS
<1>2. \A p, q \in 1..n : f[p] = f[q] => p = q
  <2>1. \A p, q \in 1..n : p # q => p < q \/ q < p
    OBVIOUS
  <2> QED BY <1>1, <2>1
<1>3. /\ IsFiniteSet(1..n) /\ Cardinality(1..n) = n
  BY FirstNumbers
<1>4. IsFiniteSet(indices) /\ Cardinality(indices) = n
  <2>1. f \in Bijection(1..n, indices)
    BY <1>2 DEF Bijection, Injection, IsInjective, Surjection
  <2>2. ExistsBijection(1..n, indices)
    BY <2>1 DEF ExistsBijection
  <2> QED BY <1>3, <2>2, FS_Bijection
<1>5. ASSUME NEW p \in 1..n
      PROVE  Rank(indices, f[p]) = p
  <2> DEFINE upto == {k \in indices : k <= f[p]}
             g == [q \in 1..p |-> f[q]]
  <2>1. p \in Nat /\ \A q \in 1..p : q \in 1..n /\ (q = p \/ q < p)
    OBVIOUS
  <2>2. \A q \in 1..p : g[q] \in upto
    BY <1>1, <2>1
  <2>3. \A k \in upto : \E q \in 1..p : g[q] = k
    <3> TAKE k \in upto
    <3>1. PICK q \in 1..n : f[q] = k
      OBVIOUS
    <3>2. ~(p < q)
      BY <1>1, <3>1
    <3>3. q \in 1..p
      BY <3>2
    <3> QED BY <3>1, <3>3
  <2>4. \A q, r \in 1..p : g[q] = g[r] => q = r
    BY <1>2, <2>1
  <2>5. g \in [1..p -> upto]
    BY <2>2
  <2>6. ExistsBijection(1..p, upto)
    <3> HIDE DEF g, upto
    <3>1. g \in Bijection(1..p, upto)
      BY <2>3, <2>4, <2>5 DEF Bijection, Injection, IsInjective, Surjection
    <3> QED BY <3>1 DEF ExistsBijection
  <2>7. Cardinality(upto) = p
    <3> HIDE DEF upto
    <3> QED BY <2>1, <2>6, FirstNumbers, FS_Bijection
  <2> QED BY <2>7 DEF Rank
<1>6. \A i \in indices : Nth(indices, Rank(indices, i)) = i
  BY <1>4, NthIndex
<1> QED BY <1>1, <1>4, <1>5, <1>6

(* So much follows an index as its rank leaves. *)
LEMMA RankRest ==
    ASSUME NEW indices \in SUBSET Nat, IsFiniteSet(indices), NEW i \in indices
    PROVE  Cardinality({k \in indices : k > i}) = Cardinality(indices) - Rank(indices, i)
<1> DEFINE upto == {k \in indices : k <= i}
           above == {k \in indices : k > i}
<1>1. upto \cup above = indices /\ upto \cap above = {}
  <2>1. \A k \in indices : k \in Nat /\ i \in Nat
    OBVIOUS
  <2>2. \A k \in indices : (k <= i \/ k > i) /\ ~(k <= i /\ k > i)
    BY <2>1
  <2> QED BY <2>2
<1>2. IsFiniteSet(upto) /\ IsFiniteSet(above)
  BY FS_Subset
<1>3. Cardinality(upto) \in Nat /\ Cardinality(above) \in Nat
  BY <1>2, FS_CardinalityType
<1>4. Cardinality(indices) = Cardinality(upto) + Cardinality(above) - Cardinality({})
  <2> HIDE DEF upto, above
  <2> QED BY <1>1, <1>2, FS_Union
<1>5. Cardinality(above) = Cardinality(indices) - Cardinality(upto)
  <2> HIDE DEF upto, above
  <2> QED BY <1>3, <1>4, FS_EmptySet
<1> QED BY <1>5 DEF Rank

(* Appending an element that stands behind the others adds its index.      *)
LEMMA AppendedIndex ==
    ASSUME NEW S, NEW s \in Seq(S), NEW indices \in SUBSET DOMAIN s, NEW n \in DOMAIN s,
           \A i \in indices : i < n
    PROVE  Append(AtIndices(s, indices), s[n]) = AtIndices(s, indices \cup {n})
<1> DEFINE c == Cardinality(indices)
           more == indices \cup {n}
           f == [p \in 1..(c + 1) |-> IF p = c + 1 THEN n ELSE Nth(indices, p)]
<1>1. IsFiniteSet(indices) /\ indices \in SUBSET Nat /\ more \in SUBSET Nat /\ n \in Nat
  BY Indices
<1>2. c \in Nat
  BY <1>1, FS_CardinalityType
<1>3. /\ \A p \in 1..c : Nth(indices, p) \in indices
      /\ \A i \in indices : Nth(indices, Rank(indices, i)) = i
      /\ \A p, q \in 1..c : p < q => Nth(indices, p) < Nth(indices, q)
      /\ \A i \in indices : Rank(indices, i) \in 1..c
  BY <1>1, NthIndex, RankOrder
<1> HIDE DEF c
<1>4. \A p \in 1..(c + 1) : p = c + 1 \/ p \in 1..c
  BY <1>2
<1>5. f \in [1..(c + 1) -> more]
  BY <1>3, <1>4
<1>6. \A p, q \in 1..(c + 1) : p < q => f[p] < f[q]
  <2> SUFFICES ASSUME NEW p \in 1..(c + 1), NEW q \in 1..(c + 1), p < q
               PROVE  f[p] < f[q]
    OBVIOUS
  <2>1. p \in 1..c /\ p # c + 1
    BY <1>2
  <2>2. f[p] = Nth(indices, p) /\ f[p] \in indices
    BY <1>3, <2>1
  <2>3. CASE q = c + 1
    BY <2>2, <2>3
  <2>4. CASE q # c + 1
    BY <1>3, <1>4, <2>1, <2>4
  <2> QED BY <2>3, <2>4
<1>7. \A i \in more : \E p \in 1..(c + 1) : f[p] = i
  <2> SUFFICES ASSUME NEW i \in more
               PROVE  \E p \in 1..(c + 1) : f[p] = i
    OBVIOUS
  <2>1. CASE i = n
    <3>1. c + 1 \in 1..(c + 1) /\ f[c + 1] = i
      BY <1>2, <2>1
    <3> QED BY <3>1
  <2>2. CASE i # n
    <3> DEFINE r == Rank(indices, i)
    <3>1. r \in 1..c /\ Nth(indices, r) = i
      BY <1>3, <2>2
    <3> HIDE DEF r
    <3>2. r \in 1..(c + 1) /\ r # c + 1
      BY <1>2, <3>1
    <3>3. f[r] = i
      BY <3>1, <3>2
    <3> QED BY <3>2, <3>3
  <2> QED BY <2>1, <2>2
<1>8. c + 1 \in Nat
  BY <1>2
<1>9. Cardinality(more) = c + 1 /\ \A p \in 1..(c + 1) : f[p] = Nth(more, p)
  <2> HIDE DEF f, more
  <2> QED BY <1>1, <1>5, <1>6, <1>7, <1>8, IncreasingList
<1>10. /\ AtIndices(s, indices) \in Seq(S) /\ Len(AtIndices(s, indices)) = c
       /\ \A p \in 1..c : AtIndices(s, indices)[p] = s[Nth(indices, p)]
  BY SubsequenceAtIndices DEF c
<1>11. Append(AtIndices(s, indices), s[n]) = [p \in 1..(c + 1) |-> s[f[p]]]
  <2>1. Append(AtIndices(s, indices), s[n])
          = [p \in 1..(c + 1) |-> IF p = c + 1 THEN s[n] ELSE AtIndices(s, indices)[p]]
    <3> DEFINE w == AtIndices(s, indices)
    <3>1. w \in Seq(S) /\ Len(w) = c /\ s[n] \in S
      BY <1>10
    <3> HIDE DEF w
    <3> DEFINE longer == [p \in 1..(c + 1) |-> IF p = c + 1 THEN s[n] ELSE w[p]]
    <3>2. /\ Append(w, s[n]) \in [1..(c + 1) -> S]
          /\ \A p \in 1..(c + 1) : Append(w, s[n])[p] = longer[p]
      <4>1. Append(w, s[n]) \in Seq(S) /\ Len(Append(w, s[n])) = c + 1
        BY <3>1
      <4>2. \A p \in 1..c : Append(w, s[n])[p] = w[p] /\ p # c + 1
        BY <1>2, <3>1
      <4>3. Append(w, s[n])[c + 1] = s[n]
        BY <3>1
      <4>4. Append(w, s[n]) \in [1..(c + 1) -> S]
        <5>1. \A t \in Seq(S) : t \in [1..Len(t) -> S]
          OBVIOUS
        <5>2. Append(w, s[n]) \in [1..Len(Append(w, s[n])) -> S]
          BY ONLY <4>1, <5>1, Zenon
        <5> QED BY ONLY <4>1, <5>2, Zenon
      <4> QED BY <1>4, <4>2, <4>3, <4>4
    <3>3. Append(w, s[n]) = longer
      <4>1. DOMAIN longer = 1..(c + 1) /\ longer = [p \in 1..(c + 1) |-> longer[p]]
        OBVIOUS
      <4> HIDE DEF longer
      <4> QED BY <3>2, <4>1
    <3> QED BY <3>3 DEF w
  <2>2. \A p \in 1..(c + 1) :
            (IF p = c + 1 THEN s[n] ELSE AtIndices(s, indices)[p]) = s[f[p]]
    BY <1>4, <1>10
  <2> HIDE DEF f
  <2> QED BY <2>1, <2>2
<1>12. AtIndices(s, more) = [p \in 1..(c + 1) |-> s[f[p]]]
  <2> HIDE DEF f, more
  <2> QED BY <1>9 DEF AtIndices
<1> QED BY <1>11, <1>12

(* The end of a subsequence is the subsequence at the last indices.        *)
LEMMA LastIndices ==
    ASSUME NEW S, NEW s \in Seq(S), NEW indices \in SUBSET DOMAIN s,
           NEW m \in 1..(Cardinality(indices) + 1)
    PROVE  SubSeq(AtIndices(s, indices), m, Cardinality(indices))
             = AtIndices(s, {i \in indices : Rank(indices, i) >= m})
<1> DEFINE c == Cardinality(indices)
           rest == {i \in indices : Rank(indices, i) >= m}
           w == AtIndices(s, indices)
           f == [p \in 1..(c - m + 1) |-> Nth(indices, p + m - 1)]
<1>1. IsFiniteSet(indices) /\ indices \in SUBSET Nat
  BY Indices
<1>2. c \in Nat /\ m \in Nat /\ m > 0 /\ c - m + 1 \in Nat
  <2>1. c \in Nat
    BY <1>1, FS_CardinalityType
  <2> HIDE DEF c
  <2>2. m \in 1..(c + 1)
    BY DEF c
  <2> QED BY <2>1, <2>2
<1>3. /\ \A p \in 1..c : Nth(indices, p) \in indices /\ Rank(indices, Nth(indices, p)) = p
      /\ \A i \in indices : Nth(indices, Rank(indices, i)) = i
      /\ \A p, q \in 1..c : p < q => Nth(indices, p) < Nth(indices, q)
      /\ \A i \in indices : Rank(indices, i) \in 1..c
  BY <1>1, NthIndex, RankOrder
<1>4. w \in Seq(S) /\ Len(w) = c /\ \A p \in 1..c : w[p] = s[Nth(indices, p)]
  BY SubsequenceAtIndices
<1> HIDE DEF c, w
<1>5. \A p \in 1..(c - m + 1) : p + m - 1 \in 1..c /\ p + m - 1 >= m
  BY <1>2
<1>6. f \in [1..(c - m + 1) -> rest]
  BY <1>3, <1>5
<1>7. \A p, q \in 1..(c - m + 1) : p < q => f[p] < f[q]
  <2> SUFFICES ASSUME NEW p \in 1..(c - m + 1), NEW q \in 1..(c - m + 1), p < q
               PROVE  f[p] < f[q]
    OBVIOUS
  <2>1. p + m - 1 < q + m - 1
    BY <1>2
  <2> QED BY <1>3, <1>5, <2>1
<1>8. \A i \in rest : \E p \in 1..(c - m + 1) : f[p] = i
  <2> SUFFICES ASSUME NEW i \in rest
               PROVE  \E p \in 1..(c - m + 1) : f[p] = i
    OBVIOUS
  <2> DEFINE r == Rank(indices, i)
  <2>1. r \in 1..c /\ r >= m /\ Nth(indices, r) = i
    BY <1>3
  <2> HIDE DEF r
  <2>2. r - m + 1 \in 1..(c - m + 1) /\ (r - m + 1) + m - 1 = r
    BY <1>2, <2>1
  <2>3. f[r - m + 1] = i
    BY <2>1, <2>2
  <2> QED BY <2>2, <2>3
<1>9. Cardinality(rest) = c - m + 1 /\ \A p \in 1..(c - m + 1) : f[p] = Nth(rest, p)
  <2>1. rest \in SUBSET Nat
    BY <1>1
  <2> HIDE DEF f, rest
  <2> QED BY <1>2, <1>6, <1>7, <1>8, <2>1, IncreasingList
<1>10. SubSeq(w, m, c) = [p \in 1..(c - m + 1) |-> s[f[p]]]
  <2>1. SubSeq(w, m, c) = [p \in 1..(c - m + 1) |-> w[p + m - 1]]
    BY <1>2, <1>4
  <2>2. \A p \in 1..(c - m + 1) : w[p + m - 1] = s[f[p]]
    BY <1>4, <1>5
  <2> HIDE DEF f
  <2> QED BY <2>1, <2>2
<1>11. AtIndices(s, rest) = [p \in 1..(c - m + 1) |-> s[f[p]]]
  <2> HIDE DEF f, rest
  <2> QED BY <1>9 DEF AtIndices
<1> QED BY <1>10, <1>11 DEF c, w

(* What a subsequence shows, and of what. *)
LEMMA Selection ==
    ASSUME NEW S, NEW s \in Seq(S), NEW I \in SUBSET DOMAIN s
    PROVE  /\ AtIndices(s, I) \in Seq(S) /\ Len(AtIndices(s, I)) <= Len(s)
           /\ \A n \in DOMAIN AtIndices(s, I) : Nth(I, n) \in I /\ AtIndices(s, I)[n] = s[Nth(I, n)]
           /\ \A m, n \in DOMAIN AtIndices(s, I) : m < n => Nth(I, m) < Nth(I, n)
           /\ \A m, n \in DOMAIN AtIndices(s, I) : Nth(I, m) = Nth(I, n) => m = n
           /\ \A i \in I : Rank(I, i) \in DOMAIN AtIndices(s, I) /\ AtIndices(s, I)[Rank(I, i)] = s[i]
<1>1. IsFiniteSet(I) /\ I \in SUBSET Nat
  BY Indices
<1>2. /\ AtIndices(s, I) \in Seq(S) /\ Len(AtIndices(s, I)) = Cardinality(I)
      /\ Cardinality(I) <= Len(s)
      /\ \A n \in 1..Cardinality(I) : Nth(I, n) \in I /\ AtIndices(s, I)[n] = s[Nth(I, n)]
      /\ \A i \in I : Rank(I, i) \in 1..Cardinality(I) /\ AtIndices(s, I)[Rank(I, i)] = s[i]
  BY SubsequenceAtIndices
<1>3. DOMAIN AtIndices(s, I) = 1..Cardinality(I)
  BY DEF AtIndices
<1>4. /\ \A n \in 1..Cardinality(I) : Rank(I, Nth(I, n)) = n
      /\ \A m, n \in 1..Cardinality(I) : m < n => Nth(I, m) < Nth(I, n)
  BY <1>1, NthIndex
<1>5. \A m, n \in 1..Cardinality(I) : Nth(I, m) = Nth(I, n) => m = n
  BY <1>4
<1> QED BY <1>2, <1>3, <1>4, <1>5

(* Selecting from a selection selects the indices at those places.         *)
LEMMA SelectionOfSelection ==
    ASSUME NEW S, NEW s \in Seq(S), NEW G \in SUBSET DOMAIN s,
           NEW J \in SUBSET DOMAIN AtIndices(s, G)
    PROVE  AtIndices(AtIndices(s, G), J) = AtIndices(s, {Nth(G, p) : p \in J})
<1> DEFINE w == AtIndices(s, G)
           H == {Nth(G, p) : p \in J}
           n == Cardinality(J)
           f == [p \in 1..n |-> Nth(G, Nth(J, p))]
<1>1. /\ IsFiniteSet(G) /\ G \in SUBSET Nat /\ w \in Seq(S) /\ DOMAIN w = 1..Cardinality(G)
      /\ \A p \in DOMAIN w : Nth(G, p) \in G /\ w[p] = s[Nth(G, p)]
      /\ \A p, q \in DOMAIN w : p < q => Nth(G, p) < Nth(G, q)
      /\ J \in SUBSET DOMAIN w
  BY Indices, SubsequenceAtIndices, NthIndex DEF AtIndices
<1>2. IsFiniteSet(J) /\ J \in SUBSET Nat /\ n \in Nat
  BY <1>1, Indices, FS_CardinalityType
<1>3. /\ \A p \in 1..n : Nth(J, p) \in J
      /\ \A p, q \in 1..n : p < q => Nth(J, p) < Nth(J, q)
      /\ \A p \in J : Rank(J, p) \in 1..n /\ Nth(J, Rank(J, p)) = p
  BY <1>2, NthIndex, RankOrder
<1> HIDE DEF w, n
<1>4. H \in SUBSET Nat
  BY <1>1
<1>5. f \in [1..n -> H]
  BY <1>3
<1>6. \A p, q \in 1..n : p < q => f[p] < f[q]
  BY <1>1, <1>3
<1>7. \A i \in H : \E p \in 1..n : f[p] = i
  <2> TAKE i \in H
  <2>1. PICK p \in J : Nth(G, p) = i
    OBVIOUS
  <2>2. Rank(J, p) \in 1..n /\ f[Rank(J, p)] = i
    BY <1>3, <2>1
  <2> QED BY <2>2
<1> HIDE DEF H
<1>8. Cardinality(H) = n /\ \A p \in 1..n : f[p] = Nth(H, p)
  <2> HIDE DEF f
  <2> QED BY <1>2, <1>4, <1>5, <1>6, <1>7, IncreasingList
<1>9. \A p \in 1..n : w[Nth(J, p)] = s[Nth(H, p)]
  BY <1>1, <1>3, <1>8
<1>10. AtIndices(w, J) = [p \in 1..n |-> w[Nth(J, p)]]
  BY DEF AtIndices, n
<1>11. AtIndices(s, H) = [p \in 1..n |-> s[Nth(H, p)]]
  BY <1>8 DEF AtIndices
<1>12. AtIndices(w, J) = AtIndices(s, H)
  BY <1>9, <1>10, <1>11
<1> QED BY <1>12 DEF w, H

-----------------------------------------------------------------------------
(* Least and greatest elements, without induction over the set. *)

(* Every non-empty set of naturals has a least element. *)
LEMMA LeastNatural ==
    ASSUME NEW S \in SUBSET Nat, S # {}
    PROVE  \E m \in S : \A n \in S : m <= n
<1>1. PICK m \in S : \A n \in S : ~(<<n, m>> \in OpToRel(<, Nat))
  BY NatLessThanWellFounded, WFMin
<1>2. ASSUME NEW n \in S, n < m
      PROVE  FALSE
  <2>1. <<n, m>> \in Nat \X Nat /\ <<n, m>>[1] < <<n, m>>[2]
    BY <1>2
  <2>2. <<n, m>> \in OpToRel(<, Nat)
    BY <2>1, Zenon DEF OpToRel
  <2> QED BY <1>1, <2>2
<1> QED BY <1>2

LEMMA LeastOf ==
    ASSUME NEW S \in SUBSET Nat, S # {}
    PROVE  Min(S) \in S /\ \A x \in S : Min(S) <= x
<1>1. PICK x \in S : \A y \in S : x <= y
  BY LeastNatural
<1> QED BY <1>1 DEF Min

(* A finite non-empty set of integers has a greatest element: the one with *)
(* the fewest elements above it.                                           *)
LEMMA GreatestElement ==
    ASSUME NEW S, S \subseteq Int, S # {}, IsFiniteSet(S)
    PROVE  \E x \in S : \A y \in S : x >= y
<1> DEFINE Above(x) == {y \in S : y > x}
           Counts == {n \in Nat : \E x \in S : Cardinality(Above(x)) = n}
<1>1. \A x \in S : IsFiniteSet(Above(x)) /\ Cardinality(Above(x)) \in Nat
  BY FS_Subset, FS_CardinalityType
<1>2. Counts \in SUBSET Nat /\ Counts # {}
  BY <1>1
<1>3. PICK m \in Counts : \A n \in Counts : m <= n
  <2> HIDE DEF Counts
  <2> QED BY <1>2, LeastNatural
<1>4. PICK x \in S : Cardinality(Above(x)) = m
  BY <1>3
<1>5. ASSUME NEW y \in S, y > x
      PROVE  FALSE
  <2>1. Above(y) \in SUBSET (Above(x) \ {y})
    <3>1. ASSUME NEW z \in S, z > y
          PROVE  z > x /\ z # y
      <4>1. x \in Int /\ y \in Int /\ z \in Int
        OBVIOUS
      <4> QED BY <1>5, <3>1, <4>1
    <3> QED BY <3>1
  <2>2. /\ IsFiniteSet(Above(x) \ {y})
        /\ Cardinality(Above(x) \ {y}) = Cardinality(Above(x)) - 1
    <3>1. y \in Above(x)
      BY <1>5
    <3> HIDE DEF Above
    <3> QED BY <1>1, <3>1, FS_RemoveElement
  <2>3. Cardinality(Above(y)) <= Cardinality(Above(x)) - 1
    <3> HIDE DEF Above
    <3> QED BY <2>1, <2>2, FS_Subset
  <2>4. Cardinality(Above(y)) \in Counts /\ Cardinality(Above(x)) \in Counts
    BY <1>1
  <2> QED
    <3> HIDE DEF Above, Counts
    <3> QED BY <1>1, <1>3, <1>4, <2>3, <2>4
<1>6. \A y \in S : x >= y
  <2> HIDE DEF Above, Counts
  <2> QED BY <1>5
<1> HIDE DEF Above, Counts
<1> QED BY <1>6

-----------------------------------------------------------------------------
(* Sorting *)

(* Sorting a finite set lists its elements, each once, in the given order. *)
LEMMA SortedSet ==
    ASSUME NEW S, IsFiniteSet(S), NEW before,
           \A x \in S : <<x, x>> \notin before,
           \A x, y \in S : x # y => <<x, y>> \in before \/ <<y, x>> \in before,
           \A x, y, z \in S : <<x, y>> \in before /\ <<y, z>> \in before => <<x, z>> \in before
    PROVE  /\ InOrder(S, before) \in Seq(S)
           /\ Len(InOrder(S, before)) = Cardinality(S) /\ Cardinality(S) \in Nat
           /\ \A x \in S : \E n \in 1..Cardinality(S) : InOrder(S, before)[n] = x
           /\ \A m, n \in 1..Cardinality(S) :
                  m < n => <<InOrder(S, before)[m], InOrder(S, before)[n]>> \in before
<1> DEFINE c == Cardinality(S)
           under(x) == {y \in S : <<y, x>> \in before}
           rank == [x \in S |-> Cardinality(under(x)) + 1]
<1>1. c \in Nat
  BY FS_CardinalityType
<1>2. \A x \in S : /\ IsFiniteSet(under(x)) /\ Cardinality(under(x)) \in Nat
                   /\ Cardinality(under(x)) < c
  <2> SUFFICES ASSUME NEW x \in S
               PROVE  /\ IsFiniteSet(under(x)) /\ Cardinality(under(x)) \in Nat
                      /\ Cardinality(under(x)) < c
    OBVIOUS
  <2>1. under(x) \in SUBSET S /\ under(x) # S
    OBVIOUS
  <2> HIDE DEF under
  <2>2. IsFiniteSet(under(x)) /\ Cardinality(under(x)) <= c /\ Cardinality(under(x)) # c
    BY <2>1, FS_Subset
  <2>3. Cardinality(under(x)) \in Nat
    BY <2>2, FS_CardinalityType
  <2> HIDE DEF c
  <2> QED BY <1>1, <2>2, <2>3
<1>3. ASSUME NEW x \in S, NEW y \in S, <<x, y>> \in before
      PROVE  Cardinality(under(x)) < Cardinality(under(y))
  <2>1. under(x) \in SUBSET under(y) /\ x \in under(y) /\ x \notin under(x)
    BY <1>3
  <2> HIDE DEF under
  <2>2. /\ Cardinality(under(x)) <= Cardinality(under(y))
        /\ Cardinality(under(x)) # Cardinality(under(y))
    BY <1>2, <2>1, FS_Subset
  <2> QED BY <1>2, <2>2
<1>4. \A x \in S : rank[x] \in 1..c /\ rank[x] = Cardinality(under(x)) + 1
  <2> HIDE DEF under, c
  <2> QED BY <1>1, <1>2
<1>5. \A x, y \in S : <<x, y>> \in before => rank[x] < rank[y]
  <2> HIDE DEF under
  <2> QED BY <1>2, <1>3
<1>6. \A x, y \in S : rank[x] = rank[y] => x = y
  <2> SUFFICES ASSUME NEW x \in S, NEW y \in S, rank[x] = rank[y], x # y
               PROVE  FALSE
    OBVIOUS
  <2>1. rank[x] < rank[y] \/ rank[y] < rank[x]
    BY <1>5
  <2>2. rank[x] \in Int /\ rank[y] \in Int
    <3>1. 1..c \in SUBSET Int
      <4> HIDE DEF c
      <4> QED BY <1>1
    <3>2. rank[x] \in 1..c /\ rank[y] \in 1..c
      BY <1>4, Zenon
    <3> HIDE DEF rank, c
    <3> QED BY <3>1, <3>2
  <2> HIDE DEF rank
  <2> QED BY <2>1, <2>2
<1>7. rank \in Injection(S, 1..c)
  <2>1. rank \in [S -> 1..c]
    BY <1>4
  <2> HIDE DEF rank, c
  <2> QED BY <1>6, <2>1 DEF Injection, IsInjective
<1>8. IsFiniteSet(1..c) /\ Cardinality(1..c) = c
  <2> HIDE DEF c
  <2>1. 1 \in Int /\ c \in Int /\ (1 > c => c = 0)
    BY <1>1
  <2>2. /\ IsFiniteSet(1..c)
        /\ Cardinality(1..c) = IF 1 > c THEN 0 ELSE c - 1 + 1
    BY <2>1, FS_Interval
  <2> QED BY <2>1, <2>2
<1>9. \A n \in 1..c : \E x \in S : rank[x] = n
  <2>1. Cardinality(S) = Cardinality(1..c)
    BY <1>8
  <2> HIDE DEF rank, c
  <2>2. rank \in Surjection(S, 1..c)
    BY <1>7, <1>8, <2>1, FS_Injection
  <2> QED BY <2>2 DEF Surjection
<1> DEFINE sorted == InOrder(S, before)
           at(n) == CHOOSE x \in S : Cardinality(under(x)) = n - 1
<1>10. /\ \A n \in 1..c : sorted[n] = CHOOSE x \in S : Cardinality(under(x)) = n - 1
       /\ sorted = [n \in 1..c |-> sorted[n]]
  <2>1. sorted = [n \in 1..c |-> at(n)]
    BY Zenon DEF InOrder
  <2> HIDE DEF sorted, c, under
  <2>2. \A n \in 1..c : sorted[n] = at(n)
    <3> HIDE DEF at
    <3> QED BY <2>1
  <2>3. sorted = [n \in 1..c |-> sorted[n]]
    <3> HIDE DEF at
    <3> QED BY <2>1
  <2> QED BY <2>2, <2>3, Zenon
<1>11. \A n \in 1..c : sorted[n] \in S /\ rank[sorted[n]] = n
  <2> SUFFICES ASSUME NEW n \in 1..c
               PROVE  sorted[n] \in S /\ rank[sorted[n]] = n
    OBVIOUS
  <2>1. \E x \in S : Cardinality(under(x)) = n - 1
    <3>1. PICK x \in S : rank[x] = n
      BY <1>9
    <3> HIDE DEF under, rank, c
    <3> QED BY <1>1, <1>2, <1>4, <3>1
  <2>2. sorted[n] \in S /\ Cardinality(under(sorted[n])) = n - 1
    <3> HIDE DEF under, sorted, c
    <3> QED BY <1>10, <2>1
  <2>3. rank[sorted[n]] = Cardinality(under(sorted[n])) + 1
    <3> HIDE DEF under, sorted, c, rank
    <3> QED BY <1>4, <2>2
  <2> HIDE DEF under, sorted, c, rank
  <2> QED BY <1>1, <2>2, <2>3
<1> HIDE DEF sorted, rank, under, c
<1>12. sorted \in Seq(S) /\ Len(sorted) = c
  BY <1>1, <1>10, <1>11
<1>13. \A x \in S : \E n \in 1..c : sorted[n] = x
  <2> SUFFICES ASSUME NEW x \in S
               PROVE  \E n \in 1..c : sorted[n] = x
    OBVIOUS
  <2>1. rank[x] \in 1..c /\ sorted[rank[x]] \in S /\ rank[sorted[rank[x]]] = rank[x]
    BY <1>4, <1>11
  <2> QED BY <1>6, <2>1
<1>14. \A m, n \in 1..c : m < n => <<sorted[m], sorted[n]>> \in before
  <2> SUFFICES ASSUME NEW m \in 1..c, NEW n \in 1..c, m < n
               PROVE  <<sorted[m], sorted[n]>> \in before
    OBVIOUS
  <2>1. /\ sorted[m] \in S /\ sorted[n] \in S /\ rank[sorted[m]] = m /\ rank[sorted[n]] = n
        /\ m \in Int /\ n \in Int
    BY <1>1, <1>11
  <2>2. sorted[m] # sorted[n] /\ <<sorted[n], sorted[m]>> \notin before
    BY <1>5, <2>1
  <2> QED BY <2>1, <2>2
<1> QED BY <1>1, <1>12, <1>13, <1>14 DEF sorted, c

-----------------------------------------------------------------------------
(* Stepping through an interval: induction on a set, and the function that *)
(* repeats a step.                                                         *)

(* A set that has the first number of an interval, and with each number    *)
(* the next, has the interval.                                             *)
LEMMA IntervalInduction ==
    ASSUME NEW lo \in Nat, NEW hi \in Nat, NEW good, lo \in good,
           \A k \in lo..hi : k \in good /\ k + 1 \in lo..hi => k + 1 \in good
    PROVE  \A k \in lo..hi : k \in good
<1> DEFINE bad == {k \in lo..hi : k \notin good}
<1> SUFFICES ASSUME bad # {} PROVE FALSE
  OBVIOUS
<1>1. bad \in SUBSET Nat
  OBVIOUS
<1>2. PICK m \in bad : \A k \in bad : m <= k
  <2> HIDE DEF bad
  <2> QED BY <1>1, LeastNatural
<1>3. m \in lo..hi /\ m # lo /\ m \notin good
  BY <1>2
<1>4. m - 1 \in lo..hi /\ m = (m - 1) + 1 /\ ~(m <= m - 1)
  BY <1>3
<1>5. m - 1 \notin good
  BY <1>3, <1>4
<1>6. m - 1 \in bad
  BY <1>4, <1>5
<1> QED BY <1>2, <1>4, <1>6

(* A step for each number of an interval, and what repeating it gives.     *)
Steps(T, lo, hi) == [lo..hi -> [T -> T]]

Repeats(f, T, first, step, lo, hi) ==
    /\ f \in [lo..hi -> T]
    /\ \A k \in lo..hi : f[k] = IF k = lo THEN first ELSE step[k][f[k - 1]]

(* Repeating a step from a first value defines a function. *)
LEMMA Repetition ==
    ASSUME NEW T, NEW first \in T, NEW lo \in Nat, NEW hi \in Nat, lo <= hi,
           NEW step \in Steps(T, lo, hi)
    PROVE  \E f : Repeats(f, T, first, step, lo, hi)
<1> DEFINE good == {n \in lo..hi : \E f : Repeats(f, T, first, step, lo, n)}
<1>1. lo \in good
  <2>1. Repeats([k \in lo..lo |-> first], T, first, step, lo, lo)
    BY DEF Repeats
  <2> QED BY <2>1
<1>2. ASSUME NEW n \in lo..hi, n \in good, n + 1 \in lo..hi
      PROVE  n + 1 \in good
  <2>1. PICK f : Repeats(f, T, first, step, lo, n)
    BY <1>2
  <2>a. f \in [lo..n -> T] /\ \A k \in lo..n : f[k] = IF k = lo THEN first ELSE step[k][f[k - 1]]
    BY <2>1 DEF Repeats
  <2> DEFINE g == [k \in lo..(n + 1) |-> IF k = n + 1 THEN step[n + 1][f[n]] ELSE f[k]]
  <2>2. step[n + 1][f[n]] \in T
    <3>1. f[n] \in T
      BY <2>a
    <3>2. step[n + 1] \in [T -> T]
      BY <1>2 DEF Steps
    <3> QED BY <3>1, <3>2
  <2>3. g \in [lo..(n + 1) -> T]
    <3>1. \A k \in lo..(n + 1) : k # n + 1 => k \in lo..n
      OBVIOUS
    <3> QED BY <2>a, <2>2, <3>1
  <2>4. ASSUME NEW k \in lo..(n + 1)
        PROVE  g[k] = IF k = lo THEN first ELSE step[k][g[k - 1]]
    <3>1. CASE k = n + 1
      <4>1. k # lo /\ k - 1 = n /\ n \in lo..(n + 1) /\ n # n + 1
        BY <3>1
      <4>2. g[k - 1] = f[n] /\ g[k] = step[n + 1][f[n]]
        BY <3>1, <4>1
      <4> HIDE DEF g
      <4> QED BY <3>1, <4>1, <4>2
    <3>2. CASE k # n + 1
      <4>1. k \in lo..n /\ g[k] = f[k]
        BY <3>2
      <4>2. CASE k = lo
        <5> HIDE DEF g
        <5> QED BY <2>a, <4>1, <4>2
      <4>3. CASE k # lo
        <5>1. k - 1 \in lo..n /\ k - 1 \in lo..(n + 1) /\ k - 1 # n + 1
          BY <4>1, <4>3
        <5>2. g[k - 1] = f[k - 1]
          BY <5>1
        <5>3. f[k] = step[k][f[k - 1]]
          <6> HIDE DEF g
          <6> QED BY <2>a, <4>1, <4>3
        <5> HIDE DEF g
        <5> QED BY <4>1, <4>3, <5>2, <5>3
      <4> QED BY <4>2, <4>3
    <3> QED BY <3>1, <3>2
  <2>5. Repeats(g, T, first, step, lo, n + 1)
    <3> HIDE DEF g
    <3> QED BY <2>3, <2>4 DEF Repeats
  <2> HIDE DEF g
  <2> QED BY <1>2, <2>5
<1>3. hi \in good
  <2>1. \A k \in lo..hi : k \in good /\ k + 1 \in lo..hi => k + 1 \in good
    BY <1>2
  <2> HIDE DEF good
  <2>2. \A k \in lo..hi : k \in good
    BY <1>1, <2>1, IntervalInduction
  <2> QED BY <2>2
<1> QED BY <1>3
-----------------------------------------------------------------------------
(* Joining sequences *)

(* FlattenSeq joins the sequences one after the other. *)
LEMMA FlattenSeqSteps ==
    ASSUME NEW S, NEW seqs \in Seq(Seq(S)), Len(seqs) # 0
    PROVE  \E f \in [1..Len(seqs) -> Seq(S)] :
              /\ FlattenSeq(seqs) = f[Len(seqs)]
              /\ \A i \in 1..Len(seqs) : f[i] = IF i = 1 THEN seqs[i] ELSE f[i - 1] \o seqs[i]
<1> DEFINE n == Len(seqs)
           Flattens(g) == g = [i \in 1..n |-> IF i = 1 THEN seqs[i] ELSE g[i - 1] \o seqs[i]]
           flatten == CHOOSE g : Flattens(g)
           T == Seq(S)
           step == [i \in 1..n |-> [x \in T |-> x \o seqs[i]]]
<1>1. n \in Nat /\ DOMAIN seqs = 1..n /\ \A i \in 1..n : seqs[i] \in Seq(S)
  OBVIOUS
<1>2. FlattenSeq(seqs) = flatten[n]
  BY Zenon DEF FlattenSeq
<1>3. 1 \in Nat /\ 1 <= n /\ seqs[1] \in T /\ 1 \in 1..n
  BY <1>1
<1>4. step \in Steps(T, 1, n)
  <2>1. \A x \in T, i \in 1..n : x \o seqs[i] \in T
    <3> HIDE DEF n
    <3> QED BY <1>1
  <2> HIDE DEF T, n
  <2> QED BY <2>1 DEF Steps
<1>5. PICK f : Repeats(f, T, seqs[1], step, 1, n)
  <2> HIDE DEF T, step, n
  <2> QED BY <1>1, <1>3, <1>4, Repetition
<1>6. /\ f \in [1..n -> T]
      /\ \A i \in 1..n : f[i] = IF i = 1 THEN seqs[1] ELSE step[i][f[i - 1]]
  <2> HIDE DEF T, step, n
  <2> QED BY <1>5 DEF Repeats
<1>7. Flattens(f)
  <2>1. ASSUME NEW i \in 1..n, i # 1
        PROVE  step[i][f[i - 1]] = f[i - 1] \o seqs[i]
    <3>1. f[i - 1] \in T
      <4>1. i - 1 \in 1..n
        BY <1>1, <2>1
      <4> HIDE DEF T, n
      <4> QED BY <1>6, <4>1
    <3> HIDE DEF T, n
    <3> QED BY <3>1
  <2>2. \A i \in 1..n : f[i] = IF i = 1 THEN seqs[i] ELSE f[i - 1] \o seqs[i]
    <3> HIDE DEF step, n
    <3> QED BY <1>6, <2>1
  <2> HIDE DEF T, step, n
  <2> QED BY <1>6, <2>2
<1>8. Flattens(flatten)
  <2> HIDE DEF Flattens
  <2> QED BY <1>7
<1>9. \A i \in 1..n : flatten[i] = IF i = 1 THEN seqs[i] ELSE flatten[i - 1] \o seqs[i]
  <2> HIDE DEF flatten, n
  <2> QED BY <1>8
<1> DEFINE good == {i \in 1..n : flatten[i] \in T}
<1>10. \A i \in 1..n : i \in good
  <2>1. 1 \in good
    <3> HIDE DEF flatten, T, n
    <3> QED BY <1>3, <1>9
  <2>2. ASSUME NEW i \in 1..n, i \in good, i + 1 \in 1..n
        PROVE  i + 1 \in good
    <3>1. i + 1 # 1 /\ (i + 1) - 1 = i
      BY <1>1
    <3>2. flatten[i + 1] = flatten[i] \o seqs[i + 1]
      <4> HIDE DEF flatten, n
      <4> QED BY <1>9, <2>2, <3>1
    <3>3. flatten[i + 1] \in T
      <4>1. flatten[i] \in Seq(S) /\ seqs[i + 1] \in Seq(S)
        BY <1>1, <2>2
      <4> HIDE DEF flatten, n
      <4> QED BY <3>2, <4>1
    <3> HIDE DEF flatten, T, n
    <3> QED BY <2>2, <3>3
  <2> HIDE DEF good, n
  <2> QED BY <1>1, <1>3, <2>1, <2>2, IntervalInduction
<1>11. flatten \in [1..n -> T]
  <2>1. flatten = [i \in 1..n |-> flatten[i]]
    <3> HIDE DEF flatten, n
    <3> QED BY <1>8
  <2> HIDE DEF flatten, n, T
  <2> QED BY <1>10, <2>1
<1> HIDE DEF flatten, n, T
<1> QED BY <1>2, <1>9, <1>11 DEF n, T

LEMMA FlattenSeqType ==
    ASSUME NEW S, NEW seqs \in Seq(Seq(S))
    PROVE  FlattenSeq(seqs) \in Seq(S)
<1>1. CASE Len(seqs) = 0
  <2>1. seqs = <<>> /\ <<>> \in Seq(S)
    BY <1>1
  <2>2. FlattenSeq(seqs) = seqs
    BY <1>1, Zenon DEF FlattenSeq
  <2> QED BY <2>1, <2>2, Zenon
<1>2. CASE Len(seqs) # 0
  <2>1. Len(seqs) \in 1..Len(seqs)
    BY <1>2
  <2>2. PICK f \in [1..Len(seqs) -> Seq(S)] : FlattenSeq(seqs) = f[Len(seqs)]
    BY <1>2, FlattenSeqSteps
  <2> QED BY <2>1, <2>2
<1> QED BY <1>1, <1>2

(* Joining sequences of at most one element each selects the elements.     *)
LEMMA FlattenedSingles ==
    ASSUME NEW S, NEW seqs \in Seq(Seq(S)), NEW heads \in Seq(S), Len(heads) = Len(seqs),
           \A i \in DOMAIN seqs : seqs[i] = <<>> \/ seqs[i] = <<heads[i]>>
    PROVE  FlattenSeq(seqs) = AtIndices(heads, {i \in DOMAIN seqs : seqs[i] # <<>>})
<1> DEFINE n == Len(seqs)
           upto(k) == {i \in 1..k : seqs[i] # <<>>}
<1>1. n \in Nat /\ DOMAIN seqs = 1..n /\ DOMAIN heads = 1..n
  OBVIOUS
<1>2. AtIndices(heads, {}) = <<>>
  <2>1. AtIndices(heads, {}) \in Seq(S) /\ Len(AtIndices(heads, {})) = 0
    BY SubsequenceAtIndices, FS_EmptySet
  <2> QED BY <2>1
<1>3. CASE n = 0
  <2>1. seqs = <<>> /\ {i \in DOMAIN seqs : seqs[i] # <<>>} = {}
    BY <1>1, <1>3
  <2>2. FlattenSeq(seqs) = seqs
    BY <1>3, Zenon DEF FlattenSeq
  <2> QED BY <1>2, <2>1, <2>2, Zenon
<1>4. CASE n # 0
  <2>1. PICK f \in [1..n -> Seq(S)] :
               /\ FlattenSeq(seqs) = f[n]
               /\ \A i \in 1..n : f[i] = IF i = 1 THEN seqs[i] ELSE f[i - 1] \o seqs[i]
    BY <1>4, FlattenSeqSteps
  <2> HIDE DEF n
  <2> DEFINE good == {k \in 1..n : f[k] = AtIndices(heads, upto(k))}
  <2>2. ASSUME NEW k \in 1..n, NEW before \in Seq(S), before = AtIndices(heads, upto(k - 1))
        PROVE  before \o seqs[k] = AtIndices(heads, upto(k))
    <3>1. upto(k - 1) \in SUBSET DOMAIN heads /\ \A i \in upto(k - 1) : i < k
      BY <1>1
    <3>2. CASE seqs[k] = <<>>
      <4>1. upto(k) = upto(k - 1)
        BY <3>2
      <4>2. before \o <<>> = before
        OBVIOUS
      <4> HIDE DEF upto
      <4> QED BY <2>2, <3>2, <4>1, <4>2
    <3>3. CASE seqs[k] = <<heads[k]>>
      <4>1. upto(k) = upto(k - 1) \cup {k}
        <5>1. seqs[k] # <<>>
          BY <3>3
        <5>2. 1..k = (1..(k - 1)) \cup {k}
          BY <1>1
        <5> QED BY <5>1, <5>2
      <4>2. before \o <<heads[k]>> = Append(before, heads[k])
        BY <1>1
      <4>3. Append(AtIndices(heads, upto(k - 1)), heads[k]) = AtIndices(heads, upto(k - 1) \cup {k})
        <5> HIDE DEF upto
        <5> QED BY <1>1, <3>1, AppendedIndex
      <4> HIDE DEF upto
      <4> QED BY <2>2, <3>3, <4>1, <4>2, <4>3
    <3> QED BY <1>1, <3>2, <3>3
  <2>3. \A k \in 1..n : k \in good
    <3>1. 1 \in good
      <4>1. 1 \in 1..n
        BY <1>1, <1>4
      <4>2. upto(1 - 1) = {} /\ <<>> \in Seq(S)
        OBVIOUS
      <4>3. <<>> \o seqs[1] = AtIndices(heads, upto(1))
        <5> HIDE DEF upto
        <5> QED BY <1>2, <2>2, <4>1, <4>2
      <4>4. <<>> \o seqs[1] = seqs[1]
        BY <1>1, <4>1
      <4> QED BY <2>1, <4>1, <4>3, <4>4
    <3>2. ASSUME NEW k \in 1..n, k \in good, k + 1 \in 1..n
          PROVE  k + 1 \in good
      <4>1. k + 1 # 1 /\ (k + 1) - 1 = k
        BY <1>1
      <4>2. f[k + 1] = f[k] \o seqs[k + 1] /\ f[k] \in Seq(S)
        BY <2>1, <3>2, <4>1
      <4>3. f[k] = AtIndices(heads, upto((k + 1) - 1))
        BY <3>2, <4>1
      <4>4. f[k] \o seqs[k + 1] = AtIndices(heads, upto(k + 1))
        <5> HIDE DEF upto
        <5> QED BY <2>2, <3>2, <4>2, <4>3
      <4> HIDE DEF upto
      <4> QED BY <3>2, <4>2, <4>4
    <3>3. 1 \in Nat
      OBVIOUS
    <3>4. 1 \in 1..n
      BY <1>1, <1>4
    <3> HIDE DEF good
    <3> QED BY <1>1, <3>1, <3>2, <3>3, IntervalInduction
  <2>4. n \in good
    <3>1. n \in 1..n
      BY <1>1, <1>4
    <3> HIDE DEF good
    <3> QED BY <2>3, <3>1
  <2>5. upto(n) = {i \in DOMAIN seqs : seqs[i] # <<>>}
    BY <1>1
  <2> QED BY <2>1, <2>4, <2>5
<1> QED BY <1>3, <1>4
=============================================================================
