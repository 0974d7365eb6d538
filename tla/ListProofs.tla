------------------------------- MODULE ListProofs -------------------------------
(***************************************************************************)
(* Facts about positions and lists that the proofs of several components   *)
(* need: the least of a set, what is left of a list when the node at one   *)
(* position is deleted, and when those at many are (Sublists).             *)
(***************************************************************************)
EXTENDS Sublists, Sequences, SequencesExt, SequenceTheorems, FiniteSetTheorems, WellFoundedInduction, TLAPS

\* The least of a non-empty set of naturals.
LEMMA LeastIn ==
  ASSUME NEW S, S \subseteq Nat, S # {}
  PROVE  \E i \in S : \A j \in S : i <= j
<1> DEFINE Less == OpToRel(<, Nat)
<1>1. Less = {p \in Nat \X Nat : p[1] < p[2]}
  BY DEF OpToRel
<1>2. IsWellFoundedOn(Less, Nat)
  BY NatLessThanWellFounded
<1> HIDE DEF Less
<1>3. PICK i \in S : \A j \in S : ~(<<j, i>> \in Less)
  BY <1>2, WFMin, Zenon
<1>4. ASSUME NEW j \in S PROVE i <= j
  <2>1. i \in Nat /\ j \in Nat
    OBVIOUS
  <2>2. ~(j < i)
    <3>1. SUFFICES ASSUME j < i PROVE <<j, i>> \in Less
      BY <1>3
    <3>2. <<j, i>> \in Nat \X Nat
      BY <2>1
    <3> QED
      BY <1>1, <3>1, <3>2, Zenon
  <2> QED
    BY <2>1, <2>2
<1> QED
  BY <1>4

\* What is left of a sequence when its i-th element is removed.
LEMMA RemoveAtProperties ==
  ASSUME NEW S, NEW q \in Seq(S), NEW i \in DOMAIN q
  PROVE  /\ RemoveAt(q, i) \in Seq(S)
         /\ Len(RemoveAt(q, i)) = Len(q) - 1
         /\ \A j \in 1 .. Len(q) - 1 :
              RemoveAt(q, i)[j] = IF j < i THEN q[j] ELSE q[j + 1]
<1>1. /\ SubSeq(q, 1, i - 1) \in Seq(S)
      /\ Len(SubSeq(q, 1, i - 1)) = i - 1
      /\ \A j \in 1 .. i - 1 : SubSeq(q, 1, i - 1)[j] = q[j]
  OBVIOUS
<1>2. /\ SubSeq(q, i + 1, Len(q)) \in Seq(S)
      /\ Len(SubSeq(q, i + 1, Len(q))) = Len(q) - i
      /\ \A j \in 1 .. Len(q) - i : SubSeq(q, i + 1, Len(q))[j] = q[i + j]
  OBVIOUS
<1> DEFINE front == SubSeq(q, 1, i - 1)
           back == SubSeq(q, i + 1, Len(q))
<1>3. RemoveAt(q, i) = front \o back
  BY DEF RemoveAt
<1> HIDE DEF front, back
<1>4. i \in 1 .. Len(q) /\ Len(q) \in Nat
  OBVIOUS
<1>5. front \in Seq(S) /\ back \in Seq(S)
  BY <1>1, <1>2 DEF front, back
<1>6. Len(front) = i - 1 /\ Len(back) = Len(q) - i
  BY <1>1, <1>2 DEF front, back
<1>7. /\ front \o back \in Seq(S)
      /\ Len(front \o back) = Len(front) + Len(back)
      /\ \A j \in 1 .. Len(front) + Len(back) :
           (front \o back)[j] = IF j <= Len(front) THEN front[j] ELSE back[j - Len(front)]
  BY <1>5, ConcatProperties
<1>8. Len(front \o back) = Len(q) - 1
  BY <1>4, <1>6, <1>7
<1>9. ASSUME NEW j \in 1 .. Len(q) - 1
      PROVE  (front \o back)[j] = IF j < i THEN q[j] ELSE q[j + 1]
  <2>1. CASE j < i
    <3>1. j \in 1 .. i - 1
      BY <1>4, <2>1
    <3>2. front[j] = q[j]
      BY <1>1, <3>1 DEF front
    <3>3. j \in 1 .. Len(front) + Len(back) /\ j <= Len(front)
      BY <1>4, <1>6, <3>1
    <3>4. (front \o back)[j] = front[j]
      BY <1>7, <3>3
    <3> QED
      BY <2>1, <3>2, <3>4
  <2>2. CASE ~(j < i)
    <3>1. j - (i - 1) \in 1 .. Len(q) - i
      BY <1>4, <2>2
    <3>2. back[j - (i - 1)] = q[i + (j - (i - 1))]
      BY <1>2, <3>1 DEF back
    <3>3. i + (j - (i - 1)) = j + 1
      BY <1>4
    <3>4. j \in 1 .. Len(front) + Len(back) /\ ~(j <= Len(front))
      BY <1>4, <1>6, <2>2
    <3>5. (front \o back)[j] = back[j - Len(front)]
      BY <1>7, <3>4
    <3> QED
      BY <1>6, <2>2, <3>2, <3>3, <3>5
  <2> QED
    BY <2>1, <2>2
<1> QED
  BY <1>3, <1>7, <1>8, <1>9

\* The n-th smallest of a finite set of positions: each n up to its size has one, each
\* position is one, and they come in order.
LEMMA PlacesInOrder ==
  ASSUME NEW m \in Nat, NEW K \in SUBSET (1 .. m)
  PROVE  /\ Cardinality(K) \in Nat
         /\ \A n \in 1 .. Cardinality(K) : Place(K, n) \in K
         /\ \A i \in K : \E n \in 1 .. Cardinality(K) : Place(K, n) = i
         /\ \A n, o \in 1 .. Cardinality(K) : n < o => Place(K, n) < Place(K, o)
<1> DEFINE Upto(i) == {j \in K : j <= i}
           rank    == [i \in K |-> Cardinality(Upto(i))]
<1>1. IsFiniteSet(K) /\ Cardinality(K) \in Nat
  <2>1. IsFiniteSet(1 .. m)
    BY FS_Interval
  <2>2. IsFiniteSet(K)
    BY <2>1, FS_Subset
  <2> QED
    BY <2>2, FS_CardinalityType
<1>2. \A i \in K : i \in Nat /\ Upto(i) \in SUBSET K /\ i \in Upto(i)
  OBVIOUS
<1>3. ASSUME NEW i \in K, NEW j \in K, i < j PROVE rank[i] < rank[j]
  <2>1. Upto(i) \in SUBSET Upto(j) /\ j \in Upto(j) /\ j \notin Upto(i)
    <3>1. \A k \in K : k <= i => k <= j
      BY <1>2, <1>3
    <3>2. ~(j <= i)
      BY <1>2, <1>3
    <3> QED
      BY <1>2, <3>1, <3>2
  <2>2. IsFiniteSet(Upto(i)) /\ IsFiniteSet(Upto(j))
    BY <1>1, <1>2, FS_Subset
  <2>3. Cardinality(Upto(i)) \in Nat /\ Cardinality(Upto(j)) \in Nat
    BY <2>2, FS_CardinalityType
  <2> HIDE DEF Upto
  <2>4. /\ Cardinality(Upto(i)) <= Cardinality(Upto(j))
        /\ Cardinality(Upto(i)) # Cardinality(Upto(j))
    BY <2>1, <2>2, FS_Subset
  <2> QED
    BY <2>3, <2>4
<1>4. rank \in [K -> 1 .. Cardinality(K)]
  <2>1. ASSUME NEW i \in K PROVE Cardinality(Upto(i)) \in 1 .. Cardinality(K)
    <3>1. IsFiniteSet(Upto(i)) /\ Cardinality(Upto(i)) <= Cardinality(K) /\ Upto(i) # {}
      BY <1>1, <1>2, FS_Subset
    <3>2. Cardinality(Upto(i)) \in Nat /\ Cardinality(Upto(i)) # 0
      BY <3>1, FS_CardinalityType, FS_EmptySet
    <3> HIDE DEF Upto
    <3> QED
      BY <1>1, <3>1, <3>2
  <2> QED
    BY <2>1
<1>5. rank \in Surjection(K, 1 .. Cardinality(K))
  <2>1. \A i, j \in K : rank[i] = rank[j] => i = j
    <3>1. \A i, j \in K : i # j => (i < j \/ j < i) /\ rank[i] \in Nat /\ rank[j] \in Nat
      BY <1>4
    <3> HIDE DEF rank
    <3> QED
      BY <1>3, <3>1
  <2> HIDE DEF rank
  <2>2. rank \in Injection(K, 1 .. Cardinality(K))
    BY <1>4, <2>1 DEF Injection, IsInjective
  <2>3. IsFiniteSet(1 .. Cardinality(K)) /\ Cardinality(1 .. Cardinality(K)) = Cardinality(K)
    BY <1>1, FS_Interval
  <2> QED
    BY <2>2, <2>3, FS_Injection
<1>6. \A n \in 1 .. Cardinality(K) : \E i \in K : rank[i] = n
  BY <1>5 DEF Surjection
<1>7. \A n \in 1 .. Cardinality(K) : Place(K, n) \in K /\ rank[Place(K, n)] = n
  BY <1>6 DEF Place
<1>8. ASSUME NEW i \in K PROVE Place(K, rank[i]) = i
  <2>1. rank[i] \in 1 .. Cardinality(K)
    BY <1>4
  <2>2. Place(K, rank[i]) \in K /\ rank[Place(K, rank[i])] = rank[i]
    BY <1>7, <2>1
  <2> HIDE DEF rank
  <2>3. PICK p \in K : p = Place(K, rank[i])
    BY <2>2
  <2>4. rank[i] \in Nat /\ p \in Nat /\ i \in Nat
    BY <1>1, <1>2, <2>1
  <2>5. rank[p] = rank[i]
    BY <2>2, <2>3
  <2>6. ~(p < i) /\ ~(i < p)
    BY <1>3, <2>4, <2>5
  <2> QED
    BY <2>3, <2>4, <2>6
<1> HIDE DEF rank
<1>9. ASSUME NEW n \in 1 .. Cardinality(K), NEW o \in 1 .. Cardinality(K), n < o
      PROVE  Place(K, n) < Place(K, o)
  <2>1. /\ Place(K, n) \in K /\ rank[Place(K, n)] = n
        /\ Place(K, o) \in K /\ rank[Place(K, o)] = o
    BY <1>7
  <2>2. n \in Nat /\ o \in Nat /\ Place(K, n) \in Nat /\ Place(K, o) \in Nat
    <3>1. n \in Nat /\ o \in Nat
      BY <1>1
    <3>2. \A i \in K : i \in Nat
      BY <1>2
    <3> QED
      BY <2>1, <3>1, <3>2, Zenon
  <2>3. ~(Place(K, o) < Place(K, n)) /\ Place(K, o) # Place(K, n)
    BY <1>3, <1>9, <2>1, <2>2
  <2> QED
    BY <2>2, <2>3
<1> QED
  BY <1>1, <1>4, <1>7, <1>8, <1>9

\* Deleting nodes leaves a list of the elements at the other positions.
LEMMA SublistElements ==
  ASSUME NEW S, NEW s \in Seq(S), NEW K \in SUBSET DOMAIN s
  PROVE  /\ Sublist(s, K) \in Seq(S)
         /\ \A x : x \in ToSet(Sublist(s, K)) <=> \E k \in K : x = s[k]
         /\ \A n \in DOMAIN Sublist(s, K) : Place(K, n) \in K /\ Sublist(s, K)[n] = s[Place(K, n)]
         /\ \A n, o \in DOMAIN Sublist(s, K) : n < o => Place(K, n) < Place(K, o)
<1>1. Len(s) \in Nat /\ K \in SUBSET (1 .. Len(s)) /\ \A k \in K : s[k] \in S
  OBVIOUS
<1>2. /\ Cardinality(K) \in Nat
      /\ \A n \in 1 .. Cardinality(K) : Place(K, n) \in K
      /\ \A i \in K : \E n \in 1 .. Cardinality(K) : Place(K, n) = i
      /\ \A n, o \in 1 .. Cardinality(K) : n < o => Place(K, n) < Place(K, o)
  BY <1>1, PlacesInOrder
<1>3. DOMAIN Sublist(s, K) = 1 .. Cardinality(K)
  BY DEF Sublist
<1>4. \A n \in 1 .. Cardinality(K) : Sublist(s, K)[n] = s[Place(K, n)]
  BY DEF Sublist
<1>5. Sublist(s, K) \in [1 .. Cardinality(K) -> S]
  BY <1>1, <1>2 DEF Sublist
<1>6. Sublist(s, K) \in Seq(S)
  BY <1>2, <1>5
<1>7. ASSUME NEW x PROVE x \in ToSet(Sublist(s, K)) <=> \E k \in K : x = s[k]
  <2>1. x \in ToSet(Sublist(s, K)) <=> \E n \in 1 .. Cardinality(K) : x = s[Place(K, n)]
    BY <1>3, <1>4 DEF ToSet
  <2> QED
    BY <1>2, <2>1
<1> QED
  BY <1>2, <1>3, <1>4, <1>6, <1>7
=============================================================================
