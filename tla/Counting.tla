------------------------------ MODULE Counting ------------------------------
(***************************************************************************)
(* Facts about numbers and finite orders that the proofs about several     *)
(* components need: a set of naturals has a least one, what holds of 0 and *)
(* of a successor holds of all naturals (with the set of those it holds of *)
(* as the parameter), and an element of a finite set under a strict order  *)
(* can be found by the number of those ahead of it.                        *)
(***************************************************************************)
EXTENDS FiniteSetTheorems, TLAPS

\* A set of naturals that is not empty has a least member.
LEMMA LeastNatural ==
    ASSUME NEW T \in SUBSET Nat, T # {}
    PROVE  \E n \in T : \A m \in T : n <= m
<1> DEFINE Below == {0 .. n : n \in T}
<1>1. Below \subseteq FiniteSubsetsOf(Nat) /\ Below # {}
  <2>1. \A n \in T : IsFiniteSet(0 .. n) /\ 0 .. n \in SUBSET Nat
    BY FS_Interval
  <2> QED
    BY <2>1 DEF FiniteSubsetsOf
<1>2. \E x \in Below : \A y \in Below : ~ (<<y, x>> \in StrictSubsetOrdering(Nat))
  <2> HIDE DEF Below
  <2> QED
    BY <1>1, FS_StrictSubsetOrderingWellFounded, WFMin
<1>3. PICK n \in T : \A y \in Below : ~ (<<y, 0 .. n>> \in StrictSubsetOrdering(Nat))
  BY <1>2
<1>4. ASSUME NEW m \in T, m < n PROVE FALSE
  <2>1. 0 .. m \in SUBSET Nat /\ 0 .. n \in SUBSET Nat /\ 0 .. m \subseteq 0 .. n
    BY <1>4
  <2>2. n \in 0 .. n /\ n \notin 0 .. m
    BY <1>4
  <2> QED
    BY <1>3, <2>1, <2>2 DEF StrictSubsetOrdering
<1> QED
  BY <1>3, <1>4

\* Induction over the naturals, for the members of a set.
LEMMA NaturalInduction ==
    ASSUME NEW T, 0 \in T, \A n \in Nat : n \in T => n + 1 \in T
    PROVE  Nat \subseteq T
<1>1. SUFFICES ASSUME Nat \ T # {} PROVE FALSE
  OBVIOUS
<1>2. PICK n \in Nat \ T : \A m \in Nat \ T : n <= m
  BY <1>1, LeastNatural
<1>3. n - 1 \in Nat /\ n - 1 \notin T
  BY <1>2
<1> QED
  BY <1>2, <1>3

\* before is a strict total order of S.
Orders(before, S) ==
    /\ \A a \in S : <<a, a>> \notin before
    /\ \A a, b, c \in S : <<a, b>> \in before /\ <<b, c>> \in before => <<a, c>> \in before
    /\ \A a, b \in S : a = b \/ <<a, b>> \in before \/ <<b, a>> \in before

Ahead(before, S, a) == {b \in S : <<b, a>> \in before}

\* The elements of S are told apart, in their order, by the number of those ahead,
\* and every number below the size of S is taken.
Numbered(before, S) ==
    /\ Cardinality(S) \in Nat
    /\ \A a \in S : /\ IsFiniteSet(Ahead(before, S, a))
                   /\ Cardinality(Ahead(before, S, a)) \in 0 .. Cardinality(S) - 1
    /\ \A a, b \in S : <<a, b>> \in before =>
          Cardinality(Ahead(before, S, a)) < Cardinality(Ahead(before, S, b))
    /\ \A n \in 0 .. Cardinality(S) - 1 :
          \E a \in S : Cardinality(Ahead(before, S, a)) = n

\* In a finite set, a strict total order numbers the elements from 0, by those ahead.
LEMMA Ranks ==
    ASSUME NEW S, IsFiniteSet(S), NEW before, Orders(before, S)
    PROVE  Numbered(before, S)
<1> DEFINE rank == [a \in S |-> Cardinality(Ahead(before, S, a))]
           all == 0 .. Cardinality(S) - 1
<1>1. Cardinality(S) \in Nat
  BY FS_CardinalityType
<1>2. ASSUME NEW a \in S
      PROVE  IsFiniteSet(Ahead(before, S, a)) /\ Cardinality(Ahead(before, S, a)) \in all
  <2>1. Ahead(before, S, a) \in SUBSET (S \ {a})
    BY DEF Ahead, Orders
  <2>2. IsFiniteSet(S \ {a}) /\ Cardinality(S \ {a}) = Cardinality(S) - 1
    BY FS_RemoveElement
  <2> QED
    BY <1>1, <2>1, <2>2, FS_Subset, FS_CardinalityType
<1>3. ASSUME NEW a \in S, NEW b \in S, <<a, b>> \in before
      PROVE  Cardinality(Ahead(before, S, a)) < Cardinality(Ahead(before, S, b))
  <2>1. /\ Ahead(before, S, a) \in SUBSET Ahead(before, S, b)
        /\ a \in Ahead(before, S, b) /\ a \notin Ahead(before, S, a)
    BY <1>3 DEF Ahead, Orders
  <2>2. /\ IsFiniteSet(Ahead(before, S, b))
        /\ Cardinality(Ahead(before, S, a)) \in Nat
        /\ Cardinality(Ahead(before, S, b)) \in Nat
    BY <1>2
  <2>3. Cardinality(Ahead(before, S, a)) <= Cardinality(Ahead(before, S, b))
    BY <2>1, <2>2, FS_Subset
  <2>4. Cardinality(Ahead(before, S, a)) # Cardinality(Ahead(before, S, b))
    BY <2>1, <2>2, FS_Subset
  <2> QED
    BY <2>2, <2>3, <2>4
<1>4. IsFiniteSet(all) /\ Cardinality(all) = Cardinality(S)
  <2> DEFINE n == Cardinality(S)
  <2>1. n \in Nat /\ 0 \in Int /\ n - 1 \in Int
    BY <1>1
  <2> HIDE DEF n
  <2>2. IsFiniteSet(0 .. (n - 1)) /\ Cardinality(0 .. (n - 1)) = n
    BY <2>1, FS_Interval
  <2> QED
    BY <2>2 DEF n
<1>5. rank \in Injection(S, all)
  <2>1. \A a, b \in S : a # b => rank[a] # rank[b]
    <3>1. ASSUME NEW a \in S, NEW b \in S, a # b PROVE rank[a] # rank[b]
      <4>1. <<a, b>> \in before \/ <<b, a>> \in before
        BY <3>1 DEF Orders
      <4>2. rank[a] < rank[b] \/ rank[b] < rank[a]
        BY <1>3, <4>1
      <4>3. rank[a] \in Int /\ rank[b] \in Int
        BY <1>1, <1>2
      <4> HIDE DEF rank
      <4> QED
        BY <4>2, <4>3
    <3> QED
      BY <3>1
  <2> QED
    BY <1>2, <2>1 DEF Injection, IsInjective
<1>6. rank \in Surjection(S, all)
  <2> HIDE DEF rank, all
  <2> QED
    BY <1>4, <1>5, FS_Injection
<1>7. \A n \in all : \E a \in S : rank[a] = n
  BY <1>6 DEF Surjection
<1> QED
  BY <1>1, <1>2, <1>3, <1>7 DEF Numbered

\* A set of numbers is in the order of the numbers.
LEMMA NumbersAreOrdered ==
    ASSUME NEW S \in SUBSET Int
    PROVE  Orders({p \in S \X S : p[1] < p[2]}, S)
BY DEF Orders

\* The place of a number among those of P, counted from 1, and the number at a place.
Place(P, i) == Cardinality({j \in P : j <= i})
Nth(P, k) == CHOOSE i \in P : Place(P, i) = k

\* The numbers of P are found by their places, in the order of the places.
Listed(P) ==
    /\ Cardinality(P) \in Nat
    /\ \A i \in P : Place(P, i) \in 1 .. Cardinality(P) /\ Nth(P, Place(P, i)) = i
    /\ \A k \in 1 .. Cardinality(P) : Nth(P, k) \in P /\ Place(P, Nth(P, k)) = k
    /\ \A j, k \in 1 .. Cardinality(P) : j < k => Nth(P, j) < Nth(P, k)

\* The members of a finite set of numbers can be listed by their places.
LEMMA Places ==
    ASSUME NEW P \in SUBSET Int, IsFiniteSet(P)
    PROVE  Listed(P)
<1> DEFINE before == {p \in P \X P : p[1] < p[2]}
<1>1. Orders(before, P)
  BY NumbersAreOrdered
<1>2. Cardinality(P) \in Nat
  BY FS_CardinalityType
<1>3. ASSUME NEW i \in P
      PROVE  Place(P, i) = Cardinality(Ahead(before, P, i)) + 1
  <2>1. Ahead(before, P, i) = {j \in P : j < i}
    BY DEF Ahead
  <2>2. {j \in P : j <= i} = {j \in P : j < i} \cup {i} /\ i \notin {j \in P : j < i}
    <3>1. \A j \in P : j <= i <=> j < i \/ j = i
      OBVIOUS
    <3>2. \A j : j \in {h \in P : h <= i} <=> j \in {h \in P : h < i} \cup {i}
      BY <3>1
    <3> QED
      BY <3>1, <3>2
  <2>3. IsFiniteSet({j \in P : j < i})
    BY FS_Subset
  <2>4. Cardinality({j \in P : j < i} \cup {i}) = Cardinality({j \in P : j < i}) + 1
    BY <2>2, <2>3, FS_AddElement
  <2> QED
    BY <2>1, <2>2, <2>4 DEF Place
<1>4. Numbered(before, P)
  <2> HIDE DEF before
  <2> QED
    BY <1>1, Ranks
<1>5. \A i \in P : Place(P, i) \in 1 .. Cardinality(P)
  <2> HIDE DEF before
  <2> QED
    BY <1>2, <1>3, <1>4 DEF Numbered
<1>6. \A i, j \in P : i < j => Place(P, i) < Place(P, j)
  <2> SUFFICES ASSUME NEW i \in P, NEW j \in P, i < j
               PROVE  Place(P, i) < Place(P, j)
    OBVIOUS
  <2>1. <<i, j>> \in before
    OBVIOUS
  <2>2. Cardinality(Ahead(before, P, i)) < Cardinality(Ahead(before, P, j))
    BY <2>1, <1>4 DEF Numbered
  <2>3. Cardinality(Ahead(before, P, i)) \in Int /\ Cardinality(Ahead(before, P, j)) \in Int
    <3> HIDE DEF before
    <3> QED
      BY <1>2, <1>4 DEF Numbered
  <2> HIDE DEF before
  <2> QED
    BY <2>2, <2>3, <1>3
<1>7. ASSUME NEW k \in 1 .. Cardinality(P)
      PROVE  Nth(P, k) \in P /\ Place(P, Nth(P, k)) = k
  <2>1. k - 1 \in 0 .. Cardinality(P) - 1
    BY <1>2
  <2>2. PICK i \in P : Cardinality(Ahead(before, P, i)) = k - 1
    BY <1>4, <2>1 DEF Numbered
  <2>3. Place(P, i) = k
    BY <1>3, <2>2
  <2> QED
    BY <2>3 DEF Nth
<1>8. \A i \in P : Nth(P, Place(P, i)) = i
  <2> SUFFICES ASSUME NEW i \in P PROVE Nth(P, Place(P, i)) = i
    OBVIOUS
  <2>1. /\ Nth(P, Place(P, i)) \in P
        /\ Place(P, Nth(P, Place(P, i))) = Place(P, i)
    BY <1>5, <1>7
  <2>2. \A j \in P : Place(P, j) = Place(P, i) => j = i
    <3> SUFFICES ASSUME NEW j \in P, Place(P, j) = Place(P, i) PROVE j = i
      OBVIOUS
    <3>1. ~ (i < j) /\ ~ (j < i)
      <4>1. Place(P, i) \in Int /\ Place(P, j) \in Int
        BY <1>2, <1>5
      <4> QED
        BY <1>6, <4>1
    <3> QED
      BY <3>1
  <2> QED
    BY <2>1, <2>2
<1>9. ASSUME NEW j \in 1 .. Cardinality(P), NEW k \in 1 .. Cardinality(P), j < k
      PROVE  Nth(P, j) < Nth(P, k)
  <2>1. /\ Nth(P, j) \in P /\ Place(P, Nth(P, j)) = j
        /\ Nth(P, k) \in P /\ Place(P, Nth(P, k)) = k
    BY <1>7
  <2>2. j \in Int /\ k \in Int
    BY <1>2
  <2>4. P \subseteq Int
    OBVIOUS
  <2>5. Nth(P, j) \in Int /\ Nth(P, k) \in Int
    BY <2>1, <2>4
  <2>3. Nth(P, j) # Nth(P, k) /\ ~ (Nth(P, k) < Nth(P, j))
    <3>1. Nth(P, j) # Nth(P, k)
      BY <1>9, <2>1, <2>2
    <3>2. ~ (Nth(P, k) < Nth(P, j))
      <4>1. Nth(P, k) < Nth(P, j) => Place(P, Nth(P, k)) < Place(P, Nth(P, j))
        BY <1>6, <2>1
      <4> QED
        BY <1>9, <2>1, <2>2, <4>1
    <3> QED
      BY <3>1, <3>2
  <2> QED
    BY <2>2, <2>3, <2>5
<1> QED
  BY <1>2, <1>5, <1>7, <1>8, <1>9 DEF Listed
=============================================================================
