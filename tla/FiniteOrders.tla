---------------------------- MODULE FiniteOrders -----------------------------
(***************************************************************************)
(* Finite sets with an order, as the other proofs need them: a least and a *)
(* greatest element, and a place for each of the elements.                 *)
(*                                                                         *)
(* Everything is counted: a least element is one with the fewest elements  *)
(* before it, and every nonempty set of naturals has a least one.          *)
(***************************************************************************)
EXTENDS Integers, FiniteSets, FiniteSetsExt, FiniteSetTheorems, WellFoundedInduction, TLAPS

\* Every nonempty set of naturals has a least element.
LEMMA LeastNatural ==
    ASSUME NEW S \in SUBSET Nat, S # {}
    PROVE  \E n \in S : \A m \in S : n <= m
<1> DEFINE R == OpToRel(<, Nat)
<1>1. IsWellFoundedOn(R, Nat)
  BY NatLessThanWellFounded
<1> HIDE DEF R
<1>2. PICK x \in S : \A y \in S : ~(<<y, x>> \in R)
  BY <1>1, WFMin
<1>3. \A y \in S : ~(y < x)
  BY <1>2 DEF R, OpToRel
<1> QED
  BY <1>3

\* Sets that share nothing are counted one after the other.
LEMMA DisjointUnion ==
    ASSUME NEW S, IsFiniteSet(S), NEW T, IsFiniteSet(T), S \cap T = {}
    PROVE  /\ IsFiniteSet(S \cup T)
           /\ Cardinality(S \cup T) = Cardinality(S) + Cardinality(T)
<1>1. Cardinality(S \cap T) = 0
  BY FS_EmptySet
<1>2. Cardinality(S) \in Nat /\ Cardinality(T) \in Nat
  BY FS_CardinalityType
<1>3. /\ IsFiniteSet(S \cup T)
      /\ Cardinality(S \cup T) = Cardinality(S) + Cardinality(T) - Cardinality(S \cap T)
  BY FS_Union
<1> QED
  BY <1>1, <1>2, <1>3

\* The values of a function on a finite set are finitely many.
LEMMA ValuesAreFinite ==
    ASSUME NEW S, IsFiniteSet(S), NEW f, f = [x \in S |-> f[x]]
    PROVE  IsFiniteSet({f[x] : x \in S})
<1> DEFINE T == {f[x] : x \in S}
<1>1. f \in [S -> T] /\ \A t \in T : \E x \in S : f[x] = t
  OBVIOUS
<1> HIDE DEF T
<1>2. f \in Surjection(S, T)
  BY <1>1 DEF Surjection
<1>3. IsFiniteSet(T)
  BY <1>2, FS_Surjection
<1> QED
  BY <1>3 DEF T

\* r orders S: it is irreflexive, transitive and total.
Orders(r, S) ==
    /\ \A x \in S : <<x, x>> \notin r
    /\ \A x, y, z \in S : <<x, y>> \in r /\ <<y, z>> \in r => <<x, z>> \in r
    /\ \A x, y \in S : x # y => <<x, y>> \in r \/ <<y, x>> \in r

Below(r, S, x) == {y \in S : <<y, x>> \in r}

\* Fewer elements are below what comes earlier.
LEMMA FewerBelow ==
    ASSUME NEW S, IsFiniteSet(S), NEW r, Orders(r, S)
    PROVE  /\ \A x \in S : Cardinality(Below(r, S, x)) \in 0 .. (Cardinality(S) - 1)
           /\ \A x, y \in S : <<x, y>> \in r =>
                 Cardinality(Below(r, S, x)) < Cardinality(Below(r, S, y))
<1>1. \A x \in S : IsFiniteSet(Below(r, S, x)) /\ Cardinality(Below(r, S, x)) \in Nat
  <2> TAKE x \in S
  <2>1. Below(r, S, x) \in SUBSET S
    BY DEF Below
  <2> QED
    BY <2>1, FS_Subset, FS_CardinalityType
<1>2. ASSUME NEW x \in S, NEW y \in S, <<x, y>> \in r
      PROVE  Cardinality(Below(r, S, x)) < Cardinality(Below(r, S, y))
  <2>1. Below(r, S, x) \in SUBSET Below(r, S, y)
    BY <1>2 DEF Below, Orders
  <2>2. x \in Below(r, S, y) /\ x \notin Below(r, S, x)
    BY <1>2 DEF Below, Orders
  <2> QED
    BY <2>1, <2>2, <1>1, FS_Subset
<1>3. ASSUME NEW x \in S
      PROVE  Cardinality(Below(r, S, x)) \in 0 .. (Cardinality(S) - 1)
  <2>1. Below(r, S, x) \in SUBSET S /\ x \notin Below(r, S, x)
    BY <1>3 DEF Below, Orders
  <2>2. /\ Cardinality(Below(r, S, x)) <= Cardinality(S)
        /\ Cardinality(Below(r, S, x)) # Cardinality(S)
    BY <2>1, FS_Subset
  <2> QED
    BY <2>2, <1>1, FS_CardinalityType
<1> QED
  BY <1>2, <1>3

\* The numbers below are all there are.
LEMMA AllNumbers ==
    ASSUME NEW S, IsFiniteSet(S), NEW r, Orders(r, S)
    PROVE  {Cardinality(Below(r, S, x)) : x \in S} = 0 .. (Cardinality(S) - 1)
<1> DEFINE n == Cardinality(S)
           c == [x \in S |-> Cardinality(Below(r, S, x))]
<1>1. n \in Nat
  BY FS_CardinalityType
<1>2. IsFiniteSet(0 .. (n - 1)) /\ Cardinality(0 .. (n - 1)) = n
  BY <1>1, FS_Interval
<1>3. c \in [S -> 0 .. (n - 1)]
  BY FewerBelow
<1>8. \A x, y \in S : <<x, y>> \in r => c[x] < c[y]
  BY FewerBelow
<1>9. \A x \in S : c[x] \in Int
  BY <1>3, <1>1
<1> HIDE DEF c
<1>4. \A x, y \in S : c[x] = c[y] => x = y
  <2> SUFFICES ASSUME NEW x \in S, NEW y \in S, x # y
               PROVE  c[x] # c[y]
    OBVIOUS
  <2>1. <<x, y>> \in r \/ <<y, x>> \in r
    BY DEF Orders
  <2>2. c[x] < c[y] \/ c[y] < c[x]
    BY <2>1, <1>8
  <2> QED
    BY <2>2, <1>9
<1>5. c \in Injection(S, 0 .. (n - 1))
  BY <1>3, <1>4 DEF Injection, IsInjective
<1>6. c \in Surjection(S, 0 .. (n - 1))
  BY <1>5, <1>2, FS_Injection
<1>7. \A m \in 0 .. (n - 1) : \E x \in S : c[x] = m
  BY <1>6 DEF Surjection
<1> QED
  BY <1>3, <1>7 DEF c

\* A finite set that is not empty has a first element.
LEMMA FirstExists ==
    ASSUME NEW S, IsFiniteSet(S), S # {}, NEW r, Orders(r, S)
    PROVE  \E x \in S : \A y \in S \ {x} : <<x, y>> \in r
<1>1. Cardinality(S) \in Nat /\ Cardinality(S) # 0
  BY FS_CardinalityType, FS_EmptySet
<1>2. 0 \in {Cardinality(Below(r, S, x)) : x \in S}
  BY <1>1, AllNumbers
<1>3. PICK x \in S : Cardinality(Below(r, S, x)) = 0
  BY <1>2
<1>4. \A y \in S : Cardinality(Below(r, S, y)) \in Nat
  BY FewerBelow, <1>1
<1>8. \A y \in S : <<y, x>> \in r => Cardinality(Below(r, S, y)) < 0
  BY <1>3, FewerBelow
<1>5. \A y \in S \ {x} : <<x, y>> \in r
  <2> TAKE y \in S \ {x}
  <2>1. <<x, y>> \in r \/ <<y, x>> \in r
    BY DEF Orders
  <2>2. <<y, x>> \notin r
    BY <1>4, <1>8
  <2> QED
    BY <2>1, <2>2
<1> QED
  BY <1>5

\* A finite set of integers that is not empty has a greatest one.
LEMMA MaxIsGreatest ==
    ASSUME NEW S \in SUBSET Int, IsFiniteSet(S), S # {}
    PROVE  /\ Max(S) \in S
           /\ \A x \in S : x <= Max(S)
<1> DEFINE r == {p \in S \X S : p[2] < p[1]}
<1>1. \A x, y \in S : <<x, y>> \in r <=> y < x
  OBVIOUS
<1> HIDE DEF r
<1>2. Orders(r, S)
  BY <1>1 DEF Orders
<1>3. PICK m \in S : \A y \in S \ {m} : <<m, y>> \in r
  BY <1>2, FirstExists
<1>4. \A y \in S : m >= y
  <2> TAKE y \in S
  <2>1. m \in Int /\ y \in Int
    OBVIOUS
  <2>2. y = m \/ y < m
    BY <1>3, <1>1
  <2> QED
    BY <2>1, <2>2
<1>5. \E x \in S : \A y \in S : x >= y
  BY <1>4
<1>6. /\ Max(S) \in S
      /\ \A y \in S : Max(S) >= y
  BY <1>5, Zenon DEF Max
<1> QED
  BY <1>6

\* A set of naturals that is not empty has a least one, finite or not.
LEMMA MinIsLeast ==
    ASSUME NEW S \in SUBSET Nat, S # {}
    PROVE  /\ Min(S) \in S
           /\ \A x \in S : Min(S) <= x
<1>1. \E x \in S : \A y \in S : x <= y
  BY LeastNatural
<1> QED
  BY <1>1, Zenon DEF Min

\* Of one number more than a set of naturals has elements, one is not among them.
LEMMA SomeNumberIsFree ==
    ASSUME NEW S \in SUBSET Nat, IsFiniteSet(S)
    PROVE  Min(0 .. Cardinality(S) \ S) \in Nat \ S
<1> DEFINE n == Cardinality(S)
           T == 0 .. n \ S
<1>1. n \in Nat
  BY FS_CardinalityType
<1>2. T # {}
  <2> SUFFICES ASSUME T = {} PROVE FALSE
    OBVIOUS
  <2>1. 0 .. n \in SUBSET S
    OBVIOUS
  <2>2. Cardinality(0 .. n) = n + 1
    <3>1. 0 \in Int /\ n \in Int /\ 0 <= n
      BY <1>1
    <3> QED
      BY <3>1, FS_Interval
  <2>3. Cardinality(0 .. n) <= n
    BY <2>1, FS_Subset
  <2> QED
    BY <1>1, <2>2, <2>3
<1>3. T \in SUBSET Nat
  BY <1>1
<1> HIDE DEF T
<1>4. Min(T) \in T
  BY <1>2, <1>3, MinIsLeast
<1> QED
  BY <1>3, <1>4 DEF T

\* The numbers of a finite set, from the least: what comes i-th has i - 1 before it.
LEMMA EachHasItsPlace ==
    ASSUME NEW S \in SUBSET Int, IsFiniteSet(S), NEW i \in 1 .. Cardinality(S)
    PROVE  \E x \in S : Cardinality({y \in S : y < x}) = i - 1
<1> DEFINE r == {p \in S \X S : p[1] < p[2]}
<1>1. \A x, y \in S : <<x, y>> \in r <=> x < y
  OBVIOUS
<1> HIDE DEF r
<1>2. Orders(r, S)
  BY <1>1 DEF Orders
<1>3. Cardinality(S) \in Nat
  BY FS_CardinalityType
<1>4. i - 1 \in {Cardinality(Below(r, S, x)) : x \in S}
  <2>1. i - 1 \in 0 .. (Cardinality(S) - 1)
    BY <1>3
  <2>2. {Cardinality(Below(r, S, x)) : x \in S} = 0 .. (Cardinality(S) - 1)
    BY <1>2, AllNumbers
  <2> QED
    BY <2>1, <2>2
<1>5. PICK x \in S : Cardinality(Below(r, S, x)) = i - 1
  BY <1>4
<1>6. Below(r, S, x) = {y \in S : y < x}
  BY <1>1 DEF Below
<1> QED
  BY <1>5, <1>6

\* Of two numbers of a finite set the lesser has fewer before it.
LEMMA LesserHasFewer ==
    ASSUME NEW S \in SUBSET Int, IsFiniteSet(S)
    PROVE  /\ \A x, y \in S : x < y => Cardinality({z \in S : z < x}) < Cardinality({z \in S : z < y})
           /\ \A x \in S : Cardinality({z \in S : z < x}) \in 0 .. (Cardinality(S) - 1)
<1> DEFINE r == {p \in S \X S : p[1] < p[2]}
           c(x) == Cardinality({z \in S : z < x})
<1>1. \A x, y \in S : <<x, y>> \in r <=> x < y
  OBVIOUS
<1> HIDE DEF r
<1>2. Orders(r, S)
  BY <1>1 DEF Orders
<1>3. \A x \in S : c(x) = Cardinality(Below(r, S, x))
  <2> TAKE x \in S
  <2>1. Below(r, S, x) = {z \in S : z < x}
    BY <1>1 DEF Below
  <2> QED
    BY <2>1
<1> HIDE DEF c
<1>4. \A x, y \in S : x < y => c(x) < c(y)
  <2>1. \A x, y \in S : <<x, y>> \in r =>
           Cardinality(Below(r, S, x)) < Cardinality(Below(r, S, y))
    BY ONLY IsFiniteSet(S), <1>2, FewerBelow
  <2> SUFFICES ASSUME NEW x \in S, NEW y \in S, x < y PROVE c(x) < c(y)
    OBVIOUS
  <2>2. <<x, y>> \in r
    BY <1>1
  <2>3. Cardinality(Below(r, S, x)) < Cardinality(Below(r, S, y))
    BY <2>1, <2>2
  <2> QED
    BY ONLY x \in S, y \in S, <1>3, <2>3
<1>5. \A x \in S : c(x) \in 0 .. (Cardinality(S) - 1)
  <2>1. \A x \in S : Cardinality(Below(r, S, x)) \in 0 .. (Cardinality(S) - 1)
    BY ONLY IsFiniteSet(S), <1>2, FewerBelow
  <2> QED
    BY ONLY <1>3, <2>1
<1> QED
  BY <1>4, <1>5 DEF c
=============================================================================
