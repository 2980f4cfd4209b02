------------------------------ MODULE NumberLemmas ------------------------------
(***************************************************************************)
(* Induction over the natural numbers for the provers: the predicate is    *)
(* given by the set of numbers that have it, and the principle itself      *)
(* comes from counting finite sets, as do the powers of two. Division by a *)
(* number that is not a literal, and the ranks of a set of numbers.        *)
(***************************************************************************)
EXTENDS Integers, FunctionTheorems, FiniteSetTheorems, TLAPS

\* Every set of natural numbers that has a member has a least one.
LEMMA LeastNatural ==
  ASSUME NEW T \in SUBSET Nat, T # {}
  PROVE  \E m \in T : \A k \in T : m <= k
<1> SUFFICES ASSUME \A m \in T : \E k \in T : k < m PROVE FALSE
  OBVIOUS
<1>1. PICK t \in T : TRUE
  OBVIOUS
<1> DEFINE Below == {k \in 0..t : \A j \in T : k <= j}
           next == [k \in Below |-> k + 1]
<1>2. \A k \in Below : k + 1 \in Below \ {0}
  <2> SUFFICES ASSUME NEW k \in Below PROVE k + 1 \in Below \ {0}
    OBVIOUS
  <2>1. k \in Nat /\ \A j \in T : j \in Nat /\ k <= j
    OBVIOUS
  <2>2. k \notin T
    BY <2>1
  <2>3. \A j \in T : k + 1 <= j
    BY <2>1, <2>2
  <2> QED BY <1>1, <2>1, <2>3
<1>3. 0 \in Below
  BY <1>1
<1>4. next \in Injection(Below, Below \ {0})
  <2>1. next \in [Below -> Below \ {0}]
    BY <1>2
  <2>2. \A j, k \in Below : next[j] = next[k] => j = k
    OBVIOUS
  <2> QED BY <2>1, <2>2, Fun_IsInj
<1>5. IsFiniteSet(0..t) /\ Below \in SUBSET (0..t)
  BY <1>1, FS_Interval
<1> HIDE DEF Below, next
<1>6. IsFiniteSet(Below)
  BY <1>5, FS_Subset
<1>7. /\ IsFiniteSet(Below \ {0})
      /\ Cardinality(Below \ {0}) = Cardinality(Below) - 1
      /\ Cardinality(Below) \in Nat
  BY <1>3, <1>6, FS_RemoveElement, FS_CardinalityType
<1>8. Cardinality(Below) <= Cardinality(Below \ {0})
  BY <1>4, <1>7, FS_Injection
<1> QED BY <1>7, <1>8

\* What holds of 0 and of the successor of each number it holds of, holds of all.
LEMMA SetInduction ==
  ASSUME NEW T, 0 \in T, \A n \in Nat : n \in T => n + 1 \in T
  PROVE  \A n \in Nat : n \in T
<1> DEFINE Bad == {n \in Nat : n \notin T}
<1> SUFFICES ASSUME Bad # {} PROVE FALSE
  OBVIOUS
<1>1. PICK m \in Bad : \A k \in Bad : m <= k
  BY LeastNatural
<1>2. m \in Nat \ {0} /\ m - 1 \in Nat /\ m - 1 \notin Bad
  BY <1>1
<1>3. (m - 1) + 1 \in T
  BY <1>2
<1> QED BY <1>2, <1>3

\* The same from any first number.
LEMMA SetInductionFrom ==
  ASSUME NEW T, NEW a \in Int, a \in T, \A n \in Int : n >= a /\ n \in T => n + 1 \in T
  PROVE  \A n \in Int : n >= a => n \in T
<1> DEFINE S == {k \in Nat : a + k \in T}
<1>1. 0 \in S
  OBVIOUS
<1>2. ASSUME NEW n \in Nat, n \in S
      PROVE  n + 1 \in S
  <2>1. a + n \in Int /\ a + n >= a /\ a + n \in T
    BY <1>2
  <2>2. (a + n) + 1 \in T
    BY <2>1
  <2>3. (a + n) + 1 = a + (n + 1)
    OBVIOUS
  <2> QED BY <2>2, <2>3
<1> HIDE DEF S
<1>3. \A k \in Nat : k \in S
  BY <1>1, <1>2, SetInduction
<1>4. ASSUME NEW n \in Int, n >= a
      PROVE  n \in T
  <2>1. n - a \in S
    BY <1>3, <1>4
  <2>2. a + (n - a) = n
    OBVIOUS
  <2> QED BY <2>1, <2>2 DEF S
<1> QED BY <1>4

\* A finite set with a strict order R has an element with no smaller one.
LEMMA FiniteMinimal ==
  ASSUME NEW S, IsFiniteSet(S), S # {}, NEW R,
         \A x \in S : <<x, x>> \notin R,
         \A x, y, z \in S : <<x, y>> \in R /\ <<y, z>> \in R => <<x, z>> \in R
  PROVE  \E x \in S : \A y \in S : <<y, x>> \notin R
<1> DEFINE Smaller(x) == {y \in S : <<y, x>> \in R}
           Counts == {Cardinality(Smaller(x)) : x \in S}
<1>1. \A x \in S : IsFiniteSet(Smaller(x)) /\ Cardinality(Smaller(x)) \in Nat
  BY FS_Subset, FS_CardinalityType
<1>2. Counts \in SUBSET Nat /\ Counts # {}
  <2> HIDE DEF Smaller
  <2>1. \A x \in S : Cardinality(Smaller(x)) \in Nat
    BY <1>1
  <2>2. \A k \in Counts : k \in Nat
    BY <2>1
  <2>3. PICK x \in S : TRUE
    OBVIOUS
  <2>4. Cardinality(Smaller(x)) \in Counts
    OBVIOUS
  <2> QED BY <2>2, <2>4
<1> HIDE DEF Counts
<1>3. PICK k \in Counts : \A j \in Counts : k <= j
  BY <1>2, LeastNatural
<1>4. PICK x \in S : k = Cardinality(Smaller(x))
  BY <1>3 DEF Counts
<1>5. ASSUME NEW y \in S, <<y, x>> \in R
      PROVE  FALSE
  <2>1. Smaller(y) \in SUBSET Smaller(x) /\ y \in Smaller(x) /\ y \notin Smaller(y)
    BY <1>5
  <2>2. Cardinality(Smaller(y)) <= k /\ Cardinality(Smaller(y)) # k
    BY <1>1, <1>4, <2>1, FS_Subset
  <2>3. Cardinality(Smaller(y)) \in Counts
    BY DEF Counts
  <2> QED BY <1>1, <1>2, <1>3, <2>2, <2>3
<1> QED BY <1>5

-----------------------------------------------------------------------------
(***************************************************************************)
(* Powers of two, by counting the subsets of 1..n.                         *)
(***************************************************************************)
LEMMA PowerZero == 2^0 = 1
OBVIOUS

LEMMA PowerCounts ==
  ASSUME NEW n \in Nat
  PROVE  IsFiniteSet(SUBSET (1..n)) /\ Cardinality(SUBSET (1..n)) = 2^n /\ 2^n \in Nat
<1>1. IsFiniteSet(1..n) /\ Cardinality(1..n) = n
  BY FS_Interval
<1>2. IsFiniteSet(SUBSET (1..n)) /\ Cardinality(SUBSET (1..n)) = 2^Cardinality(1..n)
  BY <1>1, FS_SUBSET
<1>3. Cardinality(SUBSET (1..n)) \in Nat
  BY <1>2, FS_CardinalityType
<1> QED BY <1>1, <1>2, <1>3

\* Every subset of 1..(n+1) is one of 1..n or one of them with n+1.
LEMMA PowerStep ==
  ASSUME NEW n \in Nat
  PROVE  2^(n + 1) = 2 * 2^n
<1> DEFINE S == SUBSET (1..n)
           with == [T \in S |-> T \cup {n + 1}]
           W == {with[T] : T \in S}
<1>1. IsFiniteSet(S) /\ Cardinality(S) = 2^n /\ 2^n \in Nat
  BY PowerCounts
<1>2. Cardinality(SUBSET (1..(n + 1))) = 2^(n + 1) /\ 2^(n + 1) \in Nat
  <2>1. n + 1 \in Nat
    OBVIOUS
  <2> HIDE DEF S, W, with
  <2> QED BY <2>1, PowerCounts
<1>3. with \in Bijection(S, W)
  <2>1. \A T, U \in S : with[T] = with[U] => T = U
    <3> SUFFICES ASSUME NEW T \in S, NEW U \in S, with[T] = with[U] PROVE T = U
      OBVIOUS
    <3>1. n + 1 \notin T /\ n + 1 \notin U
      OBVIOUS
    <3> QED BY <3>1
  <2>2. with \in [S -> W] /\ \A w \in W : \E T \in S : with[T] = w
    OBVIOUS
  <2> QED BY <2>1, <2>2, Fun_IsBij
<1>4. IsFiniteSet(W) /\ Cardinality(W) = 2^n
  BY <1>1, <1>3, FS_Bijection, Fun_ExistsBij
<1>5. S \cap W = {}
  <2>1. \A w \in W : n + 1 \in w
    OBVIOUS
  <2>2. \A T \in S : n + 1 \notin T
    OBVIOUS
  <2> QED BY <2>1, <2>2
<1>6. SUBSET (1..(n + 1)) = S \cup W
  <2>1. \A T \in S : T \in SUBSET (1..(n + 1)) /\ with[T] \in SUBSET (1..(n + 1))
    OBVIOUS
  <2>2. ASSUME NEW T \in SUBSET (1..(n + 1))
        PROVE  T \in S \cup W
    <3>1. CASE n + 1 \notin T
      <4>1. \A x \in T : x \in 1..(n + 1) /\ x # n + 1
        BY <3>1
      <4>2. \A x \in T : x \in 1..n
        BY <4>1
      <4> QED BY <4>2
    <3>2. CASE n + 1 \in T
      <4>1. T \ {n + 1} \in S
        OBVIOUS
      <4>2. with[T \ {n + 1}] = T
        BY <3>2, <4>1
      <4> QED BY <4>1, <4>2
    <3> QED BY <3>1, <3>2
  <2>3. \A w \in W : w \in SUBSET (1..(n + 1))
    BY <2>1
  <2> HIDE DEF S, W, with
  <2>4. \A T : T \in S \cup W => T \in SUBSET (1..(n + 1))
    BY <2>1, <2>3
  <2>5. \A T : T \in SUBSET (1..(n + 1)) => T \in S \cup W
    BY <2>2
  <2> QED BY <2>4, <2>5
<1> HIDE DEF S, W, with
<1>7. Cardinality(S \cup W) = Cardinality(S) + Cardinality(W) - Cardinality({})
  BY <1>1, <1>4, <1>5, FS_Union
<1>8. Cardinality({}) = 0
  BY FS_EmptySet
<1>9. Cardinality(S \cup W) = 2^n + 2^n
  BY <1>1, <1>4, <1>7, <1>8
<1>10. 2^(n + 1) = 2^n + 2^n
  BY <1>2, <1>6, <1>9
<1> QED BY <1>1, <1>10

LEMMA PowerExceeds == \A n \in Nat : 2^n \in Nat /\ n < 2^n
<1> DEFINE T == {n \in Nat : 2^n \in Nat /\ n < 2^n}
<1>1. 0 \in T
  BY PowerZero
<1>2. ASSUME NEW n \in Nat, n \in T
      PROVE  n + 1 \in T
  BY <1>2, PowerStep
<1> HIDE DEF T
<1>3. \A n \in Nat : n \in T
  BY <1>1, <1>2, SetInduction
<1> QED BY <1>3 DEF T

-----------------------------------------------------------------------------
(***************************************************************************)
(* Division.                                                               *)
(***************************************************************************)

\* Multiplication by a positive number keeps the order strictly.
LEMMA TimesGrows ==
  ASSUME NEW a \in Nat, NEW b \in Nat, NEW d \in Nat \ {0}, a < b
  PROVE  a * d + d <= b * d
<1>1. b = a + 1 + (b - a - 1) /\ b - a - 1 \in Nat
  OBVIOUS
<1> DEFINE k == b - a - 1
<1>2. k \in Nat /\ k * d >= 0
  BY <1>1
<1>3. b * d = a * d + d + k * d
  BY <1>1
<1> HIDE DEF k
<1>4. a * d \in Nat /\ k * d \in Nat
  BY <1>2
<1> QED BY <1>2, <1>3, <1>4

\* Quotient and remainder.
LEMMA DivisionOf ==
  ASSUME NEW n \in Nat, NEW d \in Nat \ {0}
  PROVE  /\ n \div d \in Nat
         /\ n % d \in 0..(d - 1)
         /\ n = (n \div d) * d + (n % d)
OBVIOUS

\* There is only one quotient with a remainder below the divisor.
LEMMA DivUnique ==
  ASSUME NEW d \in Nat \ {0}, NEW q \in Nat, NEW r \in 0..(d - 1)
  PROVE  (q * d + r) \div d = q
<1> DEFINE n == q * d + r
           p == n \div d
<1>1. n \in Nat
  OBVIOUS
<1>2. p \in Nat /\ n % d \in 0..(d - 1) /\ n = p * d + (n % d)
  BY <1>1, DivisionOf
<1>3. ~ p < q
  BY <1>1, <1>2, TimesGrows
<1>4. ~ q < p
  BY <1>1, <1>2, TimesGrows
<1> QED BY <1>2, <1>3, <1>4

\* To divide by 2d is to divide by d and halve.
LEMMA DivTwice ==
  ASSUME NEW n \in Nat, NEW d \in Nat \ {0}
  PROVE  n \div (2 * d) = (n \div d) \div 2
<1> DEFINE q == n \div d
           r == n % d
           h == q \div 2
           e == q % 2
<1>1. q \in Nat /\ r \in 0..(d - 1) /\ n = q * d + r
  BY DivisionOf
<1> HIDE DEF q, r
<1>2. h \in Nat /\ e \in 0..1 /\ q = h * 2 + e
  BY <1>1
<1> HIDE DEF h, e
<1>3. e * d + r \in 0..(2 * d - 1)
  <2>1. CASE e = 0
    BY <1>1, <2>1
  <2>2. CASE e = 1
    BY <1>1, <2>2
  <2> QED BY <1>2, <2>1, <2>2
<1>4. n = h * (2 * d) + (e * d + r)
  BY <1>1, <1>2
<1>5. n \div (2 * d) = h
  BY <1>2, <1>3, <1>4, DivUnique, 2 * d \in Nat \ {0}
<1> QED BY <1>5 DEF h, q

-----------------------------------------------------------------------------
\* The members of a finite set of numbers are numbered from 0 by how many are smaller.
LEMMA Ranks ==
  ASSUME NEW B \in SUBSET Nat, IsFiniteSet(B)
  PROVE  /\ Cardinality(B) \in Nat
         /\ \A b \in B : Cardinality({c \in B : c < b}) \in 0..(Cardinality(B) - 1)
         /\ \A b, c \in B : b < c => Cardinality({a \in B : a < b}) < Cardinality({a \in B : a < c})
         /\ \A k \in 0..(Cardinality(B) - 1) : \E b \in B : Cardinality({c \in B : c < b}) = k
<1> DEFINE Smaller(b) == {c \in B : c < b}
           rank == [b \in B |-> Cardinality(Smaller(b))]
           K == 0..(Cardinality(B) - 1)
<1>1. Cardinality(B) \in Nat
  BY FS_CardinalityType
<1>2. \A b \in B : IsFiniteSet(Smaller(b)) /\ Cardinality(Smaller(b)) \in Nat
  BY FS_Subset, FS_CardinalityType
<1>3. \A b \in B : Cardinality(Smaller(b)) <= Cardinality(B) /\ Cardinality(Smaller(b)) # Cardinality(B)
  <2> SUFFICES ASSUME NEW b \in B
               PROVE  Cardinality(Smaller(b)) <= Cardinality(B) /\ Cardinality(Smaller(b)) # Cardinality(B)
    OBVIOUS
  <2>1. Smaller(b) \in SUBSET B /\ b \notin Smaller(b)
    OBVIOUS
  <2> HIDE DEF Smaller
  <2> QED BY <2>1, FS_Subset
<1>4. ASSUME NEW b \in B, NEW c \in B, b < c
      PROVE  Cardinality(Smaller(b)) < Cardinality(Smaller(c))
  <2>1. Smaller(b) \in SUBSET Smaller(c) /\ b \in Smaller(c) /\ b \notin Smaller(b)
    <3>1. \A a \in B : a < b => a < c
      BY <1>4
    <3>2. \A a : a \in Smaller(b) => a \in Smaller(c)
      BY <3>1
    <3>3. ~ b < b
      OBVIOUS
    <3>4. b \in Smaller(c) /\ b \notin Smaller(b)
      BY <1>4, <3>3
    <3> HIDE DEF Smaller
    <3> QED BY <3>2, <3>4
  <2>2. IsFiniteSet(Smaller(c)) /\ Cardinality(Smaller(b)) \in Nat /\ Cardinality(Smaller(c)) \in Nat
    BY <1>2
  <2> HIDE DEF Smaller
  <2>3. Cardinality(Smaller(b)) <= Cardinality(Smaller(c)) /\ Cardinality(Smaller(b)) # Cardinality(Smaller(c))
    BY <2>1, <2>2, FS_Subset
  <2> QED BY <2>2, <2>3
<1>5. \A b \in B : Cardinality(Smaller(b)) \in K
  <2> HIDE DEF Smaller
  <2> QED BY <1>1, <1>2, <1>3
<1>6. rank \in Injection(B, K)
  <2>1. rank \in [B -> K]
    <3> HIDE DEF Smaller
    <3> QED BY <1>5
  <2>2. \A b, c \in B : rank[b] = rank[c] => b = c
    <3> SUFFICES ASSUME NEW b \in B, NEW c \in B, rank[b] = rank[c], b # c PROVE FALSE
      OBVIOUS
    <3> HIDE DEF Smaller
    <3>1. b < c \/ c < b
      OBVIOUS
    <3>2. Cardinality(Smaller(b)) = Cardinality(Smaller(c))
      OBVIOUS
    <3> QED BY <1>2, <1>4, <3>1, <3>2
  <2> HIDE DEF rank, K
  <2> QED BY <2>1, <2>2, Fun_IsInj
<1>7. IsFiniteSet(K) /\ Cardinality(K) = Cardinality(B)
  <2>1. Cardinality(B) - 1 \in Int /\ 0 \in Int /\ (Cardinality(B) - 1) - 0 + 1 = Cardinality(B)
    BY <1>1
  <2>2. 0 > Cardinality(B) - 1 => Cardinality(B) = 0
    BY <1>1
  <2> QED BY <2>1, <2>2, FS_Interval
<1>8. rank \in Surjection(B, K)
  <2> HIDE DEF rank, K
  <2> QED BY <1>6, <1>7, FS_Injection
<1>9. \A k \in K : \E b \in B : rank[b] = k
  <2> HIDE DEF rank, K
  <2> QED BY <1>8, Fun_SurjectionProperties
<1> QED BY <1>1, <1>4, <1>5, <1>9
=============================================================================
