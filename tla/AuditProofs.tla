----------------------------- MODULE AuditProofs -----------------------------
(***************************************************************************)
(* The Merkle mountain range of mmr.go, for any number of leaves: the      *)
(* peaks kept leaf by leaf are the summits computed from all leaves, and   *)
(* an inclusion proof verifies for its own position and leaf only. With    *)
(* them the catch-up and the audits of Audit.                              *)
(***************************************************************************)
EXTENDS Audit, NumberLemmas

-----------------------------------------------------------------------------
(***************************************************************************)
(* The bits of a number of leaves.                                         *)
(***************************************************************************)

\* The leaves in front of the mountains below bit j.
Above(n, j) == (n \div 2^j) * 2^j

LEMMA Powers == \A j \in Nat : 2^j \in Nat \ {0} /\ 2^(j + 1) = 2 * 2^j
<1>1. \A j \in Nat : 2^j \in Nat /\ j < 2^j
  BY PowerExceeds
<1>2. \A j \in Nat : 2^(j + 1) = 2 * 2^j
  BY PowerStep
<1> QED BY <1>1, <1>2

LEMMA Halves ==
  ASSUME NEW n \in Nat, NEW j \in Nat
  PROVE  /\ n \div 2^j \in Nat
         /\ n \div 2^(j + 1) \in Nat
         /\ Bit(n, j) => n \div 2^j = 2 * (n \div 2^(j + 1)) + 1
         /\ ~ Bit(n, j) => n \div 2^j = 2 * (n \div 2^(j + 1))
<1>1. 2^j \in Nat \ {0} /\ 2^(j + 1) = 2 * 2^j
  BY Powers
<1> DEFINE q == n \div 2^j
<1>2. q \in Nat /\ n \div 2^(j + 1) = q \div 2
  BY <1>1, DivisionOf, DivTwice
<1> HIDE DEF q
<1>3. q \div 2 \in Nat /\ (q % 2 = 1 => q = 2 * (q \div 2) + 1) /\ (~ q % 2 = 1 => q = 2 * (q \div 2))
  BY <1>2
<1> QED BY <1>2, <1>3 DEF q, Bit

LEMMA AboveStep ==
  ASSUME NEW n \in Nat, NEW j \in Nat
  PROVE  /\ Above(n, j) \in Nat
         /\ Bit(n, j) => Above(n, j) = Above(n, j + 1) + 2^j
         /\ ~ Bit(n, j) => Above(n, j) = Above(n, j + 1)
<1> DEFINE q == n \div 2^j
           h == n \div 2^(j + 1)
<1>1. 2^j \in Nat \ {0} /\ 2^(j + 1) = 2 * 2^j
  BY Powers
<1>2. /\ q \in Nat /\ h \in Nat
      /\ Bit(n, j) => q = 2 * h + 1
      /\ ~ Bit(n, j) => q = 2 * h
  BY Halves
<1>3. Above(n, j) = q * 2^j /\ Above(n, j + 1) = h * 2^(j + 1)
  BY DEF Above
<1> HIDE DEF q, h
<1>4. q * 2^j \in Nat
  BY <1>1, <1>2
<1>5. h * 2^(j + 1) = (2 * h) * 2^j
  BY <1>1, <1>2
<1>6. Bit(n, j) => q * 2^j = (2 * h) * 2^j + 2^j
  BY <1>1, <1>2
<1> QED BY <1>2, <1>3, <1>4, <1>5, <1>6

LEMMA AboveFalls ==
  ASSUME NEW n \in Nat
  PROVE  \A i, j \in Nat : i <= j => Above(n, j) <= Above(n, i)
<1> SUFFICES ASSUME NEW i \in Nat
             PROVE  \A j \in Nat : i <= j => Above(n, j) <= Above(n, i)
  OBVIOUS
<1> DEFINE T == {k \in Nat : Above(n, i + k) <= Above(n, i)}
<1>1. 0 \in T
  BY AboveStep
<1>2. ASSUME NEW k \in Nat, k \in T
      PROVE  k + 1 \in T
  <2>1. i + k \in Nat /\ (i + k) + 1 = i + (k + 1) /\ i + (k + 1) \in Nat
    OBVIOUS
  <2>2. Above(n, (i + k) + 1) <= Above(n, i + k)
    BY <2>1, AboveStep, Powers
  <2>3. Above(n, i + k) \in Nat /\ Above(n, i + (k + 1)) \in Nat /\ Above(n, i) \in Nat
    BY <2>1, AboveStep
  <2> QED BY <1>2, <2>1, <2>2, <2>3
<1> HIDE DEF T
<1>3. \A k \in Nat : k \in T
  BY <1>1, <1>2, SetInduction
<1>4. ASSUME NEW j \in Nat, i <= j
      PROVE  Above(n, j) <= Above(n, i)
  <2>1. j - i \in Nat /\ i + (j - i) = j
    BY <1>4
  <2> QED BY <1>3, <2>1 DEF T
<1> QED BY <1>4

\* No leaf is in front of all mountains above the highest bit.
LEMMA AboveEnds ==
  ASSUME NEW n \in Nat
  PROVE  Above(n, 0) = n /\ Above(n, n) = 0 /\ n \div 2^0 = n /\ n \div 2^n = 0
<1>1. n < 2^n /\ 2^n \in Nat \ {0}
  BY PowerExceeds, Powers
<1>2. n \in 0..(2^n - 1) /\ n = 0 * 2^n + n
  BY <1>1
<1>3. n \div 2^n = 0
  BY <1>1, <1>2, DivUnique
<1>4. n \div 2^0 = n
  BY PowerZero
<1> QED BY <1>1, <1>3, <1>4, PowerZero DEF Above

LEMMA BitsAre ==
  ASSUME NEW n \in Nat
  PROVE  /\ Bits(n) = {b \in Nat : Bit(n, b)}
         /\ Bits(n) \in SUBSET Nat /\ IsFiniteSet(Bits(n))
<1>1. ASSUME NEW b \in Nat, Bit(n, b)
      PROVE  b \in 0..n /\ 2^b <= n
  <2>1. 2^b \in Nat /\ b < 2^b
    BY PowerExceeds
  <2>2. Above(n, b) = Above(n, b + 1) + 2^b /\ Above(n, b) \in Nat /\ Above(n, b + 1) \in Nat
    <3>1. b + 1 \in Nat
      OBVIOUS
    <3> QED BY <1>1, <3>1, AboveStep
  <2>3. Above(n, b) <= n
    BY AboveFalls, AboveEnds
  <2> QED BY <2>1, <2>2, <2>3
<1>2. Bits(n) = {b \in Nat : Bit(n, b)}
  BY <1>1 DEF Bits
<1>3. IsFiniteSet(0..n) /\ Bits(n) \in SUBSET (0..n)
  BY FS_Interval DEF Bits
<1>4. IsFiniteSet(Bits(n))
  BY <1>3, FS_Subset
<1> QED BY <1>2, <1>4

LEMMA StartIsAbove ==
  ASSUME NEW n \in Nat, NEW b \in Nat
  PROVE  MountainStart(n, b) = Above(n, b + 1) /\ MountainStart(n, b) \in Nat
BY AboveStep DEF MountainStart, Above

\* Every leaf is in one mountain.
LEMMA InOneMountain ==
  ASSUME NEW n \in Nat, NEW pos \in 0..(n - 1)
  PROVE  /\ Mountain(n, pos) \in Bits(n)
         /\ MountainStart(n, Mountain(n, pos)) <= pos
         /\ pos < MountainStart(n, Mountain(n, pos)) + 2^Mountain(n, pos)
<1> DEFINE T == {j \in Nat : Above(n, j) <= pos}
<1>1. n \in T
  BY AboveEnds
<1>2. PICK j \in T : \A i \in T : j <= i
  BY <1>1, LeastNatural
<1>3. j # 0
  BY <1>2, AboveEnds
<1>4. j - 1 \in Nat /\ j - 1 \notin T /\ (j - 1) + 1 = j
  BY <1>2, <1>3
<1>5. pos < Above(n, j - 1) /\ Above(n, j) <= pos
  BY <1>2, <1>4, AboveStep
<1>6. Bit(n, j - 1) /\ Above(n, j - 1) = Above(n, j) + 2^(j - 1)
  BY <1>2, <1>4, <1>5, AboveStep
<1>7. j - 1 \in Bits(n) /\ MountainStart(n, j - 1) <= pos /\ pos < MountainStart(n, j - 1) + 2^(j - 1)
  BY <1>4, <1>5, <1>6, BitsAre, StartIsAbove
<1> QED BY <1>7 DEF Mountain

-----------------------------------------------------------------------------
(***************************************************************************)
(* One more leaf: the mountains below the lowest bit that is not set make  *)
(* one, and the others stay where they are.                                *)
(***************************************************************************)

\* t is the lowest bit that n does not have.
Lowest(n, t) == t \in Nat /\ ~ Bit(n, t) /\ \A j \in 0..(t - 1) : Bit(n, j)

LEMMA LowestExists ==
  ASSUME NEW n \in Nat
  PROVE  \E t \in 0..n : Lowest(n, t)
<1> DEFINE T == {j \in Nat : ~ Bit(n, j)}
<1>1. n \in T
  <2>1. 0 % 2 # 1 /\ n \div 2^n = 0
    BY AboveEnds
  <2> QED BY <2>1 DEF Bit
<1>2. PICK t \in T : \A j \in T : t <= j
  BY <1>1, LeastNatural
<1>3. t \in 0..n /\ Lowest(n, t)
  BY <1>1, <1>2 DEF Lowest
<1> QED BY <1>3

LEMMA Carry ==
  ASSUME NEW n \in Nat, NEW t, Lowest(n, t)
  PROVE  \A i \in 0..t : /\ n + 1 = (n \div 2^i + 1) * 2^i
                         /\ (n + 1) \div 2^i = n \div 2^i + 1
<1> DEFINE T == {i \in Nat : i <= t => n + 1 = (n \div 2^i + 1) * 2^i}
<1>1. t \in Nat
  BY DEF Lowest
<1>2. 0 \in T
  BY AboveEnds, PowerZero
<1>3. ASSUME NEW i \in Nat, i \in T
      PROVE  i + 1 \in T
  <2> SUFFICES ASSUME i + 1 <= t PROVE n + 1 = (n \div 2^(i + 1) + 1) * 2^(i + 1)
    OBVIOUS
  <2> DEFINE q == n \div 2^i
             h == n \div 2^(i + 1)
  <2>1. Bit(n, i)
    BY <1>1 DEF Lowest
  <2>2. q \in Nat /\ h \in Nat /\ q = 2 * h + 1
    BY <2>1, Halves
  <2>3. n + 1 = (q + 1) * 2^i
    BY <1>1, <1>3
  <2>4. 2^i \in Nat \ {0} /\ 2^(i + 1) = 2 * 2^i
    BY Powers
  <2> HIDE DEF q, h
  <2>5. (q + 1) * 2^i = (h + 1) * 2^(i + 1)
    BY <2>2, <2>4
  <2> QED BY <2>3, <2>5 DEF h
<1> HIDE DEF T
<1>4. \A i \in Nat : i \in T
  BY <1>2, <1>3, SetInduction
<1>5. ASSUME NEW i \in 0..t
      PROVE  /\ n + 1 = (n \div 2^i + 1) * 2^i
             /\ (n + 1) \div 2^i = n \div 2^i + 1
  <2>1. i \in Nat /\ i <= t
    BY <1>1
  <2>2. n + 1 = (n \div 2^i + 1) * 2^i
    BY <1>4, <2>1 DEF T
  <2>3. 2^i \in Nat \ {0} /\ n \div 2^i + 1 \in Nat
    BY <2>1, Powers, Halves
  <2> DEFINE p == n \div 2^i + 1
  <2>4. n + 1 = p * 2^i + 0 /\ 0 \in 0..(2^i - 1) /\ p \in Nat
    BY <2>2, <2>3
  <2> HIDE DEF p
  <2>5. (n + 1) \div 2^i = p
    BY <2>3, <2>4, DivUnique
  <2> QED BY <2>2, <2>5 DEF p
<1> QED BY <1>5

LEMMA NoCarry ==
  ASSUME NEW n \in Nat, NEW t, Lowest(n, t)
  PROVE  \A j \in Nat : j > t => (n + 1) \div 2^j = n \div 2^j
<1> DEFINE T == {k \in Nat : (n + 1) \div 2^((t + 1) + k) = n \div 2^((t + 1) + k)}
<1>1. t \in Nat /\ n + 1 \in Nat
  BY DEF Lowest
<1>2. 0 \in T
  <2> DEFINE q == n \div 2^t
             h == n \div 2^(t + 1)
             g == (n + 1) \div 2^(t + 1)
  <2>1. q \in Nat /\ h \in Nat /\ q = 2 * h
    BY <1>1, Halves DEF Lowest
  <2>2. (n + 1) \div 2^t = q + 1
    BY <1>1, Carry
  <2>3. g \in Nat /\ (q + 1 = 2 * g \/ q + 1 = 2 * g + 1)
    BY <1>1, <2>2, Halves
  <2> HIDE DEF q, h, g
  <2>4. g = h
    BY <2>1, <2>3
  <2> QED BY <1>1, <2>4 DEF g, h
<1>3. ASSUME NEW k \in Nat, k \in T
      PROVE  k + 1 \in T
  <2> DEFINE j == (t + 1) + k
  <2>1. j \in Nat /\ (t + 1) + (k + 1) = j + 1
    BY <1>1
  <2>2. (n + 1) \div 2^j = n \div 2^j
    BY <1>3
  <2> HIDE DEF j
  <2>3. 2^j \in Nat \ {0} /\ 2^(j + 1) = 2 * 2^j
    BY <2>1, Powers
  <2>4. (n + 1) \div 2^(j + 1) = n \div 2^(j + 1)
    BY <1>1, <2>2, <2>3, DivTwice
  <2> QED BY <2>1, <2>4
<1> HIDE DEF T
<1>4. \A k \in Nat : k \in T
  BY <1>2, <1>3, SetInduction
<1>5. ASSUME NEW j \in Nat, j > t
      PROVE  (n + 1) \div 2^j = n \div 2^j
  <2>1. j - t - 1 \in Nat /\ (t + 1) + (j - t - 1) = j
    BY <1>1, <1>5
  <2> QED BY <1>4, <2>1 DEF T
<1> QED BY <1>5

LEMMA NextBits ==
  ASSUME NEW n \in Nat, NEW t, Lowest(n, t)
  PROVE  /\ Bits(n + 1) = {t} \cup {b \in Bits(n) : b > t}
         /\ t \notin Bits(n) /\ 0..(t - 1) \subseteq Bits(n)
<1>1. t \in Nat /\ n + 1 \in Nat
  BY DEF Lowest
<1>2. \A q \in Nat : (q + 1) % 2 = 1 <=> q % 2 # 1
  OBVIOUS
<1>3. \A b \in 0..t : Bit(n + 1, b) <=> ~ Bit(n, b)
  <2> SUFFICES ASSUME NEW b \in 0..t PROVE Bit(n + 1, b) <=> ~ Bit(n, b)
    OBVIOUS
  <2>1. b \in Nat /\ n \div 2^b \in Nat /\ (n + 1) \div 2^b = n \div 2^b + 1
    BY <1>1, Halves, Carry
  <2> QED BY <1>2, <2>1 DEF Bit
<1>4. \A b \in Nat : b > t => (Bit(n + 1, b) <=> Bit(n, b))
  BY NoCarry DEF Bit
<1>5. \A b \in Nat : Bit(n + 1, b) <=> b = t \/ (b > t /\ Bit(n, b))
  <2> SUFFICES ASSUME NEW b \in Nat PROVE Bit(n + 1, b) <=> b = t \/ (b > t /\ Bit(n, b))
    OBVIOUS
  <2>1. CASE b > t
    BY <1>1, <1>4, <2>1
  <2>2. CASE b = t
    BY <1>1, <1>3, <2>2 DEF Lowest
  <2>3. CASE b < t
    BY <1>1, <1>3, <2>3 DEF Lowest
  <2> QED BY <1>1, <2>1, <2>2, <2>3
<1>6. Bits(n) = {b \in Nat : Bit(n, b)} /\ Bits(n + 1) = {b \in Nat : Bit(n + 1, b)}
  BY <1>1, BitsAre
<1> QED BY <1>1, <1>5, <1>6 DEF Lowest

LEMMA NextStarts ==
  ASSUME NEW n \in Nat, NEW t, Lowest(n, t)
  PROVE  /\ \A b \in Nat : b >= t => MountainStart(n + 1, b) = MountainStart(n, b)
         /\ MountainStart(n + 1, t) = n + 1 - 2^t
         /\ \A b \in 0..(t - 1) : MountainStart(n, b) = n + 1 - 2^(b + 1)
<1>1. t \in Nat /\ n + 1 \in Nat
  BY DEF Lowest
<1>2. ASSUME NEW b \in Nat, b >= t
      PROVE  MountainStart(n + 1, b) = MountainStart(n, b)
  BY <1>1, <1>2, NoCarry, b + 1 \in Nat DEF MountainStart
<1>3. MountainStart(n + 1, t) = n + 1 - 2^t
  <2>1. Bit(n + 1, t)
    BY <1>1, NextBits, BitsAre
  <2>2. /\ Above(n + 1, t) = Above(n + 1, t + 1) + 2^t
        /\ Above(n + 1, t) \in Nat
    BY <1>1, <2>1, AboveStep
  <2>3. Above(n + 1, t) = n + 1
    BY <1>1, Carry DEF Above
  <2>4. MountainStart(n + 1, t) = Above(n + 1, t + 1) /\ MountainStart(n + 1, t) \in Nat
    BY <1>1, StartIsAbove
  <2> QED BY <1>1, <2>2, <2>3, <2>4, Powers
<1>4. ASSUME NEW b \in 0..(t - 1)
      PROVE  MountainStart(n, b) = n + 1 - 2^(b + 1)
  <2>1. b + 1 \in 0..t /\ b + 1 \in Nat /\ b \in Nat
    BY <1>1
  <2> DEFINE q == n \div 2^(b + 1)
             d == 2^(b + 1)
  <2>2. n + 1 = (q + 1) * d
    BY <2>1, Carry
  <2>3. q \in Nat /\ d \in Nat \ {0} /\ MountainStart(n, b) = q * d
    BY <2>1, Halves, Powers DEF MountainStart
  <2> HIDE DEF q, d
  <2>4. (q + 1) * d = q * d + d /\ q * d \in Nat
    BY <2>3
  <2>5. MountainStart(n, b) = n + 1 - d
    BY <2>2, <2>3, <2>4
  <2> QED BY <2>5 DEF d
<1> QED BY <1>2, <1>3, <1>4

-----------------------------------------------------------------------------
(***************************************************************************)
(* Perfect trees. tlapm reads a recursive function as one that CHOOSE      *)
(* picks; that there is one is shown by induction.                         *)
(***************************************************************************)
Roots(s, b) ==
  CHOOSE root : root = [h \in 0..b |->
    [p \in Nat |-> IF h = 0 THEN s[p + 1]
                   ELSE Node(root[h - 1][p], root[h - 1][p + 2^(h - 1)])]]

LEMMA NodesDiffer ==
  ASSUME NEW a, NEW b, NEW c, NEW d, Node(a, b) = Node(c, d)
  PROVE  a = c /\ b = d
BY DEF Node

LEMMA RootsExist ==
  ASSUME NEW s, NEW b \in Nat
  PROVE  Roots(s, b) = [h \in 0..b |->
           [p \in Nat |-> IF h = 0 THEN s[p + 1]
                          ELSE Node(Roots(s, b)[h - 1][p], Roots(s, b)[h - 1][p + 2^(h - 1)])]]
<1> DEFINE Row(root, h) == [p \in Nat |-> IF h = 0 THEN s[p + 1]
                              ELSE Node(root[h - 1][p], root[h - 1][p + 2^(h - 1)])]
           T == {n \in Nat : \E root : root = [h \in 0..n |-> Row(root, h)]}
<1>1. 0 \in T
  <2> DEFINE f == [h \in 0..0 |-> [p \in Nat |-> s[p + 1]]]
  <2>1. \A h \in 0..0 : Row(f, h) = [p \in Nat |-> s[p + 1]]
    OBVIOUS
  <2>2. f = [h \in 0..0 |-> Row(f, h)]
    BY <2>1
  <2> QED BY <2>2
<1>2. ASSUME NEW n \in Nat, n \in T
      PROVE  n + 1 \in T
  <2>1. PICK f : f = [h \in 0..n |-> Row(f, h)]
    BY <1>2
  <2> DEFINE g == [h \in 0..(n + 1) |-> IF h <= n THEN f[h] ELSE Row(f, h)]
  <2>2. \A h \in 0..n : g[h] = f[h]
    OBVIOUS
  <2>3. ASSUME NEW h \in 0..(n + 1)
        PROVE  Row(g, h) = Row(f, h)
    <3>1. CASE h = 0
      BY <3>1
    <3>2. CASE h # 0
      <4>1. h - 1 \in 0..n
        BY <3>2
      <4>2. g[h - 1] = f[h - 1]
        BY <2>2, <4>1
      <4> HIDE DEF g
      <4> QED BY <3>2, <4>2
    <3> QED BY <3>1, <3>2
  <2>4. ASSUME NEW h \in 0..(n + 1)
        PROVE  g[h] = Row(f, h)
    <3>1. CASE h <= n
      <4>1. f[h] = Row(f, h)
        <5>1. h \in 0..n
          BY <3>1
        <5> HIDE DEF Row
        <5> QED BY <2>1, <5>1
      <4> QED BY <2>2, <3>1, <4>1
    <3>2. CASE h > n
      BY <3>2
    <3> QED BY <3>1, <3>2
  <2>5. g = [h \in 0..(n + 1) |-> g[h]]
    OBVIOUS
  <2>6. g = [h \in 0..(n + 1) |-> Row(g, h)]
    <3> HIDE DEF g, Row
    <3> QED BY <2>3, <2>4, <2>5
  <2>7. \E root : root = [h \in 0..(n + 1) |-> Row(root, h)]
    <3> HIDE DEF g, Row
    <3> QED BY <2>6, Zenon
  <2> HIDE DEF g, Row
  <2>8. n + 1 \in Nat
    OBVIOUS
  <2> QED BY <2>7, <2>8, Zenon
<1> HIDE DEF T
<1>3. b \in T
  BY <1>1, <1>2, SetInduction
<1>4. \E root : root = [h \in 0..b |-> Row(root, h)]
  BY <1>3 DEF T
<1> QED BY <1>4 DEF Roots

LEMMA RootsAgree ==
  ASSUME NEW s, NEW b \in Nat, NEW c \in Nat, b <= c
  PROVE  Roots(s, b)[b] = Roots(s, c)[b]
<1> DEFINE f == Roots(s, b)
           g == Roots(s, c)
           T == {h \in Nat : h <= b => f[h] = g[h]}
<1>1. f = [h \in 0..b |->
           [p \in Nat |-> IF h = 0 THEN s[p + 1] ELSE Node(f[h - 1][p], f[h - 1][p + 2^(h - 1)])]]
  BY RootsExist
<1>2. g = [h \in 0..c |->
           [p \in Nat |-> IF h = 0 THEN s[p + 1] ELSE Node(g[h - 1][p], g[h - 1][p + 2^(h - 1)])]]
  BY RootsExist
<1> HIDE DEF f, g
<1>3. 0 \in T
  <2>1. f[0] = [p \in Nat |-> s[p + 1]]
    BY <1>1
  <2>2. g[0] = [p \in Nat |-> s[p + 1]]
    BY <1>2
  <2> QED BY <2>1, <2>2
<1>4. ASSUME NEW h \in Nat, h \in T
      PROVE  h + 1 \in T
  <2> SUFFICES ASSUME h + 1 <= b PROVE f[h + 1] = g[h + 1]
    OBVIOUS
  <2>1. h + 1 \in 0..b /\ h + 1 \in 0..c /\ h + 1 # 0 /\ (h + 1) - 1 = h
    OBVIOUS
  <2>2. f[h + 1] = [p \in Nat |-> Node(f[h][p], f[h][p + 2^h])]
    BY <1>1, <2>1
  <2>3. g[h + 1] = [p \in Nat |-> Node(g[h][p], g[h][p + 2^h])]
    BY <1>2, <2>1
  <2>4. f[h] = g[h]
    BY <1>4
  <2> QED BY <2>2, <2>3, <2>4
<1> HIDE DEF T
<1>5. b \in T
  BY <1>3, <1>4, SetInduction
<1> QED BY <1>5 DEF T, f, g

LEMMA RootSteps ==
  ASSUME NEW s, NEW lo \in Nat
  PROVE  /\ MerkleRoot(s, lo, 0) = s[lo + 1]
         /\ \A h \in Nat : MerkleRoot(s, lo, h + 1)
                             = Node(MerkleRoot(s, lo, h), MerkleRoot(s, lo + 2^h, h))
<1>1. \A p \in Nat : \A b \in Nat : MerkleRoot(s, p, b) = Roots(s, b)[b][p]
  BY DEF MerkleRoot, Roots
<1>2. Roots(s, 0)[0][lo] = s[lo + 1]
  BY RootsExist
<1>3. ASSUME NEW h \in Nat
      PROVE  MerkleRoot(s, lo, h + 1) = Node(MerkleRoot(s, lo, h), MerkleRoot(s, lo + 2^h, h))
  <2> DEFINE c == h + 1
             f == Roots(s, c)
  <2>1. c \in Nat /\ h <= c /\ c \in 0..c /\ c # 0 /\ c - 1 = h /\ lo + 2^h \in Nat
    BY Powers
  <2> HIDE DEF c
  <2>2. f = [i \in 0..c |->
              [p \in Nat |-> IF i = 0 THEN s[p + 1]
                             ELSE Node(f[i - 1][p], f[i - 1][p + 2^(i - 1)])]]
    BY <2>1, RootsExist
  <2>3. f[h] = Roots(s, h)[h]
    BY <2>1, RootsAgree
  <2> HIDE DEF f
  <2>4. f[c] = [p \in Nat |-> Node(f[h][p], f[h][p + 2^h])]
    BY <2>1, <2>2
  <2>5. f[c][lo] = Node(f[h][lo], f[h][lo + 2^h])
    BY <2>4
  <2>6. MerkleRoot(s, lo, c) = f[c][lo]
    BY <1>1, <2>1 DEF f
  <2>7. MerkleRoot(s, lo, h) = f[h][lo] /\ MerkleRoot(s, lo + 2^h, h) = f[h][lo + 2^h]
    BY <1>1, <2>1, <2>3
  <2> QED BY <2>5, <2>6, <2>7 DEF c
<1> QED BY <1>1, <1>2, <1>3

\* A root depends on its leaves only, and determines them.
SameLeaves(s, p, u, q, size) == \A i \in 1..size : s[p + i] = u[q + i]

LEMMA RootOfLeaves ==
  ASSUME NEW s, NEW u
  PROVE  \A h \in Nat : \A p, q \in Nat :
           MerkleRoot(s, p, h) = MerkleRoot(u, q, h)
             <=> SameLeaves(s, p, u, q, 2^h)
<1> DEFINE T == {h \in Nat : \A p, q \in Nat :
                   MerkleRoot(s, p, h) = MerkleRoot(u, q, h)
                     <=> SameLeaves(s, p, u, q, 2^h)}
<1>1. 0 \in T
  <2>1. 1..2^0 = {1}
    BY PowerZero
  <2> QED BY <2>1, RootSteps DEF SameLeaves
<1>2. ASSUME NEW h \in Nat, h \in T
      PROVE  h + 1 \in T
  <2> SUFFICES ASSUME NEW p \in Nat, NEW q \in Nat
               PROVE  MerkleRoot(s, p, h + 1) = MerkleRoot(u, q, h + 1)
                        <=> SameLeaves(s, p, u, q, 2^(h + 1))
    OBVIOUS
  <2> DEFINE d == 2^h
  <2>1. d \in Nat \ {0} /\ 2^(h + 1) = 2 * d
    BY Powers
  <2>2. /\ MerkleRoot(s, p, h + 1) = Node(MerkleRoot(s, p, h), MerkleRoot(s, p + d, h))
        /\ MerkleRoot(u, q, h + 1) = Node(MerkleRoot(u, q, h), MerkleRoot(u, q + d, h))
    BY RootSteps
  <2>3. MerkleRoot(s, p, h) = MerkleRoot(u, q, h) <=> SameLeaves(s, p, u, q, d)
    BY <1>2
  <2>4. MerkleRoot(s, p + d, h) = MerkleRoot(u, q + d, h)
          <=> SameLeaves(s, p + d, u, q + d, d)
    BY <1>2, <2>1, p + d \in Nat, q + d \in Nat
  <2> HIDE DEF d
  <2>5. ASSUME SameLeaves(s, p, u, q, d), SameLeaves(s, p + d, u, q + d, d)
        PROVE  SameLeaves(s, p, u, q, 2 * d)
    <3> SUFFICES ASSUME NEW i \in 1..(2 * d) PROVE s[p + i] = u[q + i]
      BY DEF SameLeaves
    <3>1. CASE i <= d
      BY <2>1, <2>5, <3>1 DEF SameLeaves
    <3>2. CASE i > d
      <4>1. i - d \in 1..d /\ (p + d) + (i - d) = p + i /\ (q + d) + (i - d) = q + i
        BY <2>1, <3>2
      <4> QED BY <2>5, <4>1 DEF SameLeaves
    <3> QED BY <2>1, <3>1, <3>2
  <2>6. ASSUME SameLeaves(s, p, u, q, 2 * d)
        PROVE  SameLeaves(s, p, u, q, d) /\ SameLeaves(s, p + d, u, q + d, d)
    <3>1. \A i \in 1..d : /\ i \in 1..(2 * d) /\ d + i \in 1..(2 * d)
                          /\ (p + d) + i = p + (d + i) /\ (q + d) + i = q + (d + i)
      BY <2>1
    <3> QED BY <2>6, <3>1 DEF SameLeaves
  <2>7. MerkleRoot(s, p, h + 1) = MerkleRoot(u, q, h + 1)
          <=> /\ MerkleRoot(s, p, h) = MerkleRoot(u, q, h)
              /\ MerkleRoot(s, p + d, h) = MerkleRoot(u, q + d, h)
    BY <2>2 DEF Node
  <2> QED BY <2>1, <2>3, <2>4, <2>5, <2>6, <2>7
<1> HIDE DEF T
<1>3. \A h \in Nat : h \in T
  BY <1>1, <1>2, SetInduction
<1> QED BY <1>3 DEF T

-----------------------------------------------------------------------------
(***************************************************************************)
(* The peaks, the smallest mountain first.                                 *)
(***************************************************************************)
LEMMA Places ==
  ASSUME NEW n \in Nat
  PROVE  /\ Cardinality(Bits(n)) \in Nat
         /\ \A b \in Bits(n) : PeakIndex(n, b) \in 0..(Cardinality(Bits(n)) - 1)
         /\ \A b, c \in Bits(n) : PeakIndex(n, b) = PeakIndex(n, c) => b = c
         /\ \A k \in 0..(Cardinality(Bits(n)) - 1) : \E b \in Bits(n) : PeakIndex(n, b) = k
<1>1. Bits(n) \in SUBSET Nat /\ IsFiniteSet(Bits(n))
  BY BitsAre
<1> DEFINE B == Bits(n)
<1> HIDE DEF B
<1>2. /\ Cardinality(B) \in Nat
      /\ \A b \in B : Cardinality({c \in B : c < b}) \in 0..(Cardinality(B) - 1)
      /\ \A b, c \in B : b < c => Cardinality({a \in B : a < b}) < Cardinality({a \in B : a < c})
      /\ \A k \in 0..(Cardinality(B) - 1) : \E b \in B : Cardinality({c \in B : c < b}) = k
  BY <1>1, Ranks DEF B
<1>3. \A b : PeakIndex(n, b) = Cardinality({c \in B : c < b})
  BY DEF PeakIndex, B
<1> DEFINE rank(b) == Cardinality({c \in B : c < b})
<1>4. /\ \A b \in B : rank(b) \in 0..(Cardinality(B) - 1)
      /\ \A b, c \in B : b < c => rank(b) < rank(c)
      /\ \A k \in 0..(Cardinality(B) - 1) : \E b \in B : rank(b) = k
      /\ \A b : PeakIndex(n, b) = rank(b)
  BY <1>2, <1>3
<1> HIDE DEF rank
<1>5. \A b, c \in B : b < c \/ c < b \/ b = c
  BY <1>1 DEF B
<1>6. \A b, c \in B : PeakIndex(n, b) = PeakIndex(n, c) => b = c
  BY <1>2, <1>4, <1>5
<1> QED BY <1>2, <1>4, <1>6 DEF B

LEMMA SummitAt ==
  ASSUME NEW L, NEW s \in Seq(L)
  PROVE  /\ Len(MountainSummits(s)) = Cardinality(Bits(Len(s)))
         /\ DOMAIN MountainSummits(s) = 1..Cardinality(Bits(Len(s)))
         /\ MountainSummits(s) = [k \in 1..Cardinality(Bits(Len(s))) |-> MountainSummits(s)[k]]
         /\ \A b \in Bits(Len(s)) : MountainSummits(s)[PeakIndex(Len(s), b) + 1]
                                      = MerkleRoot(s, MountainStart(Len(s), b), b)
<1> DEFINE n == Len(s)
           m == Cardinality(Bits(n))
           bitAt == [k \in 0..(m - 1) |-> CHOOSE b \in Bits(n) : PeakIndex(n, b) = k]
<1>1. n \in Nat
  OBVIOUS
<1> HIDE DEF n
<1>2. m \in Nat
  BY <1>1, Places
<1>3. MountainSummits(s) = [k \in 1..m |-> MerkleRoot(s, MountainStart(n, bitAt[k - 1]), bitAt[k - 1])]
  BY DEF MountainSummits, n
<1>4. ASSUME NEW b \in Bits(n)
      PROVE  MountainSummits(s)[PeakIndex(n, b) + 1] = MerkleRoot(s, MountainStart(n, b), b)
  <2> DEFINE k == PeakIndex(n, b)
  <2>1. k \in 0..(m - 1)
    BY <1>1, Places
  <2>2. \A c \in Bits(n) : PeakIndex(n, c) = k => c = b
    BY <1>1, Places
  <2>3. bitAt[k] = CHOOSE c \in Bits(n) : PeakIndex(n, c) = k
    BY <2>1
  <2>4. bitAt[k] = b
    BY <2>2, <2>3
  <2> HIDE DEF k, bitAt, m
  <2>5. k + 1 \in 1..m /\ (k + 1) - 1 = k
    BY <1>2, <2>1
  <2> QED BY <1>3, <2>4, <2>5 DEF k
<1> HIDE DEF bitAt, m
<1>5. DOMAIN MountainSummits(s) = 1..m /\ MountainSummits(s) = [k \in 1..m |-> MountainSummits(s)[k]]
  BY <1>3
<1>6. Len(MountainSummits(s)) = m
  BY <1>2, <1>3
<1> QED BY <1>4, <1>5, <1>6 DEF n, m

\* The smaller mountains count.
LEMMA CountFrom ==
  ASSUME NEW t \in Nat, NEW X \in SUBSET Nat, IsFiniteSet(X), \A c \in X : c > t
  PROVE  /\ Cardinality(X) \in Nat
         /\ Cardinality({t} \cup X) = Cardinality(X) + 1
         /\ Cardinality((0..(t - 1)) \cup X) = Cardinality(X) + t
<1>1. Cardinality(X) \in Nat
  BY FS_CardinalityType
<1>2. Cardinality({t} \cup X) = Cardinality(X) + 1
  <2>1. t \notin X
    OBVIOUS
  <2>2. {t} \cup X = X \cup {t}
    OBVIOUS
  <2> QED BY <2>1, <2>2, FS_AddElement
<1>3. Cardinality((0..(t - 1)) \cup X) = Cardinality(X) + t
  <2> DEFINE I == 0..(t - 1)
  <2>1. IsFiniteSet(I) /\ Cardinality(I) = t
    <3>1. 0 \in Int /\ t - 1 \in Int /\ (t - 1) - 0 + 1 = t /\ (0 > t - 1 => t = 0)
      OBVIOUS
    <3> QED BY <3>1, FS_Interval
  <2>2. I \cap X = {}
    <3>1. \A c \in I : c < t /\ ~ c > t
      OBVIOUS
    <3> HIDE DEF I
    <3> QED BY <3>1
  <2> HIDE DEF I
  <2>3. Cardinality(I \cup X) = Cardinality(I) + Cardinality(X) - Cardinality(I \cap X)
    BY <2>1, FS_Union
  <2>4. Cardinality(I \cap X) = 0
    BY <2>2, FS_EmptySet
  <2>5. Cardinality(I \cup X) = Cardinality(X) + t
    BY <1>1, <2>1, <2>3, <2>4
  <2> QED BY <2>5 DEF I
<1> QED BY <1>1, <1>2, <1>3

LEMMA NextPlaces ==
  ASSUME NEW n \in Nat, NEW t, Lowest(n, t)
  PROVE  /\ t \in 0..Cardinality(Bits(n))
         /\ \A b \in 0..(t - 1) : PeakIndex(n, b) = b
         /\ PeakIndex(n + 1, t) = 0
         /\ \A b \in Bits(n) : b > t =>
              PeakIndex(n + 1, b) \in Nat /\ PeakIndex(n, b) = PeakIndex(n + 1, b) + t - 1
         /\ Cardinality(Bits(n + 1)) \in Nat
         /\ Cardinality(Bits(n)) = Cardinality(Bits(n + 1)) + t - 1
<1>1. t \in Nat /\ n + 1 \in Nat
  BY DEF Lowest
<1>2. /\ Bits(n + 1) = {t} \cup {b \in Bits(n) : b > t}
      /\ t \notin Bits(n) /\ 0..(t - 1) \subseteq Bits(n)
  BY NextBits
<1>3. Bits(n) \in SUBSET Nat /\ IsFiniteSet(Bits(n))
  BY BitsAre
<1> DEFINE B == Bits(n)
           C == Bits(n + 1)
<1> HIDE DEF B, C
<1>4. ASSUME NEW b \in Nat, b > t
      PROVE  /\ Cardinality({c \in C : c < b}) \in Nat
             /\ Cardinality({c \in B : c < b}) = Cardinality({c \in C : c < b}) + t - 1
  <2> DEFINE X == {c \in B : t < c /\ c < b}
  <2>1. X \in SUBSET Nat /\ IsFiniteSet(X) /\ \A c \in X : c > t
    BY <1>3, FS_Subset DEF B
  <2>2. {c \in C : c < b} = {t} \cup X
    BY <1>1, <1>2, <1>3, <1>4 DEF B, C
  <2>3. {c \in B : c < b} = (0..(t - 1)) \cup X
    BY <1>1, <1>2, <1>3, <1>4 DEF B
  <2> HIDE DEF X
  <2>4. /\ Cardinality(X) \in Nat
        /\ Cardinality({t} \cup X) = Cardinality(X) + 1
        /\ Cardinality((0..(t - 1)) \cup X) = Cardinality(X) + t
    BY <1>1, <2>1, CountFrom
  <2> QED BY <1>1, <2>2, <2>3, <2>4
<1>5. /\ Cardinality(C) \in Nat
      /\ Cardinality(B) = Cardinality(C) + t - 1
      /\ Cardinality(C) >= 1
  <2> DEFINE X == {c \in B : c > t}
  <2>1. X \in SUBSET Nat /\ IsFiniteSet(X) /\ \A c \in X : c > t
    BY <1>3, FS_Subset DEF B
  <2>2. C = {t} \cup X
    BY <1>2 DEF B, C
  <2>3. B = (0..(t - 1)) \cup X
    BY <1>1, <1>2, <1>3 DEF B
  <2> HIDE DEF X
  <2>4. /\ Cardinality(X) \in Nat
        /\ Cardinality({t} \cup X) = Cardinality(X) + 1
        /\ Cardinality((0..(t - 1)) \cup X) = Cardinality(X) + t
    BY <1>1, <2>1, CountFrom
  <2> QED BY <1>1, <2>2, <2>3, <2>4
<1>6. \A b \in 0..(t - 1) : PeakIndex(n, b) = b
  <2> SUFFICES ASSUME NEW b \in 0..(t - 1) PROVE PeakIndex(n, b) = b
    OBVIOUS
  <2>1. {c \in B : c < b} = 0..(b - 1)
    BY <1>1, <1>2, <1>3 DEF B
  <2>2. Cardinality(0..(b - 1)) = b
    <3>1. 0 \in Int /\ b - 1 \in Int /\ (b - 1) - 0 + 1 = b /\ (0 > b - 1 => b = 0)
      BY <1>1
    <3> QED BY <3>1, FS_Interval
  <2> QED BY <2>1, <2>2 DEF PeakIndex, B
<1>7. PeakIndex(n + 1, t) = 0
  <2>1. {c \in C : c < t} = {}
    BY <1>1, <1>2, <1>3 DEF C
  <2> QED BY <2>1, FS_EmptySet DEF PeakIndex, C
<1>8. \A b \in Bits(n) : b > t =>
        PeakIndex(n + 1, b) \in Nat /\ PeakIndex(n, b) = PeakIndex(n + 1, b) + t - 1
  BY <1>3, <1>4 DEF PeakIndex, B, C
<1>9. t \in 0..Cardinality(Bits(n))
  BY <1>1, <1>5 DEF B
<1> QED BY <1>5, <1>6, <1>7, <1>8, <1>9 DEF B, C

-----------------------------------------------------------------------------
(***************************************************************************)
(* AddLeaf makes the summits of one more leaf out of the summits.          *)
(***************************************************************************)
Climbed(p, leaf) ==
  CHOOSE climbed : climbed = [i \in 0..Len(p) |-> IF i = 0 THEN leaf ELSE Node(p[i], climbed[i - 1])]

LEMMA ClimbedExists ==
  ASSUME NEW p, NEW leaf, Len(p) \in Nat
  PROVE  Climbed(p, leaf)
           = [i \in 0..Len(p) |-> IF i = 0 THEN leaf ELSE Node(p[i], Climbed(p, leaf)[i - 1])]
<1> DEFINE Val(f, i) == IF i = 0 THEN leaf ELSE Node(p[i], f[i - 1])
           T == {n \in Nat : \E f : f = [i \in 0..n |-> Val(f, i)]}
<1>1. 0 \in T
  <2> DEFINE f == [i \in 0..0 |-> leaf]
  <2>1. \A i \in 0..0 : Val(f, i) = leaf
    OBVIOUS
  <2>2. f = [i \in 0..0 |-> Val(f, i)]
    BY <2>1
  <2> QED BY <2>2
<1>2. ASSUME NEW n \in Nat, n \in T
      PROVE  n + 1 \in T
  <2>1. PICK f : f = [i \in 0..n |-> Val(f, i)]
    BY <1>2
  <2> DEFINE g == [i \in 0..(n + 1) |-> IF i <= n THEN f[i] ELSE Val(f, i)]
  <2>2. \A i \in 0..n : g[i] = f[i]
    OBVIOUS
  <2>3. \A i \in 0..(n + 1) : i # 0 => i - 1 \in 0..n
    OBVIOUS
  <2>4. \A i \in 0..(n + 1) : Val(g, i) = Val(f, i)
    <3> HIDE DEF g
    <3> QED BY <2>2, <2>3
  <2>5. \A i \in 0..n : f[i] = Val(f, i)
    <3> HIDE DEF Val
    <3> QED BY <2>1
  <2>6. \A i \in 0..(n + 1) : g[i] = Val(f, i)
    <3> HIDE DEF Val
    <3> QED BY <2>5
  <2>7. g = [i \in 0..(n + 1) |-> g[i]]
    OBVIOUS
  <2>8. g = [i \in 0..(n + 1) |-> Val(g, i)]
    <3> HIDE DEF g, Val
    <3> QED BY <2>4, <2>6, <2>7
  <2> HIDE DEF g, Val
  <2>9. \E h : h = [i \in 0..(n + 1) |-> Val(h, i)]
    BY <2>8, Zenon
  <2>10. n + 1 \in Nat
    OBVIOUS
  <2> QED BY <2>9, <2>10, Zenon
<1> HIDE DEF T
<1>3. Len(p) \in T
  BY <1>1, <1>2, SetInduction
<1>4. \E f : f = [i \in 0..Len(p) |-> Val(f, i)]
  BY <1>3 DEF T
<1> QED BY <1>4 DEF Climbed

\* A new first member in place of the first t.
LEMMA PrependRest ==
  ASSUME NEW E, NEW p \in Seq(E), NEW t \in 0..Len(p), NEW c \in E
  PROVE  <<c>> \o SubSeq(p, t + 1, Len(p))
           = [k \in 1..(Len(p) - t + 1) |-> IF k = 1 THEN c ELSE p[k + t - 1]]
<1> DEFINE r == SubSeq(p, t + 1, Len(p))
<1>1. r \in Seq(E) /\ Len(r) = Len(p) - t /\ \A k \in 1..Len(r) : r[k] = p[k + t]
  OBVIOUS
<1> HIDE DEF r
<1>2. <<c>> \in Seq(E) /\ Len(<<c>>) = 1 /\ <<c>>[1] = c
  OBVIOUS
<1> DEFINE q == <<c>> \o r
<1>3. q \in Seq(E) /\ Len(q) = Len(p) - t + 1
  BY <1>1, <1>2
<1>4. \A k \in 1..Len(q) : q[k] = IF k = 1 THEN c ELSE r[k - 1]
  BY <1>1, <1>2
<1>5. \A k \in 1..Len(q) : k # 1 => k - 1 \in 1..Len(r) /\ (k - 1) + t = k + t - 1
  BY <1>1, <1>3
<1> HIDE DEF q
<1>6. \A k \in 1..Len(q) : q[k] = IF k = 1 THEN c ELSE p[k + t - 1]
  BY <1>1, <1>4, <1>5
<1>7. q = [k \in 1..Len(q) |-> q[k]]
  BY <1>3
<1>8. q = [k \in 1..(Len(p) - t + 1) |-> IF k = 1 THEN c ELSE p[k + t - 1]]
  BY <1>3, <1>6, <1>7
<1> QED BY <1>8 DEF q, r

LEMMA AddLeafIs ==
  ASSUME NEW E, NEW p \in Seq(E), NEW leaf, NEW n \in Nat, NEW t, Lowest(n, t),
         Len(p) = Cardinality(Bits(n))
  PROVE  AddLeaf(p, leaf, n) = <<Climbed(p, leaf)[t]>> \o SubSeq(p, t + 1, Len(p))
<1> DEFINE Top(i) == (i = Len(p) \/ ~ Bit(n, i)) /\ \A j \in 0..(i - 1) : Bit(n, j)
<1>1. t \in Nat /\ t \in 0..Len(p)
  BY NextPlaces DEF Lowest
<1>2. Top(t)
  BY DEF Lowest
<1>3. ASSUME NEW i \in 0..Len(p), Top(i)
      PROVE  i = t
  <2>1. CASE i < t
    <3>1. i = Len(p) /\ Len(p) \in Nat
      BY <1>1, <1>3, <2>1 DEF Lowest
    <3>2. 0..Len(p) \subseteq Bits(n)
      BY <1>1, <2>1, <3>1, NextBits
    <3>3. IsFiniteSet(Bits(n))
      BY BitsAre
    <3>4. IsFiniteSet(0..Len(p)) /\ Cardinality(0..Len(p)) = Len(p) + 1
      BY <3>1, FS_Interval
    <3>5. Cardinality(0..Len(p)) <= Cardinality(Bits(n))
      BY <3>2, <3>3, FS_Subset
    <3> QED BY <3>1, <3>4, <3>5
  <2>2. CASE i > t
    BY <1>1, <1>3, <2>2 DEF Lowest
  <2> QED BY <1>1, <2>1, <2>2
<1>4. (CHOOSE i \in 0..Len(p) : Top(i)) = t
  <2> HIDE DEF Top
  <2> QED BY <1>1, <1>2, <1>3
<1>5. AddLeaf(p, leaf, n)
        = <<Climbed(p, leaf)[CHOOSE i \in 0..Len(p) : Top(i)]>>
            \o SubSeq(p, (CHOOSE i \in 0..Len(p) : Top(i)) + 1, Len(p))
  BY DEF AddLeaf, Climbed
<1> QED BY <1>4, <1>5

\* AddLeaf over the summits of the leaves so far gives those with the new leaf.
LEMMA SummitsGrow ==
  ASSUME NEW L, NEW s \in Seq(L), NEW x \in L
  PROVE  AddLeaf(MountainSummits(s), x, Len(s)) = MountainSummits(Append(s, x))
<1> DEFINE n == Len(s)
           u == Append(s, x)
           p == MountainSummits(s)
           climbed == Climbed(p, x)
           m == Cardinality(Bits(n))
<1>1. n \in Nat /\ u \in Seq(L) /\ Len(u) = n + 1 /\ u[n + 1] = x
      /\ \A i \in 1..n : u[i] = s[i]
  OBVIOUS
<1>2. PICK t \in 0..n : Lowest(n, t)
  BY <1>1, LowestExists
<1>3. t \in Nat /\ m \in Nat /\ t \in 0..m
  BY <1>1, <1>2, Places, NextPlaces
<1>4. /\ Len(p) = m /\ DOMAIN p = 1..m /\ p = [k \in 1..m |-> p[k]]
      /\ \A b \in Bits(n) : p[PeakIndex(n, b) + 1] = MerkleRoot(s, MountainStart(n, b), b)
  BY SummitAt
<1> HIDE DEF n, u, p, m
\* A mountain of s is the same in u.
<1>5. ASSUME NEW b \in Bits(n)
      PROVE  /\ b \in Nat /\ MountainStart(n, b) \in Nat
             /\ MerkleRoot(u, MountainStart(n, b), b) = p[PeakIndex(n, b) + 1]
  <2>1. b \in Nat /\ b + 1 \in Nat /\ Bit(n, b)
    BY <1>1, BitsAre
  <2>2. /\ Above(n, b) = MountainStart(n, b) + 2^b
        /\ Above(n, b) \in Nat /\ MountainStart(n, b) \in Nat
    BY <1>1, <2>1, AboveStep, StartIsAbove
  <2>3. Above(n, b) <= n
    BY <1>1, <2>1, AboveFalls, AboveEnds
  <2>4. 2^b \in Nat
    BY <2>1, Powers
  <2>5. \A i \in 1..2^b : u[MountainStart(n, b) + i] = s[MountainStart(n, b) + i]
    BY <1>1, <2>2, <2>3, <2>4
  <2>6. MerkleRoot(u, MountainStart(n, b), b) = MerkleRoot(s, MountainStart(n, b), b)
    <3> DEFINE lo == MountainStart(n, b)
    <3>1. lo \in Nat /\ \A i \in 1..2^b : u[lo + i] = s[lo + i]
      BY <2>2, <2>5
    <3> HIDE DEF lo
    <3>2. SameLeaves(u, lo, s, lo, 2^b)
      BY <3>1 DEF SameLeaves
    <3>3. MerkleRoot(u, lo, b) = MerkleRoot(s, lo, b)
      BY <2>1, <3>1, <3>2, RootOfLeaves
    <3> QED BY <3>3 DEF lo
  <2> QED BY <1>4, <2>1, <2>2, <2>6
<1>6. climbed = [i \in 0..m |-> IF i = 0 THEN x ELSE Node(p[i], climbed[i - 1])]
  <2>1. Len(p) \in Nat
    BY <1>3, <1>4
  <2>2. climbed = [i \in 0..Len(p) |-> IF i = 0 THEN x ELSE Node(p[i], climbed[i - 1])]
    BY <2>1, ClimbedExists
  <2> HIDE DEF climbed
  <2> QED BY <1>4, <2>2
<1> HIDE DEF climbed
\* The climb of the leaf.
<1>7. climbed[t] = MerkleRoot(u, n + 1 - 2^t, t)
  <2> DEFINE T == {i \in Nat : i <= t =>
                     n + 1 - 2^i \in Nat /\ climbed[i] = MerkleRoot(u, n + 1 - 2^i, i)}
  <2>1. 0 \in T
    <3>1. n + 1 - 2^0 = n
      BY <1>1, PowerZero
    <3>2. climbed[0] = x
      BY <1>3, <1>6
    <3>3. MerkleRoot(u, n, 0) = u[n + 1]
      BY <1>1, RootSteps
    <3> QED BY <1>1, <3>1, <3>2, <3>3
  <2>2. ASSUME NEW i \in Nat, i \in T
        PROVE  i + 1 \in T
    <3> SUFFICES ASSUME i + 1 <= t
                 PROVE  /\ n + 1 - 2^(i + 1) \in Nat
                        /\ climbed[i + 1] = MerkleRoot(u, n + 1 - 2^(i + 1), i + 1)
      OBVIOUS
    <3> DEFINE d == 2^i
               lo == n + 1 - 2^(i + 1)
    <3>1. d \in Nat \ {0} /\ 2^(i + 1) = 2 * d
      BY Powers
    <3>2. i \in 0..(t - 1) /\ i \in Bits(n) /\ PeakIndex(n, i) = i /\ MountainStart(n, i) = lo
      <4>1. i \in 0..(t - 1)
        BY <1>3
      <4>2. i \in Bits(n)
        BY <1>1, <1>2, <4>1, NextBits
      <4>3. PeakIndex(n, i) = i
        BY <1>1, <1>2, <4>1, NextPlaces
      <4>4. MountainStart(n, i) = lo
        BY <1>1, <1>2, <4>1, NextStarts
      <4> QED BY <4>1, <4>2, <4>3, <4>4
    <3>3. lo \in Nat /\ MerkleRoot(u, lo, i) = p[i + 1]
      BY <1>5, <3>2
    <3>4. climbed[i] = MerkleRoot(u, n + 1 - d, i)
      BY <2>2
    <3>5. climbed[i + 1] = Node(p[i + 1], climbed[i])
      BY <1>3, <1>6
    <3>6. lo + d = n + 1 - d
      BY <1>1, <3>1
    <3>7. MerkleRoot(u, lo, i + 1) = Node(MerkleRoot(u, lo, i), MerkleRoot(u, lo + d, i))
      BY <3>3, RootSteps
    <3> QED BY <3>3, <3>4, <3>5, <3>6, <3>7
  <2> HIDE DEF T
  <2>3. t \in T
    BY <1>3, <2>1, <2>2, SetInduction
  <2> QED BY <1>3, <2>3 DEF T
<1> DEFINE E == {p[k] : k \in 1..m} \cup {climbed[t]}
<1>8. p \in Seq(E)
  <2>1. \A k \in 1..m : p[k] \in E
    OBVIOUS
  <2> HIDE DEF E
  <2> QED BY <1>3, <1>4, <2>1
<1>9. climbed[t] \in E
  OBVIOUS
<1> HIDE DEF E
<1>10. AddLeaf(p, x, n) = <<climbed[t]>> \o SubSeq(p, t + 1, Len(p))
  <2>1. Len(p) = Cardinality(Bits(n))
    BY <1>4 DEF m
  <2> QED BY <1>1, <1>2, <1>8, <2>1, AddLeafIs DEF climbed
<1>11. AddLeaf(p, x, n) = [k \in 1..(m - t + 1) |-> IF k = 1 THEN climbed[t] ELSE p[k + t - 1]]
  <2>1. Len(p) = m /\ t \in 0..Len(p)
    BY <1>3, <1>4
  <2>2. <<climbed[t]>> \o SubSeq(p, t + 1, Len(p))
          = [k \in 1..(Len(p) - t + 1) |-> IF k = 1 THEN climbed[t] ELSE p[k + t - 1]]
    BY <1>8, <1>9, <2>1, PrependRest
  <2> QED BY <1>10, <2>1, <2>2
<1> DEFINE v == MountainSummits(u)
           w == Cardinality(Bits(n + 1))
<1>12. /\ v = [k \in 1..w |-> v[k]]
       /\ \A b \in Bits(n + 1) : v[PeakIndex(n + 1, b) + 1] = MerkleRoot(u, MountainStart(n + 1, b), b)
  BY <1>1, SummitAt
<1>13. w \in Nat /\ w = m - t + 1
  BY <1>1, <1>2, <1>3, NextPlaces DEF m
<1>14. \A k \in 0..(w - 1) : \E b \in Bits(n + 1) : PeakIndex(n + 1, b) = k
  <2>1. n + 1 \in Nat
    BY <1>1
  <2> QED BY <2>1, Places
<1> HIDE DEF v, w
<1>15. ASSUME NEW k \in 1..w
       PROVE  v[k] = IF k = 1 THEN climbed[t] ELSE p[k + t - 1]
  <2>1. PICK b \in Bits(n + 1) : PeakIndex(n + 1, b) = k - 1
    BY <1>13, <1>14
  <2>2. v[k] = MerkleRoot(u, MountainStart(n + 1, b), b)
    <3>1. (k - 1) + 1 = k
      OBVIOUS
    <3> QED BY <1>12, <2>1, <3>1
  <2>3. b = t \/ (b \in Bits(n) /\ b > t)
    BY <1>1, <1>2, NextBits
  <2>4. CASE b = t
    <3>1. k = 1
      BY <1>1, <1>2, <2>1, <2>4, NextPlaces
    <3>2. MountainStart(n + 1, t) = n + 1 - 2^t
      BY <1>1, <1>2, NextStarts
    <3> QED BY <1>7, <2>2, <2>4, <3>1, <3>2
  <2>5. CASE b \in Bits(n) /\ b > t
    <3>1. b \in Nat /\ MerkleRoot(u, MountainStart(n, b), b) = p[PeakIndex(n, b) + 1]
      BY <1>5, <2>5
    <3>2. MountainStart(n + 1, b) = MountainStart(n, b)
      BY <1>1, <1>2, <1>3, <2>5, <3>1, NextStarts
    <3>3. PeakIndex(n, b) + 1 = k + t - 1
      BY <1>1, <1>2, <1>3, <2>1, <2>5, NextPlaces
    <3>4. k # 1
      <4>1. t \in Bits(n + 1) /\ PeakIndex(n + 1, t) = 0
        BY <1>1, <1>2, NextBits, NextPlaces
      <4>2. n + 1 \in Nat
        BY <1>1
      <4>3. PeakIndex(n + 1, b) = PeakIndex(n + 1, t) => b = t
        BY <2>1, <4>1, <4>2, Places
      <4> QED BY <1>3, <2>1, <2>5, <3>1, <4>1, <4>3
    <3> QED BY <2>2, <3>1, <3>2, <3>3, <3>4
  <2> QED BY <2>3, <2>4, <2>5
<1>16. v = [k \in 1..w |-> IF k = 1 THEN climbed[t] ELSE p[k + t - 1]]
  BY <1>12, <1>15
<1>17. AddLeaf(p, x, n) = v
  BY <1>11, <1>13, <1>16
<1> QED BY <1>17 DEF p, n, v, u

-----------------------------------------------------------------------------
(***************************************************************************)
(* MMRRootFromLeaves.                                                      *)
(***************************************************************************)
PeaksAfter(s, m) ==
  CHOOSE peak : peak = [i \in 0..m |-> IF i = 0 THEN <<>> ELSE AddLeaf(peak[i - 1], s[i], i - 1)]

LEMMA PeaksAfterExists ==
  ASSUME NEW s, NEW m \in Nat
  PROVE  PeaksAfter(s, m)
           = [i \in 0..m |-> IF i = 0 THEN <<>> ELSE AddLeaf(PeaksAfter(s, m)[i - 1], s[i], i - 1)]
<1> DEFINE Val(f, i) == IF i = 0 THEN <<>> ELSE AddLeaf(f[i - 1], s[i], i - 1)
           T == {n \in Nat : \E f : f = [i \in 0..n |-> Val(f, i)]}
<1>1. 0 \in T
  <2> DEFINE f == [i \in 0..0 |-> <<>>]
  <2>1. \A i \in 0..0 : Val(f, i) = <<>>
    OBVIOUS
  <2>2. f = [i \in 0..0 |-> Val(f, i)]
    BY <2>1
  <2> QED BY <2>2
<1>2. ASSUME NEW n \in Nat, n \in T
      PROVE  n + 1 \in T
  <2>1. PICK f : f = [i \in 0..n |-> Val(f, i)]
    BY <1>2
  <2> DEFINE g == [i \in 0..(n + 1) |-> IF i <= n THEN f[i] ELSE Val(f, i)]
  <2>2. \A i \in 0..n : g[i] = f[i]
    OBVIOUS
  <2>3. \A i \in 0..(n + 1) : i # 0 => i - 1 \in 0..n
    OBVIOUS
  <2>4. \A i \in 0..(n + 1) : Val(g, i) = Val(f, i)
    <3> HIDE DEF g
    <3> QED BY <2>2, <2>3
  <2>5. \A i \in 0..n : f[i] = Val(f, i)
    <3> HIDE DEF Val
    <3> QED BY <2>1
  <2>6. \A i \in 0..(n + 1) : g[i] = Val(f, i)
    <3> HIDE DEF Val
    <3> QED BY <2>5
  <2>7. g = [i \in 0..(n + 1) |-> g[i]]
    OBVIOUS
  <2>8. g = [i \in 0..(n + 1) |-> Val(g, i)]
    <3> HIDE DEF g, Val
    <3> QED BY <2>4, <2>6, <2>7
  <2> HIDE DEF g, Val
  <2>9. \E h : h = [i \in 0..(n + 1) |-> Val(h, i)]
    BY <2>8, Zenon
  <2>10. n + 1 \in Nat
    OBVIOUS
  <2> QED BY <2>9, <2>10, Zenon
<1> HIDE DEF T
<1>3. m \in T
  BY <1>1, <1>2, SetInduction
<1>4. \E f : f = [i \in 0..m |-> Val(f, i)]
  BY <1>3 DEF T
<1> QED BY <1>4 DEF PeaksAfter

\* The peaks kept leaf by leaf are the summits computed from all leaves.
THEOREM PeaksAreSummits ==
  ASSUME NEW L, NEW s \in Seq(L)
  PROVE  Peaks(s) = MountainSummits(s)
<1> DEFINE m == Len(s)
           f == PeaksAfter(s, m)
           T == {i \in Nat : i <= m => f[i] = MountainSummits(SubSeq(s, 1, i))}
<1>1. m \in Nat
  OBVIOUS
<1>2. f = [i \in 0..m |-> IF i = 0 THEN <<>> ELSE AddLeaf(f[i - 1], s[i], i - 1)]
  BY <1>1, PeaksAfterExists
<1>3. Peaks(s) = f[m]
  BY DEF Peaks, PeaksAfter
<1> HIDE DEF f, m
<1>4. 0 \in T
  <2> DEFINE e == SubSeq(s, 1, 0)
  <2>1. e \in Seq(L) /\ Len(e) = 0
    OBVIOUS
  <2> HIDE DEF e
  <2>2. Cardinality(Bits(0)) = 0
    <3>1. \A b \in Bits(0) : FALSE
      BY Powers DEF Bits
    <3> QED BY <3>1, FS_EmptySet
  <2>3. DOMAIN MountainSummits(e) = 1..0 /\ MountainSummits(e) = [k \in 1..0 |-> MountainSummits(e)[k]]
    BY <2>1, <2>2, SummitAt
  <2>4. MountainSummits(e) = <<>>
    BY <2>3
  <2>5. f[0] = <<>>
    BY <1>1, <1>2
  <2> QED BY <2>4, <2>5 DEF e
<1>5. ASSUME NEW i \in Nat, i \in T
      PROVE  i + 1 \in T
  <2> SUFFICES ASSUME i + 1 <= m PROVE f[i + 1] = MountainSummits(SubSeq(s, 1, i + 1))
    OBVIOUS
  <2> DEFINE a == SubSeq(s, 1, i)
  <2>1. a \in Seq(L) /\ Len(a) = i /\ s[i + 1] \in L /\ SubSeq(s, 1, i + 1) = Append(a, s[i + 1])
    BY <1>1 DEF m
  <2>2. f[i] = MountainSummits(a)
    BY <1>1, <1>5
  <2>3. f[i + 1] = AddLeaf(f[i], s[i + 1], i)
    BY <1>1, <1>2
  <2> HIDE DEF a
  <2>4. AddLeaf(MountainSummits(a), s[i + 1], i) = MountainSummits(Append(a, s[i + 1]))
    BY <2>1, SummitsGrow
  <2> QED BY <2>1, <2>2, <2>3, <2>4
<1> HIDE DEF T
<1>6. m \in T
  BY <1>1, <1>4, <1>5, SetInduction
<1>7. f[m] = MountainSummits(SubSeq(s, 1, m))
  BY <1>1, <1>6 DEF T
<1>8. SubSeq(s, 1, m) = s
  BY DEF m
<1> QED BY <1>3, <1>7, <1>8

-----------------------------------------------------------------------------
(***************************************************************************)
(* Inclusion proofs.                                                       *)
(***************************************************************************)
ClimbNodes(p, n) ==
  CHOOSE node : node = [j \in 0..Len(p.proof) |->
    IF j = 0 THEN p.leaf
    ELSE IF Even(Sub(p.index, n, j - 1)) THEN Node(node[j - 1], p.proof[j])
                                         ELSE Node(p.proof[j], node[j - 1])]

LEMMA ClimbNodesExist ==
  ASSUME NEW p, NEW n, Len(p.proof) \in Nat
  PROVE  ClimbNodes(p, n) = [j \in 0..Len(p.proof) |->
           IF j = 0 THEN p.leaf
           ELSE IF Even(Sub(p.index, n, j - 1)) THEN Node(ClimbNodes(p, n)[j - 1], p.proof[j])
                                                ELSE Node(p.proof[j], ClimbNodes(p, n)[j - 1])]
<1> DEFINE Val(f, j) == IF j = 0 THEN p.leaf
                        ELSE IF Even(Sub(p.index, n, j - 1)) THEN Node(f[j - 1], p.proof[j])
                                                             ELSE Node(p.proof[j], f[j - 1])
           T == {m \in Nat : \E f : f = [j \in 0..m |-> Val(f, j)]}
<1>1. 0 \in T
  <2> DEFINE f == [j \in 0..0 |-> p.leaf]
  <2>1. \A j \in 0..0 : Val(f, j) = p.leaf
    OBVIOUS
  <2>2. f = [j \in 0..0 |-> Val(f, j)]
    BY <2>1
  <2> QED BY <2>2
<1>2. ASSUME NEW m \in Nat, m \in T
      PROVE  m + 1 \in T
  <2>1. PICK f : f = [j \in 0..m |-> Val(f, j)]
    BY <1>2
  <2> DEFINE g == [j \in 0..(m + 1) |-> IF j <= m THEN f[j] ELSE Val(f, j)]
  <2>2. \A j \in 0..m : g[j] = f[j]
    OBVIOUS
  <2>3. \A j \in 0..(m + 1) : j # 0 => j - 1 \in 0..m
    OBVIOUS
  <2>4. \A j \in 0..(m + 1) : Val(g, j) = Val(f, j)
    <3> HIDE DEF g
    <3> QED BY <2>2, <2>3
  <2>5. \A j \in 0..m : f[j] = Val(f, j)
    <3> HIDE DEF Val
    <3> QED BY <2>1
  <2>6. \A j \in 0..(m + 1) : g[j] = Val(f, j)
    <3> HIDE DEF Val
    <3> QED BY <2>5
  <2>7. g = [j \in 0..(m + 1) |-> g[j]]
    OBVIOUS
  <2>8. g = [j \in 0..(m + 1) |-> Val(g, j)]
    <3> HIDE DEF g, Val
    <3> QED BY <2>4, <2>6, <2>7
  <2> HIDE DEF g, Val
  <2>9. \E h : h = [j \in 0..(m + 1) |-> Val(h, j)]
    BY <2>8, Zenon
  <2>10. m + 1 \in Nat
    OBVIOUS
  <2> QED BY <2>9, <2>10, Zenon
<1> HIDE DEF T
<1>3. Len(p.proof) \in T
  BY <1>1, <1>2, SetInduction
<1>4. \E f : f = [j \in 0..Len(p.proof) |-> Val(f, j)]
  BY <1>3 DEF T
<1> QED BY <1>4 DEF ClimbNodes

\* The tree over position l of a mountain from st, j levels up.
TreeAt(s, st, l, j) == MerkleRoot(s, st + (l \div 2^j) * 2^j, j)
SiblingAt(s, st, l, j) == MerkleRoot(s, st + Sibling(l \div 2^j) * 2^j, j)

LEMMA ParentTree ==
  ASSUME NEW s, NEW st \in Nat, NEW l \in Nat, NEW j \in Nat
  PROVE  TreeAt(s, st, l, j + 1)
           = IF Even(l \div 2^j) THEN Node(TreeAt(s, st, l, j), SiblingAt(s, st, l, j))
                                 ELSE Node(SiblingAt(s, st, l, j), TreeAt(s, st, l, j))
<1> DEFINE a == l \div 2^j
           h == l \div 2^(j + 1)
           d == 2^j
<1>1. d \in Nat \ {0} /\ 2^(j + 1) = 2 * d
  BY Powers
<1>2. a \in Nat /\ h \in Nat /\ h = a \div 2
  <2>1. a \in Nat /\ h \in Nat
    BY Halves
  <2>2. h = l \div (2 * d) /\ a = l \div d
    BY <1>1
  <2> HIDE DEF a, h, d
  <2>3. l \div (2 * d) = (l \div d) \div 2
    BY <1>1, DivTwice
  <2> QED BY <2>1, <2>2, <2>3
<1> DEFINE lo == st + h * (2 * d)
<1>3. TreeAt(s, st, l, j + 1) = MerkleRoot(s, lo, j + 1)
  BY <1>1 DEF TreeAt
<1>4. /\ TreeAt(s, st, l, j) = MerkleRoot(s, st + a * d, j)
      /\ SiblingAt(s, st, l, j) = MerkleRoot(s, st + Sibling(a) * d, j)
  BY DEF TreeAt, SiblingAt
<1> HIDE DEF a, h, d
<1>5. lo \in Nat
  BY <1>1, <1>2
<1>6. MerkleRoot(s, lo, j + 1) = Node(MerkleRoot(s, lo, j), MerkleRoot(s, lo + d, j))
  <2> HIDE DEF lo
  <2> QED BY <1>5, RootSteps DEF d
<1>7. CASE a % 2 = 0
  <2>1. Even(a) /\ Sibling(a) = a + 1 /\ a = 2 * h
    BY <1>2, <1>7 DEF Even, Sibling
  <2>2. st + a * d = lo
    BY <1>1, <1>2, <2>1
  <2>3. st + (a + 1) * d = lo + d
    BY <1>1, <1>2, <2>1
  <2> HIDE DEF lo
  <2> QED BY <1>3, <1>4, <1>6, <2>1, <2>2, <2>3 DEF a
<1>8. CASE a % 2 # 0
  <2>1. ~ Even(a) /\ Sibling(a) = a - 1 /\ a = 2 * h + 1
    BY <1>2, <1>8 DEF Even, Sibling
  <2>2. st + a * d = lo + d
    BY <1>1, <1>2, <2>1
  <2>3. st + (a - 1) * d = lo
    BY <1>1, <1>2, <2>1
  <2> HIDE DEF lo
  <2> QED BY <1>3, <1>4, <1>6, <2>1, <2>2, <2>3 DEF a
<1> QED BY <1>7, <1>8

LEMMA TreeEnds ==
  ASSUME NEW s, NEW st \in Nat, NEW b \in Nat, NEW l \in 0..(2^b - 1)
  PROVE  /\ TreeAt(s, st, l, 0) = s[st + l + 1]
         /\ TreeAt(s, st, l, b) = MerkleRoot(s, st, b)
<1>1. 2^b \in Nat \ {0}
  BY Powers
<1>2. l \in Nat /\ l \div 2^0 = l /\ 2^0 = 1
  BY <1>1, PowerZero
<1>3. TreeAt(s, st, l, 0) = MerkleRoot(s, st + l, 0)
  BY <1>2 DEF TreeAt
<1>4. l = 0 * 2^b + l
  BY <1>1
<1>5. l \div 2^b = 0
  BY <1>1, <1>4, DivUnique
<1>6. TreeAt(s, st, l, b) = MerkleRoot(s, st, b)
  BY <1>1, <1>5 DEF TreeAt
<1> QED BY <1>2, <1>3, <1>6, RootSteps

\* A proof for position at, whose mountain starts at st and has height b.
ClimbsIn(p, n, at, st, b) ==
  /\ n \in Nat /\ at \in 0..(n - 1)
  /\ b = Mountain(n, at) /\ st = MountainStart(n, b)
  /\ p.index = at /\ Len(p.proof) = b

LEMMA InMountain ==
  ASSUME NEW p, NEW n, NEW at, NEW st, NEW b, ClimbsIn(p, n, at, st, b)
  PROVE  /\ b \in Nat /\ st \in Nat /\ at - st \in 0..(2^b - 1)
         /\ st + 2^b <= n
         /\ \A j : Sub(p.index, n, j) = (at - st) \div 2^j
         /\ Climb(p, n) = ClimbNodes(p, n)[b]
         /\ ClimbNodes(p, n)[0] = p.leaf
         /\ \A j \in 0..(b - 1) : ClimbNodes(p, n)[j + 1]
              = IF Even((at - st) \div 2^j) THEN Node(ClimbNodes(p, n)[j], p.proof[j + 1])
                                            ELSE Node(p.proof[j + 1], ClimbNodes(p, n)[j])
<1> USE DEF ClimbsIn
<1>1. /\ b \in Bits(n) /\ st <= at /\ at < st + 2^b
  BY InOneMountain
<1>2. b \in Nat /\ Bit(n, b)
  BY <1>1, BitsAre
<1>3. st \in Nat /\ Above(n, b) = st + 2^b /\ Above(n, b) <= n /\ 2^b \in Nat
  <2>1. b + 1 \in Nat
    BY <1>2
  <2>2. st = Above(n, b + 1) /\ st \in Nat
    BY <1>2, StartIsAbove
  <2>3. Above(n, b) = Above(n, b + 1) + 2^b
    BY <1>2, AboveStep
  <2>4. Above(n, b) <= n
    BY <1>2, AboveFalls, AboveEnds
  <2> QED BY <1>2, <2>2, <2>3, <2>4, Powers
<1>4. \A j : Sub(p.index, n, j) = (at - st) \div 2^j
  BY DEF Sub
<1>5. Climb(p, n) = ClimbNodes(p, n)[b]
  BY DEF Climb, ClimbNodes
<1> DEFINE f == ClimbNodes(p, n)
<1>6. f = [j \in 0..b |->
             IF j = 0 THEN p.leaf
             ELSE IF Even(Sub(p.index, n, j - 1)) THEN Node(f[j - 1], p.proof[j])
                                                  ELSE Node(p.proof[j], f[j - 1])]
  <2>1. Len(p.proof) \in Nat /\ Len(p.proof) = b
    BY <1>2
  <2>2. f = [j \in 0..Len(p.proof) |->
             IF j = 0 THEN p.leaf
             ELSE IF Even(Sub(p.index, n, j - 1)) THEN Node(f[j - 1], p.proof[j])
                                                  ELSE Node(p.proof[j], f[j - 1])]
    BY <2>1, ClimbNodesExist
  <2> HIDE DEF f
  <2> QED BY <2>1, <2>2
<1> HIDE DEF f, ClimbsIn
<1>7. f[0] = p.leaf
  BY <1>2, <1>6
<1>8. ASSUME NEW j \in 0..(b - 1)
      PROVE  f[j + 1] = IF Even((at - st) \div 2^j) THEN Node(f[j], p.proof[j + 1])
                                                    ELSE Node(p.proof[j + 1], f[j])
  <2>1. j + 1 \in 0..b /\ j + 1 # 0 /\ (j + 1) - 1 = j
    BY <1>2
  <2> QED BY <1>4, <1>6, <2>1
<1>9. at \in Nat
  BY DEF ClimbsIn
<1> QED BY <1>1, <1>2, <1>3, <1>4, <1>5, <1>7, <1>8, <1>9 DEF f

\* From its own leaf and siblings a proof reaches the root of its mountain.
LEMMA ClimbUp ==
  ASSUME NEW p, NEW n, NEW at, NEW st, NEW b, ClimbsIn(p, n, at, st, b), NEW s,
         p.leaf = s[at + 1],
         \A j \in 0..(b - 1) : p.proof[j + 1] = SiblingAt(s, st, at - st, j)
  PROVE  Climb(p, n) = MerkleRoot(s, st, b)
<1> DEFINE f == ClimbNodes(p, n)
           l == at - st
<1>1. /\ b \in Nat /\ st \in Nat /\ l \in 0..(2^b - 1)
      /\ Climb(p, n) = f[b] /\ f[0] = p.leaf
      /\ \A j \in 0..(b - 1) : f[j + 1] = IF Even(l \div 2^j) THEN Node(f[j], p.proof[j + 1])
                                                              ELSE Node(p.proof[j + 1], f[j])
  BY InMountain
<1>2. at \in Nat /\ st + l = at
  BY <1>1 DEF ClimbsIn
<1>3. \A j \in 0..(b - 1) : p.proof[j + 1] = SiblingAt(s, st, l, j)
  OBVIOUS
<1> HIDE DEF f, l
<1>4. l \in Nat /\ TreeAt(s, st, l, 0) = s[at + 1] /\ TreeAt(s, st, l, b) = MerkleRoot(s, st, b)
  <2>1. TreeAt(s, st, l, 0) = s[st + l + 1] /\ TreeAt(s, st, l, b) = MerkleRoot(s, st, b)
    BY <1>1, TreeEnds
  <2>2. 2^b \in Nat
    BY <1>1, Powers
  <2>3. l \in Nat
    BY <1>1, <2>2
  <2>4. st + l + 1 = at + 1
    BY <1>2
  <2> QED BY <2>1, <2>3, <2>4
<1> DEFINE T == {j \in Nat : j <= b => f[j] = TreeAt(s, st, l, j)}
<1>5. 0 \in T
  BY <1>1, <1>4
<1>6. ASSUME NEW j \in Nat, j \in T
      PROVE  j + 1 \in T
  <2> SUFFICES ASSUME j + 1 <= b PROVE f[j + 1] = TreeAt(s, st, l, j + 1)
    OBVIOUS
  <2>1. f[j] = TreeAt(s, st, l, j) /\ j \in 0..(b - 1)
    BY <1>1, <1>6
  <2>2. p.proof[j + 1] = SiblingAt(s, st, l, j)
    BY <1>3, <2>1
  <2> QED BY <1>1, <1>4, <2>1, <2>2, ParentTree
<1> HIDE DEF T
<1>7. b \in T
  BY <1>1, <1>5, <1>6, SetInduction
<1> QED BY <1>1, <1>4, <1>7 DEF T

\* If a proof reaches the root of the mountain of s, then its leaf and its siblings
\* are those of s.
LEMMA ClimbDown ==
  ASSUME NEW p, NEW n, NEW at, NEW st, NEW b, ClimbsIn(p, n, at, st, b), NEW s,
         Climb(p, n) = MerkleRoot(s, st, b)
  PROVE  /\ p.leaf = s[at + 1]
         /\ \A j \in 0..(b - 1) : p.proof[j + 1] = SiblingAt(s, st, at - st, j)
<1> DEFINE f == ClimbNodes(p, n)
           l == at - st
<1>1. /\ b \in Nat /\ st \in Nat /\ l \in 0..(2^b - 1)
      /\ Climb(p, n) = f[b] /\ f[0] = p.leaf
      /\ \A j \in 0..(b - 1) : f[j + 1] = IF Even(l \div 2^j) THEN Node(f[j], p.proof[j + 1])
                                                              ELSE Node(p.proof[j + 1], f[j])
  BY InMountain
<1>2. at \in Nat /\ st + l = at
  BY <1>1 DEF ClimbsIn
<1> HIDE DEF f, l
<1>3. l \in Nat /\ TreeAt(s, st, l, 0) = s[at + 1] /\ TreeAt(s, st, l, b) = MerkleRoot(s, st, b)
  <2>1. TreeAt(s, st, l, 0) = s[st + l + 1] /\ TreeAt(s, st, l, b) = MerkleRoot(s, st, b)
    BY <1>1, TreeEnds
  <2>2. 2^b \in Nat
    BY <1>1, Powers
  <2>3. l \in Nat
    BY <1>1, <2>2
  <2>4. st + l + 1 = at + 1
    BY <1>2
  <2> QED BY <2>1, <2>3, <2>4
<1>4. ASSUME NEW j \in 0..(b - 1), f[j + 1] = TreeAt(s, st, l, j + 1)
      PROVE  f[j] = TreeAt(s, st, l, j) /\ p.proof[j + 1] = SiblingAt(s, st, l, j)
  <2>1. j \in Nat
    BY <1>1
  <2>2. TreeAt(s, st, l, j + 1)
          = IF Even(l \div 2^j) THEN Node(TreeAt(s, st, l, j), SiblingAt(s, st, l, j))
                                ELSE Node(SiblingAt(s, st, l, j), TreeAt(s, st, l, j))
    BY <1>1, <1>3, <2>1, ParentTree
  <2>3. CASE Even(l \div 2^j)
    <3>1. Node(f[j], p.proof[j + 1]) = Node(TreeAt(s, st, l, j), SiblingAt(s, st, l, j))
      BY <1>1, <1>4, <2>2, <2>3
    <3> QED BY <3>1, NodesDiffer
  <2>4. CASE ~ Even(l \div 2^j)
    <3>1. Node(p.proof[j + 1], f[j]) = Node(SiblingAt(s, st, l, j), TreeAt(s, st, l, j))
      BY <1>1, <1>4, <2>2, <2>4
    <3> QED BY <3>1, NodesDiffer
  <2> QED BY <2>3, <2>4
<1> DEFINE T == {k \in Nat : k <= b => f[b - k] = TreeAt(s, st, l, b - k)}
<1>5. 0 \in T
  BY <1>1, <1>3
<1>6. ASSUME NEW k \in Nat, k \in T
      PROVE  k + 1 \in T
  <2> SUFFICES ASSUME k + 1 <= b PROVE f[b - (k + 1)] = TreeAt(s, st, l, b - (k + 1))
    OBVIOUS
  <2> DEFINE j == b - (k + 1)
  <2>1. j \in 0..(b - 1) /\ j + 1 = b - k
    BY <1>1
  <2>2. f[b - k] = TreeAt(s, st, l, b - k)
    BY <1>1, <1>6
  <2> HIDE DEF j
  <2>3. f[j] = TreeAt(s, st, l, j)
    BY <1>4, <2>1, <2>2
  <2> QED BY <2>3 DEF j
<1> HIDE DEF T
<1>7. \A k \in Nat : k \in T
  BY <1>5, <1>6, SetInduction
<1>8. ASSUME NEW j \in 0..b
      PROVE  f[j] = TreeAt(s, st, l, j)
  <2>1. b - j \in Nat /\ b - j <= b /\ b - (b - j) = j
    BY <1>1
  <2>2. f[b - (b - j)] = TreeAt(s, st, l, b - (b - j))
    BY <1>7, <2>1 DEF T
  <2> QED BY <2>1, <2>2
<1>9. \A j \in 0..(b - 1) : p.proof[j + 1] = SiblingAt(s, st, l, j)
  <2> SUFFICES ASSUME NEW j \in 0..(b - 1) PROVE p.proof[j + 1] = SiblingAt(s, st, l, j)
    OBVIOUS
  <2>1. j + 1 \in 0..b
    BY <1>1
  <2> QED BY <1>4, <1>8, <2>1
<1>10. p.leaf = s[at + 1]
  BY <1>1, <1>3, <1>8
<1> QED BY <1>9, <1>10 DEF l

LEMMA ProofShape ==
  ASSUME NEW L, NEW s \in Seq(L), NEW pos \in 0..(Len(s) - 1), NEW b, NEW st, NEW p,
         b = Mountain(Len(s), pos), st = MountainStart(Len(s), b), p = GenerateInclusionProof(s, pos)
  PROVE  /\ b \in Nat
         /\ p = [index |-> pos, leaf |-> s[pos + 1], peaks |-> MountainSummits(s), proof |-> p.proof]
         /\ Len(p.proof) = b
         /\ \A j \in 0..(b - 1) : p.proof[j + 1] = SiblingAt(s, st, pos - st, j)
<1> DEFINE n == Len(s)
           proof == [j \in 1..b |-> MerkleRoot(s, st + Sibling(Sub(pos, n, j - 1)) * 2^(j - 1), j - 1)]
<1>1. n \in Nat /\ pos \in 0..(n - 1)
  OBVIOUS
<1>2. b \in Nat
  <2> HIDE DEF n
  <2>1. Mountain(n, pos) \in Bits(n)
    BY <1>1, InOneMountain
  <2> QED BY <1>1, <2>1, BitsAre DEF n
<1>3. p = [index |-> pos, leaf |-> s[pos + 1], peaks |-> MountainSummits(s), proof |-> proof]
  BY DEF GenerateInclusionProof
<1>4. \A j : Sub(pos, n, j) = (pos - st) \div 2^j
  BY DEF Sub
<1>5. p.proof = proof
  <2> HIDE DEF proof
  <2> QED BY <1>3
<1>6. Len(p.proof) = b
  BY <1>2, <1>5
<1>7. \A j \in 0..(b - 1) : p.proof[j + 1] = SiblingAt(s, st, pos - st, j)
  <2> SUFFICES ASSUME NEW j \in 0..(b - 1) PROVE p.proof[j + 1] = SiblingAt(s, st, pos - st, j)
    OBVIOUS
  <2>1. j + 1 \in 1..b /\ (j + 1) - 1 = j
    BY <1>2
  <2>2. proof[j + 1] = MerkleRoot(s, st + Sibling(Sub(pos, n, j)) * 2^j, j)
    BY <2>1
  <2>3. proof[j + 1] = SiblingAt(s, st, pos - st, j)
    <3> HIDE DEF proof, n
    <3> QED BY <1>4, <2>2 DEF SiblingAt
  <2> HIDE DEF proof
  <2> QED BY <1>5, <2>3
<1>8. p = [index |-> pos, leaf |-> s[pos + 1], peaks |-> MountainSummits(s), proof |-> p.proof]
  <2> HIDE DEF proof
  <2> QED BY <1>3, <1>5
<1> QED BY <1>2, <1>6, <1>7, <1>8

\* What the verification against the summits of u comes to.
LEMMA VerifiedPeak ==
  ASSUME NEW L, NEW u \in Seq(L), NEW at \in 0..(Len(u) - 1), NEW b, NEW st, NEW q,
         b = Mountain(Len(u), at), st = MountainStart(Len(u), b), q.index = at,
         VerifyInclusionProof(q, MountainSummits(u), Len(u))
  PROVE  ClimbsIn(q, Len(u), at, st, b) /\ Climb(q, Len(u)) = MerkleRoot(u, st, b)
<1> DEFINE n == Len(u)
           k == PeakIndex(n, b)
           m == Cardinality(Bits(n))
<1>1. n \in Nat /\ at \in 0..(n - 1)
  OBVIOUS
<1>2. Len(q.proof) = b /\ [q.peaks EXCEPT ![k + 1] = Climb(q, n)] = MountainSummits(u)
  BY DEF VerifyInclusionProof
<1>3. /\ DOMAIN MountainSummits(u) = 1..m
      /\ \A c \in Bits(n) : MountainSummits(u)[PeakIndex(n, c) + 1]
                              = MerkleRoot(u, MountainStart(n, c), c)
  BY SummitAt
<1> HIDE DEF n
<1>4. b \in Bits(n)
  <2>1. Mountain(n, at) \in Bits(n)
    BY <1>1, InOneMountain
  <2> QED BY <2>1 DEF n
<1>5. m \in Nat /\ k \in 0..(m - 1)
  BY <1>1, <1>4, Places
<1> HIDE DEF k, m
<1>6. k + 1 \in DOMAIN MountainSummits(u)
  BY <1>3, <1>5
<1>7. MountainSummits(u)[k + 1] = Climb(q, n)
  BY <1>2, <1>6
<1>8. MountainSummits(u)[k + 1] = MerkleRoot(u, st, b)
  BY <1>3, <1>4 DEF k, n
<1> QED BY <1>1, <1>2, <1>7, <1>8 DEF ClimbsIn, n

\* A proof made over other leaves verifies only for a leaf both have at its place.
LEMMA ProofSound ==
  ASSUME NEW L, NEW s \in Seq(L), NEW u \in Seq(L), NEW pos \in 0..(Len(s) - 1),
         VerifyInclusionProof(GenerateInclusionProof(s, pos), MountainSummits(u), Len(u))
  PROVE  pos < Len(u) /\ u[pos + 1] = s[pos + 1]
<1> DEFINE p == GenerateInclusionProof(s, pos)
           b == Mountain(Len(s), pos)
           st == MountainStart(Len(s), b)
           c == Mountain(Len(u), pos)
           su == MountainStart(Len(u), c)
<1>1. /\ b \in Nat /\ Len(p.proof) = b /\ p.index = pos /\ p.leaf = s[pos + 1]
  <2> HIDE DEF p, b, st
  <2>1. b = Mountain(Len(s), pos) /\ st = MountainStart(Len(s), b) /\ p = GenerateInclusionProof(s, pos)
    BY DEF p, b, st
  <2>2. /\ b \in Nat
        /\ p = [index |-> pos, leaf |-> s[pos + 1], peaks |-> MountainSummits(s), proof |-> p.proof]
        /\ Len(p.proof) = b
    BY <2>1, ProofShape
  <2> QED BY <2>2
<1>2. VerifyInclusionProof(p, MountainSummits(u), Len(u))
  OBVIOUS
<1> HIDE DEF p
<1>3. pos \in 0..(Len(u) - 1)
  BY <1>1, <1>2 DEF VerifyInclusionProof
<1>4. ClimbsIn(p, Len(u), pos, su, c) /\ Climb(p, Len(u)) = MerkleRoot(u, su, c)
  BY <1>1, <1>2, <1>3, VerifiedPeak
<1> HIDE DEF b, st, c, su
<1>5. p.leaf = u[pos + 1]
  BY <1>4, ClimbDown
<1> QED BY <1>1, <1>3, <1>5

LEMMA OtherLeaf ==
  ASSUME NEW i, NEW x, NEW ps, NEW path, NEW j, NEW y, NEW p, NEW q,
         p = [index |-> i, leaf |-> x, peaks |-> ps, proof |-> path],
         q = [p EXCEPT !.index = j, !.leaf = y]
  PROVE  q.index = j /\ q.leaf = y /\ q.peaks = ps /\ q.proof = path
<1>1. DOMAIN p = {"index", "leaf", "peaks", "proof"}
  OBVIOUS
<1>2. q.index = j /\ q.leaf = y
  BY <1>1
<1>3. q.peaks = ps /\ q.proof = path
  BY <1>1
<1> QED BY <1>2, <1>3

\* The proof p shown for another position and leaf.
WithClaim(p, at, x) == [p EXCEPT !.index = at, !.leaf = x]

\* A proof verifies against the summits of its own leaves, and there for its own
\* position and leaf only.
LEMMA ProofVerifies ==
  ASSUME NEW L, NEW s \in Seq(L), \A i, j \in 1..Len(s) : s[i] = s[j] => i = j,
         NEW pos \in 0..(Len(s) - 1), NEW at \in 0..(Len(s) - 1), NEW x,
         NEW q, q = WithClaim(GenerateInclusionProof(s, pos), at, x)
  PROVE  VerifyInclusionProof(q, MountainSummits(s), Len(s)) <=> at = pos /\ x = s[pos + 1]
<1> DEFINE n == Len(s)
           p == GenerateInclusionProof(s, pos)
           b == Mountain(n, pos)
           st == MountainStart(n, b)
<1>1. n \in Nat /\ pos \in 0..(n - 1) /\ at \in 0..(n - 1)
  OBVIOUS
<1>2. /\ b \in Nat
      /\ p = [index |-> pos, leaf |-> s[pos + 1], peaks |-> MountainSummits(s), proof |-> p.proof]
      /\ Len(p.proof) = b
      /\ \A j \in 0..(b - 1) : p.proof[j + 1] = SiblingAt(s, st, pos - st, j)
  <2> HIDE DEF p, b, st
  <2>1. b = Mountain(Len(s), pos) /\ st = MountainStart(Len(s), b) /\ p = GenerateInclusionProof(s, pos)
    BY DEF p, b, st
  <2> QED BY <2>1, ProofShape
<1> HIDE DEF p
<1>3. q = [p EXCEPT !.index = at, !.leaf = x]
  BY DEF WithClaim, p
<1>4. q.index = at /\ q.leaf = x /\ q.peaks = MountainSummits(s) /\ q.proof = p.proof
  <2> DEFINE path == p.proof
  <2> HIDE DEF path
  <2>1. p = [index |-> pos, leaf |-> s[pos + 1], peaks |-> MountainSummits(s), proof |-> path]
    BY <1>2 DEF path
  <2>2. q.index = at /\ q.leaf = x /\ q.peaks = MountainSummits(s) /\ q.proof = path
    BY <1>3, <2>1, OtherLeaf
  <2> QED BY <2>2 DEF path
<1>5. b = Mountain(Len(s), pos) /\ st = MountainStart(Len(s), b)
  OBVIOUS
<1>6. b \in Bits(n)
  <2> HIDE DEF n
  <2> QED BY <1>1, InOneMountain
<1> HIDE DEF b, st
<1>7. ASSUME at = pos, x = s[pos + 1]
      PROVE  VerifyInclusionProof(q, MountainSummits(s), n)
  <2>1. ClimbsIn(q, n, pos, st, b)
    BY <1>1, <1>2, <1>4, <1>5, <1>7 DEF ClimbsIn
  <2>2. Climb(q, n) = MerkleRoot(s, st, b)
    BY <1>2, <1>4, <1>7, <2>1, ClimbUp
  <2> DEFINE k == PeakIndex(n, b)
             m == Cardinality(Bits(n))
             v == MountainSummits(s)
  <2>3. /\ Len(v) = m /\ v = [j \in 1..m |-> v[j]]
        /\ v[k + 1] = MerkleRoot(s, st, b)
    BY <1>5, <1>6, SummitAt
  <2>4. m \in Nat /\ k \in 0..(m - 1)
    <3> HIDE DEF n
    <3> QED BY <1>1, <1>6, Places
  <2> HIDE DEF k, m, v
  <2>5. [v EXCEPT ![k + 1] = Climb(q, n)] = v
    BY <2>2, <2>3, <2>4
  <2>6. v # <<>> /\ k < Len(v)
    BY <2>3, <2>4
  <2>7. Len(q.proof) = b /\ n > 0 /\ q.index < n /\ Mountain(n, q.index) = b
    BY <1>1, <1>2, <1>4, <1>5, <1>7
  <2>8. q.peaks # <<>> /\ k < Len(q.peaks) /\ [q.peaks EXCEPT ![k + 1] = Climb(q, n)] = MountainSummits(s)
    BY <1>4, <2>5, <2>6 DEF v
  <2> QED BY <2>7, <2>8 DEF VerifyInclusionProof, k
<1>8. ASSUME VerifyInclusionProof(q, MountainSummits(s), n)
      PROVE  at = pos /\ x = s[pos + 1]
  <2> DEFINE c == Mountain(Len(s), at)
             su == MountainStart(Len(s), c)
  <2>1. c = Mountain(Len(s), at) /\ su = MountainStart(Len(s), c)
    OBVIOUS
  <2> HIDE DEF c, su
  <2>2. ClimbsIn(q, n, at, su, c) /\ Climb(q, n) = MerkleRoot(s, su, c)
    BY <1>4, <1>8, <2>1, VerifiedPeak
  <2>3. c = b /\ su = st
    BY <1>2, <1>4, <1>5, <2>1, <2>2 DEF ClimbsIn
  <2>4. ClimbsIn(q, n, at, st, b) /\ Climb(q, n) = MerkleRoot(s, st, b)
    BY <2>2, <2>3
  <2>5. q.leaf = s[at + 1] /\ \A j \in 0..(b - 1) : q.proof[j + 1] = SiblingAt(s, st, at - st, j)
    BY <2>4, ClimbDown
  <2>6. st \in Nat /\ st + 2^b <= n /\ at - st \in 0..(2^b - 1)
    BY <2>4, InMountain
  <2>7. pos - st \in 0..(2^b - 1)
    <3>1. p.index = pos /\ Len(p.proof) = b
      <4> DEFINE path == p.proof
      <4> HIDE DEF path
      <4>1. p = [index |-> pos, leaf |-> s[pos + 1], peaks |-> MountainSummits(s), proof |-> path]
        BY <1>2 DEF path
      <4>2. p.index = pos
        BY <4>1
      <4> QED BY <1>2, <4>2
    <3>2. ClimbsIn(p, n, pos, st, b)
      BY <1>1, <1>5, <3>1 DEF ClimbsIn
    <3> QED BY <3>2, InMountain
  <2>8. at = pos
    <3>1. CASE b = 0
      BY <1>1, <2>6, <2>7, <3>1, PowerZero
    <3>2. CASE b # 0
      <4> DEFINE k == at - st
                 l == pos - st
      <4>1. b - 1 \in Nat /\ 0 \in 0..(b - 1) /\ (b - 1) + 1 = b
        BY <1>2, <3>2
      <4> DEFINE d == 2^(b - 1)
      <4>2. d \in Nat \ {0} /\ 2^b = 2 * d
        <5>1. 2^(b - 1) \in Nat \ {0} /\ 2^((b - 1) + 1) = 2 * 2^(b - 1)
          BY <4>1, Powers
        <5> QED BY <4>1, <5>1
      <4>3. SiblingAt(s, st, k, 0) = SiblingAt(s, st, l, 0)
        BY <1>2, <1>4, <2>5, <4>1
      <4>4. k \in 0..(2 * d - 1) /\ l \in 0..(2 * d - 1) /\ st + 2 * d <= n
        BY <2>6, <2>7, <4>2
      <4> HIDE DEF d, k, l
      <4>5. ASSUME NEW i \in 0..(2 * d - 1)
            PROVE  /\ Sibling(i) \in 0..(2 * d - 1)
                   /\ SiblingAt(s, st, i, 0) = s[st + Sibling(i) + 1]
        <5>1. i \in Nat /\ Sibling(i) \in 0..(2 * d - 1)
          BY <4>2 DEF Sibling, Even
        <5>2. i \div 2^0 = i /\ 2^0 = 1
          BY <5>1, PowerZero
        <5>3. st + Sibling(i) \in Nat /\ Sibling(i) * 1 = Sibling(i)
          BY <2>6, <4>2, <5>1
        <5>4. SiblingAt(s, st, i, 0) = MerkleRoot(s, st + Sibling(i), 0)
          BY <5>2, <5>3 DEF SiblingAt
        <5> QED BY <5>1, <5>3, <5>4, RootSteps
      <4>6. s[st + Sibling(k) + 1] = s[st + Sibling(l) + 1]
        BY <4>3, <4>4, <4>5
      <4>7. st + Sibling(k) + 1 \in 1..n /\ st + Sibling(l) + 1 \in 1..n
        <5>1. Sibling(k) \in 0..(2 * d - 1) /\ Sibling(l) \in 0..(2 * d - 1)
          BY <4>4, <4>5
        <5>2. \A i \in 0..(2 * d - 1) : st + i + 1 \in 1..n
          <6> HIDE DEF n
          <6> QED BY <1>1, <2>6, <4>2, <4>4
        <5> QED BY <5>1, <5>2
      <4>8. st + Sibling(k) + 1 = st + Sibling(l) + 1
        BY <4>6, <4>7
      <4>9. Sibling(k) = Sibling(l)
        <5>1. Sibling(k) \in 0..(2 * d - 1) /\ Sibling(l) \in 0..(2 * d - 1)
          BY <4>4, <4>5
        <5> QED BY <2>6, <4>2, <4>8, <5>1
      <4>10. k = l
        BY <4>2, <4>4, <4>9 DEF Sibling, Even
      <4> QED BY <1>1, <2>6, <4>10 DEF k, l
    <3> QED BY <3>1, <3>2
  <2> QED BY <1>4, <2>5, <2>8
<1> QED BY <1>7, <1>8 DEF n

-----------------------------------------------------------------------------
(***************************************************************************)
(* The device and its server. Inv is the inductive invariant.              *)
(***************************************************************************)
Leaf == {LeafHash(k) : k \in Nat}

\* The server's leaves are in the order they were made, and its peaks are theirs.
InOrder == \A i, j \in 1..Len(leaves) : i < j => leaves[i][1] < leaves[j][1]

Leaves ==
  /\ leaves \in Seq(Leaf) /\ Len(leaves) > 0
  /\ InOrder
  /\ peaks = Peaks(leaves)

\* The saved position has the root of the leaves it stands for.
SavedPosition ==
  /\ saved.hash \in Seq(Leaf) /\ saved.total \in Nat
  /\ saved.hash = <<>> => saved.total = 0
  /\ saved.root = Peaks(saved.hash)

\* So has the one of a catch-up, which is the saved one until a page was not enough.
RequestOK ==
  request # NoRequest =>
    /\ request.from \in Nat
    /\ request.hash \in Seq(Leaf)
    /\ request.root = Peaks(request.hash)
    /\ request.hash = <<>> => request.from = 0
    /\ \/ request.hash = saved.hash /\ request.from = SavedHeight
       \/ request.from >= SavedHeight + CatchUpPageSize

Inv == Leaves /\ SavedPosition /\ RequestOK

LEMMA PeaksEmpty == Peaks(<<>>) = <<>>
<1>1. Peaks(<<>>) = PeaksAfter(<<>>, 0)[0]
  BY DEF Peaks, PeaksAfter
<1> QED BY <1>1, PeaksAfterExists

LEMMA PeaksAppend ==
  ASSUME NEW L, NEW s \in Seq(L), NEW x \in L
  PROVE  Peaks(Append(s, x)) = AddLeaf(Peaks(s), x, Len(s))
<1>1. Append(s, x) \in Seq(L)
  OBVIOUS
<1> QED BY <1>1, PeaksAreSummits, SummitsGrow

LEMMA ChainIs ==
  ASSUME NEW n \in Nat, NEW lacking \in Int
  PROVE  /\ Chain(n, lacking) \in Seq(Leaf) /\ Len(Chain(n, lacking)) = n
         /\ \A i, j \in 1..n : i < j => Chain(n, lacking)[i][1] < Chain(n, lacking)[j][1]
<1> DEFINE at(i) == IF i < lacking THEN i ELSE i + 1
           c == Chain(n, lacking)
<1>1. c = [i \in 1..n |-> LeafHash(at(i))]
  BY DEF Chain
<1>2. \A i \in 1..n : at(i) \in Nat
  OBVIOUS
<1>3. \A i, j \in 1..n : i < j => at(i) < at(j)
  OBVIOUS
<1> HIDE DEF at, c
<1>4. \A i \in 1..n : LeafHash(at(i)) \in Leaf
  BY <1>2 DEF Leaf
<1>5. \A i \in 1..n : c[i][1] = at(i)
  BY <1>1 DEF LeafHash
<1>6. c \in Seq(Leaf) /\ Len(c) = n
  BY <1>1, <1>4
<1> QED BY <1>3, <1>5, <1>6 DEF c

LEMMA LeafNumber ==
  ASSUME NEW l \in Leaf
  PROVE  l[1] \in Nat /\ l = LeafHash(l[1])
<1>1. PICK k \in Nat : l = LeafHash(k)
  BY DEF Leaf
<1>2. LeafHash(k)[1] = k
  BY DEF LeafHash
<1> QED BY <1>1, <1>2

\* Where a page starts and ends.
LEMMA PageAt ==
  ASSUME Inv, request # NoRequest, ~ PageEmpty, Known
  PROVE  /\ FirstNew - 1 \in Nat /\ PageEnd \in Nat
         /\ FirstNew - 1 <= PageEnd /\ 0 < PageEnd /\ PageEnd <= Len(leaves)
         /\ request.root = Peaks(SubSeq(leaves, 1, FirstNew - 1))
<1>0. /\ request.from \in Nat
      /\ request.root = Peaks(request.hash)
      /\ request.hash = <<>> => request.from = 0
      /\ leaves \in Seq(Leaf)
      /\ CatchUpPageSize \in Nat \ {0}
  BY AuditAssumption DEF Inv, RequestOK, Leaves
<1>2. Len(leaves) \in Nat
  BY <1>0
<1>1. /\ request.from \in Nat /\ request.from < Len(leaves)
      /\ request.root = Peaks(request.hash)
      /\ request.hash = <<>> => request.from = 0
      /\ leaves \in Seq(Leaf)
      /\ CatchUpPageSize \in Nat \ {0}
  BY <1>0, <1>2 DEF PageEmpty
<1>3. FirstNew - 1 = IF request.hash = <<>> THEN request.from ELSE request.from + 1
  BY <1>1 DEF FirstNew
<1>4. request.hash = SubSeq(leaves, 1, FirstNew - 1)
  <2>1. CASE request.hash = <<>>
    BY <1>1, <1>3, <2>1
  <2>2. CASE request.hash # <<>>
    BY <1>3, <2>2 DEF Known
  <2> QED BY <2>1, <2>2
<1>5. request.root = Peaks(SubSeq(leaves, 1, FirstNew - 1))
  BY <1>1, <1>4
<1>6. FirstNew - 1 \in Nat /\ FirstNew - 1 <= request.from + 1
  BY <1>1, <1>3
<1>7. /\ PageEnd \in Nat /\ 0 < PageEnd /\ PageEnd <= Len(leaves)
      /\ request.from + 1 <= PageEnd
  BY <1>1, <1>2 DEF PageEnd
<1>8. FirstNew - 1 <= PageEnd
  BY <1>1, <1>6, <1>7
<1> QED BY <1>5, <1>6, <1>7, <1>8

\* The peaks a device computes over a page are those of the leaves up to each block.
LEMMA GrownIs ==
  ASSUME Inv, request # NoRequest, ~ PageEmpty, Known
  PROVE  \A i \in (FirstNew - 1)..PageEnd : Grown[i] = Peaks(SubSeq(leaves, 1, i))
<1> DEFINE a == FirstNew - 1
           b == PageEnd
           g == Grown
           first == request.root
           Val(f, i) == IF i = a THEN first ELSE AddLeaf(f[i - 1], leaves[i], i - 1)
           whole == [i \in a..b |-> Peaks(SubSeq(leaves, 1, i))]
<1>1. /\ a \in Nat /\ b \in Nat /\ a <= b /\ b <= Len(leaves)
      /\ first = Peaks(SubSeq(leaves, 1, a))
  BY PageAt
<1>2. g = CHOOSE f : f = [i \in a..b |-> Val(f, i)]
  BY DEF Grown
<1>3. leaves \in Seq(Leaf)
  BY DEF Inv, Leaves
<1> HIDE DEF a, b, g, first
<1>4. ASSUME NEW i \in a..b, i # a
      PROVE  Peaks(SubSeq(leaves, 1, i))
               = AddLeaf(Peaks(SubSeq(leaves, 1, i - 1)), leaves[i], i - 1)
  <2> DEFINE s == SubSeq(leaves, 1, i - 1)
  <2>1. i \in 1..Len(leaves)
    BY <1>1, <1>3, <1>4
  <2>2. s \in Seq(Leaf) /\ Len(s) = i - 1 /\ leaves[i] \in Leaf
    BY <1>3, <2>1
  <2>3. SubSeq(leaves, 1, i) = Append(s, leaves[i])
    BY <1>3, <2>1
  <2> HIDE DEF s
  <2> QED BY <2>2, <2>3, PeaksAppend DEF s
<1>5. whole = [i \in a..b |-> Val(whole, i)]
  <2>1. ASSUME NEW i \in a..b PROVE Peaks(SubSeq(leaves, 1, i)) = Val(whole, i)
    <3>1. CASE i = a
      BY <1>1, <3>1
    <3>2. CASE i # a
      <4>1. i - 1 \in a..b
        BY <1>1, <3>2
      <4>2. whole[i - 1] = Peaks(SubSeq(leaves, 1, i - 1))
        BY <4>1
      <4> HIDE DEF whole
      <4> QED BY <1>4, <3>2, <4>2
    <3> QED BY <3>1, <3>2
  <2> QED BY <2>1
<1> HIDE DEF whole
<1>6. g = [i \in a..b |-> Val(g, i)]
  <2>1. \E f : f = [i \in a..b |-> Val(f, i)]
    BY <1>5
  <2> HIDE DEF Val
  <2> QED BY <1>2, <2>1
<1> DEFINE T == {i \in Int : i <= b => g[i] = Peaks(SubSeq(leaves, 1, i))}
<1>7. a \in T
  BY <1>1, <1>6
<1>8. ASSUME NEW n \in Int, n >= a, n \in T
      PROVE  n + 1 \in T
  <2> SUFFICES ASSUME n + 1 <= b PROVE g[n + 1] = Peaks(SubSeq(leaves, 1, n + 1))
    OBVIOUS
  <2>1. n + 1 \in a..b /\ n + 1 # a /\ (n + 1) - 1 = n
    BY <1>1, <1>8
  <2>2. g[n] = Peaks(SubSeq(leaves, 1, n))
    BY <1>1, <1>8
  <2>3. g[n + 1] = Val(g, n + 1)
    BY <1>6, <2>1
  <2>4. g[n + 1] = AddLeaf(g[n], leaves[n + 1], n)
    BY <2>1, <2>3
  <2>5. Peaks(SubSeq(leaves, 1, n + 1)) = AddLeaf(Peaks(SubSeq(leaves, 1, n)), leaves[n + 1], n)
    BY <1>4, <2>1
  <2> QED BY <2>2, <2>4, <2>5
<1> HIDE DEF T
<1>9. \A n \in Int : n >= a => n \in T
  BY <1>1, <1>7, <1>8, SetInductionFrom
<1>10. \A i \in a..b : g[i] = Peaks(SubSeq(leaves, 1, i))
  BY <1>1, <1>9 DEF T
<1> QED BY <1>10 DEF a, b, g

LEMMA KnownMatches ==
  ASSUME Inv, request # NoRequest, ~ PageEmpty, Known
  PROVE  RootsMatch
<1>1. FirstNew \in Nat
  BY DEF Inv, RequestOK, FirstNew
<1>2. \A i \in FirstNew..PageEnd : i \in (FirstNew - 1)..PageEnd
  BY <1>1, PageAt
<1> QED BY <1>2, GrownIs DEF RootsMatch

\* What the server does keeps the device's part.
LEMMA ServerKeeps ==
  ASSUME Inv, Leaves', saved' = saved, request' = request
  PROVE  Inv'
BY DEF Inv, SavedPosition, RequestOK, SavedHeight

LEMMA InitInv == ASSUME AuditInit PROVE Inv
<1> DEFINE l == LeafHash(1)
           c == Chain(1, 2)
<1>1. /\ leaves = c /\ peaks = AddLeaf(<<>>, l, 0)
      /\ saved = [hash |-> <<>>, root |-> <<>>, total |-> 0] /\ request = NoRequest
  BY DEF AuditInit, NoPosition
<1>2. c \in Seq(Leaf) /\ Len(c) = 1 /\ \A i, j \in 1..1 : i < j => c[i][1] < c[j][1]
  <2> DEFINE one == 1
             two == 2
  <2>1. one \in Nat /\ two \in Int /\ c = Chain(one, two)
    OBVIOUS
  <2> HIDE DEF one, two, c
  <2>2. c \in Seq(Leaf) /\ Len(c) = one /\ \A i, j \in 1..one : i < j => c[i][1] < c[j][1]
    BY <2>1, ChainIs
  <2> QED BY <2>2 DEF one
<1>3. c[1] = l
  BY DEF Chain
<1>4. l \in Leaf
  BY DEF Leaf
<1> HIDE DEF c, l
<1>5. c = Append(<<>>, l)
  BY <1>2, <1>3
<1>6. Peaks(c) = AddLeaf(<<>>, l, 0)
  <2>1. <<>> \in Seq(Leaf) /\ Len(<<>>) = 0
    OBVIOUS
  <2> QED BY <1>4, <1>5, <2>1, PeaksAppend, PeaksEmpty
<1>7. Leaves
  BY <1>1, <1>2, <1>6 DEF Leaves, InOrder
<1>8. SavedPosition
  BY <1>1, <1>2, PeaksEmpty DEF SavedPosition
<1> QED BY <1>1, <1>7, <1>8 DEF Inv, RequestOK

LEMMA AcceptInv == ASSUME Inv, AcceptLeaf PROVE Inv'
<1> DEFINE n == Len(leaves)
           k == leaves[n][1]
           l == LeafHash(k + 1)
<1>1. /\ leaves' = Append(leaves, l) /\ peaks' = AddLeaf(peaks, l, n)
      /\ saved' = saved /\ request' = request
  BY DEF AcceptLeaf
<1>2. leaves \in Seq(Leaf) /\ n \in Nat \ {0} /\ InOrder /\ peaks = Peaks(leaves)
  BY DEF Inv, Leaves
<1>3. leaves[n] \in Leaf
  BY <1>2
<1>4. k \in Nat /\ \A i \in 1..n : leaves[i][1] \in Nat /\ leaves[i][1] <= k
  <2>1. \A i \in 1..n : leaves[i] \in Leaf
    BY <1>2
  <2>2. \A i \in 1..n : leaves[i][1] \in Nat
    BY <2>1, LeafNumber
  <2>3. \A i \in 1..n : i = n \/ leaves[i][1] < k
    BY <1>2 DEF InOrder
  <2> QED BY <1>2, <2>2, <2>3
<1>5. l \in Leaf /\ l[1] = k + 1
  BY <1>4 DEF Leaf, LeafHash
<1> HIDE DEF l
<1>6. /\ leaves' \in Seq(Leaf) /\ Len(leaves') = n + 1
      /\ \A i \in 1..n : leaves'[i] = leaves[i]
      /\ leaves'[n + 1] = l
  BY <1>1, <1>2, <1>5
<1>7. ASSUME NEW i \in 1..(n + 1), NEW j \in 1..(n + 1), i < j
      PROVE  leaves'[i][1] < leaves'[j][1]
  <2>1. i \in 1..n
    BY <1>2, <1>7
  <2>2. CASE j \in 1..n
    BY <1>2, <1>6, <1>7, <2>1, <2>2 DEF InOrder
  <2>3. CASE j = n + 1
    <3>1. leaves'[i][1] <= k /\ leaves'[i][1] \in Nat
      BY <1>4, <1>6, <2>1
    <3>2. leaves'[j][1] = k + 1
      BY <1>5, <1>6, <2>3
    <3> QED BY <1>4, <3>1, <3>2
  <2> QED BY <1>2, <2>2, <2>3
<1>8. peaks' = Peaks(leaves')
  BY <1>1, <1>2, <1>5, PeaksAppend
<1>9. Leaves'
  BY <1>2, <1>6, <1>7, <1>8 DEF Leaves, InOrder
<1> QED BY <1>1, <1>9, ServerKeeps

LEMMA ReplaceInv == ASSUME Inv, Replace PROVE Inv'
<1>1. MaxLeaves \in Nat
  BY AuditAssumption
<1>2. PICK n \in 1..MaxLeaves : \E lacking \in 2..(n + 1) :
        /\ leaves' = Chain(n, lacking)
        /\ peaks' = Peaks(leaves')
        /\ UNCHANGED <<saved, request, failed>>
  BY DEF Replace
<1>3. PICK lacking \in 2..(n + 1) :
        /\ leaves' = Chain(n, lacking)
        /\ peaks' = Peaks(leaves')
        /\ UNCHANGED <<saved, request, failed>>
  BY <1>2
<1>4. n \in Nat /\ n > 0 /\ lacking \in Int
  BY <1>1
<1>5. /\ leaves' \in Seq(Leaf) /\ Len(leaves') = n
      /\ \A i, j \in 1..n : i < j => leaves'[i][1] < leaves'[j][1]
  BY <1>3, <1>4, ChainIs
<1>6. Leaves'
  BY <1>1, <1>3, <1>4, <1>5 DEF Leaves, InOrder
<1> QED BY <1>3, <1>6, ServerKeeps

LEMMA SyncInv == ASSUME Inv, Sync PROVE Inv'
<1>1. /\ saved' = [hash |-> leaves, root |-> peaks, total |-> Len(leaves)]
      /\ request = NoRequest /\ request' = request /\ leaves' = leaves /\ peaks' = peaks
  BY DEF Sync, Position, server
<1>2. leaves \in Seq(Leaf) /\ peaks = Peaks(leaves)
  BY DEF Inv, Leaves
<1>3. saved'.hash = leaves /\ saved'.root = peaks /\ saved'.total = Len(leaves)
  BY <1>1
<1>4. SavedPosition'
  <2>1. Len(leaves) \in Nat /\ (leaves = <<>> => Len(leaves) = 0)
    BY <1>2
  <2> QED BY <1>1, <1>2, <1>3, <2>1 DEF SavedPosition
<1>5. Leaves'
  BY <1>1 DEF Inv, Leaves, InOrder
<1> QED BY <1>1, <1>4, <1>5 DEF Inv, RequestOK, NoRequest

LEMMA StartCatchUpInv == ASSUME Inv, StartCatchUp PROVE Inv'
<1>1. /\ request' = [hash |-> saved.hash, root |-> saved.root, from |-> SavedHeight]
      /\ saved' = saved /\ leaves' = leaves /\ peaks' = peaks
  BY DEF StartCatchUp, server
<1>2. request'.hash = saved.hash /\ request'.root = saved.root /\ request'.from = SavedHeight
  BY <1>1
<1>3. /\ saved.hash \in Seq(Leaf) /\ saved.root = Peaks(saved.hash)
      /\ saved.total \in Nat /\ (saved.hash = <<>> => saved.total = 0)
  BY DEF Inv, SavedPosition
<1>5. SavedHeight \in Nat /\ (saved.hash = <<>> => SavedHeight = 0)
  BY <1>3 DEF SavedHeight
<1>6. SavedHeight' = SavedHeight
  BY <1>1 DEF SavedHeight
<1>7. RequestOK'
  BY <1>1, <1>2, <1>3, <1>5, <1>6 DEF RequestOK
<1> QED BY <1>1, <1>7 DEF Inv, Leaves, InOrder, SavedPosition

LEMMA CatchUpPageInv == ASSUME Inv, CatchUpPage PROVE Inv'
<1>1. request # NoRequest /\ ~ PageEmpty /\ Known /\ leaves' = leaves /\ peaks' = peaks
  BY DEF CatchUpPage, server
<1>2. /\ leaves \in Seq(Leaf) /\ Len(leaves) \in Nat /\ CatchUpPageSize \in Nat \ {0}
      /\ peaks = Peaks(leaves)
  BY AuditAssumption DEF Inv, Leaves
<1>3. /\ PageEnd \in Nat /\ 0 < PageEnd /\ PageEnd <= Len(leaves)
      /\ Grown[PageEnd] = Peaks(SubSeq(leaves, 1, PageEnd))
  BY <1>1, PageAt, GrownIs
<1>4. Leaves'
  BY <1>1 DEF Inv, Leaves, InOrder
<1>5. CASE PageEnd < Len(leaves)
  <2> DEFINE h == SubSeq(leaves, 1, PageEnd)
             r == Grown[PageEnd]
  <2>1. /\ request' = [hash |-> h, root |-> r, from |-> PageEnd]
        /\ saved' = saved
    BY <1>5 DEF CatchUpPage
  <2>2. h \in Seq(Leaf) /\ h # <<>> /\ r = Peaks(h)
    <3>1. h \in Seq(Leaf) /\ Len(h) = PageEnd
      BY <1>2, <1>3
    <3> QED BY <1>3, <3>1
  <2> HIDE DEF h, r
  <2>3. request'.hash = h /\ request'.root = r /\ request'.from = PageEnd
    BY <2>1
  <2>4. PageEnd >= SavedHeight + CatchUpPageSize
    <3>1. request.from \in Nat /\ SavedHeight \in Nat /\ request.from >= SavedHeight
      <4>1. /\ saved.total \in Nat /\ request.from \in Nat
            /\ request.from = SavedHeight \/ request.from >= SavedHeight + CatchUpPageSize
        BY <1>1 DEF Inv, RequestOK, SavedPosition
      <4>2. SavedHeight \in Nat
        BY <4>1 DEF SavedHeight
      <4> QED BY <1>2, <4>1, <4>2
    <3>2. PageEnd = request.from + CatchUpPageSize
      BY <1>5 DEF PageEnd
    <3> QED BY <1>2, <3>1, <3>2
  <2>5. SavedHeight' = SavedHeight
    BY <2>1 DEF SavedHeight
  <2>6. RequestOK'
    BY <1>1, <1>3, <1>5, <2>2, <2>3, <2>4, <2>5 DEF RequestOK
  <2>7. SavedPosition'
    BY <1>1, <2>1 DEF Inv, SavedPosition
  <2> QED BY <1>4, <2>6, <2>7 DEF Inv
<1>6. CASE ~ PageEnd < Len(leaves)
  <2> DEFINE r == Grown[PageEnd]
  <2>1. /\ saved' = [hash |-> leaves, root |-> r, total |-> Len(leaves)]
        /\ request' = NoRequest
    BY <1>6 DEF CatchUpPage, Position
  <2>2. r = Peaks(leaves)
    <3>1. PageEnd = Len(leaves)
      BY <1>2, <1>3, <1>6
    <3>2. SubSeq(leaves, 1, Len(leaves)) = leaves
      BY <1>2
    <3> QED BY <1>3, <3>1, <3>2
  <2> HIDE DEF r
  <2>3. saved'.hash = leaves /\ saved'.root = r /\ saved'.total = Len(leaves)
    BY <2>1
  <2>4. SavedPosition'
    <3>1. leaves = <<>> => Len(leaves) = 0
      OBVIOUS
    <3> QED BY <1>1, <1>2, <2>2, <2>3, <3>1 DEF SavedPosition
  <2> QED BY <1>4, <2>1, <2>4 DEF Inv, RequestOK, NoRequest
<1> QED BY <1>5, <1>6

LEMMA CatchUpEmptyInv == ASSUME Inv, CatchUpEmpty PROVE Inv'
<1> DEFINE h == request.hash
           r == request.root
           n == request.from + 1
<1>1. /\ saved' = [hash |-> h, root |-> r, total |-> n]
      /\ request' = NoRequest /\ leaves' = leaves /\ peaks' = peaks
  BY DEF CatchUpEmpty, server
<1>2. /\ request.from \in Nat /\ h \in Seq(Leaf) /\ r = Peaks(h)
      /\ h = <<>> => request.from = 0
      /\ request.from >= Len(leaves) /\ Len(leaves) \in Nat \ {0}
  BY DEF CatchUpEmpty, PageEmpty, Inv, RequestOK, Leaves
<1>3. n \in Nat /\ h # <<>>
  BY <1>2
<1> HIDE DEF h, r, n
<1>4. saved'.hash = h /\ saved'.root = r /\ saved'.total = n
  BY <1>1
<1>5. SavedPosition'
  BY <1>2, <1>3, <1>4 DEF SavedPosition
<1>6. Leaves'
  BY <1>1 DEF Inv, Leaves, InOrder
<1> QED BY <1>1, <1>5, <1>6 DEF Inv, RequestOK, NoRequest

\* A catch-up that ends without an answer or with an error leaves the position.
LEMMA CatchUpEndsInv ==
  ASSUME Inv, CatchUpGivesUp \/ CatchUpFails
  PROVE  Inv'
<1>1. request' = NoRequest /\ saved' = saved /\ leaves' = leaves /\ peaks' = peaks
  BY DEF CatchUpGivesUp, CatchUpFails, server
<1> QED BY <1>1 DEF Inv, Leaves, InOrder, SavedPosition, RequestOK, NoRequest

LEMMA NextInv == ASSUME Inv, [AuditNext]_auditVars PROVE Inv'
<1>1. CASE AuditNext
  BY <1>1, AcceptInv, ReplaceInv, SyncInv, StartCatchUpInv, CatchUpPageInv, CatchUpEmptyInv,
     CatchUpEndsInv DEF AuditNext
<1>2. CASE UNCHANGED auditVars
  BY <1>2 DEF Inv, Leaves, InOrder, SavedPosition, RequestOK, NoRequest, SavedHeight, auditVars, server
<1> QED BY <1>1, <1>2

THEOREM Invariance == AuditSpec => []Inv
<1>1. AuditInit => Inv
  BY InitInv
<1>2. Inv /\ [AuditNext]_auditVars => Inv'
  BY NextInv
<1> QED BY <1>1, <1>2, PTL DEF AuditSpec

-----------------------------------------------------------------------------
\* A proof made right after a Sync or a catch-up verifies against the saved root, at
\* its own position and for its own leaf only, and the peaks kept leaf by leaf are
\* the summits that the server computes (mmr.go), however long the chain is.
THEOREM ProofsAgreeTheorem == AuditSpec => []ProofsAgree
<1>1. Inv => ProofsAgree
  <2> SUFFICES ASSUME Inv, saved.hash = leaves PROVE ProofsAgree
    BY DEF ProofsAgree
  <2>1. /\ leaves \in Seq(Leaf) /\ Len(leaves) \in Nat \ {0} /\ InOrder
        /\ saved.root = Peaks(leaves)
    BY DEF Inv, Leaves, SavedPosition
  <2>2. MountainSummits(leaves) = saved.root
    BY <2>1, PeaksAreSummits
  <2>3. saved # NoPosition
    <3>1. saved.hash # <<>>
      BY <2>1
    <3> QED BY <3>1 DEF NoPosition
  <2>4. ASSUME NEW i \in 1..Len(leaves), NEW j \in 1..Len(leaves), leaves[i] = leaves[j]
        PROVE  i = j
    <3>1. leaves[i] \in Leaf /\ leaves[j] \in Leaf
      BY <2>1
    <3>2. leaves[i][1] \in Nat /\ leaves[i][1] = leaves[j][1]
      BY <2>4, <3>1, LeafNumber
    <3>3. ~ (i < j) /\ ~ (j < i)
      BY <2>1, <3>2 DEF InOrder
    <3> QED BY <2>1, <3>3
  <2>5. ASSUME Exact, NEW pos \in 0..(saved.total - 1), NEW at \in 0..(saved.total - 1), NEW leaf
        PROVE  Verified([GenerateInclusionProof(leaves, pos) EXCEPT !.index = at, !.leaf = leaf])
                 <=> at = pos /\ leaf = leaves[pos + 1]
    <3>0. saved.total = Len(leaves)
      BY <2>5 DEF Exact
    <3>1. pos \in 0..(Len(leaves) - 1) /\ at \in 0..(Len(leaves) - 1)
      BY <3>0
    <3> DEFINE q == [GenerateInclusionProof(leaves, pos) EXCEPT !.index = at, !.leaf = leaf]
    <3>2. VerifyInclusionProof(q, MountainSummits(leaves), Len(leaves))
            <=> at = pos /\ leaf = leaves[pos + 1]
      <4> DEFINE s == leaves
      <4>1. s \in Seq(Leaf) /\ pos \in 0..(Len(s) - 1) /\ at \in 0..(Len(s) - 1)
        BY <2>1, <3>1
      <4>2. \A i, j \in 1..Len(s) : s[i] = s[j] => i = j
        BY <2>4
      <4>3. q = WithClaim(GenerateInclusionProof(s, pos), at, leaf)
        BY DEF WithClaim
      <4> HIDE DEF q, s
      <4>4. VerifyInclusionProof(q, MountainSummits(s), Len(s)) <=> at = pos /\ leaf = s[pos + 1]
        BY <4>1, <4>2, <4>3, ProofVerifies
      <4> QED BY <4>4 DEF s
    <3> HIDE DEF q
    <3>3. Verified(q) <=> VerifyInclusionProof(q, MountainSummits(leaves), Len(leaves))
      BY <2>2, <2>3, <3>0 DEF Verified
    <3> QED BY <3>2, <3>3 DEF q
  <2> QED BY <2>2, <2>5 DEF ProofsAgree
<1> QED BY <1>1, Invariance, PTL

\* An audit against the saved position, if its height is that of its block, succeeds
\* only for a leaf that the server's present chain and the saved one have at the same
\* place (VerifyLeafInclusion).
THEOREM AuditSoundTheorem == AuditSpec => [](Exact => AuditSound)
<1>1. Inv => (Exact => AuditSound)
  <2> SUFFICES ASSUME Inv, Exact, NEW pos \in 0..(Len(leaves) - 1),
                      Verified(GenerateInclusionProof(leaves, pos))
               PROVE  pos < Len(saved.hash) /\ saved.hash[pos + 1] = leaves[pos + 1]
    BY DEF AuditSound
  <2> DEFINE u == saved.hash
  <2>1. /\ leaves \in Seq(Leaf) /\ u \in Seq(Leaf)
        /\ saved.root = Peaks(u) /\ saved.total = Len(u)
    BY DEF Inv, Leaves, SavedPosition, Exact
  <2> HIDE DEF u
  <2>2. saved.root = MountainSummits(u)
    BY <2>1, PeaksAreSummits
  <2>3. VerifyInclusionProof(GenerateInclusionProof(leaves, pos), MountainSummits(u), Len(u))
    BY <2>1, <2>2 DEF Verified
  <2>4. pos < Len(u) /\ u[pos + 1] = leaves[pos + 1]
    BY <2>1, <2>3, ProofSound
  <2> QED BY <2>4 DEF u
<1> QED BY <1>1, Invariance, PTL

\* A catch-up fails only if the server's chain is not the saved one grown, or ends
\* beyond one page, or an empty page left the height off (CatchUp in anchor.go): the roots it computes are never the reason.
THEOREM CatchUpTheorem == AuditSpec => FailsOnlyBeyondAPage
<1> DEFINE Failure ==
             ~ failed /\ failed' =>
               ~ OnPrefix \/ ~ Exact \/ Len(leaves) > SavedHeight + CatchUpPageSize
<1>1. ASSUME Inv, AuditNext PROVE Failure
  <2> SUFFICES ASSUME ~ failed, failed', OnPrefix, Exact
               PROVE  Len(leaves) > SavedHeight + CatchUpPageSize
    OBVIOUS
  <2>1. CatchUpFails
    <3>1. failed' # failed
      OBVIOUS
    <3> QED BY <1>1, <3>1 DEF AuditNext, AcceptLeaf, Replace, Sync, StartCatchUp, CatchUpPage,
            CatchUpEmpty, CatchUpGivesUp
  <2>2. request # NoRequest /\ ~ PageEmpty /\ ~ Known
    BY <1>1, <2>1, KnownMatches DEF CatchUpFails
  <2>3. request.hash # <<>> /\ request.hash # SubSeq(leaves, 1, request.from + 1)
    BY <2>2 DEF Known
  <2>4. /\ saved.hash \in Seq(Leaf) /\ saved.total = Len(saved.hash)
        /\ saved.hash = SubSeq(leaves, 1, saved.total)
    BY <1>1 DEF OnPrefix, Exact, Inv, SavedPosition
  <2>5. ASSUME request.hash = saved.hash, request.from = SavedHeight PROVE FALSE
    <3>1. saved.total \in Nat \ {0}
      <4> DEFINE h == saved.hash
      <4>1. h # <<>>
        BY <2>3, <2>5
      <4>2. h \in Seq(Leaf) /\ saved.total = Len(h)
        BY <2>4
      <4> HIDE DEF h
      <4> QED BY <4>1, <4>2
    <3>2. request.from + 1 = saved.total
      BY <2>5, <3>1 DEF SavedHeight
    <3> QED BY <2>3, <2>4, <2>5, <3>2
  <2>6. request.from \in Nat /\ request.from >= SavedHeight + CatchUpPageSize
    BY <1>1, <2>2, <2>5 DEF Inv, RequestOK
  <2>7. request.from < Len(leaves) /\ Len(leaves) \in Nat
    BY <1>1, <2>2, <2>6 DEF PageEmpty, Inv, Leaves
  <2>8. SavedHeight \in Nat /\ CatchUpPageSize \in Nat
    BY <1>1, AuditAssumption DEF SavedHeight, Inv, SavedPosition
  <2> QED BY <2>6, <2>7, <2>8
<1>2. Inv /\ [AuditNext]_auditVars => [Failure]_auditVars
  BY <1>1
<1> QED BY <1>2, Invariance, PTL DEF AuditSpec, FailsOnlyBeyondAPage
=============================================================================
