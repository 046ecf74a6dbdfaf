--------------------------- MODULE PartitionProofs ---------------------------
(***************************************************************************)
(* The split is a partition of 0 .. n - 1 into p intervals, in order, whose *)
(* sizes differ by at most one, for every n and p.                         *)
(***************************************************************************)
EXTENDS Partition, TLAPS, WellFoundedInduction

\* A set of naturals has a least element.
LEMMA LeastNatural ==
  ASSUME NEW S \in SUBSET Nat, S # {}
  PROVE  \E m \in S: \A x \in S: m <= x
<1> DEFINE R == OpToRel(<, Nat)
<1>1. IsWellFoundedOn(R, Nat) BY NatLessThanWellFounded
<1>2. \A x, y \in Nat: x < y => <<x, y>> \in R BY DEF OpToRel
<1> HIDE DEF R
<1>3. PICK m \in S: \A x \in S: ~ (<<x, m>> \in R)
  <2>1. S \subseteq Nat OBVIOUS
  <2> QED BY ONLY <1>1, <2>1, S # {}, WFMin
<1>4. \A x \in S: x \in Nat OBVIOUS
<1>5. \A x \in S: ~ (x < m) BY <1>2, <1>3, <1>4
<1> QED BY <1>4, <1>5

\* n is the quotient's share of p parts and the remainder, which is less than p.
LEMMA DivMod ==
  ASSUME NEW n \in Nat, NEW p \in Nat \ {0}
  PROVE  /\ n \div p \in Nat
         /\ n % p \in 0 .. p - 1
         /\ n = p * (n \div p) + (n % p)
OBVIOUS

\* Products of naturals, for the steps the SMT solver does not find by itself.
LEMMA Products ==
  \A a, b, c \in Nat: (a + b) * c = (a * c) + (b * c) /\ a * c \in Nat /\ a * c = c * a
OBVIOUS

\* Quotient and remainder are the only ones.
LEMMA DivUnique ==
  ASSUME NEW b \in Nat \ {0}, NEW k \in Nat, NEW r \in 0 .. b - 1
  PROVE  (k * b + r) \div b = k /\ (k * b + r) % b = r
<1> DEFINE a == k * b + r
           q == a \div b
           m == a % b
<1>1. a \in Nat /\ k * b \in Nat /\ k * b = b * k
  OBVIOUS
<1>2. q \in Nat /\ m \in 0 .. b - 1 /\ a = (b * q) + m
  <2> HIDE DEF a
  <2> QED BY <1>1, DivMod
<1>3. CASE q = k
  <2>1. a = b * k + m BY <1>2, <1>3
  <2> QED BY <1>1, <1>2, <1>3, <2>1
<1>4. ASSUME NEW x \in Nat, NEW y \in Nat, x < y PROVE b * y >= b * x + b
  <2>1. PICK d \in Nat: y = x + 1 + d
    <3>1. y - x - 1 \in Nat /\ y = x + 1 + (y - x - 1) BY <1>4
    <3> QED BY <3>1
  <2>2. b * y = b * x + b + b * d /\ b * d \in Nat BY <2>1
  <2>3. b * x \in Nat OBVIOUS
  <2> QED BY <2>2, <2>3
<1>5. b * q \in Nat /\ b * k \in Nat BY <1>1, <1>2
<1>6. CASE q < k
  <2>1. b * k >= b * q + b BY <1>2, <1>4, <1>6
  <2> QED
    <3> HIDE DEF q, m
    <3> QED BY <1>1, <1>2, <1>5, <2>1
<1>7. CASE k < q
  <2>1. b * q >= b * k + b BY <1>2, <1>4, <1>7
  <2> QED
    <3> HIDE DEF q, m
    <3> QED BY <1>1, <1>2, <1>5, <2>1
<1> QED BY <1>2, <1>3, <1>6, <1>7

\* The parts follow one another without a gap: the first starts at 0, each starts
\* where the one before ends, the last ends at n.
THEOREM PartsInOrder ==
  ASSUME NEW n \in Nat, NEW p \in Nat \ {0}
  PROVE  /\ First(n, p, 0) = 0
         /\ End(n, p, p - 1) = n
         /\ \A i \in 0 .. p - 1: /\ First(n, p, i) \in Nat
                                 /\ Share(n, p, i) \in Nat
                                 /\ End(n, p, i) = First(n, p, i + 1)
<1> DEFINE q == n \div p
           r == n % p
<1>1. q \in Nat /\ r \in 0 .. p - 1 /\ n = (p * q) + r BY DivMod
<1>2. \A i \in 0 .. p - 1: i * q \in Nat /\ (i + 1) * q = i * q + q
  BY <1>1
<1>3. (p - 1) * q + q = p * q BY <1>1
<1>4. \A i \in 0 .. p: First(n, p, i) = i * q + (IF r > i THEN i ELSE r)
  BY DEF First
<1>5. \A i \in 0 .. p - 1: Share(n, p, i) = q + (IF r > i THEN 1 ELSE 0)
  BY DEF Share
<1>6. First(n, p, 0) = 0 BY <1>1, <1>4
<1>7. ASSUME NEW i \in 0 .. p - 1
      PROVE  /\ First(n, p, i) \in Nat
             /\ Share(n, p, i) \in Nat
             /\ End(n, p, i) = First(n, p, i + 1)
  <2>1. First(n, p, i) = i * q + (IF r > i THEN i ELSE r) BY <1>4
  <2>2. First(n, p, i + 1) = (i + 1) * q + (IF r > i + 1 THEN i + 1 ELSE r) BY <1>4
  <2>3. Share(n, p, i) = q + (IF r > i THEN 1 ELSE 0) BY <1>5
  <2>4. i * q \in Nat /\ (i + 1) * q = i * q + q BY <1>2
  <2>5. (IF r > i + 1 THEN i + 1 ELSE r) = (IF r > i THEN i ELSE r) + (IF r > i THEN 1 ELSE 0)
    BY <1>1
  <2>6. First(n, p, i) \in Nat /\ Share(n, p, i) \in Nat
    BY <1>1, <2>1, <2>3, <2>4
  <2>7. End(n, p, i) = First(n, p, i + 1)
    <3> DEFINE iq == i * q
    <3>1. iq \in Nat /\ (i + 1) * q = iq + q BY <2>4
    <3> HIDE DEF iq, q, r
    <3> QED BY <1>1, <2>1, <2>2, <2>3, <2>5, <3>1 DEF End
  <2> QED BY <2>6, <2>7
<1>8. End(n, p, p - 1) = n
  <2>1. End(n, p, p - 1) = First(n, p, p) BY <1>7
  <2>2. First(n, p, p) = p * q + r BY <1>1, <1>4
  <2> QED BY <1>1, <2>1, <2>2
<1> QED BY <1>6, <1>7, <1>8

\* No part reaches beyond the items.
LEMMA PartsWithin ==
  ASSUME NEW n \in Nat, NEW p \in Nat \ {0}, NEW i \in 0 .. p - 1
  PROVE  End(n, p, i) <= n /\ Part(n, p, i) \subseteq 0 .. n - 1
<1> DEFINE q == n \div p
           r == n % p
<1>1. q \in Nat /\ r \in 0 .. p - 1 /\ n = (p * q) + r
  BY DivMod
<1>2. PICK d \in Nat: p = (i + 1) + d
  <2>1. p - (i + 1) \in Nat /\ p = (i + 1) + (p - (i + 1))
    OBVIOUS
  <2> QED BY <2>1
<1>3. p * q = ((i + 1) * q) + (d * q) /\ d * q \in Nat /\ (i + 1) * q = (i * q) + q /\ i * q \in Nat
  BY <1>1, <1>2, Products
<1>4. End(n, p, i) = ((i * q) + q) + (IF r > i THEN i + 1 ELSE r)
  <2>1. /\ First(n, p, i) = (i * q) + (IF r > i THEN i ELSE r)
        /\ Share(n, p, i) = q + (IF r > i THEN 1 ELSE 0)
    BY DEF First, Share
  <2>2. End(n, p, i) = First(n, p, i) + Share(n, p, i)
    BY DEF End
  <2> DEFINE iq == i * q
  <2>3. iq \in Nat /\ First(n, p, i) = iq + (IF r > i THEN i ELSE r)
    BY <1>3, <2>1
  <2> DEFINE fi == First(n, p, i)
             sh == Share(n, p, i)
  <2>4. fi = iq + (IF r > i THEN i ELSE r) /\ sh = q + (IF r > i THEN 1 ELSE 0)
    BY <2>1, <2>3
  <2>5. fi + sh = (iq + q) + (IF r > i THEN i + 1 ELSE r)
    <3> HIDE DEF q, r, iq, fi, sh
    <3>1. CASE r > i BY <3>1, <1>1, <2>3, <2>4
    <3>2. CASE ~(r > i) BY <3>2, <1>1, <2>3, <2>4
    <3> QED BY <3>1, <3>2
  <2> QED BY <2>2, <2>5
<1>5. End(n, p, i) <= n
  <2> HIDE DEF q, r
  <2> QED BY <1>1, <1>3, <1>4
<1>6. First(n, p, i) \in Nat /\ Share(n, p, i) \in Nat
  BY PartsInOrder
<1>7. End(n, p, i) \in Nat
  BY <1>6 DEF End
<1> QED
  <2> HIDE DEF q, r
  <2> QED BY <1>5, <1>6, <1>7 DEF Part

\* Half as many parts of half as many items: the quotient is the same.
LEMMA TwiceDiv ==
  ASSUME NEW n \in Nat, NEW p \in Nat \ {0}
  PROVE  (2 * n) \div (2 * p) = n \div p
<1> DEFINE q == n \div p
           r == n % p
           b == 2 * p
<1>1. q \in Nat /\ r \in 0 .. p - 1 /\ n = (p * q) + r BY DivMod
<1>2. b \in Nat \ {0} /\ 2 * r \in 0 .. b - 1 /\ 2 * n = q * b + 2 * r
  <2> HIDE DEF q, r
  <2>1. q * b = 2 * (p * q) /\ p * q \in Nat BY <1>1
  <2> QED BY <1>1, <2>1
<1> HIDE DEF q, r, b
<1>3. (2 * n) \div b = q BY <1>1, <1>2, DivUnique
<1> QED BY <1>3 DEF q, b

\* No part of enough items is empty.
LEMMA ShareNonempty ==
  ASSUME NEW n \in Nat, NEW p \in Nat \ {0}, p <= n, NEW i \in 0 .. p - 1
  PROVE  Share(n, p, i) \in Nat \ {0} /\ n \div p <= Share(n, p, i) /\ 1 <= n \div p
<1> DEFINE q == n \div p
           r == n % p
<1>1. q \in Nat /\ r \in 0 .. p - 1 /\ n = (p * q) + r BY DivMod
<1>2. q # 0
  <2> HIDE DEF q, r
  <2> QED BY <1>1
<1>3. Share(n, p, i) = q + IF r > i THEN 1 ELSE 0 BY DEF Share
<1> HIDE DEF q, r
<1>4. Share(n, p, i) \in Nat \ {0} /\ q <= Share(n, p, i) /\ 1 <= q BY <1>1, <1>2, <1>3
<1> QED BY <1>4 DEF q

\* No item is in two parts.
THEOREM PartsDisjoint ==
  ASSUME NEW n \in Nat, NEW p \in Nat \ {0},
         NEW i \in 0 .. p - 1, NEW j \in 0 .. p - 1, i # j
  PROVE  Part(n, p, i) \cap Part(n, p, j) = {}
<1> DEFINE q == n \div p
           r == n % p
<1>1. q \in Nat /\ r \in 0 .. p - 1 BY DivMod
<1>2. ASSUME NEW a \in 0 .. p - 1, NEW b \in 0 .. p - 1, a < b
      PROVE  End(n, p, a) <= First(n, p, b)
  <2>1. End(n, p, a) = (a + 1) * q + (IF r > a + 1 THEN a + 1 ELSE r)
    BY PartsInOrder DEF First
  <2>2. First(n, p, b) = b * q + (IF r > b THEN b ELSE r) BY DEF First
  <2>3. PICK d \in Nat: b = a + 1 + d
    <3>1. b - a - 1 \in Nat /\ b = a + 1 + (b - a - 1) BY <1>2
    <3> QED BY <3>1
  <2>4. b * q = (a + 1) * q + d * q /\ d * q \in Nat /\ (a + 1) * q \in Nat
    <3>1. a + 1 \in Nat OBVIOUS
    <3> HIDE DEF q
    <3> QED BY <1>1, <2>3, <3>1, Products
  <2>5. (IF r > a + 1 THEN a + 1 ELSE r) <= (IF r > b THEN b ELSE r)
    BY <1>1, <1>2
  <2> DEFINE aq == (a + 1) * q
             dq == d * q
  <2>6. End(n, p, a) = aq + (IF r > a + 1 THEN a + 1 ELSE r) BY <2>1
  <2>7. First(n, p, b) = aq + dq + (IF r > b THEN b ELSE r) BY <2>2, <2>4
  <2>8. aq \in Nat /\ dq \in Nat BY <2>4
  <2> HIDE DEF aq, dq, q, r
  <2> QED BY <1>1, <2>5, <2>6, <2>7, <2>8
<1>3. /\ First(n, p, i) \in Nat /\ Share(n, p, i) \in Nat
      /\ First(n, p, j) \in Nat /\ Share(n, p, j) \in Nat
  BY PartsInOrder
<1>4. CASE i < j BY <1>2, <1>3, <1>4 DEF Part, End
<1>5. CASE j < i BY <1>2, <1>3, <1>5 DEF Part, End
<1> QED BY <1>4, <1>5

\* Every item is in a part.
THEOREM PartsCover ==
  ASSUME NEW n \in Nat, NEW p \in Nat \ {0}, NEW x \in 0 .. n - 1
  PROVE  \E i \in 0 .. p - 1: x \in Part(n, p, i)
<1> DEFINE q == n \div p
           r == n % p
           big == r * (q + 1)
<1>1. q \in Nat /\ r \in 0 .. p - 1 /\ n = (p * q) + r BY DivMod
<1>2. big \in Nat /\ q + 1 \in Nat \ {0} BY <1>1
<1>3. CASE x < big
  <2> DEFINE i == x \div (q + 1)
             m == x % (q + 1)
  <2>1. i \in Nat /\ m \in 0 .. q /\ x = ((q + 1) * i) + m
    <3> DEFINE c == q + 1
    <3>1. x \in Nat /\ c \in Nat \ {0} BY <1>2
    <3>2. x \div c \in Nat /\ x % c \in 0 .. c - 1 /\ x = (c * (x \div c)) + (x % c)
      <4> HIDE DEF c
      <4> QED BY <3>1, DivMod
    <3>3. c - 1 = q BY <1>1
    <3> QED BY <3>2, <3>3
  <2>2. i < r
    <3>1. ASSUME i >= r PROVE FALSE
      <4>1. PICK d \in Nat: i = r + d
        <5>1. i - r \in Nat /\ i = r + (i - r) BY <1>1, <2>1, <3>1
        <5> QED BY <5>1
      <4>2. (q + 1) * i = big + (q + 1) * d /\ (q + 1) * d \in Nat BY <1>1, <4>1
      <4> HIDE DEF i, m, big
      <4> QED BY <1>2, <1>3, <2>1, <4>2
    <3> QED BY <1>1, <2>1, <3>1
  <2>3. First(n, p, i) = (i * q) + i /\ Share(n, p, i) = q + 1
    BY <1>1, <2>1, <2>2 DEF First, Share
  <2>4. (q + 1) * i = (i * q) + i /\ i * q \in Nat
    <3> HIDE DEF q, i
    <3>1. (q + 1) * i = (q * i) + (1 * i) BY <1>1, <2>1, Products
    <3> QED BY <1>1, <2>1, <3>1, Products
  <2>5. x \in Part(n, p, i)
    <3> DEFINE iq == i * q
    <3>1. iq \in Nat /\ x = iq + i + m BY <2>1, <2>4
    <3>2. First(n, p, i) = iq + i BY <2>3
    <3> HIDE DEF i, m, iq, q, r
    <3> QED BY <1>1, <2>1, <2>3, <3>1, <3>2 DEF Part, End
  <2>6. i \in 0 .. p - 1 BY <1>1, <2>1, <2>2
  <2> QED BY <2>5, <2>6
<1>4. CASE x >= big
  <2>1. (p * q) + r = big + (p - r) * q BY <1>1
  <2>2. q # 0
    <3>1. ASSUME q = 0 PROVE FALSE
      <4>1. n = r /\ big = r BY <1>1, <3>1
      <4> QED BY <1>1, <1>4, <4>1
    <3> QED BY <3>1
  <2> DEFINE y == x - big
             d == y \div q
             m == y % q
  <2>3. y \in Nat /\ q \in Nat \ {0} BY <1>1, <1>2, <1>4, <2>2
  <2>4. d \in Nat /\ m \in 0 .. q - 1 /\ y = (q * d) + m BY <2>3, DivMod
  <2>5. d < p - r
    <3>1. ASSUME d >= p - r PROVE FALSE
      <4>1. PICK e \in Nat: d = p - r + e
        <5>1. d - (p - r) \in Nat /\ d = p - r + (d - (p - r)) BY <1>1, <2>4, <3>1
        <5> QED BY <5>1
      <4>2. q * d = (p - r) * q + q * e /\ q * e \in Nat BY <1>1, <4>1
      <4>3. y < (p - r) * q
        <5>1. x < n BY DEF y
        <5>2. (p - r) * q \in Int BY <1>1
        <5> QED BY <1>1, <1>2, <2>1, <5>1, <5>2
      <4>4. (p - r) * q \in Int BY <1>1
      <4> DEFINE pq == (p - r) * q
                 qe == q * e
      <4>5. pq \in Int /\ qe \in Nat /\ y < pq /\ y = pq + qe + m
        BY <2>4, <4>2, <4>3, <4>4
      <4> HIDE DEF pq, qe, y, m, q
      <4> QED BY <1>1, <2>3, <2>4, <4>5
    <3> QED BY <1>1, <2>4, <3>1
  <2> DEFINE i == r + d
  <2>6. i \in 0 .. p - 1 /\ ~(r > i) BY <1>1, <2>4, <2>5
  <2>7. First(n, p, i) = (i * q) + r /\ Share(n, p, i) = q
    BY <1>1, <2>6 DEF First, Share
  <2>8. i * q = (r * q) + (q * d) /\ big = (r * q) + r BY <1>1, <2>4
  <2>9. r * q \in Nat /\ q * d \in Nat BY <1>1, <2>4
  <2>10. x \in Part(n, p, i)
    <3> DEFINE rq == r * q
               qd == q * d
    <3>1. rq \in Nat /\ qd \in Nat /\ i * q = rq + qd /\ big = rq + r BY <2>8, <2>9
    <3>2. x = big + qd + m BY <1>2, <2>4
    <3>3. First(n, p, i) = rq + qd + r BY <2>7, <3>1
    <3> HIDE DEF i, m, d, y, big, rq, qd, q, r
    <3> QED BY <1>1, <2>3, <2>4, <2>7, <3>1, <3>2, <3>3 DEF Part, End
  <2> QED BY <2>6, <2>10
<1> QED BY <1>1, <1>2, <1>3, <1>4
=============================================================================
