--------------------------- MODULE RotationTreeProofs ---------------------------
(***************************************************************************)
(* For every N, every range of rotations and every use of the stack: each  *)
(* round multiplies its own rotation of its own query, every step has a    *)
(* Galois key, and the stack holds exactly the rotations that later rounds *)
(* start from.  And the products that are added up are those of the matrix *)
(* and the vector.                                                         *)
(***************************************************************************)
EXTENDS RotationTree, PartitionProofs, SequenceTheorems, FiniteSetTheorems

-----------------------------------------------------------------------------
(* Powers of two and bits *)

\* a divides b.
Divides(a, b) == \E m \in Nat: b = a * m

LEMMA DividesMod ==
  ASSUME NEW a \in Nat \ {0}, NEW b \in Nat
  PROVE  Divides(a, b) <=> b % a = 0
<1>1. ASSUME NEW m \in Nat, b = a * m PROVE b % a = 0
  <2>1. b = m * a + 0 /\ 0 \in 0 .. a - 1 BY <1>1
  <2> QED BY <2>1, DivUnique
<1>2. ASSUME b % a = 0 PROVE Divides(a, b)
  <2>1. b \div a \in Nat /\ b = a * (b \div a) + (b % a) BY DivMod
  <2> QED BY <1>2, <2>1 DEF Divides
<1> QED BY <1>1, <1>2 DEF Divides

LEMMA PowersAre ==
  \A b: b \in Powers <=> b \in Nat \ {0} /\ Divides(b, HalfN) /\ b <= HalfN
<1>1. \A b \in Nat \ {0}: Divides(b, HalfN) <=> HalfN % b = 0
  BY SizesAssumption, DividesMod
<1> QED BY <1>1, SizesAssumption DEF Powers

LEMMA PowerTypes ==
  /\ \A b \in Powers: b \in Nat \ {0} /\ b <= HalfN
  /\ 1 \in Powers /\ HalfN \in Powers
<1>1. Divides(1, HalfN) /\ Divides(HalfN, HalfN)
  <2>1. HalfN = 1 * HalfN /\ HalfN = HalfN * 1 /\ 1 \in Nat /\ HalfN \in Nat
    BY SizesAssumption
  <2> QED BY <2>1 DEF Divides
<1> QED BY <1>1, SizesAssumption, PowersAre

\* Half of a power is a power.
LEMMA HalfPower ==
  ASSUME NEW b \in Powers, b # 1
  PROVE  /\ b \div 2 \in Powers /\ b = 2 * (b \div 2) /\ b \div 2 < b
<1>1. b % 2 = 0 /\ b \in Nat \ {0} /\ b <= HalfN BY LoopAssumption, PowersAre
<1>2. b \div 2 \in Nat \ {0} /\ b = 2 * (b \div 2) /\ b \div 2 < b BY <1>1
<1>3. PICK m \in Nat: HalfN = b * m BY PowersAre DEF Divides
<1> DEFINE h == b \div 2
<1>4. HalfN = h * (2 * m) /\ 2 * m \in Nat
  <2>1. h \in Nat /\ b = 2 * h BY <1>2
  <2> HIDE DEF h
  <2> QED BY <1>3, <2>1
<1>5. Divides(h, HalfN) BY <1>4 DEF Divides
<1> QED BY <1>1, <1>2, <1>5, PowersAre, SizesAssumption

\* The double of a power is a power, but for HalfN.
LEMMA DoublePower ==
  ASSUME NEW b \in Powers, b # HalfN
  PROVE  2 * b \in Powers
<1>1. b \in Nat \ {0} /\ HalfN \in Nat \ {0} BY PowerTypes, SizesAssumption
<1>2. PICK m \in Nat: HalfN = b * m BY PowersAre DEF Divides
<1>3. m # 0 /\ m # 1 BY <1>1, <1>2
<1>4. m \in Powers
  <2>1. HalfN = m * b BY <1>1, <1>2
  <2>2. Divides(m, HalfN) BY <1>1, <2>1 DEF Divides
  <2>3. m <= HalfN
    <3>1. PICK c \in Nat: b = c + 1
      <4>1. b - 1 \in Nat /\ b = (b - 1) + 1 BY <1>1
      <4> QED BY <4>1
    <3>2. HalfN = m * c + m /\ m * c \in Nat BY <2>1, <3>1
    <3> QED BY <1>1, <3>2
  <2> QED BY <1>3, <2>2, <2>3, PowersAre
<1>5. PICK h \in Nat: m = 2 * h BY <1>3, <1>4, HalfPower, PowerTypes
<1>6. HalfN = (2 * b) * h BY <1>1, <1>2, <1>5
<1>7. Divides(2 * b, HalfN) BY <1>6 DEF Divides
<1>8. h # 0 BY <1>3, <1>5
<1>9. 2 * b <= HalfN
  <2>1. PICK c \in Nat: h = c + 1
    <3>1. h - 1 \in Nat /\ h = (h - 1) + 1 BY <1>8
    <3> QED BY <3>1
  <2>2. HalfN = (2 * b) * c + 2 * b /\ (2 * b) * c \in Nat BY <1>1, <1>6, <2>1
  <2> QED BY <1>1, <2>2
<1> QED BY <1>1, <1>7, <1>9, PowersAre

\* A smaller power is a factor of a larger one, more than once: there is none between a
\* power and its double.
LEMMA PowersDivide ==
  ASSUME NEW a \in Powers, NEW b \in Powers, a < b
  PROVE  Divides(2 * a, b) /\ 2 * a <= b /\ 2 * a \in Powers
<1> DEFINE Bad == {y \in Powers: \E x \in Powers: x < y /\ ~ Divides(2 * x, y)}
<1>1. Bad = {}
  <2> SUFFICES ASSUME Bad # {} PROVE FALSE
    OBVIOUS
  <2>1. Bad \in SUBSET Nat BY PowerTypes
  <2>2. PICK y \in Bad: \A z \in Bad: y <= z
    <3> HIDE DEF Bad
    <3> QED BY <2>1, LeastNatural
  <2>3. PICK x \in Powers: x < y /\ ~ Divides(2 * x, y) BY <2>2
  <2>4. y \in Powers /\ x \in Nat \ {0} /\ y \in Nat \ {0} BY <2>2, PowerTypes
  <2>5. y # 1 BY <2>3, <2>4
  <2> DEFINE h == y \div 2
  <2>6. h \in Powers /\ y = 2 * h /\ h \in Nat \ {0} /\ h < y
    BY <2>4, <2>5, HalfPower, PowerTypes
  <2> HIDE DEF h
  <2>7. CASE x = 1
    <3>1. Divides(2 * x, y)
      <4>1. 2 * x = 2 /\ y = 2 * h BY <2>6, <2>7
      <4> QED BY <2>6, <4>1 DEF Divides
    <3> QED BY <2>3, <3>1
  <2>8. CASE x # 1
    <3> DEFINE g == x \div 2
    <3>1. g \in Powers /\ x = 2 * g /\ g \in Nat \ {0} BY <2>8, HalfPower, PowerTypes
    <3> HIDE DEF g
    <3>2. g < h BY <2>3, <2>6, <3>1
    <3>3. h \notin Bad BY <2>2, <2>4, <2>6
    <3>4. PICK m \in Nat: h = (2 * g) * m BY <2>6, <3>1, <3>2, <3>3 DEF Divides
    <3>5. y = (2 * x) * m BY <2>6, <3>1, <3>4
    <3> QED BY <2>3, <3>5 DEF Divides
  <2> QED BY <2>7, <2>8
<1>2. PICK m \in Nat: b = (2 * a) * m BY <1>1 DEF Divides
<1>3. a \in Nat \ {0} /\ b \in Nat \ {0} /\ b <= HalfN BY PowerTypes
<1>4. 2 * a <= b
  <2>1. m # 0 BY <1>2, <1>3
  <2>2. PICK c \in Nat: m = c + 1
    <3>1. m - 1 \in Nat /\ m = (m - 1) + 1 BY <2>1
    <3> QED BY <3>1
  <2>3. b = (2 * a) * c + 2 * a /\ (2 * a) * c \in Nat BY <1>2, <1>3, <2>2
  <2> QED BY <1>3, <2>3
<1>5. 2 * a \in Powers BY <1>3, <1>4, DoublePower, SizesAssumption
<1> QED BY <1>2, <1>4, <1>5 DEF Divides

\* What is left of n by b, of what is left by a multiple c of b.
LEMMA ModOfMod ==
  ASSUME NEW n \in Nat, NEW b \in Nat \ {0}, NEW c \in Nat \ {0}, Divides(b, c)
  PROVE  /\ (n % c) % b = n % b
         /\ n % c \in Nat /\ n % b \in Nat /\ n % b <= n % c /\ n % c < c /\ n % c <= n
<1>1. PICK m \in Nat: c = b * m BY DEF Divides
<1> DEFINE q == n \div c
           r == n % c
           s == r \div b
           u == r % b
<1>2. q \in Nat /\ r \in 0 .. c - 1 /\ n = c * q + r BY DivMod
<1>3. r \in Nat /\ r < c BY <1>2
<1>4. s \in Nat /\ u \in 0 .. b - 1 /\ r = b * s + u
  <2> HIDE DEF r
  <2> QED BY <1>3, DivMod
<1> HIDE DEF q, r, s, u
<1>5. n = (m * q + s) * b + u /\ m * q + s \in Nat
  <2>1. c * q = (m * q) * b BY <1>1, <1>2
  <2>2. (m * q + s) * b = (m * q) * b + b * s /\ m * q \in Nat
    <3>1. m * q \in Nat BY <1>2
    <3> QED BY <1>4, <3>1, Products
  <2>3. (m * q) * b \in Nat /\ b * s \in Nat BY <1>4, <2>2
  <2> QED BY <1>2, <1>4, <2>1, <2>2, <2>3
<1>6. n % b = u BY <1>4, <1>5, DivUnique
<1>7. u <= r /\ u \in Nat
  <2>1. b * s \in Nat BY <1>4
  <2> QED BY <1>3, <1>4, <2>1
<1>8. r <= n
  <2>1. c * q \in Nat BY <1>2
  <2> QED BY <1>2, <1>3, <2>1
<1> QED BY <1>3, <1>6, <1>7, <1>8 DEF r, u

\* The bit b of n is what n leaves by 2b more than by b.
LEMMA ModDouble ==
  ASSUME NEW n \in Nat, NEW b \in Nat \ {0}
  PROVE  /\ HasBit(n, b) \in BOOLEAN
         /\ n % (2 * b) = (n % b) + (IF HasBit(n, b) THEN b ELSE 0)
         /\ n % b \in Nat /\ n % b < b /\ n % b <= n
         /\ n % (2 * b) \in Nat /\ n % (2 * b) <= n
<1> DEFINE q == n \div b
           r == n % b
           s == q \div 2
           t == q % 2
<1>1. q \in Nat /\ r \in 0 .. b - 1 /\ n = b * q + r BY DivMod
<1>2. s \in Nat /\ t \in 0 .. 1 /\ q = 2 * s + t
  <2>1. q \in Nat BY <1>1
  <2> HIDE DEF q
  <2> QED BY <2>1
<1> HIDE DEF q, r, s
<1>3. n = s * (2 * b) + (b * t + r)
  <2>1. b * q = s * (2 * b) + b * t
    <3>1. CASE t = 0
      <4>1. q = 2 * s BY <1>2, <3>1
      <4> QED BY <1>2, <3>1, <4>1
    <3>2. CASE t = 1
      <4>1. q = 2 * s + 1 BY <1>2, <3>2
      <4> QED BY <1>2, <3>2, <4>1
    <3>3. t = 0 \/ t = 1 BY <1>2
    <3> QED BY <3>1, <3>2, <3>3
  <2>2. s * (2 * b) \in Nat /\ b * t \in Nat
    <3>1. t \in Nat BY <1>2
    <3> QED BY <1>2, <3>1
  <2> DEFINE x == s * (2 * b)
             y == b * t
  <2>3. x \in Nat /\ y \in Nat /\ n = (x + y) + r /\ r \in Nat BY <1>1, <2>1, <2>2
  <2> HIDE DEF x, y
  <2>4. n = x + (y + r) BY <2>3
  <2> QED BY <2>4 DEF x, y
<1>4. HasBit(n, b) <=> t = 1
  BY DEF HasBit, q, t
<1>5. b * t + r = r + (IF HasBit(n, b) THEN b ELSE 0) /\ b * t + r \in 0 .. 2 * b - 1
  <2>1. CASE t = 0 BY <1>1, <1>4, <2>1
  <2>2. CASE t = 1 BY <1>1, <1>4, <2>2
  <2> QED BY <1>2, <2>1, <2>2
<1> HIDE DEF t
<1>6. n % (2 * b) = b * t + r
  <2> DEFINE x == b * t + r
             c == 2 * b
  <2>1. s \in Nat /\ c \in Nat \ {0} /\ x \in 0 .. c - 1 /\ n = s * c + x
    BY <1>2, <1>3, <1>5
  <2> HIDE DEF x, c
  <2>2. n % c = x BY <2>1, DivUnique
  <2> QED BY <2>2 DEF x, c
<1>7. n % b <= n
  <2>1. b * q \in Nat BY <1>1
  <2> QED BY <1>1, <2>1 DEF r
<1>8. n % (2 * b) <= n
  <2> DEFINE c == 2 * b
  <2>1. c \in Nat \ {0} OBVIOUS
  <2> HIDE DEF c
  <2>2. n % c \in 0 .. c - 1 /\ n \div c \in Nat /\ n = c * (n \div c) + (n % c)
    BY <2>1, DivMod
  <2>3. c * (n \div c) \in Nat BY <2>1, <2>2
  <2>4. n % c <= n BY <2>1, <2>2, <2>3
  <2> QED BY <2>4 DEF c
<1>9. HasBit(n, b) \in BOOLEAN BY DEF HasBit
<1> QED BY <1>1, <1>5, <1>6, <1>7, <1>8, <1>9 DEF r

\* The highest bit of n.
LEMMA HighBitIs ==
  ASSUME NEW n \in 1 .. HalfN
  PROVE  HighBit(n) \in Powers /\ HighBit(n) <= n /\ n < 2 * HighBit(n)
<1> DEFINE S == {b \in Powers: n < 2 * b}
<1>1. HalfN \in S BY PowerTypes, SizesAssumption
<1>2. S \in SUBSET Nat BY PowerTypes
<1>3. PICK b \in S: \A c \in S: b <= c
  <2> HIDE DEF S
  <2> QED BY <1>1, <1>2, LeastNatural
<1>4. b \in Powers /\ b \in Nat \ {0} /\ n < 2 * b BY <1>3, PowerTypes
<1>5. b <= n
  <2>1. CASE b = 1 BY <2>1
  <2>2. CASE b # 1
    <3> DEFINE h == b \div 2
    <3>1. h \in Powers /\ b = 2 * h /\ h < b /\ h \in Nat \ {0}
      BY <1>4, <2>2, HalfPower, PowerTypes
    <3> HIDE DEF h
    <3>2. h \notin S BY <1>3, <1>4, <3>1
    <3> QED BY <1>4, <3>1, <3>2
  <2> QED BY <2>1, <2>2
<1>6. \E c \in Powers: c <= n /\ n < 2 * c BY <1>4, <1>5
<1> QED BY <1>6 DEF HighBit

\* The lowest bit of n.
LEMMA LowBitIs ==
  ASSUME NEW n \in 1 .. HalfN - 1
  PROVE  LowBit(n) \in Powers /\ HasBit(n, LowBit(n)) /\ n % LowBit(n) = 0
<1> DEFINE S == {b \in Powers: n % (2 * b) # 0}
<1>1. HalfN \in S
  <2>1. n % (2 * HalfN) = n
    <3>1. n = 0 * (2 * HalfN) + n /\ 2 * HalfN \in Nat \ {0} /\ n \in 0 .. 2 * HalfN - 1
      BY SizesAssumption
    <3> DEFINE d == 2 * HalfN
    <3>2. d \in Nat \ {0} /\ n \in 0 .. d - 1 /\ n = 0 * d + n BY <3>1
    <3> HIDE DEF d
    <3>3. n % d = n BY <3>2, DivUnique
    <3> QED BY <3>3 DEF d
  <2> QED BY <2>1, PowerTypes
<1>2. S \in SUBSET Nat BY PowerTypes
<1>3. PICK b \in S: \A c \in S: b <= c
  <2> HIDE DEF S
  <2> QED BY <1>1, <1>2, LeastNatural
<1>4. b \in Powers /\ b \in Nat \ {0} /\ n % (2 * b) # 0 BY <1>3, PowerTypes
<1>5. n % b = 0
  <2>1. CASE b = 1 BY <2>1
  <2>2. CASE b # 1
    <3> DEFINE h == b \div 2
    <3>1. h \in Powers /\ b = 2 * h /\ h < b /\ h \in Nat \ {0}
      BY <1>4, <2>2, HalfPower, PowerTypes
    <3> HIDE DEF h
    <3>2. h \notin S BY <1>3, <1>4, <3>1
    <3> QED BY <3>1, <3>2
  <2> QED BY <2>1, <2>2
<1>6. HasBit(n, b)
  <2>1. n % (2 * b) = (n % b) + (IF HasBit(n, b) THEN b ELSE 0) BY <1>4, ModDouble
  <2> QED BY <1>4, <1>5, <2>1
<1>7. \E c \in Powers: HasBit(n, c) /\ n % c = 0 BY <1>4, <1>5, <1>6
<1> QED BY <1>7 DEF LowBit

\* A number has no bit above it.
LEMMA BitBelow ==
  ASSUME NEW n \in Nat, NEW b \in Powers, HasBit(n, b)
  PROVE  b <= n
<1>1. b \in Nat \ {0} BY PowerTypes
<1>2. /\ n % (2 * b) = (n % b) + b /\ n % b \in Nat
      /\ n % (2 * b) \in Nat /\ n % (2 * b) <= n
  BY <1>1, ModDouble
<1> QED BY <1>1, <1>2

\* What n leaves by a larger power, and by a smaller.
LEMMA ModPowers ==
  ASSUME NEW n \in Nat, NEW a \in Powers, NEW b \in Powers, a < b
  PROVE  /\ n % a \in Nat /\ n % (2 * a) \in Nat /\ n % b \in Nat
         /\ n % a < a /\ n % b < b
         /\ n % (2 * a) = (n % a) + (IF HasBit(n, a) THEN a ELSE 0)
         /\ n % (2 * a) <= n % b /\ n % b <= n
         /\ (n % b) % (2 * a) = n % (2 * a) /\ (n % b) % a = n % a
         /\ 2 * a <= b /\ 2 * a \in Powers
<1>1. a \in Nat \ {0} /\ b \in Nat \ {0} BY PowerTypes
<1>2. Divides(2 * a, b) /\ 2 * a <= b /\ 2 * a \in Powers BY PowersDivide
<1>3. Divides(a, b)
  <2>1. PICK m \in Nat: b = (2 * a) * m BY <1>2 DEF Divides
  <2>2. b = a * (2 * m) /\ 2 * m \in Nat BY <1>1, <2>1
  <2> QED BY <2>2 DEF Divides
<1> DEFINE d == 2 * a
<1>4. d \in Nat \ {0} BY <1>1
<1>5. /\ (n % b) % d = n % d /\ n % d \in Nat /\ n % d <= n % b
      /\ n % b \in Nat /\ n % b < b /\ n % b <= n
  <2>1. Divides(d, b) BY <1>2
  <2> HIDE DEF d
  <2> QED BY <1>1, <1>4, <2>1, ModOfMod
<1>6. (n % b) % a = n % a /\ n % a \in Nat BY <1>1, <1>3, ModOfMod
<1>7. n % (2 * a) = (n % a) + (IF HasBit(n, a) THEN a ELSE 0) /\ n % a < a
  BY <1>1, ModDouble
<1> QED BY <1>2, <1>5, <1>6, <1>7

\* A gap of n from bit a up to bit b, b itself left out.
LEMMA ModGap ==
  ASSUME NEW n \in Nat, NEW a \in Powers, NEW b \in Powers, a <= b,
         \A c \in Powers: a <= c /\ c < b => ~ HasBit(n, c)
  PROVE  n % a = n % b
<1> DEFINE S == {c \in Powers: a <= c /\ c <= b /\ n % c # n % a}
<1>1. S = {}
  <2> SUFFICES ASSUME S # {} PROVE FALSE
    OBVIOUS
  <2>1. S \in SUBSET Nat BY PowerTypes
  <2>2. PICK c \in S: \A x \in S: c <= x
    <3> HIDE DEF S
    <3> QED BY <2>1, LeastNatural
  <2>3. c \in Powers /\ a <= c /\ c <= b /\ n % c # n % a /\ c # a BY <2>2
  <2>4. a \in Nat \ {0} /\ b \in Nat \ {0} /\ c \in Nat \ {0} BY <2>3, PowerTypes
  <2>5. 2 * a <= c BY <2>3, <2>4, ModPowers
  <2> DEFINE h == c \div 2
  <2>6. h \in Powers /\ c = 2 * h /\ h \in Nat \ {0}
    <3>1. c # 1 BY <2>4, <2>5
    <3> QED BY <2>3, <3>1, HalfPower, PowerTypes
  <2> HIDE DEF h
  <2>7. a <= h /\ h < c /\ h < b BY <2>3, <2>4, <2>5, <2>6
  <2>8. h \notin S BY <2>2, <2>4, <2>6, <2>7
  <2>9. n % h = n % a BY <2>4, <2>6, <2>7, <2>8
  <2>10. ~ HasBit(n, h) BY <2>6, <2>7
  <2>11. n % (2 * h) = n % h
    <3>1. n % (2 * h) = (n % h) + (IF HasBit(n, h) THEN h ELSE 0) /\ n % h \in Nat
      BY <2>6, ModDouble
    <3> QED BY <2>10, <3>1
  <2> QED BY <2>3, <2>6, <2>9, <2>11
<1>2. b \notin S BY <1>1
<1> QED BY <1>2, PowerTypes

\* What one less leaves.
LEMMA ModPred ==
  ASSUME NEW n \in Nat \ {0}, NEW b \in Nat \ {0}
  PROVE  (n - 1) % b = IF n % b = 0 THEN b - 1 ELSE (n % b) - 1
<1> DEFINE q == n \div b
           r == n % b
<1>1. q \in Nat /\ r \in 0 .. b - 1 /\ n = b * q + r BY DivMod
<1> HIDE DEF q, r
<1>2. b * q = q * b /\ q * b \in Nat BY <1>1
<1>3. CASE r = 0
  <2>1. q # 0 BY <1>1, <1>3
  <2>2. PICK c \in Nat: q = c + 1
    <3>1. q - 1 \in Nat /\ q = (q - 1) + 1 BY <1>1, <2>1
    <3> QED BY <3>1
  <2>3. n = c * b + b /\ c * b \in Nat BY <1>1, <1>2, <1>3, <2>2
  <2>4. n - 1 = c * b + (b - 1) /\ b - 1 \in 0 .. b - 1 BY <2>3
  <2>5. (n - 1) % b = b - 1 BY <2>4, DivUnique
  <2> QED BY <1>3, <2>5 DEF r
<1>4. CASE r # 0
  <2>1. n - 1 = q * b + (r - 1) /\ r - 1 \in 0 .. b - 1 BY <1>1, <1>2, <1>4
  <2>2. (n - 1) % b = r - 1 BY <1>1, <2>1, DivUnique
  <2> QED BY <1>4, <2>2 DEF r
<1> QED BY <1>3, <1>4

\* L is the lowest bit of n: what LowBit is, and the last bit of a walk.
IsLowest(n, L) == L \in Powers /\ HasBit(n, L) /\ n % L = 0

\* The bits of a number and of the one before it: the same above the lowest bit, which
\* is cleared, all those below being set.
LEMMA BitsBefore ==
  ASSUME NEW n \in 1 .. HalfN - 1, NEW L, IsLowest(n, L)
  PROVE  /\ \A b \in Powers: L < b =>
              /\ n % b \in Nat /\ n % b >= L
              /\ (n - 1) % b = (n % b) - 1
              /\ HasBit(n - 1, b) <=> HasBit(n, b)
         /\ (n - 1) % L = L - 1 /\ ~ HasBit(n - 1, L)
         /\ \A b \in Powers: b < L => HasBit(n - 1, b) /\ ~ HasBit(n, b) /\ n % b = 0
<1>1. L \in Powers /\ L \in Nat \ {0} /\ HasBit(n, L) /\ n % L = 0 /\ n \in Nat \ {0}
  BY PowerTypes DEF IsLowest
<1> DEFINE m == n - 1
<1>2. m \in Nat BY <1>1
<1>3. \A b \in Nat \ {0}:
        /\ (n % (2 * b)) = (n % b) + (IF HasBit(n, b) THEN b ELSE 0)
        /\ (m % (2 * b)) = (m % b) + (IF HasBit(m, b) THEN b ELSE 0)
        /\ n % b \in Nat /\ m % b \in Nat
        /\ n % (2 * b) \in Nat /\ m % (2 * b) \in Nat
  BY <1>1, <1>2, ModDouble
<1>4. \A b \in Nat \ {0}: m % b = IF n % b = 0 THEN b - 1 ELSE (n % b) - 1
  BY <1>1, ModPred
<1>5. n % (2 * L) = L BY <1>1, <1>3
<1>6. ASSUME NEW b \in Powers, L < b
      PROVE  n % b \in Nat /\ n % b >= L /\ m % b = (n % b) - 1 /\ (HasBit(m, b) <=> HasBit(n, b))
  <2>1. b \in Nat \ {0} BY PowerTypes
  <2>2. n % (2 * L) <= n % b /\ n % b \in Nat BY <1>1, <1>6, ModPowers
  <2>3. n % b >= L /\ m % b = (n % b) - 1 BY <1>1, <1>4, <1>5, <2>1, <2>2
  <2> DEFINE d == 2 * b
  <2>4. d \in Nat \ {0} BY <2>1
  <2>5. m % d = IF n % d = 0 THEN d - 1 ELSE (n % d) - 1
    <3> HIDE DEF d
    <3> QED BY <1>4, <2>4
  <2>6. n % d = (n % b) + (IF HasBit(n, b) THEN b ELSE 0) /\ m % d = (m % b) + (IF HasBit(m, b) THEN b ELSE 0)
    BY <1>3, <2>1
  <2> DEFINE nd == n % d
             md == m % d
             nb == n % b
             mb == m % b
  <2>7. nb \in Nat /\ mb \in Nat /\ nb >= L /\ mb = nb - 1 BY <2>2, <2>3, <1>3, <2>1
  <2>8. nd = nb + (IF HasBit(n, b) THEN b ELSE 0) /\ md = mb + (IF HasBit(m, b) THEN b ELSE 0)
    BY <2>6
  <2>9. md = IF nd = 0 THEN d - 1 ELSE nd - 1 BY <2>5
  <2> HIDE DEF nd, md, nb, mb, d, m
  <2>10. HasBit(m, b) <=> HasBit(n, b)
    <3>1. nd # 0 BY <1>1, <2>1, <2>7, <2>8
    <3>2. md = nd - 1 BY <2>9, <3>1
    <3>3. CASE HasBit(n, b) /\ ~ HasBit(m, b) BY <1>1, <2>1, <2>7, <2>8, <3>2, <3>3
    <3>4. CASE ~ HasBit(n, b) /\ HasBit(m, b) BY <1>1, <2>1, <2>7, <2>8, <3>2, <3>4
    <3> QED BY <3>3, <3>4
  <2> QED BY <2>2, <2>3, <2>10
<1>7. m % L = L - 1 /\ ~ HasBit(m, L)
  <2> DEFINE d == 2 * L
  <2>1. m % L = L - 1 BY <1>1, <1>4
  <2>2. d \in Nat \ {0} /\ n % d = L BY <1>1, <1>5
  <2>3. m % d = L - 1
    <3> HIDE DEF d
    <3> QED BY <1>1, <1>4, <2>2
  <2>4. m % d = (m % L) + (IF HasBit(m, L) THEN L ELSE 0) BY <1>1, <1>3
  <2> HIDE DEF d, m
  <2> QED BY <1>1, <2>1, <2>3, <2>4
<1>8. ASSUME NEW b \in Powers, b < L
      PROVE  HasBit(m, b) /\ ~ HasBit(n, b) /\ n % b = 0
  <2>1. b \in Nat \ {0} BY PowerTypes
  <2>2. /\ n % (2 * b) <= n % L /\ n % (2 * b) \in Nat /\ n % b \in Nat
        /\ n % (2 * b) = (n % b) + (IF HasBit(n, b) THEN b ELSE 0)
    BY <1>1, <1>8, ModPowers
  <2>3. n % (2 * b) = 0 /\ n % b = 0 /\ ~ HasBit(n, b) BY <1>1, <2>1, <2>2
  <2> DEFINE d == 2 * b
  <2>4. d \in Nat \ {0} /\ n % d = 0 BY <2>1, <2>3
  <2>5. m % d = d - 1
    <3> HIDE DEF d
    <3> QED BY <1>4, <2>4
  <2>6. m % b = b - 1 BY <1>4, <2>1, <2>3
  <2>7. m % d = (m % b) + (IF HasBit(m, b) THEN b ELSE 0) BY <1>3, <2>1
  <2>8. HasBit(m, b)
    <3>1. d = 2 * b OBVIOUS
    <3> HIDE DEF d, m
    <3> QED BY <2>1, <2>5, <2>6, <2>7, <3>1
  <2> QED BY <2>3, <2>8
<1> QED BY <1>6, <1>7, <1>8

LEMMA ModSmall ==
  ASSUME NEW n \in Nat, NEW b \in Nat \ {0}, n < b
  PROVE  n % b = n
<1>1. n = 0 * b + n /\ n \in 0 .. b - 1 OBVIOUS
<1> QED BY <1>1, DivUnique

\* The rotations that come before a gap of n above its bit b: n with the bits below one
\* of its zero bits cleared, that bit above b.
Above(n, b) == {n - (n % c) : c \in {p \in Powers: b < p /\ p < n /\ ~ HasBit(n, p)}}

\* The parent of n is the one without its lowest bit, unless that has no other; the
\* others that are kept are those of the gaps above.
LEMMA PendingStep ==
  ASSUME NEW n \in 1 .. HalfN - 1, NEW L, IsLowest(n, L)
  PROVE  /\ Pending(n - 1) = Above(n, L) \cup (IF n = L THEN {} ELSE {n - L})
         /\ Pending(n) = Above(n, L) \cup (IF n % 2 = 0 THEN {n} ELSE {})
         /\ n # L => (HasBit(n, 2 * L) <=> n - L \notin Above(n, L))
         /\ \A x \in Above(n, L): x \in 0 .. n - L
         /\ n = L => Above(n, L) = {}
         /\ L <= n
<1>1. L \in Powers /\ L \in Nat \ {0} /\ HasBit(n, L) /\ n % L = 0 /\ n \in Nat \ {0} /\ L <= n
  BY PowerTypes, BitBelow DEF IsLowest
<1> DEFINE m == n - 1
<1>2. m \in Nat /\ m < n /\ m + 1 = n BY <1>1
<1>3. \A b \in Powers: L < b =>
        /\ n % b \in Nat /\ n % b >= L /\ n % b <= n
        /\ m % b = (n % b) - 1
        /\ HasBit(m, b) <=> HasBit(n, b)
  <2>1. \A b \in Powers: L < b => n % b <= n BY <1>1, ModPowers
  <2> QED BY <2>1, BitsBefore
<1>4. m % L = L - 1 /\ ~ HasBit(m, L) BY BitsBefore
<1>5. \A b \in Powers: b < L => HasBit(m, b) /\ ~ HasBit(n, b) /\ n % b = 0 BY BitsBefore
<1>6. \A b \in Powers: b \in Nat \ {0} /\ b <= HalfN BY PowerTypes
<1>7. n % (2 * L) = L /\ 2 * L \in Powers
  <2>1. n % (2 * L) = (n % L) + L BY <1>1, ModDouble
  <2>2. 2 * L \in Powers BY <1>1, DoublePower, SizesAssumption
  <2> QED BY <1>1, <2>1, <2>2
<1>8. n # L => 2 * L < n
  <2> SUFFICES ASSUME n # L, n <= 2 * L PROVE FALSE
    BY <1>1
  <2> DEFINE d == 2 * L
  <2>1. d \in Nat \ {0} /\ n % d = L /\ d % d = 0
    <3>1. d = 1 * d + 0 /\ d \in Nat \ {0} /\ 0 \in 0 .. d - 1 BY <1>1
    <3>2. d % d = 0
      <4> HIDE DEF d
      <4> QED BY <3>1, DivUnique
    <3> QED BY <1>7, <3>1, <3>2
  <2>2. n # d BY <1>1, <2>1
  <2>3. n < d BY <1>1, <2>2
  <2>4. n % d = n
    <3> HIDE DEF d
    <3> QED BY <1>1, <2>1, <2>3, ModSmall
  <2> QED BY <2>1, <2>4
<1>9. ASSUME NEW b \in Powers, L < b, b < n, ~ HasBit(n, b)
      PROVE  b < m
  <2>1. CASE b = m
    <3>1. n = 1 * b + 1 /\ 1 \in 0 .. b - 1 /\ b \in Nat \ {0} BY <1>1, <1>2, <1>6, <1>9, <2>1
    <3>2. n \div b = 1 BY <3>1, DivUnique
    <3>3. HasBit(n, b) BY <3>1, <3>2 DEF HasBit
    <3> QED BY <1>9, <3>3
  <2> QED BY <1>2, <1>6, <1>9, <2>1
<1> DEFINE H == Above(n, L)
<1>10. \A x: x \in H <=> \E b \in Powers: L < b /\ b < n /\ ~ HasBit(n, b) /\ x = n - (n % b)
  BY DEF Above
<1>11. \A q, x: x \in Pending(q) <=> \E b \in Powers: b < q /\ ~ HasBit(q, b) /\ x = q - (q % b)
  BY DEF Pending
<1> HIDE DEF H
<1>12. ASSUME NEW x
       PROVE  x \in Pending(m) <=> x \in H \/ (n # L /\ x = n - L)
  <2>1. ASSUME x \in Pending(m) PROVE x \in H \/ (n # L /\ x = n - L)
    <3>1. PICK b \in Powers: b < m /\ ~ HasBit(m, b) /\ x = m - (m % b) BY <1>11, <2>1
    <3>2. CASE b < L BY <1>5, <3>1, <3>2
    <3>3. CASE b = L
      <4>1. x = n - L BY <1>1, <1>2, <1>4, <3>1, <3>3
      <4> QED BY <1>1, <1>2, <3>1, <3>3, <4>1
    <3>4. CASE L < b
      <4>1. m - (m % b) = n - (n % b) BY <1>1, <1>2, <1>3, <3>4
      <4>2. b < n BY <1>2, <1>6, <3>1
      <4>3. ~ HasBit(n, b) BY <1>3, <3>1, <3>4
      <4> QED BY <1>10, <3>1, <3>4, <4>1, <4>2, <4>3
    <3> QED BY <1>1, <1>6, <3>2, <3>3, <3>4
  <2>2. ASSUME x \in H PROVE x \in Pending(m)
    <3>1. PICK b \in Powers: L < b /\ b < n /\ ~ HasBit(n, b) /\ x = n - (n % b) BY <1>10, <2>2
    <3>2. b < m BY <1>9, <3>1
    <3>3. m - (m % b) = n - (n % b) BY <1>1, <1>2, <1>3, <3>1
    <3>4. ~ HasBit(m, b) BY <1>3, <3>1
    <3> QED BY <1>11, <3>1, <3>2, <3>3, <3>4
  <2>3. ASSUME n # L, x = n - L PROVE x \in Pending(m)
    <3>1. L < m BY <1>1, <1>2, <1>8, <2>3
    <3>2. x = m - (m % L) BY <1>1, <1>2, <1>4, <2>3
    <3> QED BY <1>1, <1>4, <1>11, <3>1, <3>2
  <2> QED BY <2>1, <2>2, <2>3
<1>13. n % 2 = 0 <=> L # 1
  <2>1. L # 1 => n % 2 = 0
    <3> SUFFICES ASSUME L # 1 PROVE n % 2 = 0
      OBVIOUS
    <3>1. 1 \in Powers /\ 1 < L BY <1>1, PowerTypes
    <3>2. n % (2 * 1) <= n % L /\ n % (2 * 1) \in Nat BY <1>1, <3>1, ModPowers
    <3> QED BY <1>1, <3>2
  <2>2. L = 1 => n % 2 # 0
    <3>1. 2 * 1 = 2 OBVIOUS
    <3> QED BY <1>7, <3>1
  <2> QED BY <2>1, <2>2
<1>14. ASSUME NEW x
       PROVE  x \in Pending(n) <=> x \in H \/ (n % 2 = 0 /\ x = n)
  <2>1. ASSUME x \in Pending(n) PROVE x \in H \/ (n % 2 = 0 /\ x = n)
    <3>1. PICK b \in Powers: b < n /\ ~ HasBit(n, b) /\ x = n - (n % b) BY <1>11, <2>1
    <3>2. CASE b < L
      <4>1. x = n BY <1>1, <1>5, <3>1, <3>2
      <4>2. L # 1 BY <1>1, <1>6, <3>2
      <4> QED BY <1>13, <4>1, <4>2
    <3>3. CASE b = L BY <1>1, <3>1, <3>3
    <3>4. CASE L < b BY <1>10, <3>1, <3>4
    <3> QED BY <1>1, <1>6, <3>2, <3>3, <3>4
  <2>2. ASSUME x \in H PROVE x \in Pending(n)
    BY <1>10, <1>11, <2>2
  <2>3. ASSUME n % 2 = 0, x = n PROVE x \in Pending(n)
    <3>1. 1 \in Powers /\ 1 < L BY <1>1, <1>13, <2>3, PowerTypes
    <3>2. ~ HasBit(n, 1) /\ n % 1 = 0 /\ 1 < n BY <1>1, <1>5, <3>1
    <3>3. x = n - (n % 1) BY <1>1, <2>3, <3>2
    <3> QED BY <1>11, <3>1, <3>2, <3>3
  <2> QED BY <2>1, <2>2, <2>3
<1>15. ASSUME n # L PROVE HasBit(n, 2 * L) <=> n - L \notin H
  <2>1. ASSUME HasBit(n, 2 * L), n - L \in H PROVE FALSE
    <3>1. PICK b \in Powers: L < b /\ b < n /\ ~ HasBit(n, b) /\ n - L = n - (n % b)
      BY <1>10, <2>1
    <3>2. b # 2 * L /\ 2 * L <= b BY <1>1, <2>1, <3>1, ModPowers
    <3> DEFINE a == 2 * L
    <3>3. a \in Powers /\ a < b /\ HasBit(n, a) /\ n % a = L /\ a > L
      BY <1>1, <1>6, <1>7, <2>1, <3>2
    <3> HIDE DEF a
    <3>4. n % (2 * a) = (n % a) + a /\ n % (2 * a) <= n % b BY <1>1, <3>3, ModPowers
    <3>5. n % b = L BY <1>1, <1>3, <3>1
    <3> QED BY <1>1, <1>6, <3>3, <3>4, <3>5
  <2>2. ASSUME ~ HasBit(n, 2 * L) PROVE n - L \in H
    <3>1. L < 2 * L /\ 2 * L < n BY <1>1, <1>8, <1>15
    <3> QED BY <1>7, <1>10, <2>2, <3>1
  <2> QED BY <2>1, <2>2
<1>16. ASSUME NEW x \in H PROVE x \in 0 .. n - L
  <2>1. PICK b \in Powers: L < b /\ x = n - (n % b) BY <1>10
  <2> QED BY <1>1, <1>3, <2>1
<1>17. n = L => H = {} BY <1>1, <1>6, <1>10
<1>18. Pending(m) = H \cup (IF n = L THEN {} ELSE {n - L}) BY <1>12
<1>19. Pending(n) = H \cup (IF n % 2 = 0 THEN {n} ELSE {}) BY <1>14
<1> QED BY <1>1, <1>15, <1>16, <1>17, <1>18, <1>19 DEF H

\* After the last rotation nothing is kept, nor before the first.
LEMMA PendingEnds ==
  Pending(HalfN - 1) = {} /\ Pending(0) = {}
<1>1. ASSUME NEW b \in Powers, b < HalfN - 1 PROVE HasBit(HalfN - 1, b)
  <2>1. b \in Nat \ {0} /\ HalfN \in Powers /\ HalfN \in Nat \ {0} /\ b < HalfN
    BY <1>1, PowerTypes, SizesAssumption
  <2> DEFINE d == 2 * b
  <2>2. Divides(d, HalfN) /\ d \in Nat \ {0} BY <2>1, PowersDivide
  <2>3. HalfN % b = 0 BY <2>1 DEF Powers
  <2>4. HalfN % d = 0
    <3> HIDE DEF d
    <3> QED BY <2>1, <2>2, DividesMod
  <2> DEFINE m == HalfN - 1
  <2>5. m % b = b - 1 BY <2>1, <2>3, ModPred
  <2>6. m % d = d - 1
    <3> HIDE DEF d
    <3> QED BY <2>1, <2>2, <2>4, ModPred
  <2>7. m \in Nat BY <2>1
  <2>8. m % d = (m % b) + (IF HasBit(m, b) THEN b ELSE 0) BY <2>1, <2>7, ModDouble
  <2>9. d = 2 * b OBVIOUS
  <2>10. HasBit(m, b)
    <3> HIDE DEF m, d
    <3> QED BY <2>1, <2>5, <2>6, <2>8, <2>9
  <2> QED BY <2>10
<1>2. \A b \in Powers: ~ (b < 0) BY PowerTypes
<1> QED BY <1>1, <1>2 DEF Pending

\* A walk starts at the highest bit, which nothing comes before.
LEMMA WalkStart ==
  ASSUME NEW n \in 1 .. HalfN - 1
  PROVE  /\ HighBit(n) \in Powers /\ HasBit(n, HighBit(n)) /\ HighBit(n) <= n
         /\ n - (n % HighBit(n)) = HighBit(n)
         /\ Above(n, HighBit(n)) = {}
<1> DEFINE c == HighBit(n)
<1>1. c \in Powers /\ c <= n /\ n < 2 * c
  <2>1. n \in 1 .. HalfN BY SizesAssumption
  <2> QED BY <2>1, HighBitIs
<1> HIDE DEF c
<1>2. c \in Nat \ {0} BY <1>1, PowerTypes
<1>3. n = 1 * c + (n - c) /\ n - c \in 0 .. c - 1 BY <1>1, <1>2
<1>4. n \div c = 1 /\ n % c = n - c BY <1>2, <1>3, DivUnique
<1>5. HasBit(n, c) BY <1>2, <1>4 DEF HasBit
<1>6. n - (n % c) = c BY <1>2, <1>4
<1>7. ASSUME NEW b \in Powers, c < b, b < n PROVE FALSE
  <2>1. 2 * c <= b BY <1>1, <1>7, PowersDivide
  <2> QED BY <1>1, <1>2, <1>7, <2>1, PowerTypes
<1>8. Above(n, c) = {} BY <1>7 DEF Above
<1> QED BY <1>1, <1>5, <1>6, <1>8 DEF c

\* What comes before the gaps above a bit is smaller than what comes after the bit.
LEMMA AboveSmaller ==
  ASSUME NEW n \in Nat, NEW b \in Powers, HasBit(n, b), NEW x \in Above(n, b)
  PROVE  x \in Nat /\ x + b <= n - (n % b) /\ n % b \in Nat
<1>1. PICK a \in Powers: b < a /\ x = n - (n % a) BY DEF Above
<1>2. /\ n % (2 * b) = (n % b) + b /\ n % (2 * b) <= n % a /\ n % a <= n
      /\ n % a \in Nat /\ n % b \in Nat
  BY <1>1, ModPowers
<1> QED BY <1>1, <1>2, PowerTypes

\* A step of a walk: to the highest of the bits below, with a gap before it or not.
LEMMA WalkStep ==
  ASSUME NEW n \in 1 .. HalfN - 1, NEW b \in Powers, HasBit(n, b), n % b # 0
  PROVE  /\ NextBit(n, b) \in Powers /\ HasBit(n, NextBit(n, b)) /\ NextBit(n, b) < b
         /\ n - (n % NextBit(n, b)) = (n - (n % b)) + NextBit(n, b)
         /\ Above(n, NextBit(n, b)) =
              Above(n, b) \cup (IF HasBit(n, b \div 2) THEN {} ELSE {n - (n % b)})
         /\ n % b \in Nat
<1>1. b \in Nat \ {0} /\ b <= n /\ b <= HalfN BY PowerTypes, BitBelow
<1> DEFINE r == n % b
           c == NextBit(n, b)
<1>2. r \in 1 .. HalfN /\ r < b /\ r \in Nat
  <2>1. r \in Nat /\ r < b /\ r # 0 BY <1>1, ModDouble
  <2> HIDE DEF r
  <2> QED BY <1>1, <2>1, SizesAssumption
<1>3. c \in Powers /\ c <= r /\ r < 2 * c
  <2>1. c = HighBit(r) BY DEF NextBit
  <2> HIDE DEF r, c
  <2>2. HighBit(r) \in Powers /\ HighBit(r) <= r /\ r < 2 * HighBit(r)
    BY ONLY <1>2, HighBitIs
  <2> QED BY <2>1, <2>2
<1>4. c \in Nat \ {0} /\ c < b
  <2> HIDE DEF r, c
  <2> QED BY <1>1, <1>2, <1>3, PowerTypes
<1>5. /\ (n % b) % c = n % c /\ (n % b) % (2 * c) = n % (2 * c) /\ n % c \in Nat
      /\ n % (2 * c) = (n % c) + (IF HasBit(n, c) THEN c ELSE 0)
      /\ 2 * c <= b
  BY <1>3, <1>4, ModPowers
<1>6. n % (2 * c) = r
  <2> DEFINE d == 2 * c
  <2>1. d \in Nat \ {0} /\ r < d BY <1>3, <1>4
  <2>2. r % d = r
    <3> HIDE DEF r, d
    <3> QED BY <1>2, <2>1, ModSmall
  <2> QED BY <1>5, <2>2
<1>7. n % c = r - c
  <2>1. r = 1 * c + (r - c) /\ r - c \in 0 .. c - 1 BY <1>2, <1>3, <1>4
  <2>2. r % c = r - c
    <3> HIDE DEF r, c
    <3> QED BY <1>4, <2>1, DivUnique
  <2> QED BY <1>5, <2>2
<1> HIDE DEF r, c
<1>8. HasBit(n, c) BY <1>2, <1>4, <1>5, <1>6, <1>7
\* Between the two bits there is none.
<1>9. ASSUME NEW a \in Powers, c < a, a < b
      PROVE  n % a = r /\ ~ HasBit(n, a)
  <2>1. a \in Nat \ {0} BY PowerTypes
  <2>2. 2 * c <= a /\ n % (2 * c) <= n % a /\ n % a \in Nat BY <1>3, <1>9, ModPowers
  <2>3. n % (2 * a) = (n % a) + (IF HasBit(n, a) THEN a ELSE 0) /\ n % (2 * a) <= n % b
    BY <1>9, ModPowers
  <2> QED BY <1>2, <1>6, <2>1, <2>2, <2>3 DEF r
<1>10. b # 1 BY <1>2, <1>3, <1>4
<1> DEFINE h == b \div 2
<1>11. h \in Powers /\ b = 2 * h /\ h \in Nat \ {0} /\ h < b BY <1>10, HalfPower, PowerTypes
<1> HIDE DEF h
<1>12. c <= h BY <1>4, <1>5, <1>11
<1>13. HasBit(n, h) <=> h = c BY <1>4, <1>8, <1>9, <1>11, <1>12
<1>14. \A a: a \in Powers => a \in Nat \ {0} BY PowerTypes
<1>15. \A x, y: x \in Above(n, y) <=> \E a \in Powers: y < a /\ a < n /\ ~ HasBit(n, a) /\ x = n - (n % a)
  BY DEF Above
<1>16. ASSUME NEW x
       PROVE  x \in Above(n, c) <=> x \in Above(n, b) \/ (h # c /\ x = n - r)
  <2>1. ASSUME x \in Above(n, c) PROVE x \in Above(n, b) \/ (h # c /\ x = n - r)
    <3>1. PICK a \in Powers: c < a /\ a < n /\ ~ HasBit(n, a) /\ x = n - (n % a)
      BY <1>15, <2>1
    <3>2. CASE b < a BY <1>15, <3>1, <3>2
    <3>3. CASE a < b
      <4>1. x = n - r BY <1>9, <3>1, <3>3
      <4>2. 2 * a <= b BY <3>3, ModPowers
      <4>3. h # c BY <1>4, <1>11, <1>14, <3>1, <4>2
      <4> QED BY <4>1, <4>3
    <3>4. a # b BY <3>1
    <3> QED BY <1>1, <1>14, <3>2, <3>3, <3>4
  <2>2. ASSUME x \in Above(n, b) PROVE x \in Above(n, c)
    <3>1. PICK a \in Powers: b < a /\ a < n /\ ~ HasBit(n, a) /\ x = n - (n % a)
      BY <1>15, <2>2
    <3>2. c < a BY <1>1, <1>4, <1>14, <3>1
    <3> QED BY <1>15, <3>1, <3>2
  <2>3. ASSUME h # c, x = n - r PROVE x \in Above(n, c)
    <3>1. c < h /\ h < n BY <1>1, <1>4, <1>11, <1>12, <2>3
    <3>2. n % h = r /\ ~ HasBit(n, h) BY <1>9, <1>11, <3>1
    <3> QED BY <1>11, <1>15, <2>3, <3>1, <3>2
  <2> QED BY <2>1, <2>2, <2>3
<1>17. Above(n, c) = Above(n, b) \cup (IF HasBit(n, h) THEN {} ELSE {n - r})
  BY <1>13, <1>16
<1>18. n - (n % c) = (n - r) + c BY <1>2, <1>4, <1>7
<1> QED BY <1>2, <1>3, <1>4, <1>8, <1>17, <1>18 DEF r, c, h

-----------------------------------------------------------------------------
(* The stack *)

\* The stack s holds the rotations in S of query q and half h, in order.
Holds(s, q, h, S) ==
  /\ s \in Seq([query: {q}, swapped: {h}, by: 0 .. HalfN - 1])
  /\ \A a, b \in DOMAIN s: a < b => s[a].by < s[b].by
  /\ {s[a].by : a \in DOMAIN s} = S

Ct(q, h, x) == [query |-> q, swapped |-> h, by |-> x]

LEMMA HoldsNothing ==
  ASSUME NEW q, NEW h
  PROVE  Holds(<<>>, q, h, {})
BY DEF Holds

LEMMA HoldsEmpty ==
  ASSUME NEW s, NEW q, NEW h, NEW S, Holds(s, q, h, S)
  PROVE  s = <<>> <=> S = {}
<1>1. s \in Seq([query: {q}, swapped: {h}, by: 0 .. HalfN - 1]) BY DEF Holds
<1>2. DOMAIN s = 1 .. Len(s) /\ Len(s) \in Nat BY <1>1
<1>3. s = <<>> <=> Len(s) = 0 BY <1>1, EmptySeq
<1>4. S = {} <=> DOMAIN s = {} BY DEF Holds
<1> QED BY <1>2, <1>3, <1>4

\* A rotation above all the others is put on top.
LEMMA HoldsAppend ==
  ASSUME NEW s, NEW q, NEW h, NEW S, Holds(s, q, h, S),
         NEW y \in 0 .. HalfN - 1, \A x \in S: x < y
  PROVE  Holds(Append(s, Ct(q, h, y)), q, h, S \cup {y})
<1> DEFINE T == [query: {q}, swapped: {h}, by: 0 .. HalfN - 1]
           e == Ct(q, h, y)
           t == Append(s, e)
           n == Len(s)
<1>1. s \in Seq(T) /\ e \in T BY DEF Holds, Ct
<1>2. t \in Seq(T) /\ n \in Nat /\ DOMAIN s = 1 .. n /\ DOMAIN t = 1 .. n + 1
      /\ t[n + 1] = e /\ \A a \in 1 .. n: t[a] = s[a]
  <2> HIDE DEF T, e
  <2> QED BY <1>1
<1>3. e.by = y BY DEF Ct
<1>4. \A a \in 1 .. n: s[a].by \in S BY <1>2 DEF Holds
<1>5. \A a, b \in 1 .. n: a < b => s[a].by < s[b].by BY <1>2 DEF Holds
<1>6. S = {s[a].by : a \in 1 .. n} BY <1>2 DEF Holds
<1> HIDE DEF e, t, n, T
<1>7. ASSUME NEW a \in 1 .. n + 1, NEW b \in 1 .. n + 1, a < b
      PROVE  t[a].by < t[b].by
  <2>1. a \in 1 .. n BY <1>2, <1>7
  <2>2. CASE b = n + 1 BY <1>2, <1>3, <1>4, <2>1, <2>2
  <2>3. CASE b \in 1 .. n BY <1>2, <1>5, <1>7, <2>1, <2>3
  <2> QED BY <1>2, <2>2, <2>3
<1>8. {t[a].by : a \in 1 .. n + 1} = S \cup {y}
  <2>1. 1 .. n + 1 = (1 .. n) \cup {n + 1} BY <1>2
  <2>2. {t[a].by : a \in 1 .. n} = S BY <1>2, <1>6
  <2> QED BY <1>2, <1>3, <2>1, <2>2
<1> QED BY <1>2, <1>7, <1>8 DEF Holds, T, t, e

\* The greatest is on top, and goes first.
LEMMA HoldsTop ==
  ASSUME NEW s, NEW q, NEW h, NEW S, Holds(s, q, h, S),
         NEW y \in S, \A x \in S: x <= y
  PROVE  /\ s # <<>> /\ Last(s) = Ct(q, h, y)
         /\ Holds(Front(s), q, h, S \ {y})
<1> DEFINE T == [query: {q}, swapped: {h}, by: 0 .. HalfN - 1]
           n == Len(s)
           t == Front(s)
<1>1. s \in Seq(T) BY DEF Holds
<1> HIDE DEF T
<1>2. s # <<>> BY HoldsEmpty
<1>3. n \in Nat \ {0} /\ DOMAIN s = 1 .. n /\ \A a \in 1 .. n: s[a] \in T
  <2>1. n # 0 BY <1>1, <1>2, EmptySeq
  <2> QED BY <1>1, <2>1
<1>4. \A a \in 1 .. n: s[a].by \in S BY <1>3 DEF Holds
<1>5. \A a, b \in 1 .. n: a < b => s[a].by < s[b].by BY <1>3 DEF Holds
<1>6. S = {s[a].by : a \in 1 .. n} BY <1>3 DEF Holds
<1>7. \A a \in 1 .. n: s[a].by \in 0 .. HalfN - 1 BY <1>3 DEF T
<1> HIDE DEF n
<1>8. s[n].by = y
  <2>1. PICK a \in 1 .. n: y = s[a].by BY <1>6
  <2>2. n \in 1 .. n BY <1>3
  <2>3. CASE a = n BY <2>1, <2>3
  <2>4. CASE a # n
    <3>1. a < n BY <1>3, <2>4
    <3>2. y < s[n].by BY <1>5, <2>1, <2>2, <3>1
    <3>3. s[n].by <= y BY <1>4, <2>2
    <3>4. s[n].by \in Int /\ y \in Int BY <1>7, <2>1, <2>2
    <3> QED BY <3>2, <3>3, <3>4
  <2> QED BY <2>3, <2>4
<1>9. Last(s) = s[n] BY DEF Last, n
<1>10. s[n] = Ct(q, h, y) BY <1>3, <1>8 DEF T, Ct
<1>11. t \in Seq(T) /\ DOMAIN t = 1 .. n - 1 /\ \A a \in 1 .. n - 1: t[a] = s[a]
  <2>1. t = SubSeq(s, 1, n - 1) BY DEF Front, n
  <2> HIDE DEF t
  <2>2. s \in Seq(T) /\ 1 \in 1 .. Len(s) + 1 /\ n - 1 \in 0 .. Len(s)
    BY <1>1, <1>3 DEF n
  <2>3. /\ SubSeq(s, 1, n - 1) \in Seq(T)
        /\ Len(SubSeq(s, 1, n - 1)) = IF 1 <= n - 1 THEN n - 1 - 1 + 1 ELSE 0
        /\ \A a \in 1 .. n - 1 - 1 + 1: SubSeq(s, 1, n - 1)[a] = s[1 + a - 1]
    BY <2>2, SubSeqProperties
  <2>4. t \in Seq(T) /\ Len(t) = n - 1 BY <1>3, <2>1, <2>3
  <2>5. n - 1 - 1 + 1 = n - 1 /\ \A a \in 1 .. n - 1: 1 + a - 1 = a BY <1>3
  <2> QED BY <2>1, <2>3, <2>4, <2>5
<1> HIDE DEF t
<1>12. {t[a].by : a \in 1 .. n - 1} = S \ {y}
  <2>1. \A a \in 1 .. n - 1: t[a].by \in S /\ t[a].by # y
    <3> SUFFICES ASSUME NEW a \in 1 .. n - 1 PROVE s[a].by \in S /\ s[a].by # y
      BY <1>11
    <3>1. a \in 1 .. n /\ n \in 1 .. n /\ a < n BY <1>3
    <3>2. s[a].by < s[n].by BY <1>5, <3>1
    <3> QED BY <1>4, <1>7, <1>8, <3>1, <3>2
  <2>2. ASSUME NEW x \in S, x # y PROVE \E a \in 1 .. n - 1: x = t[a].by
    <3>1. PICK a \in 1 .. n: x = s[a].by BY <1>6
    <3>2. a # n BY <1>8, <2>2, <3>1
    <3> QED BY <1>3, <1>11, <3>1, <3>2
  <2> QED BY <2>1, <2>2
<1>13. \A a, b \in 1 .. n - 1: a < b => t[a].by < t[b].by
  <2>1. 1 .. n - 1 \subseteq 1 .. n BY <1>3
  <2> QED BY <1>5, <1>11, <2>1
<1> QED BY <1>2, <1>9, <1>10, <1>11, <1>12, <1>13 DEF Holds, T, t

\* What is kept ends in a bit that has a gap before it.
LEMMA PendingBit ==
  ASSUME NEW n \in 0 .. HalfN - 1, NEW x \in Pending(n)
  PROVE  \E c \in Powers: /\ c # 1 /\ c < HalfN /\ HasBit(n, c) /\ ~ HasBit(n, c \div 2)
                          /\ x = n - (n % c)
<1>1. PICK b \in Powers: b < n /\ ~ HasBit(n, b) /\ x = n - (n % b) BY DEF Pending
<1>2. b \in Nat \ {0} /\ n \in 1 .. HalfN - 1 BY <1>1, PowerTypes
<1> DEFINE S == {c \in Powers: b < c /\ HasBit(n, c)}
<1>3. HighBit(n) \in S
  <2> DEFINE g == HighBit(n)
  <2>1. g \in Powers /\ HasBit(n, g) /\ g <= n /\ n < 2 * g
    <3>1. g \in Powers /\ HasBit(n, g) /\ g <= n BY <1>2, WalkStart
    <3>2. n \in 1 .. HalfN BY <1>2, SizesAssumption
    <3>3. n < 2 * g BY <3>2, HighBitIs
    <3> QED BY <3>1, <3>3
  <2> HIDE DEF g
  <2>2. g \in Nat \ {0} /\ g # b BY <1>1, <2>1, PowerTypes
  <2>3. ~ (g < b)
    <3> SUFFICES ASSUME g < b PROVE FALSE
      OBVIOUS
    <3>1. 2 * g <= b BY <2>1, PowersDivide
    <3> QED BY <1>1, <1>2, <2>1, <2>2, <3>1
  <2> QED BY <1>2, <2>1, <2>2, <2>3 DEF g
<1>4. S \in SUBSET Nat BY PowerTypes
<1>5. PICK c \in S: \A y \in S: c <= y
  <2> HIDE DEF S
  <2> QED BY <1>3, <1>4, LeastNatural
<1>6. c \in Powers /\ b < c /\ HasBit(n, c) /\ c \in Nat \ {0} BY <1>5, PowerTypes
<1>7. c <= n BY <1>6, BitBelow
<1>8. \A a \in Powers: b <= a /\ a < c => ~ HasBit(n, a)
  <2> SUFFICES ASSUME NEW a \in Powers, b <= a, a < c, HasBit(n, a) PROVE FALSE
    OBVIOUS
  <2>1. a \in Nat BY PowerTypes
  <2>2. a \in S BY <1>1, <1>2, <2>1
  <2> QED BY <1>5, <1>6, <2>1, <2>2
<1>9. n % b = n % c BY <1>2, <1>6, <1>8, ModGap
<1>10. c # 1 BY <1>2, <1>6
<1> DEFINE h == c \div 2
<1>11. h \in Powers /\ c = 2 * h /\ h < c /\ h \in Nat BY <1>6, <1>10, HalfPower, PowerTypes
<1>12. b <= h
  <2>1. 2 * b <= c BY <1>6, PowersDivide
  <2> HIDE DEF h
  <2> QED BY <1>2, <1>11, <2>1
<1>13. ~ HasBit(n, h) BY <1>8, <1>11, <1>12
<1>14. c < HalfN BY <1>2, <1>6, <1>7, SizesAssumption
<1>15. x = n - (n % c) BY <1>1, <1>9
<1> QED BY <1>6, <1>10, <1>13, <1>14, <1>15

\* Each of them has two bits of its own, its last one and the gap before it.
LEMMA StackFits ==
  ASSUME NEW n \in 0 .. HalfN - 1, NEW s, NEW q, NEW h, NEW S, Holds(s, q, h, S),
         S \subseteq Pending(n)
  PROVE  2 * Len(s) <= LogHalfN
<1> DEFINE Ones == {b \in Keys: HasBit(n, b)}
           Zeros == Keys \ Ones
           D == 1 .. Len(s)
<1>1. Len(s) \in Nat /\ DOMAIN s = D /\ \A a \in D: s[a].by \in Nat
  <2> DEFINE T == [query: {q}, swapped: {h}, by: 0 .. HalfN - 1]
  <2>1. s \in Seq(T) BY DEF Holds
  <2>2. \A t \in T: t.by \in Nat OBVIOUS
  <2>3. Len(s) \in Nat /\ DOMAIN s = D /\ \A a \in D: s[a] \in T
    <3> HIDE DEF T
    <3> QED BY <2>1
  <2> QED BY <2>2, <2>3
<1>2. IsFiniteSet(Keys) /\ IsFiniteSet(Ones) /\ IsFiniteSet(Zeros)
      /\ LogHalfN = Cardinality(Ones) + Cardinality(Zeros)
      /\ Cardinality(Ones) \in Nat /\ Cardinality(Zeros) \in Nat
  <2>1. IsFiniteSet(1 .. HalfN) BY SizesAssumption, FS_Interval
  <2>2. Keys \in SUBSET (1 .. HalfN) BY DEF Keys, Powers
  <2>3. IsFiniteSet(Keys) BY <2>1, <2>2, FS_Subset
  <2>4. Ones \in SUBSET Keys /\ Zeros \in SUBSET Keys OBVIOUS
  <2>5. IsFiniteSet(Ones) BY <2>3, <2>4, FS_Subset
  <2>6. IsFiniteSet(Zeros) BY <2>3, <2>4, FS_Subset
  <2>7. Ones \cup Zeros = Keys /\ Ones \cap Zeros = {} OBVIOUS
  <2>8. Cardinality(Ones \cup Zeros)
          = Cardinality(Ones) + Cardinality(Zeros) - Cardinality(Ones \cap Zeros)
    <3> HIDE DEF Ones, Zeros
    <3> QED BY <2>5, <2>6, FS_Union
  <2>9. Cardinality({}) = 0 BY FS_EmptySet
  <2>10. Cardinality(Ones) \in Nat /\ Cardinality(Zeros) \in Nat
    BY <2>5, <2>6, FS_CardinalityType
  <2>11. LogHalfN = Cardinality(Ones \cup Zeros) BY <2>7 DEF LogHalfN
  <2>12. Cardinality(Ones \cap Zeros) = 0 BY <2>7, <2>9
  <2> HIDE DEF Ones, Zeros
  <2> QED BY <2>3, <2>5, <2>6, <2>8, <2>10, <2>11, <2>12
<1> DEFINE f == [a \in D |-> CHOOSE c \in Powers:
                  /\ c # 1 /\ c < HalfN /\ HasBit(n, c) /\ ~ HasBit(n, c \div 2)
                  /\ s[a].by = n - (n % c)]
           g == [a \in D |-> f[a] \div 2]
<1>3. ASSUME NEW a \in D
      PROVE  /\ f[a] \in Powers /\ f[a] # 1 /\ f[a] < HalfN
             /\ HasBit(n, f[a]) /\ ~ HasBit(n, f[a] \div 2)
             /\ s[a].by = n - (n % f[a])
  <2>1. s[a].by \in Pending(n) BY <1>1 DEF Holds
  <2>2. \E c \in Powers: /\ c # 1 /\ c < HalfN /\ HasBit(n, c) /\ ~ HasBit(n, c \div 2)
                         /\ s[a].by = n - (n % c)
    BY <2>1, PendingBit
  <2> QED BY <2>2
<1> HIDE DEF f
<1>4. ASSUME NEW a \in D
      PROVE  g[a] \in Powers /\ f[a] = 2 * g[a] /\ g[a] < f[a] /\ g[a] = f[a] \div 2
  <2>1. f[a] \in Powers /\ f[a] # 1 BY <1>3
  <2> QED BY <2>1, HalfPower
<1>5. \A a, b \in D: f[a] = f[b] => a = b
  <2> SUFFICES ASSUME NEW a \in D, NEW b \in D, f[a] = f[b], a # b PROVE FALSE
    OBVIOUS
  <2>1. s[a].by = s[b].by BY <1>3
  <2>2. a < b \/ b < a BY <1>1
  <2>3. s[a].by < s[b].by \/ s[b].by < s[a].by BY <1>1, <2>2 DEF Holds
  <2> QED BY <1>1, <2>1, <2>3
<1>6. f \in Injection(D, Ones)
  <2>1. \A a \in D: f[a] \in Ones BY <1>3, PowerTypes, SizesAssumption DEF Keys
  <2>2. f \in [D -> Ones]
    <3>1. DOMAIN f = D /\ f = [a \in D |-> f[a]] BY DEF f
    <3> HIDE DEF Ones, D
    <3> QED BY <2>1, <3>1
  <2> QED BY <1>5, <2>2 DEF Injection, IsInjective
<1>7. g \in Injection(D, Zeros)
  <2>1. ASSUME NEW a \in D PROVE g[a] \in Zeros
    <3>1. g[a] \in Powers /\ g[a] < f[a] /\ f[a] < HalfN BY <1>3, <1>4
    <3>2. f[a] \in Nat /\ g[a] \in Nat /\ HalfN \in Nat
      BY <1>3, <3>1, PowerTypes, SizesAssumption
    <3>3. g[a] # HalfN
      <4> HIDE DEF g
      <4> QED BY <3>1, <3>2
    <3>4. ~ HasBit(n, g[a]) BY <1>3, <1>4
    <3> QED BY <3>1, <3>3, <3>4 DEF Keys
  <2>2. g \in [D -> Zeros]
    <3> HIDE DEF Zeros, D
    <3> QED BY <2>1
  <2>3. \A a, b \in D: g[a] = g[b] => a = b
    <3> HIDE DEF g, D
    <3> QED BY <1>4, <1>5
  <2> HIDE DEF g
  <2> QED BY <2>2, <2>3 DEF Injection, IsInjective
<1>8. Cardinality(D) = Len(s)
  <2> DEFINE l == Len(s)
  <2>1. l \in Nat /\ l \in Int /\ 1 \in Int BY <1>1
  <2> HIDE DEF l
  <2>2. Cardinality(1 .. l) = IF 1 > l THEN 0 ELSE l - 1 + 1 BY <2>1, FS_Interval
  <2>3. Cardinality(1 .. l) = l BY <2>1, <2>2
  <2> QED BY <2>3 DEF l
<1> HIDE DEF D, Ones, Zeros, f, g
<1>9. Cardinality(D) <= Cardinality(Ones) BY <1>2, <1>6, FS_Injection
<1>10. Cardinality(D) <= Cardinality(Zeros) BY <1>2, <1>7, FS_Injection
<1> QED BY <1>1, <1>2, <1>8, <1>9, <1>10

-----------------------------------------------------------------------------
(* The range of a thread *)

\* The range of a pair of threads of merge is a part of the rotations.
LEMMA MergeRotations ==
  ASSUME NEW s \in Shapes, IsMerge(s), NEW w \in Workers(s), NEW t \in Threads(s)
  PROVE  \E c \in Nat \ {0}, p \in Nat:
           /\ p < c /\ c <= HalfN
           /\ StartRot(s, w, t) = First(HalfN, c, p) /\ EndRot(s, w, t) = End(HalfN, c, p)
           /\ QueryIdx(s, t) \in 0 .. s.factor - 1
<1> DEFINE f == s.factor
           th == s.threads
           d == 2 * f
           c == th \div d
           b == 2 * c
           m == t % b
           p == m \div 2
<1>1. /\ f \in Nat \ {0} /\ th \in Nat \ {0} /\ d \in Nat \ {0}
      /\ th % d = 0 /\ th <= f * N /\ HalfN \in Nat \ {0} /\ t \in Nat /\ t < th
  BY ShapesAssumption, SizesAssumption DEF ShapeOK, IsMerge, Threads
<1>2. c \in Nat /\ th = d * c
  <2> HIDE DEF d, th
  <2>1. th \div d \in Nat /\ th = (d * (th \div d)) + (th % d) BY <1>1, DivMod
  <2>2. d * (th \div d) \in Nat BY <1>1, <2>1
  <2> QED BY <1>1, <2>1, <2>2
<1>3. c \in Nat \ {0} /\ b \in Nat \ {0} /\ th = b * f + 0 /\ 0 \in 0 .. f - 1
  <2> HIDE DEF c, f, th
  <2> QED BY <1>1, <1>2
<1>4. ThreadPerQuery(s) = b
  <2> HIDE DEF b
  <2>1. (b * f + 0) \div f = b
    <3> HIDE DEF f
    <3> QED BY <1>1, <1>3, DivUnique
  <2> QED BY <1>3, <2>1 DEF ThreadPerQuery
<1>5. b \div 2 = c
  <2> HIDE DEF c
  <2> QED BY <1>3
<1>6. m \in 0 .. b - 1 /\ t \div b \in Nat /\ t = (b * (t \div b)) + m
  <2> HIDE DEF b
  <2> QED BY <1>1, <1>3, DivMod
<1>7. p \in Nat /\ p < c
  <2> HIDE DEF m, c
  <2> QED BY <1>3, <1>6
<1>8. N \div b = HalfN \div c
  <2> HIDE DEF c
  <2> QED BY <1>1, <1>3, TwiceDiv DEF N
<1>9. Pair(s, t) = p /\ RestRot(s) = HalfN % c /\ QueryIdx(s, t) = t \div b
  BY <1>4, <1>5 DEF Pair, RestRot, QueryIdx
<1>10. StartRot(s, w, t) = First(HalfN, c, p)
  BY <1>4, <1>8, <1>9 DEF StartRot, First
<1>11. EndRot(s, w, t) = End(HalfN, c, p)
  BY <1>4, <1>8, <1>9, <1>10 DEF EndRot, End, Share
<1>12. c <= HalfN
  <2>1. th = (2 * c) * f /\ th <= (2 * HalfN) * f
    <3> HIDE DEF c, f, th
    <3> QED BY <1>1, <1>2, <1>3 DEF N
  <2> SUFFICES ASSUME HalfN + 1 <= c PROVE FALSE
    <3> HIDE DEF c
    <3> QED BY <1>1, <1>3
  <2> HIDE DEF c, f, th
  <2>2. PICK e \in Nat: c = (HalfN + 1) + e
    <3>1. c - (HalfN + 1) \in Nat /\ c = (HalfN + 1) + (c - (HalfN + 1)) BY <1>1, <1>3
    <3> QED BY <3>1
  <2>3. th = (2 * HalfN) * f + 2 * f + (2 * e) * f BY <1>1, <2>1, <2>2
  <2>4. (2 * HalfN) * f \in Nat /\ (2 * e) * f \in Nat BY <1>1
  <2> QED BY <1>1, <2>1, <2>3, <2>4
<1>13. t \div b < f
  <2> DEFINE q == t \div b
  <2>4. q \in Nat BY <1>6
  <2> SUFFICES ASSUME f <= q PROVE FALSE
    <3> HIDE DEF f, q
    <3> QED BY <1>1, <2>4
  <2>1. q \in Nat /\ t = (b * q) + m /\ m \in Nat BY <1>3, <1>6
  <2> HIDE DEF q, b, f, th, m
  <2>2. PICK e \in Nat: q = f + e
    <3>1. q - f \in Nat /\ q = f + (q - f) BY <1>1, <2>1
    <3> QED BY <3>1
  <2>3. b * q = b * f + b * e /\ b * e \in Nat /\ b * f \in Nat BY <1>1, <1>3, <2>2
  <2> QED BY <1>1, <1>3, <2>1, <2>3
<1>14. QueryIdx(s, t) \in 0 .. f - 1
  <2> HIDE DEF f, b
  <2> QED BY <1>1, <1>6, <1>9, <1>13
<1> HIDE DEF c, p
<1> QED BY <1>3, <1>7, <1>10, <1>11, <1>12, <1>14

\* That of a thread of split is a part of the part of its worker.
LEMMA SplitRotations ==
  ASSUME NEW s \in Shapes, ~ IsMerge(s), NEW w \in Workers(s), NEW t \in Threads(s)
  PROVE  \E c \in Nat \ {0}, p \in Nat, n \in Nat:
           /\ p < c /\ c <= HalfN /\ n = Share(HalfN, c, p)
           /\ s.threads \in Nat \ {0} /\ s.threads <= n
           /\ StartRot(s, w, t) = First(HalfN, c, p) + First(n, s.threads, t)
           /\ EndRot(s, w, t) = StartRot(s, w, t) + Share(n, s.threads, t)
<1> DEFINE f == s.factor
           c == f \div 2
           p == w % c
           n == WorkerTotRot(s, w)
<1>1. /\ f \in Nat \ {0} /\ f % 2 = 0 /\ s.threads \in Nat \ {0} /\ s.threads <= N \div f
      /\ HalfN \in Nat \ {0} /\ w \in Nat
  BY ShapesAssumption, SizesAssumption DEF ShapeOK, IsMerge, Workers
<1>2. c \in Nat \ {0} /\ f = 2 * c
  <2> HIDE DEF f
  <2> QED BY <1>1
<1>3. N \div f = HalfN \div c
  <2> HIDE DEF c, f
  <2> QED BY <1>1, <1>2, TwiceDiv DEF N
<1>4. p \in 0 .. c - 1
  <2> HIDE DEF c
  <2> QED BY <1>1, <1>2, DivMod
<1>5. WorkerRotStart(s, w) = First(HalfN, c, p) /\ n = Share(HalfN, c, p)
  BY DEF WorkerRotStart, WorkerTotRot
<1> HIDE DEF c, p, n, f
<1>6. c <= HalfN
  <2>1. HalfN \div c \in Nat /\ HalfN = (c * (HalfN \div c)) + (HalfN % c)
        /\ HalfN % c \in 0 .. c - 1
    BY <1>1, <1>2, DivMod
  <2>2. HalfN \div c # 0 BY <1>1, <1>3, <2>1
  <2> DEFINE q == HalfN \div c
  <2>3. PICK e \in Nat: q = e + 1
    <3>1. q - 1 \in Nat /\ q = (q - 1) + 1 BY <2>1, <2>2
    <3> QED BY <3>1
  <2> HIDE DEF q
  <2>4. c * q = c * e + c /\ c * e \in Nat BY <1>2, <2>3
  <2>5. HalfN = (c * q) + (HalfN % c) BY <2>1 DEF q
  <2> QED BY <1>1, <1>2, <2>1, <2>4, <2>5
<1>7. n \in Nat /\ HalfN \div c <= n /\ HalfN \div c \in Nat
  <2>1. Share(HalfN, c, p) \in Nat /\ HalfN \div c <= Share(HalfN, c, p)
    BY <1>1, <1>2, <1>4, <1>6, ShareNonempty
  <2>2. HalfN \div c \in Nat BY <1>1, <1>2, DivMod
  <2> QED BY <1>5, <2>1, <2>2
<1>8. s.threads <= n BY <1>1, <1>3, <1>7
<1>9. StartRot(s, w, t) = First(HalfN, c, p) + First(n, s.threads, t)
  BY <1>5 DEF StartRot, n
<1>10. EndRot(s, w, t) = StartRot(s, w, t) + Share(n, s.threads, t)
  BY DEF EndRot, n
<1> QED BY <1>1, <1>2, <1>4, <1>5, <1>6, <1>7, <1>8, <1>9, <1>10

\* Every thread has rotations, a query and a half of it.
LEMMA ThreadRange ==
  ASSUME NEW s \in Shapes, NEW w \in Workers(s), NEW t \in Threads(s)
  PROVE  /\ StartRot(s, w, t) \in Nat /\ EndRot(s, w, t) \in Nat
         /\ StartRot(s, w, t) < EndRot(s, w, t) /\ EndRot(s, w, t) <= HalfN
         /\ QueryIdx(s, t) \in Nat
         /\ WorkerQueries(s, w)[QueryIdx(s, t)] \in Nat
         /\ Half(s, w, t) \in {0, 1}
<1>1. /\ s.factor \in Nat \ {0} /\ w \in Nat /\ t \in Nat /\ HalfN \in Nat
      /\ s.threads \in Nat \ {0} /\ t \in 0 .. s.threads - 1
  BY ShapesAssumption, SizesAssumption DEF ShapeOK, Workers, Threads
<1>2. CASE IsMerge(s)
  <2>1. PICK c \in Nat \ {0}, p \in Nat:
           /\ p < c /\ c <= HalfN
           /\ StartRot(s, w, t) = First(HalfN, c, p) /\ EndRot(s, w, t) = End(HalfN, c, p)
           /\ QueryIdx(s, t) \in 0 .. s.factor - 1
    BY <1>2, MergeRotations
  <2>2. p \in 0 .. c - 1 BY <2>1
  <2>3. Share(HalfN, c, p) \in Nat \ {0} BY <1>1, <2>1, <2>2, ShareNonempty
  <2>4. First(HalfN, c, p) \in Nat BY <1>1, <2>2, PartsInOrder
  <2>5. End(HalfN, c, p) <= HalfN BY <1>1, <2>2, PartsWithin
  <2>6. End(HalfN, c, p) = First(HalfN, c, p) + Share(HalfN, c, p) BY DEF End
  <2>7. WorkerQueries(s, w)[QueryIdx(s, t)] = w * s.factor + QueryIdx(s, t)
    BY <1>2, <2>1 DEF WorkerQueries
  <2>8. w * s.factor \in Nat BY <1>1
  <2>9. Half(s, w, t) \in {0, 1} BY <1>1, <1>2 DEF Half
  <2> QED BY <1>1, <2>1, <2>3, <2>4, <2>5, <2>6, <2>7, <2>8, <2>9
<1>3. CASE ~ IsMerge(s)
  <2>1. PICK c \in Nat \ {0}, p \in Nat, n \in Nat:
           /\ p < c /\ c <= HalfN /\ n = Share(HalfN, c, p)
           /\ s.threads \in Nat \ {0} /\ s.threads <= n
           /\ StartRot(s, w, t) = First(HalfN, c, p) + First(n, s.threads, t)
           /\ EndRot(s, w, t) = StartRot(s, w, t) + Share(n, s.threads, t)
    BY <1>3, SplitRotations
  <2> DEFINE th == s.threads
             a == First(HalfN, c, p)
             x == First(n, th, t)
             y == Share(n, th, t)
  <2>2. p \in 0 .. c - 1 /\ th \in Nat \ {0} /\ th <= n /\ t \in 0 .. th - 1 BY <1>1, <2>1
  <2>3. a \in Nat BY <1>1, <2>2, PartsInOrder
  <2>4. End(HalfN, c, p) <= HalfN BY <1>1, <2>2, PartsWithin
  <2>5. End(HalfN, c, p) = a + n BY <2>1 DEF End
  <2>6. x \in Nat /\ End(n, th, t) <= n /\ End(n, th, t) = x + y
    <3> HIDE DEF th
    <3> QED BY <2>2, PartsInOrder, PartsWithin DEF End
  <2>7. y \in Nat \ {0}
    <3> HIDE DEF th
    <3> QED BY <2>2, ShareNonempty
  <2>8. StartRot(s, w, t) = a + x /\ EndRot(s, w, t) = (a + x) + y BY <2>1
  <2> HIDE DEF a, x, y, th
  <2>9. /\ StartRot(s, w, t) \in Nat /\ EndRot(s, w, t) \in Nat
        /\ StartRot(s, w, t) < EndRot(s, w, t) /\ EndRot(s, w, t) <= HalfN
    BY <1>1, <2>3, <2>4, <2>5, <2>6, <2>7, <2>8
  <2>10. QueryIdx(s, t) = 0 /\ WorkerQueries(s, w)[0] = w \div s.factor
    BY <1>3 DEF QueryIdx, WorkerQueries
  <2>11. w \div s.factor \in Nat BY <1>1, DivMod
  <2>12. Half(s, w, t) \in {0, 1} BY <1>3 DEF Half
  <2> QED BY <2>9, <2>10, <2>11, <2>12
<1> QED BY <1>2, <1>3

-----------------------------------------------------------------------------
(* The invariant of the rotations *)

\* Which rotations the stack has between two rounds, n being the last one.
KeptAfter(n) == IF n < start THEN {} ELSE Pending(n)

\* The thread and its range.
Place ==
  /\ program \in {"worker", "baseline", "matmult", "opt1", "opt2"}
  /\ ~ Whole => /\ at.shape \in Shapes /\ at.worker \in Workers(at.shape)
                /\ at.thread \in Threads(at.shape)
                /\ program = "baseline" => IsMerge(at.shape)

\* The counters of the loops, and the query they are at.
Loops ==
  /\ pc \in {"rotate", "walk", "multiply", "next", "done"}
  /\ resIdx \in 0 .. LastRow
  /\ qIdx \in FirstQuery .. LastQuery /\ iter \in FirstHalf .. LastHalf
  /\ i \in start .. end - 1
  /\ qCt = Ct(qIdx, iter, 0)

\* A walk from the query: that of a worker is at one of the bits of its rotation, the
\* rotation so far being that of the bits above; the others are at any rotation so far.
Walk ==
  /\ k \in Keys \cup {0} /\ rotSum \in 0 .. HalfN - 1 /\ temp \in Ciphertext
  /\ pc = "walk" => program \notin {"opt1", "opt2"}
  /\ pc = "walk" /\ Stacked =>
       /\ i # 0 /\ k \in Powers /\ HasBit(i, k) /\ rotSum = i - (i % k)
       /\ temp = Ct(qIdx, iter, rotSum - k)
  /\ pc = "walk" /\ ~ Stacked => rotSum <= i /\ temp = Ct(qIdx, iter, rotSum)
  /\ pc = "multiply" => temp = Ct(qIdx, iter, i)

\* The stack: in a walk what comes before the gaps above its bit, between two rounds
\* what the later rounds need.
Stack ==
  /\ ~ Stacked => st = <<>>
  /\ Stacked /\ pc = "walk" => Holds(st, qIdx, iter, Above(i, k))
  /\ Stacked /\ pc = "rotate" => Holds(st, qIdx, iter, KeptAfter(i - 1))
  /\ Stacked /\ pc \in {"multiply", "next", "done"} => Holds(st, qIdx, iter, KeptAfter(i))

WalkInv == Place /\ Loops /\ Walk /\ Stack

\* The bounds of the loops.
LEMMA Bounds ==
  ASSUME Place
  PROVE  /\ start \in Nat /\ end \in Nat /\ start < end /\ end <= HalfN /\ HalfN \in Nat \ {0}
         /\ FirstQuery \in Nat /\ LastQuery \in Nat /\ FirstQuery <= LastQuery
         /\ FirstHalf \in {0, 1} /\ LastHalf \in {0, 1} /\ FirstHalf <= LastHalf
         /\ LastRow \in Nat
         /\ Whole => start = 0 /\ end = HalfN /\ FirstQuery = 0 /\ FirstHalf = 0 /\ LastHalf = 1
         /\ ~ Whole => FirstQuery = LastQuery /\ FirstHalf = LastHalf
<1>1. HalfN \in Nat \ {0} /\ Rows \in Nat \ {0} /\ Queries \in Nat \ {0}
  BY SizesAssumption, LoopAssumption
<1>2. LastRow \in Nat BY <1>1 DEF LastRow
<1>3. CASE Whole
  <2>1. start = 0 /\ end = HalfN /\ FirstQuery = 0 /\ FirstHalf = 0 /\ LastHalf = 1
        /\ LastQuery = Queries - 1
    BY <1>3 DEF start, end, FirstQuery, FirstHalf, LastHalf, LastQuery
  <2> QED BY <1>1, <1>2, <1>3, <2>1
<1>4. CASE ~ Whole
  <2>1. at.shape \in Shapes /\ at.worker \in Workers(at.shape) /\ at.thread \in Threads(at.shape)
    BY <1>4 DEF Place
  <2>2. /\ start = StartRot(at.shape, at.worker, at.thread)
        /\ end = EndRot(at.shape, at.worker, at.thread)
        /\ FirstQuery = WorkerQueries(at.shape, at.worker)[QueryIdx(at.shape, at.thread)]
        /\ FirstHalf = Half(at.shape, at.worker, at.thread)
        /\ LastQuery = FirstQuery /\ LastHalf = FirstHalf
    BY <1>4 DEF start, end, FirstQuery, FirstHalf, LastHalf, LastQuery
  <2>3. /\ start \in Nat /\ end \in Nat /\ start < end /\ end <= HalfN
        /\ FirstQuery \in Nat /\ FirstHalf \in {0, 1}
    BY <2>1, <2>2, ThreadRange
  <2> QED BY <1>1, <1>2, <1>4, <2>2, <2>3
<1> QED BY <1>3, <1>4

\* They stay what they are.
LEMMA BoundsStay ==
  ASSUME UNCHANGED run
  PROVE  /\ program' = program /\ at' = at
         /\ start' = start /\ end' = end /\ FirstQuery' = FirstQuery /\ LastQuery' = LastQuery
         /\ FirstHalf' = FirstHalf /\ LastHalf' = LastHalf /\ LastRow' = LastRow
         /\ (Whole' <=> Whole) /\ (Stacked' <=> Stacked) /\ (RowsInside' <=> RowsInside)
         /\ FirstCt' = FirstCt
         /\ Place => Place'
BY DEF run, start, end, FirstQuery, LastQuery, FirstHalf, LastHalf, LastRow, Whole, Stacked,
       RowsInside, FirstCt, Place

\* What the counters are, and what a ciphertext of the thread is.
LEMMA Counters ==
  ASSUME Place, Loops
  PROVE  /\ i \in Nat /\ i < HalfN /\ start <= i /\ i < end
         /\ HalfN \in Nat /\ i \in 0 .. HalfN - 1 /\ (i # 0 => i \in 1 .. HalfN - 1)
         /\ qIdx \in Nat /\ iter \in {0, 1}
         /\ \A x \in 0 .. HalfN - 1: Ct(qIdx, iter, x) \in Ciphertext
<1>1. i \in Nat /\ i < HalfN /\ start <= i /\ i < end BY Bounds DEF Loops
<1>2. qIdx \in Nat /\ iter \in {0, 1} BY Bounds DEF Loops
<1>3. HalfN \in Nat /\ i \in 0 .. HalfN - 1 /\ (i # 0 => i \in 1 .. HalfN - 1)
  BY <1>1, SizesAssumption
<1> QED BY <1>1, <1>2, <1>3 DEF Ct, Ciphertext

LEMMA RotateIs ==
  ASSUME NEW q, NEW h, NEW x \in Nat, NEW y \in Nat, x + y < HalfN
  PROVE  Rotate(Ct(q, h, x), y) = Ct(q, h, x + y)
<1>1. (x + y) % HalfN = x + y BY ModSmall, SizesAssumption
<1> QED BY <1>1 DEF Rotate, Ct

LEMMA FirstCtIs ==
  ASSUME Place
  PROVE  FirstCt = Ct(FirstQuery, FirstHalf, 0)
BY Bounds DEF FirstCt, Fresh, Swap, Ct

LEMMA WalkInit ==
  Init => WalkInv
<1> SUFFICES ASSUME Init PROVE WalkInv
  OBVIOUS
<1>1. Place
  <2>1. CASE program \in {"matmult", "opt1", "opt2"} BY <2>1 DEF Place, Whole
  <2>2. CASE \E s \in Shapes: \E w \in Workers(s), t \in Threads(s):
          /\ program \in IF IsMerge(s) THEN {"worker", "baseline"} ELSE {"worker"}
          /\ at = [shape |-> s, worker |-> w, thread |-> t]
    BY <2>2 DEF Place
  <2> QED BY <2>1, <2>2 DEF Init
<1>2. pc = "rotate" /\ resIdx = 0 /\ qIdx = FirstQuery /\ iter = FirstHalf /\ i = start
      /\ qCt = FirstCt /\ k = 0 /\ rotSum = 0 /\ temp = FirstCt /\ st = <<>>
  BY DEF Init
<1>3. Loops BY <1>1, <1>2, Bounds, FirstCtIs DEF Loops
<1>4. Walk
  <2>1. 0 \in 0 .. HalfN - 1 BY <1>1, Bounds
  <2>2. temp \in Ciphertext BY <1>1, <1>2, <1>3, <2>1, FirstCtIs, Counters
  <2> QED BY <1>2, <2>1, <2>2 DEF Walk
<1>5. Stack
  <2>1. KeptAfter(i - 1) = {} BY <1>1, <1>2, Bounds DEF KeptAfter
  <2> QED BY <1>2, <2>1, HoldsNothing DEF Stack
<1> QED BY <1>1, <1>3, <1>4, <1>5 DEF WalkInv

\* After the last step to a rotation it is put on top of what comes before its gaps, if
\* it is even: that is what the later rounds need.
LEMMA PushEvenHolds ==
  ASSUME Place, Loops, NEW s, NEW L, i # 0, IsLowest(i, L),
         Holds(s, qIdx, iter, Above(i, L))
  PROVE  Holds(PushEven(s, Ct(qIdx, iter, i)), qIdx, iter, KeptAfter(i))
<1>1. i \in 1 .. HalfN - 1 /\ i \in 0 .. HalfN - 1 /\ start <= i /\ start \in Nat
  BY Counters, Bounds
<1>2. KeptAfter(i) = Pending(i) BY <1>1 DEF KeptAfter
<1>3. /\ Pending(i) = Above(i, L) \cup (IF i % 2 = 0 THEN {i} ELSE {})
      /\ \A x \in Above(i, L): x \in 0 .. i - L
      /\ L \in Nat \ {0}
  BY <1>1, PendingStep, PowerTypes DEF IsLowest
<1>4. CASE i % 2 = 0
  <2>1. \A x \in Above(i, L): x < i BY <1>1, <1>3
  <2>2. Holds(Append(s, Ct(qIdx, iter, i)), qIdx, iter, Above(i, L) \cup {i})
    BY <1>1, <2>1, HoldsAppend
  <2> QED BY <1>2, <1>3, <1>4, <2>2 DEF PushEven
<1>5. CASE i % 2 # 0
  BY <1>2, <1>3, <1>5 DEF PushEven
<1> QED BY <1>4, <1>5

\* A step that leaves the counters alone.
LEMMA LoopsStay ==
  ASSUME WalkInv, UNCHANGED <<run, loop>>,
         pc' \in {"rotate", "walk", "multiply", "next", "done"}
  PROVE  Place' /\ Loops' /\ qIdx' = qIdx /\ iter' = iter /\ i' = i /\ qCt' = qCt
BY BoundsStay DEF WalkInv, Loops, loop, Ct

LEMMA RotateNoneInv ==
  WalkInv /\ RotateNone => WalkInv'
<1> SUFFICES ASSUME WalkInv, RotateNone PROVE WalkInv'
  OBVIOUS
<1> USE DEF WalkInv
<1>1. /\ program = "worker" /\ pc = "rotate" /\ i = 0 /\ temp' = qCt /\ k' = 0 /\ pc' = "multiply"
      /\ UNCHANGED <<run, loop, rotSum, st>>
  BY DEF RotateNone
<1>2. Place' /\ Loops' /\ qIdx' = qIdx /\ iter' = iter /\ i' = i /\ qCt' = qCt
  BY <1>1, LoopsStay
<1>3. qCt = Ct(qIdx, iter, 0) /\ Ct(qIdx, iter, 0) \in Ciphertext
  BY Counters, SizesAssumption DEF Loops
<1>4. Walk' BY <1>1, <1>2, <1>3 DEF Walk
<1>5. KeptAfter(i - 1) = KeptAfter(i)
  BY <1>1, Bounds, Counters, PendingEnds DEF KeptAfter
<1>6. Stack'
  <2>1. start' = start /\ (Stacked' <=> Stacked) BY <1>1, BoundsStay
  <2>2. Holds(st, qIdx, iter, KeptAfter(i - 1)) BY <1>1 DEF Stack, Stacked
  <2>3. Stacked BY <1>1 DEF Stacked
  <2> QED BY <1>1, <1>2, <1>5, <2>1, <2>2, <2>3 DEF Stack, KeptAfter
<1> QED BY <1>2, <1>4, <1>6

LEMMA RotateAnewInv ==
  WalkInv /\ RotateAnew => WalkInv'
<1> SUFFICES ASSUME WalkInv, RotateAnew PROVE WalkInv'
  OBVIOUS
<1> USE DEF WalkInv
<1>1. /\ program = "worker" /\ pc = "rotate" /\ i # 0 /\ st = <<>> /\ temp' = qCt
      /\ k' = HighBit(i) /\ rotSum' = HighBit(i) /\ pc' = "walk"
      /\ UNCHANGED <<run, loop, st>>
  BY DEF RotateAnew
<1>2. Place' /\ Loops' /\ qIdx' = qIdx /\ iter' = iter /\ i' = i /\ qCt' = qCt
  BY <1>1, LoopsStay
<1>3. qCt = Ct(qIdx, iter, 0) /\ Ct(qIdx, iter, 0) \in Ciphertext
  BY Counters, SizesAssumption DEF Loops
<1>4. i \in 1 .. HalfN - 1 BY <1>1, Counters
<1>5. /\ HighBit(i) \in Powers /\ HasBit(i, HighBit(i)) /\ HighBit(i) <= i
      /\ i - (i % HighBit(i)) = HighBit(i) /\ Above(i, HighBit(i)) = {}
  BY <1>4, WalkStart
<1>6. HighBit(i) \in Keys /\ HighBit(i) \in 0 .. HalfN - 1 /\ HighBit(i) - HighBit(i) = 0
  BY <1>4, <1>5, PowerTypes DEF Keys
<1>7. Stacked /\ Stacked' BY <1>1, BoundsStay DEF Stacked
<1>8. Walk'
  <2>1. temp' = Ct(qIdx', iter', rotSum' - k') BY <1>1, <1>2, <1>3, <1>6
  <2>2. i' # 0 /\ k' \in Powers /\ HasBit(i, k)' /\ rotSum' = (i - (i % k))'
    BY <1>1, <1>2, <1>5 DEF HasBit
  <2>3. program' = "worker" BY <1>1 DEF run
  <2> QED BY <1>1, <1>3, <1>6, <1>7, <2>1, <2>2, <2>3 DEF Walk
<1>9. Stack'
  <2>1. (Above(i, k))' = {} BY <1>1, <1>2, <1>5 DEF Above, HasBit
  <2>2. Holds(<<>>, qIdx', iter', {}) BY HoldsNothing
  <2>3. st' = <<>> BY <1>1
  <2> QED BY <1>1, <1>7, <2>1, <2>2, <2>3 DEF Stack
<1> QED BY <1>2, <1>8, <1>9

LEMMA WalkDownInv ==
  WalkInv /\ WalkDown => WalkInv'
<1> SUFFICES ASSUME WalkInv, WalkDown PROVE WalkInv'
  OBVIOUS
<1> USE DEF WalkInv
<1> DEFINE c == NextBit(i, k)
<1>1. /\ program = "worker" /\ pc = "walk" /\ rotSum # i /\ temp' = Rotate(temp, k)
      /\ st' = IF HasBit(i, k \div 2) THEN st ELSE Append(st, temp')
      /\ k' = c /\ rotSum' = rotSum + c
      /\ UNCHANGED <<run, pc, loop>>
  BY DEF WalkDown
<1>2. Place' /\ Loops' /\ qIdx' = qIdx /\ iter' = iter /\ i' = i /\ qCt' = qCt
  <2>1. pc' = "walk" BY <1>1
  <2> QED BY <1>1, <2>1, LoopsStay
<1>3. Stacked /\ Stacked' BY <1>1, BoundsStay DEF Stacked
<1>4. /\ i # 0 /\ k \in Powers /\ HasBit(i, k) /\ rotSum = i - (i % k)
      /\ temp = Ct(qIdx, iter, rotSum - k) /\ Holds(st, qIdx, iter, Above(i, k))
  BY <1>1, <1>3 DEF Walk, Stack
<1>5. i \in 1 .. HalfN - 1 /\ i \in Nat /\ HalfN \in Nat BY <1>4, Counters
<1>6. k \in Nat \ {0} BY <1>4, PowerTypes
<1>7. /\ i % k \in Nat /\ i % k <= i /\ i % (2 * k) <= i
      /\ i % (2 * k) = (i % k) + (IF HasBit(i, k) THEN k ELSE 0)
  BY <1>5, <1>6, ModDouble
<1>8. i % k # 0 BY <1>1, <1>4, <1>5
<1>9. /\ c \in Powers /\ HasBit(i, c) /\ c < k
      /\ i - (i % c) = (i - (i % k)) + c
      /\ Above(i, c) = Above(i, k) \cup (IF HasBit(i, k \div 2) THEN {} ELSE {i - (i % k)})
  BY <1>4, <1>5, <1>8, WalkStep
<1> HIDE DEF c
<1>10. c \in Nat \ {0} BY <1>9, PowerTypes
<1>11. rotSum \in 0 .. HalfN - 1 /\ rotSum - k \in Nat /\ (rotSum - k) + k = rotSum
  BY <1>4, <1>5, <1>6, <1>7
<1>12. temp' = Ct(qIdx, iter, rotSum)
  <2>1. rotSum < HalfN BY <1>5, <1>11
  <2> QED BY <1>1, <1>4, <1>6, <1>11, <2>1, RotateIs
<1>13. i % c \in Nat BY <1>5, <1>10, ModDouble
<1>14. rotSum' = i - (i % c) /\ rotSum' \in 0 .. HalfN - 1 /\ rotSum' - k' = rotSum
  BY <1>1, <1>4, <1>5, <1>9, <1>10, <1>11, <1>13
<1>15. Walk'
  <2>1. k' \in Keys BY <1>1, <1>4, <1>6, <1>9, <1>10, PowerTypes DEF Keys
  <2>2. temp' \in Ciphertext BY <1>11, <1>12, Counters
  <2>3. temp' = Ct(qIdx', iter', rotSum' - k') BY <1>2, <1>12, <1>14
  <2>4. HasBit(i, k)' /\ rotSum' = (i - (i % k))' /\ k' \in Powers /\ i' # 0
    BY <1>1, <1>2, <1>4, <1>9, <1>14 DEF HasBit
  <2>5. program' = "worker" /\ pc' = "walk" BY <1>1 DEF run
  <2> QED BY <1>3, <1>14, <2>1, <2>2, <2>3, <2>4, <2>5 DEF Walk
<1>16. Stack'
  <2>1. (Above(i, k))' = Above(i, c) BY <1>1, <1>2 DEF Above, HasBit
  <2>2. Holds(st', qIdx, iter, Above(i, c))
    <3>1. CASE HasBit(i, k \div 2) BY <1>1, <1>4, <1>9, <3>1
    <3>2. CASE ~ HasBit(i, k \div 2)
      <4>1. \A x \in Above(i, k): x < rotSum
        <5> SUFFICES ASSUME NEW x \in Above(i, k) PROVE x < rotSum
          OBVIOUS
        <5>1. x \in Nat /\ x + k <= i - (i % k) BY <1>4, <1>5, AboveSmaller
        <5> QED BY <1>4, <1>6, <1>11, <5>1
      <4>2. Holds(Append(st, Ct(qIdx, iter, rotSum)), qIdx, iter, Above(i, k) \cup {rotSum})
        BY <1>4, <1>11, <4>1, HoldsAppend
      <4> QED BY <1>1, <1>4, <1>9, <1>12, <3>2, <4>2
    <3> QED BY <3>1, <3>2
  <2>3. pc' = "walk" BY <1>1
  <2> QED BY <1>2, <1>3, <2>1, <2>2, <2>3 DEF Stack
<1> QED BY <1>2, <1>15, <1>16

\* A step that comes to the rotation of the round.
LEMMA RoundReached ==
  ASSUME WalkInv, Stacked, UNCHANGED <<run, loop, rotSum>>, pc' = "multiply",
         k' \in Keys \cup {0}, temp' = Ct(qIdx, iter, i),
         Holds(st', qIdx, iter, KeptAfter(i))
  PROVE  WalkInv'
<1> USE DEF WalkInv
<1>1. Place' /\ Loops' /\ qIdx' = qIdx /\ iter' = iter /\ i' = i BY LoopsStay
<1>2. Stacked' /\ start' = start BY BoundsStay
<1>3. temp' \in Ciphertext
  <2>1. i \in 0 .. HalfN - 1 BY Counters
  <2> QED BY <2>1, Counters
<1>4. rotSum' = rotSum OBVIOUS
<1>5. Walk' BY <1>1, <1>3, <1>4 DEF Walk
<1>6. Stack' BY <1>1, <1>2 DEF Stack, KeptAfter
<1> QED BY <1>1, <1>5, <1>6

LEMMA WalkEndsInv ==
  WalkInv /\ WalkEnds => WalkInv'
<1> SUFFICES ASSUME WalkInv, WalkEnds PROVE WalkInv'
  OBVIOUS
<1> USE DEF WalkInv
<1>1. /\ program = "worker" /\ pc = "walk" /\ rotSum = i /\ temp' = Rotate(temp, k)
      /\ st' = PushEven(st, temp') /\ pc' = "multiply"
      /\ UNCHANGED <<run, loop, k, rotSum>>
  BY DEF WalkEnds
<1>2. Stacked BY <1>1 DEF Stacked
<1>3. /\ i # 0 /\ k \in Powers /\ HasBit(i, k) /\ rotSum = i - (i % k)
      /\ temp = Ct(qIdx, iter, rotSum - k) /\ Holds(st, qIdx, iter, Above(i, k))
  BY <1>1, <1>2 DEF Walk, Stack
<1>4. i \in Nat /\ i < HalfN /\ k \in Nat \ {0} /\ k <= i BY <1>3, Counters, PowerTypes, BitBelow
<1>5. i % k = 0
  <2>1. i % k \in Nat BY <1>4, ModDouble
  <2> QED BY <1>1, <1>3, <1>4, <2>1
<1>6. IsLowest(i, k) BY <1>3, <1>5 DEF IsLowest
<1>7. temp' = Ct(qIdx, iter, i)
  <2>1. rotSum - k \in Nat /\ (rotSum - k) + k = i BY <1>1, <1>4
  <2> QED BY <1>1, <1>3, <1>4, <2>1, RotateIs
<1>8. Holds(st', qIdx, iter, KeptAfter(i))
  BY <1>1, <1>3, <1>6, <1>7, PushEvenHolds
<1>9. k' \in Keys \cup {0} BY <1>1 DEF Walk
<1> QED BY <1>1, <1>2, <1>7, <1>8, <1>9, RoundReached

LEMMA RotateByKeyInv ==
  WalkInv /\ RotateByKey => WalkInv'
<1> SUFFICES ASSUME WalkInv, RotateByKey PROVE WalkInv'
  OBVIOUS
<1> USE DEF WalkInv
<1>1. /\ program \in {"opt1", "opt2"} /\ pc = "rotate" /\ st = <<>>
      /\ temp' = Rotate(qCt, i) /\ k' = i /\ st' = PushEven(st, temp') /\ pc' = "multiply"
      /\ UNCHANGED <<run, loop, rotSum>>
  BY DEF RotateByKey
<1>2. Stacked /\ Whole BY <1>1 DEF Stacked, Whole
<1>3. i \in Nat /\ i < HalfN /\ qCt = Ct(qIdx, iter, 0) /\ start = 0
  BY <1>2, Counters, Bounds DEF Loops
<1>4. temp' = Ct(qIdx, iter, i) BY <1>1, <1>3, RotateIs
<1>5. CASE i = 0
  <2>1. KeptAfter(i) = {} BY <1>5, PendingEnds DEF KeptAfter
  <2>2. st' = <<>> BY <1>1, <1>5 DEF PushEven
  <2>3. Holds(st', qIdx, iter, KeptAfter(i)) BY <2>1, <2>2, HoldsNothing
  <2> QED BY <1>1, <1>2, <1>4, <1>5, <2>3, RoundReached
<1>6. CASE i # 0
  <2> DEFINE L == LowBit(i)
  <2>1. i \in 1 .. HalfN - 1 BY <1>6, Counters
  <2>2. IsLowest(i, L) BY <2>1, LowBitIs DEF IsLowest
  <2>3. Holds(st, qIdx, iter, Pending(i - 1))
    BY <1>1, <1>2, <1>3, <1>6 DEF Stack, KeptAfter
  <2>4. Pending(i - 1) = {} BY <1>1, <2>3, HoldsEmpty
  <2>5. i = L /\ Above(i, L) = {} BY <2>1, <2>2, <2>4, PendingStep
  <2>6. Holds(st, qIdx, iter, Above(i, L)) BY <2>3, <2>4, <2>5
  <2>7. Holds(st', qIdx, iter, KeptAfter(i)) BY <1>1, <1>4, <1>6, <2>2, <2>6, PushEvenHolds
  <2>8. i \in Keys BY <1>3, <2>2, <2>5 DEF IsLowest, Keys
  <2> QED BY <1>1, <1>2, <1>4, <2>7, <2>8, RoundReached
<1> QED BY <1>5, <1>6

LEMMA RotateFromTopInv ==
  WalkInv /\ RotateFromTop => WalkInv'
<1> SUFFICES ASSUME WalkInv, RotateFromTop PROVE WalkInv'
  OBVIOUS
<1> USE DEF WalkInv
<1> DEFINE L == LowBit(i)
<1>1. /\ Stacked /\ pc = "rotate" /\ i # 0 /\ st # <<>> /\ k' = L
      /\ temp' = Rotate(Last(st), L)
      /\ st' = PushEven(IF HasBit(i, 2 * L) THEN Front(st) ELSE st, temp')
      /\ pc' = "multiply"
      /\ UNCHANGED <<run, loop, rotSum>>
  BY DEF RotateFromTop
<1>2. i \in 1 .. HalfN - 1 BY <1>1, Counters
<1>3. IsLowest(i, L) /\ L \in Powers /\ L \in Nat \ {0}
  BY <1>2, LowBitIs, PowerTypes DEF IsLowest
<1> HIDE DEF L
<1> DEFINE H == Above(i, L)
<1>4. Holds(st, qIdx, iter, KeptAfter(i - 1)) BY <1>1 DEF Stack
<1>5. KeptAfter(i - 1) # {} BY <1>1, <1>4, HoldsEmpty
<1>6. KeptAfter(i - 1) = Pending(i - 1) BY <1>5 DEF KeptAfter
<1>7. /\ Pending(i - 1) = H \cup (IF i = L THEN {} ELSE {i - L})
      /\ i # L => (HasBit(i, 2 * L) <=> i - L \notin H)
      /\ \A x \in H: x \in 0 .. i - L
      /\ i = L => H = {}
      /\ L <= i
  BY <1>2, <1>3, PendingStep
<1>8. i # L BY <1>5, <1>6, <1>7
<1>9. Holds(st, qIdx, iter, H \cup {i - L}) BY <1>4, <1>6, <1>7, <1>8
<1> HIDE DEF H
<1>10. \A x \in H \cup {i - L}: x <= i - L BY <1>2, <1>3, <1>7
<1>11. /\ Last(st) = Ct(qIdx, iter, i - L)
       /\ Holds(Front(st), qIdx, iter, (H \cup {i - L}) \ {i - L})
  BY <1>9, <1>10, HoldsTop
<1>12. temp' = Ct(qIdx, iter, i)
  <2>1. i - L \in Nat /\ (i - L) + L = i /\ i < HalfN BY <1>2, <1>3, <1>7, Counters
  <2> QED BY <1>1, <1>3, <1>11, <2>1, RotateIs
<1> DEFINE s == IF HasBit(i, 2 * L) THEN Front(st) ELSE st
<1>13. Holds(s, qIdx, iter, H)
  <2>1. CASE HasBit(i, 2 * L)
    <3>1. (H \cup {i - L}) \ {i - L} = H BY <1>7, <1>8, <2>1
    <3> QED BY <1>11, <2>1, <3>1
  <2>2. CASE ~ HasBit(i, 2 * L)
    <3>1. H \cup {i - L} = H BY <1>7, <1>8, <2>2
    <3> QED BY <1>9, <2>2, <3>1
  <2> QED BY <2>1, <2>2
<1>14. Holds(PushEven(s, Ct(qIdx, iter, i)), qIdx, iter, KeptAfter(i))
  <2> HIDE DEF s
  <2> QED BY <1>1, <1>3, <1>13, PushEvenHolds DEF H
<1>15. Holds(st', qIdx, iter, KeptAfter(i)) BY <1>1, <1>12, <1>14
<1>16. L \in Keys BY <1>2, <1>3, <1>7 DEF Keys
<1> QED BY <1>1, <1>12, <1>15, <1>16, RoundReached

LEMMA CopyQueryInv ==
  WalkInv /\ CopyQuery => WalkInv'
<1> SUFFICES ASSUME WalkInv, CopyQuery PROVE WalkInv'
  OBVIOUS
<1> USE DEF WalkInv
<1>1. /\ ~ Stacked /\ pc = "rotate" /\ temp' = qCt /\ rotSum' = 0 /\ k' = 0 /\ pc' = "walk"
      /\ UNCHANGED <<run, loop, st>>
  BY DEF CopyQuery
<1>2. Place' /\ Loops' /\ qIdx' = qIdx /\ iter' = iter /\ i' = i BY <1>1, LoopsStay
<1>3. ~ Stacked' /\ program' = program BY <1>1, BoundsStay
<1>4. i \in Nat /\ 0 \in 0 .. HalfN - 1 /\ qCt = Ct(qIdx, iter, 0) /\ qCt \in Ciphertext
  BY Counters DEF Loops
<1>5. Walk' BY <1>1, <1>2, <1>3, <1>4 DEF Walk, Stacked
<1>6. Stack' BY <1>1, <1>3 DEF Stack
<1> QED BY <1>2, <1>5, <1>6

LEMMA StepUpInv ==
  WalkInv /\ StepUp => WalkInv'
<1> SUFFICES ASSUME WalkInv, StepUp PROVE WalkInv'
  OBVIOUS
<1> USE DEF WalkInv
<1> DEFINE n == i - rotSum
           c == PreviousPower(n)
<1>1. /\ ~ Stacked /\ pc = "walk" /\ rotSum # i /\ k' = c /\ temp' = Rotate(temp, c)
      /\ rotSum' = rotSum + c
      /\ UNCHANGED <<run, pc, loop, st>>
  BY DEF StepUp
<1>2. Place' /\ Loops' /\ qIdx' = qIdx /\ iter' = iter /\ i' = i
  <2>1. pc' = "walk" BY <1>1
  <2> QED BY <1>1, <2>1, LoopsStay
<1>3. ~ Stacked' /\ program' = program BY <1>1, BoundsStay
<1>4. /\ rotSum \in 0 .. HalfN - 1 /\ rotSum <= i /\ temp = Ct(qIdx, iter, rotSum)
      /\ i \in Nat /\ i < HalfN /\ HalfN \in Nat
  BY <1>1, Counters DEF Walk
<1>5. n \in 1 .. HalfN /\ n \in Nat /\ n < HalfN /\ rotSum + n = i BY <1>1, <1>4
<1> HIDE DEF n
<1>6. c \in Powers /\ c <= n
  <2>1. CASE n \in Powers BY <1>5, <2>1 DEF PreviousPower
  <2>2. CASE n \notin Powers BY <1>5, <2>2, HighBitIs DEF PreviousPower
  <2> QED BY <2>1, <2>2
<1> HIDE DEF c
<1>7. c \in Nat \ {0} /\ c \in Keys BY <1>5, <1>6, PowerTypes, SizesAssumption DEF Keys
<1>8. rotSum + c <= i /\ rotSum + c \in 0 .. HalfN - 1 /\ rotSum + c < HalfN
  BY <1>4, <1>5, <1>6, <1>7
<1>9. temp' = Ct(qIdx, iter, rotSum + c) BY <1>1, <1>4, <1>7, <1>8, RotateIs
<1>10. temp' \in Ciphertext BY <1>8, <1>9, Counters
<1>11. Walk'
  <2>1. pc' = "walk" /\ k' = c /\ rotSum' = rotSum + c BY <1>1
  <2>2. program' \notin {"opt1", "opt2"} BY <1>1, <1>3 DEF Stacked
  <2> QED BY <1>2, <1>3, <1>7, <1>8, <1>9, <1>10, <2>1, <2>2 DEF Walk
<1>12. Stack' BY <1>1, <1>3 DEF Stack
<1> QED BY <1>2, <1>11, <1>12

LEMMA StepsDoneInv ==
  WalkInv /\ StepsDone => WalkInv'
<1> SUFFICES ASSUME WalkInv, StepsDone PROVE WalkInv'
  OBVIOUS
<1> USE DEF WalkInv
<1>1. /\ ~ Stacked /\ pc = "walk" /\ rotSum = i /\ pc' = "multiply"
      /\ UNCHANGED <<run, loop, k, rotSum, temp, st>>
  BY DEF StepsDone
<1>2. Place' /\ Loops' /\ qIdx' = qIdx /\ iter' = iter /\ i' = i BY <1>1, LoopsStay
<1>3. ~ Stacked' /\ program' = program BY <1>1, BoundsStay
<1>4. Walk'
  <2>1. k' = k /\ rotSum' = rotSum /\ temp' = temp BY <1>1
  <2>2. temp = Ct(qIdx, iter, i) BY <1>1 DEF Walk
  <2> QED BY <1>1, <1>2, <1>3, <2>1, <2>2 DEF Walk
<1>5. Stack' BY <1>1, <1>3 DEF Stack
<1> QED BY <1>2, <1>4, <1>5

\* The products leave the rotations alone.
LEMMA MultiplyWalkInv ==
  ASSUME WalkInv, pc = "multiply", pc' = "next",
         UNCHANGED <<run, loop, k, rotSum, temp, st>>
  PROVE  WalkInv'
<1> USE DEF WalkInv
<1>1. Place' /\ Loops' /\ qIdx' = qIdx /\ iter' = iter /\ i' = i BY LoopsStay
<1>2. (Stacked' <=> Stacked) /\ start' = start BY BoundsStay
<1>3. k' = k /\ rotSum' = rotSum /\ temp' = temp /\ st' = st OBVIOUS
<1>4. Walk' BY <1>1, <1>3 DEF Walk
<1>5. Stack' BY <1>1, <1>2, <1>3 DEF Stack, KeptAfter
<1> QED BY <1>1, <1>4, <1>5

LEMMA NextRotationInv ==
  WalkInv /\ NextRotation => WalkInv'
<1> SUFFICES ASSUME WalkInv, NextRotation PROVE WalkInv'
  OBVIOUS
<1> USE DEF WalkInv
<1>1. /\ pc = "next" /\ i + 1 < end /\ i' = i + 1 /\ pc' = "rotate"
      /\ UNCHANGED <<kept, resIdx, qIdx, iter, qCt>>
  BY DEF NextRotation
<1>2. UNCHANGED run /\ k' = k /\ rotSum' = rotSum /\ temp' = temp /\ st' = st BY <1>1 DEF kept
<1>3. /\ Place' /\ start' = start /\ end' = end /\ (Stacked' <=> Stacked)
      /\ FirstQuery' = FirstQuery /\ LastQuery' = LastQuery
      /\ FirstHalf' = FirstHalf /\ LastHalf' = LastHalf /\ LastRow' = LastRow
  BY <1>2, BoundsStay
<1>4. i' \in start .. end - 1 /\ i' - 1 = i BY <1>1, Counters, Bounds
<1>5. Loops' BY <1>1, <1>3, <1>4 DEF Loops, Ct
<1>6. Walk' BY <1>1, <1>2 DEF Walk
<1>7. Stack'
  <2>1. qIdx' = qIdx /\ iter' = iter BY <1>1
  <2>2. Stacked => Holds(st, qIdx, iter, KeptAfter(i)) BY <1>1 DEF Stack
  <2>3. ~ Stacked => st = <<>> BY DEF Stack
  <2>4. (KeptAfter(i - 1))' = KeptAfter(i) BY <1>3, <1>4 DEF KeptAfter, Pending, HasBit
  <2> QED BY <1>1, <1>2, <1>3, <2>1, <2>2, <2>3, <2>4 DEF Stack
<1> QED BY <1>3, <1>5, <1>6, <1>7

\* After the last rotation of a query, another one begins with an empty stack.
LEMMA LoopAgain ==
  ASSUME WalkInv, pc = "next", i + 1 = end, program # "worker",
         UNCHANGED kept, i' = start, pc' = "rotate",
         resIdx' \in 0 .. LastRow,
         qIdx' \in FirstQuery .. LastQuery, iter' \in FirstHalf .. LastHalf,
         qCt' = Ct(qIdx', iter', 0)
  PROVE  WalkInv'
<1> USE DEF WalkInv
<1>1. UNCHANGED run /\ k' = k /\ rotSum' = rotSum /\ temp' = temp /\ st' = st BY DEF kept
<1>2. /\ Place' /\ start' = start /\ end' = end /\ (Stacked' <=> Stacked)
      /\ FirstQuery' = FirstQuery /\ LastQuery' = LastQuery
      /\ FirstHalf' = FirstHalf /\ LastHalf' = LastHalf /\ LastRow' = LastRow
  BY <1>1, BoundsStay
<1>3. i' \in start .. end - 1 BY Bounds
<1>4. Loops' BY <1>2, <1>3 DEF Loops, Ct
<1>5. Walk' BY <1>1 DEF Walk
<1>6. st = <<>>
  <2>1. CASE Stacked
    <3>1. Whole BY <2>1 DEF Stacked, Whole
    <3>2. start = 0 /\ end = HalfN /\ i \in Nat /\ HalfN \in Nat BY <3>1, Bounds, Counters
    <3>3. i = HalfN - 1 BY <3>2
    <3>4. KeptAfter(i) = {} BY <3>2, <3>3, PendingEnds DEF KeptAfter
    <3>5. Holds(st, qIdx, iter, KeptAfter(i)) BY <2>1 DEF Stack
    <3> QED BY <3>4, <3>5, HoldsEmpty
  <2>2. CASE ~ Stacked BY <2>2 DEF Stack
  <2> QED BY <2>1, <2>2
<1>7. Stack'
  <2>1. (KeptAfter(i - 1))' = {}
    <3>1. i' - 1 < start' BY <1>2, Bounds
    <3> QED BY <3>1 DEF KeptAfter
  <2>2. Holds(<<>>, qIdx', iter', {}) BY HoldsNothing
  <2>3. pc' = "rotate" /\ st' = <<>> BY <1>1, <1>6
  <2> QED BY <2>1, <2>2, <2>3 DEF Stack
<1> QED BY <1>2, <1>4, <1>5, <1>7

LEMMA NextHalfInv ==
  WalkInv /\ NextHalf => WalkInv'
<1> SUFFICES ASSUME WalkInv, NextHalf PROVE WalkInv'
  OBVIOUS
<1> USE DEF WalkInv
<1>1. /\ pc = "next" /\ i + 1 = end /\ iter < LastHalf /\ i' = start /\ iter' = iter + 1
      /\ qCt' = Swap(qCt) /\ pc' = "rotate" /\ qIdx' = qIdx /\ resIdx' = resIdx
      /\ UNCHANGED kept
  BY DEF NextHalf
<1>2. /\ iter \in FirstHalf .. LastHalf /\ qIdx \in FirstQuery .. LastQuery
      /\ resIdx \in 0 .. LastRow /\ qCt = Ct(qIdx, iter, 0)
  BY DEF Loops
<1>3. Whole BY <1>1, <1>2, Bounds
<1>4. iter = 0 /\ FirstHalf = 0 /\ LastHalf = 1 BY <1>1, <1>2, <1>3, Bounds
<1>5. program # "worker" BY <1>3 DEF Whole
<1>6. qCt' = Ct(qIdx', iter', 0) BY <1>1, <1>2, <1>4 DEF Swap, Ct
<1>7. iter' \in FirstHalf .. LastHalf BY <1>1, <1>4
<1> QED BY <1>1, <1>2, <1>5, <1>6, <1>7, LoopAgain

LEMMA NextQueryInv ==
  WalkInv /\ NextQuery => WalkInv'
<1> SUFFICES ASSUME WalkInv, NextQuery PROVE WalkInv'
  OBVIOUS
<1> USE DEF WalkInv
<1>1. /\ pc = "next" /\ i + 1 = end /\ qIdx < LastQuery /\ i' = start /\ iter' = 0
      /\ qIdx' = qIdx + 1 /\ qCt' = Fresh(qIdx') /\ pc' = "rotate" /\ resIdx' = resIdx
      /\ UNCHANGED kept
  BY DEF NextQuery
<1>2. qIdx \in FirstQuery .. LastQuery /\ resIdx \in 0 .. LastRow BY DEF Loops
<1>3. Whole BY <1>1, <1>2, Bounds
<1>4. program # "worker" BY <1>3 DEF Whole
<1>5. iter' \in FirstHalf .. LastHalf BY <1>1, <1>3, Bounds
<1>6. qIdx' \in FirstQuery .. LastQuery BY <1>1, <1>2, Bounds
<1>7. qCt' = Ct(qIdx', iter', 0) BY <1>1 DEF Fresh, Ct
<1> QED BY <1>1, <1>2, <1>4, <1>5, <1>6, <1>7, LoopAgain

LEMMA NextRowInv ==
  WalkInv /\ NextRow => WalkInv'
<1> SUFFICES ASSUME WalkInv, NextRow PROVE WalkInv'
  OBVIOUS
<1> USE DEF WalkInv
<1>1. /\ pc = "next" /\ i + 1 = end /\ resIdx < LastRow /\ i' = start /\ iter' = FirstHalf
      /\ qIdx' = FirstQuery /\ resIdx' = resIdx + 1 /\ qCt' = FirstCt /\ pc' = "rotate"
      /\ UNCHANGED kept
  BY DEF NextRow
<1>2. resIdx \in 0 .. LastRow BY DEF Loops
<1>3. program # "worker" BY <1>1, <1>2 DEF LastRow, RowsInside
<1>4. /\ resIdx' \in 0 .. LastRow /\ qIdx' \in FirstQuery .. LastQuery
      /\ iter' \in FirstHalf .. LastHalf
  BY <1>1, <1>2, Bounds
<1>5. qCt' = Ct(qIdx', iter', 0) BY <1>1, FirstCtIs
<1> QED BY <1>1, <1>3, <1>4, <1>5, LoopAgain

LEMMA FinishInv ==
  WalkInv /\ Finish => WalkInv'
<1> SUFFICES ASSUME WalkInv, Finish PROVE WalkInv'
  OBVIOUS
<1> USE DEF WalkInv
<1>1. pc = "next" /\ pc' = "done" /\ UNCHANGED <<kept, loop>> BY DEF Finish
<1>2. UNCHANGED run /\ k' = k /\ rotSum' = rotSum /\ temp' = temp /\ st' = st BY <1>1 DEF kept
<1>3. UNCHANGED <<run, loop>> BY <1>1, <1>2
<1>4. Place' /\ Loops' /\ qIdx' = qIdx /\ iter' = iter /\ i' = i BY <1>1, <1>3, LoopsStay
<1>5. (Stacked' <=> Stacked) /\ start' = start BY <1>2, BoundsStay
<1>6. Walk' BY <1>1, <1>2, <1>4 DEF Walk
<1>7. Stack' BY <1>1, <1>2, <1>4, <1>5 DEF Stack, KeptAfter
<1> QED BY <1>4, <1>6, <1>7

LEMMA WalkStutterInv ==
  WalkInv /\ UNCHANGED vars => WalkInv'
<1> SUFFICES ASSUME WalkInv, UNCHANGED vars PROVE WalkInv'
  OBVIOUS
<1> USE DEF WalkInv
<1>1. UNCHANGED <<run, loop>> /\ pc' = pc /\ k' = k /\ rotSum' = rotSum /\ temp' = temp /\ st' = st
  BY DEF vars
<1>2. pc' \in {"rotate", "walk", "multiply", "next", "done"} BY <1>1 DEF Loops
<1>3. Place' /\ Loops' /\ qIdx' = qIdx /\ iter' = iter /\ i' = i BY <1>1, <1>2, LoopsStay
<1>4. (Stacked' <=> Stacked) /\ start' = start /\ program' = program BY <1>1, BoundsStay
<1>5. Walk' BY <1>1, <1>3, <1>4 DEF Walk, HasBit
<1>6. Stack' BY <1>1, <1>3, <1>4 DEF Stack, KeptAfter, Above, Pending, HasBit
<1> QED BY <1>3, <1>5, <1>6

LEMMA WalkNextInv ==
  WalkInv /\ [Next]_vars => WalkInv'
<1> SUFFICES ASSUME WalkInv, [Next]_vars PROVE WalkInv'
  OBVIOUS
<1>1. CASE RotateNone BY <1>1, RotateNoneInv
<1>2. CASE RotateAnew BY <1>2, RotateAnewInv
<1>3. CASE WalkDown BY <1>3, WalkDownInv
<1>4. CASE WalkEnds BY <1>4, WalkEndsInv
<1>5. CASE RotateByKey BY <1>5, RotateByKeyInv
<1>6. CASE RotateFromTop BY <1>6, RotateFromTopInv
<1>7. CASE CopyQuery BY <1>7, CopyQueryInv
<1>8. CASE StepUp BY <1>8, StepUpInv
<1>9. CASE StepsDone BY <1>9, StepsDoneInv
<1>10. CASE Multiply
  <2>1. pc = "multiply" /\ pc' = "next" /\ UNCHANGED <<run, loop, k, rotSum, temp, st>>
    BY <1>10 DEF Multiply
  <2> QED BY <2>1, MultiplyWalkInv
<1>11. CASE MultiplyLocal
  <2>1. pc = "multiply" /\ pc' = "next" /\ UNCHANGED <<run, loop, k, rotSum, temp, st>>
    BY <1>11 DEF MultiplyLocal
  <2> QED BY <2>1, MultiplyWalkInv
<1>12. CASE NextRotation BY <1>12, NextRotationInv
<1>13. CASE NextHalf BY <1>13, NextHalfInv
<1>14. CASE NextQuery BY <1>14, NextQueryInv
<1>15. CASE NextRow BY <1>15, NextRowInv
<1>16. CASE Finish BY <1>16, FinishInv
<1>17. CASE UNCHANGED vars BY <1>17, WalkStutterInv
<1> QED BY <1>1, <1>2, <1>3, <1>4, <1>5, <1>6, <1>7, <1>8, <1>9, <1>10, <1>11, <1>12, <1>13,
           <1>14, <1>15, <1>16, <1>17 DEF Next

THEOREM WalkInvariant ==
  Spec => []WalkInv
<1>1. Init => WalkInv BY WalkInit
<1>2. WalkInv /\ [Next]_vars => WalkInv' BY WalkNextInv
<1> QED BY <1>1, <1>2, PTL DEF Spec

\* What is kept is never more than half the bits, and of the query and half at hand.
LEMMA InvTypes ==
  WalkInv => TypeOK
<1> SUFFICES ASSUME WalkInv PROVE TypeOK
  OBVIOUS
<1> USE DEF WalkInv
<1>1. Holds(<<>>, qIdx, iter, {}) /\ {} \subseteq Pending(0) BY HoldsNothing
<1>2. PICK n \in 0 .. HalfN - 1: \E S: Holds(st, qIdx, iter, S) /\ S \subseteq Pending(n)
  <2>1. i \in 0 .. HalfN - 1 /\ 0 \in 0 .. HalfN - 1 /\ start \in Nat /\ i \in Nat
        /\ start <= i /\ HalfN \in Nat
    BY Counters, Bounds
  <2>2. CASE ~ Stacked BY <1>1, <2>1, <2>2 DEF Stack
  <2>3. CASE Stacked /\ pc = "walk"
    <3>1. Above(i, k) \subseteq Pending(i) BY DEF Above, Pending
    <3> QED BY <2>1, <2>3, <3>1 DEF Stack
  <2>4. CASE Stacked /\ pc = "rotate"
    <3>1. CASE i - 1 < start
      <4>1. KeptAfter(i - 1) = {} BY <3>1 DEF KeptAfter
      <4> QED BY <2>1, <2>4, <4>1 DEF Stack
    <3>2. CASE ~ (i - 1 < start)
      <4>1. KeptAfter(i - 1) = Pending(i - 1) /\ i - 1 \in 0 .. HalfN - 1
        BY <2>1, <3>2 DEF KeptAfter
      <4> QED BY <2>4, <4>1 DEF Stack
    <3> QED BY <3>1, <3>2
  <2>5. CASE Stacked /\ pc \in {"multiply", "next", "done"}
    <3>1. KeptAfter(i) = Pending(i) BY <2>1 DEF KeptAfter
    <3> QED BY <2>1, <2>5, <3>1 DEF Stack
  <2> QED BY <2>2, <2>3, <2>4, <2>5 DEF Loops
<1>3. 2 * Len(st) <= LogHalfN BY <1>2, StackFits
<1>4. st \in Seq(Ciphertext)
  <2> DEFINE T == [query: {qIdx}, swapped: {iter}, by: 0 .. HalfN - 1]
  <2>1. st \in Seq(T) BY <1>2 DEF Holds
  <2>2. T \subseteq Ciphertext BY Counters DEF Ciphertext
  <2> HIDE DEF T
  <2>3. Len(st) \in Nat /\ st \in [1 .. Len(st) -> T] BY <2>1
  <2>4. st \in [1 .. Len(st) -> Ciphertext] BY <2>2, <2>3
  <2> QED BY <2>3, <2>4
<1>5. start \in 0 .. HalfN /\ end \in start .. HalfN /\ i \in start .. end BY Bounds, Counters
<1>6. qCt \in Ciphertext
  <2>1. 0 \in 0 .. HalfN - 1 BY Counters
  <2> QED BY <2>1, Counters DEF Loops
<1> QED BY <1>3, <1>4, <1>5, <1>6 DEF TypeOK, Loops, Walk

\* Every step of a rotation has a Galois key, and the stack keeps at most half as many
\* ciphertexts as a rotation has bits.
THEOREM RotationTypes ==
  Spec => []TypeOK
BY WalkInvariant, InvTypes, PTL

\* Each round of every program multiplies its own rotation of its own query; the stack
\* holds what later rounds start from.
THEOREM RotationsRight ==
  Spec => []RotationRight
<1>1. WalkInv => RotationRight
  <2> SUFFICES ASSUME WalkInv PROVE RotationRight
    OBVIOUS
  <2> USE DEF WalkInv
  <2>1. pc = "multiply" => temp = [query |-> qIdx, swapped |-> iter, by |-> i]
    BY DEF Walk, Ct
  <2> DEFINE n == IF pc = "rotate" THEN i - 1 ELSE i
  <2>2. Stacked /\ pc # "walk" => Holds(st, qIdx, iter, KeptAfter(n)) BY DEF Stack, Loops
  <2>3. ASSUME Stacked, pc # "walk"
        PROVE  /\ {ct.by : ct \in ToSet(st)} = KeptAfter(n)
               /\ \A a, b \in DOMAIN st: a < b => st[a].by < st[b].by
    <3>1. /\ {st[a].by : a \in DOMAIN st} = KeptAfter(n)
          /\ \A a, b \in DOMAIN st: a < b => st[a].by < st[b].by
      BY <2>2, <2>3 DEF Holds
    <3>2. {ct.by : ct \in ToSet(st)} = {st[a].by : a \in DOMAIN st} BY DEF ToSet
    <3> QED BY <3>1, <3>2
  <2> QED BY <2>1, <2>3 DEF RotationRight, StackIsPending, KeptAfter
<1> QED BY <1>1, WalkInvariant, PTL

-----------------------------------------------------------------------------
(* The products *)

\* Index, of the product of any ciphertext of the thread.
IndexOf(ct, row) ==
  CASE program = "matmult" -> (row * Queries + ct.query) * N + ct.swapped * HalfN + ct.by
    [] program \in {"opt1", "opt2"} -> ct.query * Rows * N + row * N + ct.swapped * HalfN + ct.by
    [] OTHER -> DbIndex(at.shape, at.worker, at.thread, row, ct.by)

Rotations ==
  [query: FirstQuery .. LastQuery, swapped: FirstHalf .. LastHalf, by: start .. end - 1]

\* The bag of the products of the ciphertexts in C for a row, once each.
Sum(C, row) == SetToBag({<<ct, IndexOf(ct, row)>> : ct \in C})

LEMMA SumUnion ==
  ASSUME NEW row, NEW A, NEW B, A \cap B = {}
  PROVE  Sum(A, row) (+) Sum(B, row) = Sum(A \cup B, row)
<1> DEFINE D(C) == {<<ct, IndexOf(ct, row)>> : ct \in C}
           x == Sum(A, row)
           y == Sum(B, row)
<1>1. \A C: Sum(C, row) = [p \in D(C) |-> 1] BY DEF Sum, SetToBag
<1>2. D(A \cup B) = D(A) \cup D(B) OBVIOUS
<1>3. D(A) \cap D(B) = {} OBVIOUS
<1>4. DOMAIN x = D(A) /\ DOMAIN y = D(B) BY <1>1
<1>5. (\A p \in D(A): x[p] = 1) /\ \A p \in D(B): y[p] = 1 BY <1>1
<1>6. x (+) y = [p \in (DOMAIN x) \cup (DOMAIN y) |->
                   (IF p \in DOMAIN x THEN x[p] ELSE 0) + (IF p \in DOMAIN y THEN y[p] ELSE 0)]
  BY DEF (+)
<1> HIDE DEF x, y, D
<1>7. \A p \in D(A) \cup D(B):
        (IF p \in DOMAIN x THEN x[p] ELSE 0) + (IF p \in DOMAIN y THEN y[p] ELSE 0) = 1
  BY <1>3, <1>4, <1>5
<1>8. x (+) y = [p \in D(A) \cup D(B) |-> 1] BY <1>4, <1>6, <1>7
<1> QED BY <1>1, <1>2, <1>8 DEF x, y

\* The round of ct has multiplied.
Past(ct) ==
  \/ ct.query < qIdx
  \/ ct.query = qIdx /\ ct.swapped < iter
  \/ ct.query = qIdx /\ ct.swapped = iter /\ ct.by < i
  \/ ct.query = qIdx /\ ct.swapped = iter /\ ct.by = i /\ pc \in {"next", "done"}

\* matmult has added the local result of query q to the response.
Added(q) ==
  \/ q < qIdx
  \/ q = qIdx /\ iter = 1 /\ i + 1 = end /\ pc \in {"next", "done"}

\* The ciphertexts whose products are in the result of a row, and in the local result.
InResult(row) ==
  {ct \in Rotations :
     \/ ~ RowsInside /\ row < resIdx
     \/ (RowsInside \/ row = resIdx) /\ IF program = "matmult" THEN Added(ct.query) ELSE Past(ct)}
InLocal == {ct \in Rotations : ct.query = qIdx /\ Past(ct)}

Ended == i + 1 = end /\ iter = LastHalf /\ qIdx = LastQuery /\ resIdx = LastRow

Results ==
  /\ result = [row \in 0 .. Rows - 1 |-> Sum(InResult(row), row)]
  /\ program = "matmult" /\ InLocal # {} => localResult = Sum(InLocal, resIdx)
  /\ pc = "done" => Ended

ProductInv == WalkInv /\ Results

LEMMA RotationIs ==
  ASSUME Place
  PROVE  \A ct \in Rotations:
           /\ ct.query \in Nat /\ FirstQuery <= ct.query /\ ct.query <= LastQuery
           /\ ct.swapped \in {0, 1} /\ FirstHalf <= ct.swapped /\ ct.swapped <= LastHalf
           /\ ct.by \in Nat /\ start <= ct.by /\ ct.by < end
           /\ ct = Ct(ct.query, ct.swapped, ct.by)
<1> SUFFICES ASSUME NEW ct \in Rotations
             PROVE  /\ ct.query \in Nat /\ FirstQuery <= ct.query /\ ct.query <= LastQuery
                    /\ ct.swapped \in {0, 1} /\ FirstHalf <= ct.swapped /\ ct.swapped <= LastHalf
                    /\ ct.by \in Nat /\ start <= ct.by /\ ct.by < end
                    /\ ct = Ct(ct.query, ct.swapped, ct.by)
  OBVIOUS
<1>1. /\ ct.query \in FirstQuery .. LastQuery /\ ct.swapped \in FirstHalf .. LastHalf
      /\ ct.by \in start .. end - 1 /\ ct = Ct(ct.query, ct.swapped, ct.by)
  BY DEF Rotations, Ct
<1> QED BY <1>1, Bounds

LEMMA RoundIs ==
  ASSUME Place, Loops
  PROVE  Ct(qIdx, iter, i) \in Rotations
BY DEF Loops, Rotations, Ct

\* The products of a ciphertext do not change.
LEMMA SumsStay ==
  ASSUME UNCHANGED run
  PROVE  Rotations' = Rotations /\ \A C, row: Sum(C, row)' = Sum(C, row)
BY BoundsStay DEF Rotations, Sum, IndexOf, run

\* A step that multiplies nothing and keeps the row.
LEMMA ResultsStay ==
  ASSUME ProductInv, UNCHANGED <<run, data>>, resIdx' = resIdx,
         \A ct \in Rotations: /\ Past(ct)' <=> Past(ct)
                              /\ Added(ct.query)' <=> Added(ct.query),
         qIdx' = qIdx \/ InLocal' = {},
         pc' = "done" => Ended'
  PROVE  Results'
<1> USE DEF ProductInv
<1>1. result' = result /\ localResult' = localResult /\ program' = program BY DEF data, run
<1>2. /\ Rotations' = Rotations /\ \A C, row: Sum(C, row)' = Sum(C, row)
      /\ (RowsInside' <=> RowsInside)
  BY SumsStay, BoundsStay
<1>3. \A row: InResult(row)' = InResult(row) BY <1>1, <1>2 DEF InResult
<1>4. [row \in 0 .. Rows - 1 |-> Sum(InResult(row), row)]'
        = [row \in 0 .. Rows - 1 |-> Sum(InResult(row), row)]
  <2>1. \A row: Sum(InResult(row), row)' = Sum(InResult(row), row)
    <3> SUFFICES ASSUME NEW row PROVE Sum(InResult(row), row)' = Sum(InResult(row), row)
      OBVIOUS
    <3>1. InResult(row)' = InResult(row) BY <1>3
    <3> QED BY <1>2, <3>1 DEF Sum, IndexOf, run
  <2> QED BY <2>1
<1>5. qIdx' = qIdx => InLocal' = InLocal BY <1>2 DEF InLocal
<1>6. program' = "matmult" /\ InLocal' # {} => localResult' = Sum(InLocal, resIdx)'
  <2> SUFFICES ASSUME program = "matmult", InLocal' # {}
               PROVE  localResult' = Sum(InLocal, resIdx)'
    BY <1>1
  <2>1. InLocal' = InLocal BY <1>5
  <2>2. Sum(InLocal, resIdx)' = Sum(InLocal, resIdx) BY <2>1, <1>2 DEF Sum, IndexOf, run
  <2> QED BY <1>1, <2>1, <2>2 DEF Results
<1> QED BY <1>1, <1>4, <1>6 DEF Results

\* A step to a rotation, before it is multiplied.
LEMMA WalkResults ==
  ASSUME ProductInv, UNCHANGED <<run, loop, data>>,
         pc \in {"rotate", "walk", "multiply"}, pc' \in {"rotate", "walk", "multiply"}
  PROVE  Results'
<1>1. /\ resIdx' = resIdx /\ qIdx' = qIdx /\ iter' = iter /\ i' = i /\ end' = end
  BY BoundsStay DEF loop
<1>2. \A ct \in Rotations: /\ Past(ct)' <=> Past(ct)
                           /\ Added(ct.query)' <=> Added(ct.query)
  BY <1>1 DEF Past, Added
<1> QED BY <1>1, <1>2, ResultsStay

LEMMA ResultsInit ==
  Init => Results
<1> SUFFICES ASSUME Init PROVE Results
  OBVIOUS
<1>1. WalkInv /\ Place BY WalkInit DEF WalkInv
<1>2. pc = "rotate" /\ resIdx = 0 /\ qIdx = FirstQuery /\ iter = FirstHalf /\ i = start
      /\ result = [row \in 0 .. Rows - 1 |-> EmptyBag]
  BY DEF Init
<1>3. ASSUME NEW ct \in Rotations PROVE ~ Past(ct) /\ ~ Added(ct.query)
  BY <1>1, <1>2, RotationIs, Bounds DEF Past, Added
<1>4. \A row \in 0 .. Rows - 1: InResult(row) = {} BY <1>2, <1>3 DEF InResult
<1>5. \A row: Sum({}, row) = EmptyBag BY DEF Sum, EmptyBag
<1>6. InLocal = {} BY <1>3 DEF InLocal
<1> QED BY <1>2, <1>4, <1>5, <1>6 DEF Results

LEMMA NextRotationResults ==
  ProductInv /\ NextRotation => Results'
<1> SUFFICES ASSUME ProductInv, NextRotation PROVE Results'
  OBVIOUS
<1> USE DEF ProductInv, WalkInv
<1>1. /\ pc = "next" /\ i + 1 < end /\ i' = i + 1 /\ pc' = "rotate"
      /\ resIdx' = resIdx /\ qIdx' = qIdx /\ iter' = iter /\ UNCHANGED <<run, data>>
  BY DEF NextRotation, kept
<1>2. end' = end /\ end \in Nat /\ i \in Nat BY <1>1, BoundsStay, Bounds, Counters
<1>3. ASSUME NEW ct \in Rotations PROVE /\ Past(ct)' <=> Past(ct)
                                        /\ Added(ct.query)' <=> Added(ct.query)
  <2>1. ct.by \in Nat BY RotationIs
  <2>2. ct.by < i + 1 <=> (ct.by < i \/ ct.by = i) BY <1>2, <2>1
  <2>3. Past(ct)' <=> Past(ct) BY <1>1, <2>2 DEF Past
  <2>4. Added(ct.query)' <=> Added(ct.query) BY <1>1, <1>2 DEF Added
  <2> QED BY <2>3, <2>4
<1> QED BY <1>1, <1>3, ResultsStay

LEMMA NextHalfResults ==
  ProductInv /\ NextHalf => Results'
<1> SUFFICES ASSUME ProductInv, NextHalf PROVE Results'
  OBVIOUS
<1> USE DEF ProductInv, WalkInv
<1>1. /\ pc = "next" /\ i + 1 = end /\ iter < LastHalf /\ i' = start /\ iter' = iter + 1
      /\ pc' = "rotate" /\ resIdx' = resIdx /\ qIdx' = qIdx /\ UNCHANGED <<run, data>>
  BY DEF NextHalf, kept
<1>2. /\ end' = end /\ end \in Nat /\ i \in Nat /\ start \in Nat /\ qIdx \in Nat
      /\ iter = 0 /\ LastHalf = 1
  BY <1>1, BoundsStay, Bounds, Counters
<1>3. ASSUME NEW ct \in Rotations PROVE /\ Past(ct)' <=> Past(ct)
                                        /\ Added(ct.query)' <=> Added(ct.query)
  <2>1. ct.by \in Nat /\ start <= ct.by /\ ct.by < end /\ ct.swapped \in {0, 1} /\ ct.query \in Nat
    BY RotationIs
  <2>2. (ct.by < i \/ ct.by = i) /\ ~ (ct.by < start) BY <1>1, <1>2, <2>1
  <2>3. Past(ct) <=> (ct.query < qIdx \/ (ct.query = qIdx /\ ct.swapped = 0))
    BY <1>1, <1>2, <2>1, <2>2 DEF Past
  <2>4. Past(ct)' <=> (ct.query < qIdx \/ (ct.query = qIdx /\ ct.swapped = 0))
    BY <1>1, <1>2, <2>1, <2>2 DEF Past
  <2>5. Added(ct.query)' <=> Added(ct.query) BY <1>1, <1>2 DEF Added
  <2> QED BY <2>3, <2>4, <2>5
<1> QED BY <1>1, <1>3, ResultsStay

LEMMA NextQueryResults ==
  ProductInv /\ NextQuery => Results'
<1> SUFFICES ASSUME ProductInv, NextQuery PROVE Results'
  OBVIOUS
<1> USE DEF ProductInv, WalkInv
<1>1. /\ pc = "next" /\ i + 1 = end /\ iter = LastHalf /\ qIdx < LastQuery /\ i' = start
      /\ iter' = 0 /\ qIdx' = qIdx + 1 /\ pc' = "rotate" /\ resIdx' = resIdx
      /\ UNCHANGED <<run, data>>
  BY DEF NextQuery, kept
<1>2. /\ end' = end /\ end \in Nat /\ i \in Nat /\ start \in Nat /\ qIdx \in Nat
      /\ LastQuery \in Nat
  BY <1>1, BoundsStay, Bounds, Counters
<1>3. Whole /\ LastHalf = 1 BY <1>1, Bounds DEF Loops
<1>4. ASSUME NEW ct \in Rotations
      PROVE  /\ Past(ct)' <=> (ct.query < qIdx + 1)
             /\ Past(ct) <=> (ct.query < qIdx + 1)
             /\ Added(ct.query)' <=> Added(ct.query)
             /\ ~ (ct.query = qIdx + 1 /\ ct.query < qIdx + 1)
  <2>1. /\ ct.by \in Nat /\ start <= ct.by /\ ct.by < end /\ ct.swapped \in {0, 1}
        /\ ct.query \in Nat
    BY RotationIs
  <2>2. (ct.by < i \/ ct.by = i) /\ ~ (ct.by < start) BY <1>1, <1>2, <2>1
  <2>3. ct.query < qIdx + 1 <=> (ct.query < qIdx \/ ct.query = qIdx) BY <1>2, <2>1
  <2>4. Past(ct) <=> (ct.query < qIdx + 1)
    BY <1>1, <1>3, <2>1, <2>2, <2>3 DEF Past
  <2>5. Past(ct)' <=> (ct.query < qIdx + 1)
    BY <1>1, <2>1, <2>2 DEF Past
  <2>6. Added(ct.query)' <=> (ct.query < qIdx + 1) BY <1>1 DEF Added
  <2>7. Added(ct.query) <=> (ct.query < qIdx + 1) BY <1>1, <1>3, <2>3 DEF Added
  <2> QED BY <1>2, <2>1, <2>4, <2>5, <2>6, <2>7
<1>5. InLocal' = {}
  <2>1. Rotations' = Rotations BY <1>1, SumsStay
  <2> QED BY <1>1, <1>4, <2>1 DEF InLocal
<1> QED BY <1>1, <1>4, <1>5, ResultsStay

LEMMA FinishResults ==
  ProductInv /\ Finish => Results'
<1> SUFFICES ASSUME ProductInv, Finish PROVE Results'
  OBVIOUS
<1> USE DEF ProductInv, WalkInv
<1>1. /\ pc = "next" /\ pc' = "done" /\ Ended /\ UNCHANGED <<run, loop, data>>
  BY DEF Finish, kept, Ended
<1>2. /\ end' = end /\ LastHalf' = LastHalf /\ LastQuery' = LastQuery /\ LastRow' = LastRow
      /\ qIdx' = qIdx /\ iter' = iter /\ i' = i /\ resIdx' = resIdx
  BY <1>1, BoundsStay DEF loop
<1>3. \A ct \in Rotations: /\ Past(ct)' <=> Past(ct)
                           /\ Added(ct.query)' <=> Added(ct.query)
  BY <1>1, <1>2 DEF Past, Added
<1>4. Ended' BY <1>1, <1>2 DEF Ended
<1> QED BY <1>1, <1>2, <1>3, <1>4, ResultsStay

\* A round multiplies the ciphertext of its counters, which no round before has.
LEMMA RoundProduct ==
  ASSUME ProductInv, pc = "multiply", pc' = "next", UNCHANGED <<run, loop>>
  PROVE  /\ Ct(qIdx, iter, i) \in Rotations /\ ~ Past(Ct(qIdx, iter, i))
         /\ \A ct \in Rotations: Past(ct)' <=> (Past(ct) \/ ct = Ct(qIdx, iter, i))
         /\ \A row: Product(row) = Sum({Ct(qIdx, iter, i)}, row)
<1> USE DEF ProductInv, WalkInv
<1> DEFINE c == Ct(qIdx, iter, i)
<1>1. qIdx' = qIdx /\ iter' = iter /\ i' = i BY DEF loop
<1>2. qIdx \in Nat /\ iter \in {0, 1} /\ i \in Nat BY Counters
<1>3. c.query = qIdx /\ c.swapped = iter /\ c.by = i BY DEF Ct
<1>4. ~ Past(c) BY <1>2, <1>3 DEF Past
<1>5. ASSUME NEW ct \in Rotations PROVE Past(ct)' <=> (Past(ct) \/ ct = c)
  <2>1. ct = c <=> (ct.query = qIdx /\ ct.swapped = iter /\ ct.by = i)
    BY <1>3, RotationIs
  <2> HIDE DEF c
  <2> QED BY <1>1, <2>1 DEF Past
<1>6. ASSUME NEW row PROVE Product(row) = Sum({c}, row)
  <2>1. temp = c BY DEF Walk
  <2>2. Index(row) = IndexOf(c, row) BY <1>3 DEF Index, IndexOf
  <2>3. {<<ct, IndexOf(ct, row)>> : ct \in {c}} = {<<c, IndexOf(c, row)>>} OBVIOUS
  <2> QED BY <2>1, <2>2, <2>3 DEF Product, Sum
<1> QED BY <1>4, <1>5, <1>6, RoundIs

LEMMA MultiplyResults ==
  ProductInv /\ Multiply => Results'
<1> SUFFICES ASSUME ProductInv, Multiply PROVE Results'
  OBVIOUS
<1> USE DEF ProductInv, WalkInv
<1> DEFINE c == Ct(qIdx, iter, i)
<1>1. /\ program # "matmult" /\ pc = "multiply" /\ pc' = "next" /\ UNCHANGED <<run, loop>>
      /\ localResult' = localResult
      /\ result' = [row \in DOMAIN result |->
                      IF RowsInside \/ row = resIdx
                      THEN (IF IsFirst THEN EmptyBag ELSE result[row]) (+) Product(row)
                      ELSE result[row]]
  BY DEF Multiply
<1>2. /\ c \in Rotations /\ ~ Past(c)
      /\ \A ct \in Rotations: Past(ct)' <=> (Past(ct) \/ ct = c)
      /\ \A row: Product(row) = Sum({c}, row)
  BY <1>1, RoundProduct
<1>3. Rotations' = Rotations /\ (RowsInside' <=> RowsInside) /\ program' = program
      /\ Rows' = Rows
  BY <1>1, SumsStay, BoundsStay
<1>4. resIdx' = resIdx /\ resIdx \in Nat BY <1>1 DEF loop, Loops
<1>5. ASSUME IsFirst, NEW ct \in Rotations PROVE ~ Past(ct)
  <2>1. /\ ct.query \in Nat /\ FirstQuery <= ct.query /\ ct.query <= LastQuery
        /\ ct.swapped \in {0, 1} /\ FirstHalf <= ct.swapped /\ ct.swapped <= LastHalf
        /\ ct.by \in Nat /\ start <= ct.by
    BY RotationIs
  <2>2. CASE Whole
    <3>1. qIdx = 0 /\ iter = 0 /\ i = 0 BY <1>5, <2>2 DEF IsFirst
    <3> QED BY <1>1, <2>1, <3>1 DEF Past
  <2>3. CASE ~ Whole
    <3>1. i = start /\ FirstQuery = LastQuery /\ FirstHalf = LastHalf
      BY <1>5, <2>3, Bounds DEF IsFirst
    <3>2. qIdx = FirstQuery /\ iter = FirstHalf /\ start \in Nat /\ FirstQuery \in Nat
          /\ FirstHalf \in {0, 1}
      BY <3>1, Bounds DEF Loops
    <3> QED BY <1>1, <2>1, <3>1, <3>2 DEF Past
  <2> QED BY <2>2, <2>3
<1> HIDE DEF c
<1>6. ASSUME NEW row \in 0 .. Rows - 1 PROVE result'[row] = Sum(InResult(row), row)'
  <2>1. DOMAIN result = 0 .. Rows - 1 /\ result[row] = Sum(InResult(row), row)
    BY DEF Results
  <2>3. Sum(InResult(row), row)' = Sum(InResult(row)', row) BY <1>1 DEF Sum, IndexOf, run
  <2>4. CASE RowsInside \/ row = resIdx
    <3>1. InResult(row) = {ct \in Rotations: Past(ct)} BY <1>1, <1>4, <2>4 DEF InResult
    <3>2. InResult(row)' = {ct \in Rotations: Past(ct)'}
      BY <1>1, <1>3, <1>4, <2>4 DEF InResult
    <3>3. InResult(row)' = InResult(row) \cup {c} /\ InResult(row) \cap {c} = {}
      BY <1>2, <3>1, <3>2
    <3>4. (IF IsFirst THEN EmptyBag ELSE result[row]) = Sum(InResult(row), row)
      <4>1. CASE IsFirst
        <5>1. InResult(row) = {} BY <1>5, <3>1, <4>1
        <5>2. Sum({}, row) = EmptyBag BY DEF Sum, EmptyBag
        <5> QED BY <4>1, <5>1, <5>2
      <4>2. CASE ~ IsFirst BY <2>1, <4>2
      <4> QED BY <4>1, <4>2
    <3>5. result'[row] = Sum(InResult(row), row) (+) Sum({c}, row)
      BY <1>1, <1>2, <2>1, <2>4, <3>4
    <3> QED BY <2>3, <3>3, <3>5, SumUnion
  <2>5. CASE ~ (RowsInside \/ row = resIdx)
    <3>1. InResult(row)' = InResult(row) BY <1>3, <1>4, <2>5 DEF InResult
    <3> QED BY <1>1, <2>1, <2>3, <2>5, <3>1
  <2> QED BY <2>4, <2>5
<1>7. DOMAIN result' = 0 .. Rows - 1 /\ result' = [row \in DOMAIN result' |-> result'[row]]
  <2>1. DOMAIN result = 0 .. Rows - 1 BY DEF Results
  <2> QED BY <1>1, <2>1
<1>8. result' = [row \in 0 .. Rows - 1 |-> Sum(InResult(row), row)]'
  BY <1>6, <1>7
<1> QED BY <1>1, <1>3, <1>8 DEF Results

\* matmult: the local result is the sum of the query's products so far of the row.
LEMMA MultiplyLocalSum ==
  ASSUME ProductInv, MultiplyLocal
  PROVE  /\ InLocal' = InLocal \cup {Ct(qIdx, iter, i)}
         /\ localResult' = Sum(InLocal', resIdx)
<1> USE DEF ProductInv, WalkInv
<1> DEFINE c == Ct(qIdx, iter, i)
<1>1. /\ program = "matmult" /\ pc = "multiply" /\ pc' = "next" /\ UNCHANGED <<run, loop>>
      /\ localResult' =
           (IF iter = 0 /\ i = 0 THEN EmptyBag ELSE localResult) (+) Product(resIdx)
  BY DEF MultiplyLocal
<1>2. /\ c \in Rotations /\ ~ Past(c)
      /\ \A ct \in Rotations: Past(ct)' <=> (Past(ct) \/ ct = c)
      /\ Product(resIdx) = Sum({c}, resIdx)
  BY <1>1, RoundProduct
<1>3. Rotations' = Rotations /\ qIdx' = qIdx /\ c.query = qIdx
  BY <1>1, SumsStay DEF loop, Ct
<1> HIDE DEF c
<1>4. InLocal' = InLocal \cup {c} /\ InLocal \cap {c} = {} BY <1>2, <1>3 DEF InLocal
<1>5. /\ Whole /\ start = 0 /\ end \in Nat /\ FirstHalf = 0 /\ LastHalf = 1
      /\ qIdx \in Nat /\ iter \in {0, 1} /\ i \in Nat /\ i < end
  BY <1>1, Bounds, Counters DEF Whole
<1>6. (IF iter = 0 /\ i = 0 THEN EmptyBag ELSE localResult) = Sum(InLocal, resIdx)
  <2>1. CASE iter = 0 /\ i = 0
    <3>1. InLocal = {} BY <1>1, <1>5, <2>1, RotationIs DEF InLocal, Past
    <3> QED BY <2>1, <3>1 DEF Sum, EmptyBag
  <2>2. CASE ~ (iter = 0 /\ i = 0)
    <3> DEFINE d == Ct(qIdx, 0, 0)
    <3>1. d.query = qIdx /\ d.swapped = 0 /\ d.by = 0 BY DEF Ct
    <3>2. qIdx \in FirstQuery .. LastQuery /\ 0 \in FirstHalf .. LastHalf /\ 0 \in start .. end - 1
      BY <1>5 DEF Loops
    <3>3. d \in Rotations BY <3>2 DEF Rotations, Ct
    <3>4. Past(d) BY <1>5, <2>2, <3>1 DEF Past
    <3>5. InLocal # {} BY <3>1, <3>3, <3>4 DEF InLocal
    <3> QED BY <1>1, <2>2, <3>5 DEF Results
  <2> QED BY <2>1, <2>2
<1> QED BY <1>1, <1>2, <1>4, <1>6, SumUnion DEF c

LEMMA MultiplyLocalResults ==
  ProductInv /\ MultiplyLocal => Results'
<1> SUFFICES ASSUME ProductInv, MultiplyLocal PROVE Results'
  OBVIOUS
<1> USE DEF ProductInv, WalkInv
<1> DEFINE c == Ct(qIdx, iter, i)
           last == iter = 1 /\ i + 1 = end
<1>1. /\ program = "matmult" /\ pc = "multiply" /\ pc' = "next" /\ UNCHANGED <<run, loop>>
      /\ result' = IF last
                   THEN [result EXCEPT ![resIdx] =
                           IF qIdx = 0 THEN localResult' ELSE @ (+) localResult']
                   ELSE result
  BY DEF MultiplyLocal
<1>2. /\ \A ct \in Rotations: Past(ct)' <=> (Past(ct) \/ ct = c)
  BY <1>1, RoundProduct
<1>3. InLocal' = InLocal \cup {c} /\ localResult' = Sum(InLocal', resIdx)
  BY MultiplyLocalSum
<1>4. /\ Rotations' = Rotations /\ program' = program /\ ~ RowsInside /\ ~ RowsInside'
      /\ end' = end
  BY <1>1, SumsStay, BoundsStay DEF RowsInside
<1>5. /\ resIdx' = resIdx /\ resIdx \in Nat /\ qIdx' = qIdx /\ iter' = iter /\ i' = i
      /\ qIdx \in Nat /\ iter \in {0, 1} /\ i \in Nat /\ end \in Nat
  BY <1>1, Bounds, Counters DEF loop, Loops
<1>6. resIdx \in 0 .. Rows - 1
  BY <1>1 DEF Loops, LastRow, RowsInside
<1>7. DOMAIN result = 0 .. Rows - 1 /\ \A row \in 0 .. Rows - 1: result[row] = Sum(InResult(row), row)
  BY DEF Results
<1>8. \A q \in Nat: /\ Added(q) <=> (q < qIdx)
                    /\ Added(q)' <=> (q < qIdx \/ (q = qIdx /\ last))
  BY <1>1, <1>4, <1>5 DEF Added
<1>9. \A ct \in Rotations: ct.query \in Nat BY RotationIs
<1>10. InResult(resIdx) = {ct \in Rotations: ct.query < qIdx}
  BY <1>1, <1>4, <1>5, <1>8, <1>9 DEF InResult
<1>11. \A row: Sum(InResult(row), row)' = Sum(InResult(row)', row)
  BY <1>1 DEF Sum, IndexOf, run
<1>12. ASSUME NEW row \in 0 .. Rows - 1, row # resIdx \/ ~ last
       PROVE  InResult(row)' = InResult(row) /\ result'[row] = result[row]
  <2>1. InResult(row)' = InResult(row)
    <3>1. CASE row # resIdx BY <1>4, <1>5, <3>1 DEF InResult
    <3>2. CASE ~ last
      <4>1. \A ct \in Rotations: Added(ct.query)' <=> Added(ct.query)
        BY <1>8, <1>9, <3>2
      <4> QED BY <1>1, <1>4, <1>5, <4>1 DEF InResult
    <3> QED BY <1>12, <3>1, <3>2
  <2>2. result'[row] = result[row] BY <1>1, <1>7, <1>12
  <2> QED BY <2>1, <2>2
<1>13. ASSUME last PROVE result'[resIdx] = Sum(InResult(resIdx)', resIdx)
  <2>1. ASSUME NEW ct \in Rotations PROVE Past(ct)' <=> (ct.query < qIdx \/ ct.query = qIdx)
    <3>1. /\ ct.query \in Nat /\ ct.swapped \in {0, 1} /\ ct.by \in Nat /\ ct.by < end
          /\ (ct.by < i \/ ct.by = i)
      BY <1>5, <1>13, RotationIs
    <3> QED BY <1>1, <1>5, <1>13, <3>1 DEF Past
  <2>2. InLocal' = {ct \in Rotations: ct.query = qIdx} BY <1>4, <1>5, <2>1 DEF InLocal
  <2>3. InResult(resIdx)' = {ct \in Rotations: ct.query < qIdx \/ ct.query = qIdx}
    BY <1>1, <1>4, <1>5, <1>8, <1>9, <1>13 DEF InResult
  <2>4. /\ InResult(resIdx)' = InResult(resIdx) \cup InLocal'
        /\ InResult(resIdx) \cap InLocal' = {}
    BY <1>5, <1>9, <1>10, <2>2, <2>3
  <2>5. CASE qIdx = 0
    <3>1. InResult(resIdx) = {} BY <1>9, <1>10, <2>5
    <3>2. result'[resIdx] = localResult' BY <1>1, <1>6, <1>7, <1>13, <2>5
    <3> QED BY <1>3, <2>4, <3>1, <3>2
  <2>6. CASE qIdx # 0
    <3>1. result'[resIdx] = result[resIdx] (+) localResult'
      BY <1>1, <1>6, <1>7, <1>13, <2>6
    <3>2. result[resIdx] = Sum(InResult(resIdx), resIdx) BY <1>6, <1>7
    <3> QED BY <1>3, <2>4, <3>1, <3>2, SumUnion
  <2> QED BY <2>5, <2>6
<1> HIDE DEF c, last
<1>14. ASSUME NEW row \in 0 .. Rows - 1 PROVE result'[row] = Sum(InResult(row), row)'
  <2>1. CASE row = resIdx /\ last BY <1>5, <1>11, <1>13, <2>1
  <2>2. CASE ~ (row = resIdx /\ last)
    <3>1. InResult(row)' = InResult(row) /\ result'[row] = Sum(InResult(row), row)
      BY <1>7, <1>12, <2>2
    <3> QED BY <1>11, <3>1
  <2> QED BY <2>1, <2>2
<1>15. result' = [row \in 0 .. Rows - 1 |-> result'[row]]
  BY <1>1, <1>7, <1>6 DEF Results
<1>16. result' = [row \in 0 .. Rows - 1 |-> Sum(InResult(row), row)]'
  BY <1>14, <1>15
<1>17. localResult' = Sum(InLocal, resIdx)'
  <2>1. Sum(InLocal, resIdx)' = Sum(InLocal', resIdx') BY <1>1 DEF Sum, IndexOf, run
  <2> QED BY <1>3, <1>5, <2>1
<1> QED BY <1>1, <1>16, <1>17 DEF Results

\* At the end of the queries of a row its result has all products.
LEMMA NextRowResults ==
  ProductInv /\ NextRow => Results'
<1> SUFFICES ASSUME ProductInv, NextRow PROVE Results'
  OBVIOUS
<1> USE DEF ProductInv, WalkInv
<1>1. /\ pc = "next" /\ i + 1 = end /\ iter = LastHalf /\ qIdx = LastQuery
      /\ resIdx < LastRow /\ i' = start /\ iter' = FirstHalf /\ qIdx' = FirstQuery
      /\ resIdx' = resIdx + 1 /\ pc' = "rotate" /\ UNCHANGED <<run, data>>
  BY DEF NextRow, kept
<1>2. /\ end' = end /\ LastHalf' = LastHalf /\ FirstHalf' = FirstHalf /\ program' = program
      /\ Rotations' = Rotations /\ ~ RowsInside /\ ~ RowsInside'
  <2>1. ~ RowsInside
    <3>1. resIdx \in Nat BY DEF Loops
    <3> QED BY <1>1, <3>1 DEF LastRow
  <2> QED BY <1>1, <2>1, BoundsStay, SumsStay
<1>3. /\ end \in Nat /\ i \in Nat /\ start \in Nat /\ qIdx \in Nat /\ resIdx \in Nat
      /\ FirstQuery \in Nat
  BY Bounds, Counters DEF Loops
<1>4. ASSUME NEW ct \in Rotations PROVE Past(ct) /\ ~ Past(ct)' /\ ~ Added(ct.query)'
  <2>1. /\ ct.query \in Nat /\ FirstQuery <= ct.query /\ ct.query <= LastQuery
        /\ ct.swapped \in {0, 1} /\ FirstHalf <= ct.swapped /\ ct.swapped <= LastHalf
        /\ ct.by \in Nat /\ start <= ct.by /\ ct.by < end
        /\ LastHalf \in {0, 1} /\ FirstHalf \in {0, 1}
    BY RotationIs, Bounds
  <2>2. ct.query < qIdx \/ ct.query = qIdx BY <1>1, <1>3, <2>1
  <2>3. ct.swapped < iter \/ ct.swapped = iter BY <1>1, <2>1
  <2>4. ct.by < i \/ ct.by = i BY <1>1, <1>3, <2>1
  <2>5. Past(ct) BY <1>1, <2>2, <2>3, <2>4 DEF Past
  <2>6. ~ Past(ct)' BY <1>1, <1>3, <2>1 DEF Past
  <2>7. ~ Added(ct.query)' BY <1>1, <1>3, <2>1 DEF Added
  <2> QED BY <2>5, <2>6, <2>7
<1>5. ASSUME Whole, NEW ct \in Rotations PROVE Added(ct.query)
  <2>1. ct.query \in Nat /\ ct.query <= LastQuery /\ LastHalf = 1
    BY <1>5, RotationIs, Bounds
  <2> QED BY <1>1, <1>3, <2>1 DEF Added
<1>6. program = "matmult" => Whole BY DEF Whole
<1>7. ASSUME NEW row \in 0 .. Rows - 1 PROVE InResult(row)' = InResult(row)
  <2>1. row \in Nat /\ (row < resIdx + 1 <=> (row < resIdx \/ row = resIdx)) /\ resIdx + 1 # resIdx
    BY <1>3, SizesAssumption
  <2>2. CASE row < resIdx \/ row = resIdx
    <3>1. InResult(row) = Rotations
      BY <1>2, <1>3, <1>4, <1>5, <1>6, <2>1, <2>2 DEF InResult
    <3>2. InResult(row)' = Rotations BY <1>1, <1>2, <2>1, <2>2 DEF InResult
    <3> QED BY <3>1, <3>2
  <2>3. CASE ~ (row < resIdx \/ row = resIdx)
    <3>1. InResult(row) = {} BY <1>2, <2>3 DEF InResult
    <3>2. InResult(row)' = {} BY <1>1, <1>2, <1>4, <2>1, <2>3 DEF InResult
    <3> QED BY <3>1, <3>2
  <2> QED BY <2>2, <2>3
<1>8. InLocal' = {} BY <1>2, <1>4 DEF InLocal
<1>9. [row \in 0 .. Rows - 1 |-> Sum(InResult(row), row)]'
        = [row \in 0 .. Rows - 1 |-> Sum(InResult(row), row)]
  <2>1. ASSUME NEW row \in 0 .. Rows - 1
        PROVE  Sum(InResult(row), row)' = Sum(InResult(row), row)
    <3>1. InResult(row)' = InResult(row) BY <1>7
    <3>2. Sum(InResult(row), row)' = Sum(InResult(row)', row) BY <1>1 DEF Sum, IndexOf, run
    <3> QED BY <3>1, <3>2
  <2> QED BY <2>1
<1> QED BY <1>1, <1>8, <1>9 DEF Results, data

LEMMA StutterResults ==
  ProductInv /\ UNCHANGED vars => Results'
<1> SUFFICES ASSUME ProductInv, UNCHANGED vars PROVE Results'
  OBVIOUS
<1>1. UNCHANGED <<run, loop, data>> /\ pc' = pc BY DEF vars, data
<1>2. /\ end' = end /\ LastHalf' = LastHalf /\ LastQuery' = LastQuery /\ LastRow' = LastRow
      /\ qIdx' = qIdx /\ iter' = iter /\ i' = i /\ resIdx' = resIdx
  BY <1>1, BoundsStay DEF loop
<1>3. \A ct \in Rotations: /\ Past(ct)' <=> Past(ct)
                           /\ Added(ct.query)' <=> Added(ct.query)
  BY <1>1, <1>2 DEF Past, Added
<1>4. pc' = "done" => Ended' BY <1>1, <1>2 DEF Ended, ProductInv, Results
<1> QED BY <1>1, <1>2, <1>3, <1>4, ResultsStay

LEMMA NextResults ==
  ProductInv /\ [Next]_vars => Results'
<1> SUFFICES ASSUME ProductInv, [Next]_vars PROVE Results'
  OBVIOUS
<1>1. CASE RotateNone \/ RotateAnew \/ WalkDown \/ WalkEnds \/ RotateByKey \/ RotateFromTop
           \/ CopyQuery \/ StepUp \/ StepsDone
  <2>1. /\ UNCHANGED <<run, loop, data>>
        /\ pc \in {"rotate", "walk", "multiply"} /\ pc' \in {"rotate", "walk", "multiply"}
    BY <1>1 DEF RotateNone, RotateAnew, WalkDown, WalkEnds, RotateByKey, RotateFromTop,
                CopyQuery, StepUp, StepsDone
  <2> QED BY <2>1, WalkResults
<1>2. CASE Multiply BY <1>2, MultiplyResults
<1>3. CASE MultiplyLocal BY <1>3, MultiplyLocalResults
<1>4. CASE NextRotation BY <1>4, NextRotationResults
<1>5. CASE NextHalf BY <1>5, NextHalfResults
<1>6. CASE NextQuery BY <1>6, NextQueryResults
<1>7. CASE NextRow BY <1>7, NextRowResults
<1>8. CASE Finish BY <1>8, FinishResults
<1>9. CASE UNCHANGED vars BY <1>9, StutterResults
<1> QED BY <1>1, <1>2, <1>3, <1>4, <1>5, <1>6, <1>7, <1>8, <1>9 DEF Next

THEOREM ProductInvariant ==
  Spec => []ProductInv
<1>1. Init => ProductInv BY WalkInit, ResultsInit DEF ProductInv
<1>2. ProductInv /\ [Next]_vars => ProductInv' BY WalkNextInv, NextResults DEF ProductInv
<1> QED BY <1>1, <1>2, PTL DEF Spec

\* A plaintext of half h, rotated by x, has in each slot the column that the query with
\* the same half in front, rotated by x, has there.
LEMMA SlotColumn ==
  ASSUME NEW h \in {0, 1}, NEW x \in 0 .. HalfN - 1, NEW j \in Nat
  PROVE  EncodedColumn(h * HalfN + x, j)
           = (((j \div HalfN + h) % 2) * HalfN) + ((j + x) % HalfN)
<1> DEFINE H == HalfN
           y == x + j
           a == y \div H
           r == y % H
<1>1. H \in Nat \ {0} /\ x \in 0 .. H - 1 /\ h \in Nat /\ y \in Nat /\ y = j + x
  BY SizesAssumption
<1> HIDE DEF H
<1>2. (h * H + x) \div H = h BY <1>1, DivUnique
<1>3. a \in Nat /\ r \in 0 .. H - 1 /\ y = H * a + r
  <2> HIDE DEF y
  <2> QED BY <1>1, DivMod
<1>4. (h * H + x) + j = (h + a) * H + r /\ h + a \in Nat
  <2>1. (h + a) * H = h * H + a * H /\ h * H \in Nat /\ a * H \in Nat /\ a * H = H * a
    BY <1>1, <1>3, Products
  <2>2. (h * H + x) + j = h * H + y BY <1>1, <2>1
  <2> HIDE DEF a, r, y
  <2> QED BY <1>1, <1>3, <2>1, <2>2
<1>5. ((h + a) * H + r) % H = r
  <2> HIDE DEF a, r, y
  <2> QED BY <1>1, <1>3, <1>4, DivUnique
<1>6. ((h * H + x) + j) % H = (j + x) % H BY <1>1, <1>4, <1>5
<1> QED BY <1>2, <1>6 DEF EncodedColumn, H

\* What an index says of the product: the block of its row and query, and the half and
\* the rotation of its ciphertext.
LEMMA IndexSays ==
  ASSUME Place, Whole \/ IsMerge(at.shape),
         NEW ct \in Rotations, NEW row \in 0 .. Rows - 1
  PROVE  /\ BlockOf(IndexOf(ct, row)).row = row
         /\ BlockOf(IndexOf(ct, row)).query
              + (IF Whole THEN 0 ELSE FirstQuery - QueryIdx(at.shape, at.thread)) = ct.query
         /\ IndexOf(ct, row) \in Nat
         /\ ct.by - start \in 0 .. HalfN - 1
         /\ IndexOf(ct, row) % N = ct.swapped * HalfN + (ct.by - start)
<1> DEFINE q == ct.query
           h == ct.swapped
           x == ct.by - start
           idx == IndexOf(ct, row)
           m == h * HalfN + x
<1>1. /\ q \in Nat /\ FirstQuery <= q /\ q <= LastQuery /\ h \in {0, 1} /\ FirstHalf <= h
      /\ h <= LastHalf /\ ct.by \in Nat /\ start <= ct.by /\ ct.by < end
  BY RotationIs
<1>2. /\ HalfN \in Nat \ {0} /\ Rows \in Nat \ {0} /\ Queries \in Nat \ {0} /\ end <= HalfN
      /\ end \in Nat /\ start \in Nat /\ N \in Nat \ {0} /\ N = HalfN + HalfN /\ row \in 0 .. Rows - 1
  BY SizesAssumption, LoopAssumption, Bounds DEF N
<1>0. x \in Nat /\ x < HalfN /\ x \in 0 .. HalfN - 1
  <2>1. \A u, v, w, z \in Nat: u <= v /\ v < w /\ w <= z =>
          v - u \in Nat /\ v - u < z /\ v - u \in 0 .. z - 1
    OBVIOUS
  <2> QED BY <1>1, <1>2, <2>1
<1>3. m \in 0 .. N - 1
  <2>1. h * HalfN = 0 \/ h * HalfN = HalfN BY <1>1, <1>2
  <2> HIDE DEF x, h
  <2> QED BY <1>0, <1>2, <2>1
<1> HIDE DEF q, h, x, m, idx
<1>8. ASSUME NEW B \in Nat, idx = B * N + m PROVE idx \in Nat
  <2>1. B * N \in Nat BY <1>2
  <2> QED BY <1>3, <1>8, <2>1
<1>9. ASSUME Whole PROVE start = 0 /\ x = ct.by
  <2>1. start = 0 BY <1>9 DEF start
  <2> QED BY <1>1, <2>1 DEF x
<1>4. ASSUME NEW B \in Nat, idx = B * N + m PROVE idx \div N = B /\ idx % N = m
  BY <1>2, <1>3, <1>4, DivUnique
<1>5. CASE program = "matmult"
  <2>1. Whole /\ q \in 0 .. Queries - 1
    BY <1>1, <1>2, <1>5, Bounds DEF Whole, LastQuery
  <2>2. row * Queries + q \in Nat BY <1>1, <1>2, Products
  <2>3. idx = (row * Queries + q) * N + m
    <3>1. idx = (row * Queries + q) * N + h * HalfN + x BY <1>5, <1>9, <2>1 DEF IndexOf, idx, q, h
    <3>2. (row * Queries + q) * N \in Nat /\ h * HalfN \in Nat BY <1>1, <1>2, <2>2
    <3> QED BY <1>0, <3>1, <3>2 DEF m
  <2>4. idx \div N = row * Queries + q /\ idx % N = m BY <1>4, <2>2, <2>3
  <2>5. (row * Queries + q) \div Queries = row /\ (row * Queries + q) % Queries = q
    BY <1>2, <2>1, DivUnique
  <2>6. BlockOf(idx) = [query |-> q, row |-> row] BY <1>5, <2>4, <2>5 DEF BlockOf
  <2>7. idx \in Nat BY <1>8, <2>2, <2>3
  <2>8. BlockOf(idx).row = row /\ BlockOf(idx).query + 0 = q BY <1>1, <2>6
  <2> QED BY <1>0, <2>1, <2>4, <2>7, <2>8 DEF idx, q, m, h, x
<1>6. CASE program \in {"opt1", "opt2"}
  <2>1. Whole BY <1>6 DEF Whole
  <2>2. q * Rows + row \in Nat BY <1>1, <1>2, Products
  <2>3. idx = (q * Rows + row) * N + m
    <3>1. idx = q * Rows * N + row * N + h * HalfN + x BY <1>6, <1>9, <2>1 DEF IndexOf, idx, q, h
    <3>2. q * Rows \in Nat BY <1>1, <1>2
    <3>3. (q * Rows + row) * N = q * Rows * N + row * N /\ q * Rows * N \in Nat /\ row * N \in Nat
      BY <1>2, <3>2, Products
    <3>4. h * HalfN \in Nat BY <1>1, <1>2
    <3> QED BY <1>0, <3>1, <3>3, <3>4 DEF m
  <2>4. idx \div N = q * Rows + row /\ idx % N = m BY <1>4, <2>2, <2>3
  <2>5. (q * Rows + row) \div Rows = q /\ (q * Rows + row) % Rows = row
    BY <1>1, <1>2, DivUnique
  <2>6. BlockOf(idx) = [query |-> q, row |-> row] BY <1>6, <2>4, <2>5 DEF BlockOf
  <2>7. idx \in Nat BY <1>8, <2>2, <2>3
  <2>8. BlockOf(idx).row = row /\ BlockOf(idx).query + 0 = q BY <1>1, <2>6
  <2> QED BY <1>0, <2>1, <2>4, <2>7, <2>8 DEF idx, q, m, h, x
<1>7. CASE ~ Whole
  <2> DEFINE c == QueryIdx(at.shape, at.thread)
  <2>1. /\ IsMerge(at.shape) /\ StartRot(at.shape, at.worker, at.thread) = start
        /\ Half(at.shape, at.worker, at.thread) = h
    <3>1. FirstHalf = Half(at.shape, at.worker, at.thread) /\ FirstHalf = LastHalf
          /\ FirstHalf \in {0, 1}
      BY <1>7, Bounds DEF FirstHalf
    <3>2. h = FirstHalf BY <1>1, <3>1
    <3> QED BY <1>7, <3>1, <3>2 DEF start
  <2>2. c \in Nat
    BY <1>7, ThreadRange DEF Place
  <2>3. FirstQuery \in Nat /\ q = FirstQuery BY <1>1, <1>7, Bounds
  <2> HIDE DEF c
  <2>4. c * Rows + row \in Nat BY <1>2, <2>2, Products
  <2>5. idx = (c * Rows + row) * N + m
    <3>1. idx = x + (c * Rows * N + row * N + h * HalfN)
      <4>1. idx = DbIndex(at.shape, at.worker, at.thread, row, ct.by)
        BY <1>7 DEF IndexOf, idx, Whole
      <4> QED BY <2>1, <4>1 DEF DbIndex, c, x
    <3>2. c * Rows \in Nat BY <1>2, <2>2
    <3>3. (c * Rows + row) * N = c * Rows * N + row * N /\ c * Rows * N \in Nat /\ row * N \in Nat
      BY <1>2, <3>2, Products
    <3>4. h * HalfN \in Nat BY <1>1, <1>2
    <3> QED BY <1>0, <3>1, <3>3, <3>4 DEF m
  <2>6. idx \div N = c * Rows + row /\ idx % N = m BY <1>4, <2>4, <2>5
  <2>7. (c * Rows + row) \div Rows = c /\ (c * Rows + row) % Rows = row
    BY <1>2, <2>2, DivUnique
  <2>8. BlockOf(idx) = [query |-> c, row |-> row] BY <1>7, <2>6, <2>7 DEF BlockOf, Whole
  <2>9. c + (FirstQuery - c) = q BY <2>2, <2>3
  <2> QED BY <1>7, <2>6, <2>8, <2>9, <1>0, <2>5, <2>4, <1>2, <1>3 DEF idx, q, m, h, x, c
<1> QED BY <1>5, <1>6, <1>7 DEF Whole

\* At the end the result of every row is the sum of the products of every rotation.
LEMMA DoneSums ==
  ASSUME ProductInv, pc = "done", NEW row \in 0 .. Rows - 1
  PROVE  result[row] = Sum(Rotations, row)
<1> USE DEF ProductInv, WalkInv
<1>1. i + 1 = end /\ iter = LastHalf /\ qIdx = LastQuery /\ resIdx = LastRow
  BY DEF Results, Ended
<1>2. i \in Nat /\ qIdx \in Nat /\ end \in Nat /\ LastHalf \in {0, 1} BY Bounds, Counters
<1>3. ASSUME NEW ct \in Rotations PROVE Past(ct) /\ (Whole => Added(ct.query))
  <2>1. /\ ct.query \in Nat /\ ct.query <= LastQuery /\ ct.swapped \in {0, 1}
        /\ ct.swapped <= LastHalf /\ ct.by \in Nat /\ ct.by < end
    BY RotationIs
  <2>2. ct.query < qIdx \/ ct.query = qIdx BY <1>1, <1>2, <2>1
  <2>3. ct.swapped < iter \/ ct.swapped = iter BY <1>1, <1>2, <2>1
  <2>4. ct.by < i \/ ct.by = i BY <1>1, <1>2, <2>1
  <2>5. Past(ct) BY <2>2, <2>3, <2>4 DEF Past
  <2>6. Whole => LastHalf = 1 BY Bounds
  <2>7. Whole => Added(ct.query) BY <1>1, <2>2, <2>6 DEF Added
  <2> QED BY <2>5, <2>7
<1>4. program = "matmult" => Whole BY DEF Whole
<1>5. RowsInside \/ row < resIdx \/ row = resIdx
  <2>1. row \in Nat /\ Rows \in Nat /\ row <= Rows - 1 BY SizesAssumption
  <2> QED BY <1>1, <2>1 DEF LastRow
<1>6. InResult(row) = Rotations BY <1>3, <1>4, <1>5 DEF InResult
<1> QED BY <1>6 DEF Results

\* In every slot, a product is that of a column and of the matrix's entry in it.
LEMMA ProductColumns ==
  ASSUME Place, Whole \/ IsMerge(at.shape), NEW row \in 0 .. Rows - 1
  PROVE  \A ct \in Rotations: \A j \in 0 .. N - 1:
           ColumnOf(ct, j) = (ct.query * N) + EncodedColumn((IndexOf(ct, row) % N) + start, j)
<1> SUFFICES ASSUME NEW ct \in Rotations, NEW j \in 0 .. N - 1
             PROVE  ColumnOf(ct, j) = (ct.query * N) + EncodedColumn((IndexOf(ct, row) % N) + start, j)
  OBVIOUS
<1> DEFINE h == ct.swapped
           x == ct.by
           m == (IndexOf(ct, row) % N) + start
           a == ct.query * N
           d == (j \div HalfN + h) % 2
           b == d * HalfN
           c == (j + x) % HalfN
<1>1. j \in Nat /\ HalfN \in Nat \ {0} /\ N \in Nat BY SizesAssumption DEF N
<1>2. h \in {0, 1} /\ x \in 0 .. HalfN - 1 /\ ct.query \in Nat
  <2>1. end \in Nat /\ end <= HalfN BY Bounds
  <2> QED BY <1>1, <2>1, RotationIs
<1>3. m = h * HalfN + x
  <2>1. IndexOf(ct, row) % N = h * HalfN + (x - start) BY IndexSays
  <2>2. start \in Nat /\ h * HalfN \in Nat BY <1>1, <1>2, Bounds
  <2> HIDE DEF h, x
  <2> QED BY <1>2, <2>1, <2>2 DEF m
<1>4. ColumnOf(ct, j) = (a + b) + c BY DEF ColumnOf
<1> HIDE DEF h, x, m, a
<1>5. EncodedColumn(m, j) = b + c
  <2>1. EncodedColumn(h * HalfN + x, j) = b + c BY <1>1, <1>2, SlotColumn
  <2> QED BY <1>3, <2>1
<1>6. a \in Nat BY <1>1, <1>2 DEF a
<1>7. b \in Nat
  <2>1. j \div HalfN \in Nat BY <1>1, DivMod
  <2>2. d \in Nat BY <1>2, <2>1
  <2> HIDE DEF d
  <2> QED BY <1>1, <2>2
<1>8. c \in Nat
  <2>1. j + x \in Nat BY <1>1, <1>2
  <2> DEFINE y == j + x
  <2> HIDE DEF y
  <2>2. y \in Nat => y % HalfN \in Nat BY <1>1, DivMod
  <2> QED BY <2>1, <2>2 DEF y
<1> HIDE DEF b, c
<1>9. (a + b) + c = a + (b + c) BY <1>6, <1>7, <1>8
<1> QED BY <1>4, <1>5, <1>9 DEF a, m

\* Within its half, the plaintext a rotation meets is the one of the diagonal that counts
\* from the thread's first rotation.
LEMMA DiagonalOf ==
  ASSUME Place, Whole \/ IsMerge(at.shape), NEW ct \in Rotations, NEW row \in 0 .. Rows - 1
  PROVE  IndexOf(ct, row) % HalfN = ct.by - start
<1> DEFINE idx == IndexOf(ct, row)
           h == ct.swapped
           x == ct.by - start
           B == idx \div N
<1>1. /\ HalfN \in Nat \ {0} /\ N \in Nat \ {0} /\ N = HalfN + HalfN BY SizesAssumption DEF N
<1>2. /\ idx \in Nat /\ x \in 0 .. HalfN - 1 /\ idx % N = h * HalfN + x /\ h \in {0, 1}
  BY IndexSays, RotationIs
<1> HIDE DEF idx, h, x
<1>3. B \in Nat /\ idx = N * B + (idx % N) BY <1>1, <1>2, DivMod
<1> HIDE DEF B
<1>4. N * B = HalfN * (B + B) /\ HalfN * (B + B) \in Nat BY <1>1, <1>3
<1>5. HalfN * (B + B) + h * HalfN = (B + B + h) * HalfN /\ B + B + h \in Nat
  BY <1>1, <1>2, <1>3
<1>6. h * HalfN \in Nat BY <1>1, <1>2
<1>7. idx = (B + B + h) * HalfN + x
  <2> DEFINE u == HalfN * (B + B)
             v == h * HalfN
             w == (B + B + h) * HalfN
  <2>1. u \in Nat /\ v \in Nat /\ u + v = w /\ N * B = u /\ idx % N = v + x
    BY <1>2, <1>4, <1>5, <1>6
  <2> HIDE DEF u, v, w
  <2>2. idx = u + (v + x) BY <1>2, <1>3, <2>1
  <2>3. idx = w + x BY <1>2, <2>1, <2>2
  <2> QED BY <2>3 DEF w
<1>8. idx % HalfN = x BY <1>1, <1>2, <1>5, <1>7, DivUnique
<1> QED BY <1>8 DEF idx, x

\* Every thread multiplies each rotation of its part of the query once; merge, baseline
\* and matmult multiply in each slot of each row the slot's column by the matrix's entry
\* as many columns before it as the thread's first rotation: its own, from rotation 0.
THEOREM ProductsByDiagonals ==
  Spec => []ProductByDiagonals
<1>1. ProductInv => ProductByDiagonals
  <2> SUFFICES ASSUME ProductInv, pc = "done", NEW row \in 0 .. Rows - 1
               PROVE  /\ {p[1] : p \in DOMAIN result[row]} = Rotations
                      /\ \A p \in DOMAIN result[row]: result[row][p] = 1
                      /\ Whole \/ IsMerge(at.shape) => \A p \in DOMAIN result[row]:
                           LET block == BlockOf(p[2])
                               query == block.query + IF Whole THEN 0 ELSE FirstQuery - QueryIdx(at.shape, at.thread)
                           IN /\ block.row = row
                              /\ p[2] % HalfN = p[1].by - start
                              /\ \A j \in 0 .. N - 1:
                                   ColumnOf(p[1], j) = query * N + EncodedColumn((p[2] % N) + start, j)
    BY DEF ProductByDiagonals, Rotations
  <2> USE DEF ProductInv, WalkInv
  <2> DEFINE D == {<<ct, IndexOf(ct, row)>> : ct \in Rotations}
  <2>1. result[row] = [p \in D |-> 1] BY DoneSums DEF Sum, SetToBag
  <2>2. Whole \/ IsMerge(at.shape) => \A ct \in Rotations: \A j \in 0 .. N - 1:
          ColumnOf(ct, j) = (ct.query * N) + EncodedColumn((IndexOf(ct, row) % N) + start, j)
    BY ProductColumns
  <2>3. ASSUME Whole \/ IsMerge(at.shape), NEW p \in DOMAIN result[row]
        PROVE  LET block == BlockOf(p[2])
                   query == block.query + IF Whole THEN 0 ELSE FirstQuery - QueryIdx(at.shape, at.thread)
               IN /\ block.row = row
                  /\ p[2] % HalfN = p[1].by - start
                  /\ \A j \in 0 .. N - 1:
                       ColumnOf(p[1], j) = query * N + EncodedColumn((p[2] % N) + start, j)
    <3>1. PICK ct \in Rotations: p = <<ct, IndexOf(ct, row)>> BY <2>1
    <3>3. p[1] = ct /\ p[2] = IndexOf(ct, row) BY <3>1
    <3>4. /\ BlockOf(p[2]).row = row
          /\ BlockOf(p[2]).query
               + (IF Whole THEN 0 ELSE FirstQuery - QueryIdx(at.shape, at.thread)) = p[1].query
      BY <2>3, <3>3, IndexSays
    <3>5. \A j \in 0 .. N - 1:
            ColumnOf(p[1], j) = (p[1].query * N) + EncodedColumn((p[2] % N) + start, j)
      BY <2>2, <2>3, <3>3
    <3>2. p[2] % HalfN = p[1].by - start BY <2>3, <3>3, DiagonalOf
    <3> DEFINE block == BlockOf(p[2])
               query == block.query
                          + (IF Whole THEN 0 ELSE FirstQuery - QueryIdx(at.shape, at.thread))
    <3>6. query = p[1].query /\ block.row = row BY <3>4
    <3> HIDE DEF query, block
    <3>7. \A j \in 0 .. N - 1: ColumnOf(p[1], j) = query * N + EncodedColumn((p[2] % N) + start, j)
      BY <3>5, <3>6
    <3> QED BY <3>2, <3>6, <3>7 DEF query, block
  <2>4. {p[1] : p \in DOMAIN result[row]} = Rotations
    <3>1. DOMAIN result[row] = D BY <2>1
    <3>2. ASSUME NEW p \in D PROVE p[1] \in Rotations OBVIOUS
    <3>3. ASSUME NEW ct \in Rotations PROVE <<ct, IndexOf(ct, row)>> \in D OBVIOUS
    <3> HIDE DEF D
    <3>4. ASSUME NEW ct \in Rotations PROVE \E p \in D: ct = p[1]
      <4>1. ct = <<ct, IndexOf(ct, row)>>[1] OBVIOUS
      <4> QED BY <3>3, <4>1
    <3> QED BY <3>1, <3>2, <3>4
  <2>5. \A p \in DOMAIN result[row]: result[row][p] = 1
    <3> HIDE DEF D
    <3> QED BY <2>1
  <2> QED BY <2>3, <2>4, <2>5
<1> QED BY <1>1, ProductInvariant, PTL
=============================================================================
