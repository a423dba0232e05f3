------------------------------ MODULE Modular ------------------------------
(***************************************************************************)
(* Arithmetic modulo m: the sequence numbers, counts and ticks of the      *)
(* components wrap, and the proofs about them need these facts.            *)
(***************************************************************************)
EXTENDS Integers, WellFoundedInduction, TLAPS

\* A remainder is less than its divisor.
LEMMA ModRange ==
  ASSUME NEW a \in Nat, NEW m \in Nat \ {0}
  PROVE  a % m \in 0..(m - 1)
OBVIOUS

\* Quotient and remainder.
LEMMA DivMod ==
  ASSUME NEW a \in Int, NEW m \in Nat \ {0}
  PROVE  a = m * (a \div m) + (a % m) /\ a % m \in 0..(m - 1) /\ a \div m \in Int
OBVIOUS

\* They are unique.
LEMMA DivModUnique ==
  ASSUME NEW m \in Nat \ {0}, NEW q \in Int, NEW p \in Int,
         NEW r \in 0..(m - 1), NEW s \in 0..(m - 1), m * q + r = m * p + s
  PROVE  q = p /\ r = s
<1>1. m * (q - p) = s - r
  OBVIOUS
<1>2. ASSUME NEW d \in Int, d >= 1
      PROVE  m * d >= m
  <2>1. d - 1 \in Nat
    BY <1>2
  <2>2. m * (d - 1) >= 0 /\ m * d = m * (d - 1) + m
    BY <2>1
  <2> QED BY <2>2
<1>3. CASE q - p >= 1
  <2>1. m * (q - p) >= m
    BY <1>2, <1>3
  <2> QED BY <2>1, <1>1
<1>4. CASE p - q >= 1
  <2>1. m * (p - q) >= m
    BY <1>2, <1>4
  <2>2. m * (p - q) = r - s
    BY <1>1
  <2> QED BY <2>1, <2>2
<1>5. CASE q = p
  BY <1>1, <1>5
<1> QED BY <1>3, <1>4, <1>5

\* Counting commutes with the remainder.
LEMMA ModSucc ==
  ASSUME NEW a \in Int, NEW m \in Nat \ {0}
  PROVE  (a + 1) % m = ((a % m) + 1) % m
<1> DEFINE r  == a % m
           q  == a \div m
           r2 == (a + 1) % m
           q2 == (a + 1) \div m
           r3 == (r + 1) % m
           q3 == q + ((r + 1) \div m)
<1>1. a = m * q + r /\ r \in 0..(m - 1) /\ q \in Int
  BY DivMod
<1>2. a + 1 = m * q2 + r2 /\ r2 \in 0..(m - 1) /\ q2 \in Int
  BY DivMod
<1>3. /\ r + 1 = m * ((r + 1) \div m) + r3
      /\ r3 \in 0..(m - 1) /\ (r + 1) \div m \in Int
  BY <1>1, DivMod
<1>4. m * q2 + r2 = m * q3 + r3
  BY <1>1, <1>2, <1>3
<1>5. q2 \in Int /\ q3 \in Int /\ r2 \in 0..(m - 1) /\ r3 \in 0..(m - 1)
  BY <1>1, <1>2, <1>3
<1> HIDE DEF r2, q2, r3, q3
<1>6. r2 = r3
  BY <1>4, <1>5, DivModUnique
<1> QED BY <1>6 DEF r2, r3

\* Two numbers less than m apart have different remainders.
LEMMA ModWindow ==
  ASSUME NEW a \in Int, NEW b \in Int, NEW m \in Nat \ {0}, a < b, b - a < m
  PROVE  a % m # b % m
<1> DEFINE q == b \div m
           p == a \div m
           r == b % m
           s == (a % m) + (b - a)
<1>1. a = m * p + (a % m) /\ a % m \in 0..(m - 1) /\ p \in Int
  BY DivMod
<1>2. b = m * q + r /\ r \in 0..(m - 1) /\ q \in Int
  BY DivMod
<1> SUFFICES ASSUME a % m = b % m
             PROVE  FALSE
  OBVIOUS
<1>3. m * (q - p) = b - a
  BY <1>1, <1>2
<1> DEFINE e == q - p
<1>4. e \in Int
  BY <1>1, <1>2
<1> HIDE DEF e
<1>5. m * e = b - a
  BY <1>3 DEF e
<1>6. CASE e >= 1
  <2>1. m * e = m * (e - 1) + m
    BY <1>4
  <2>2. m * (e - 1) >= 0
    BY <1>4, <1>6
  <2> DEFINE x == m * (e - 1)
             y == m * e
  <2>3. x \in Int /\ y \in Int
    BY <1>4
  <2> HIDE DEF x, y
  <2>4. y = x + m /\ x >= 0 /\ y = b - a
    BY <2>1, <2>2, <1>5 DEF x, y
  <2> QED BY <2>3, <2>4
<1>7. CASE e <= 0
  <2>1. m * e <= 0
    BY <1>4, <1>7
  <2> QED BY <2>1, <1>5
<1> QED BY <1>4, <1>6, <1>7

\* A number and its remainder, when it is less than one or two moduli.
LEMMA ModSmall ==
  ASSUME NEW m \in Nat \ {0}, NEW a \in 0..(m - 1)
  PROVE  a % m = a /\ (a + m) % m = a /\ (a - m) % m = a
<1>1. a = m * 0 + a /\ a + m = m * 1 + a /\ a - m = m * (-1) + a
  OBVIOUS
<1>2. /\ a = m * (a \div m) + (a % m)
      /\ a % m \in 0..(m - 1) /\ a \div m \in Int
  BY DivMod
<1>3. /\ a + m = m * ((a + m) \div m) + ((a + m) % m)
      /\ (a + m) % m \in 0..(m - 1) /\ (a + m) \div m \in Int
  BY DivMod, a + m \in Int
<1>4. /\ a - m = m * ((a - m) \div m) + ((a - m) % m)
      /\ (a - m) % m \in 0..(m - 1) /\ (a - m) \div m \in Int
  BY DivMod, a - m \in Int
<1> QED BY <1>1, <1>2, <1>3, <1>4, DivModUnique

\* A wrapped counter that counts.
LEMMA WrapNext ==
  ASSUME NEW m \in Nat \ {0}, NEW c \in 0..(m - 1)
  PROVE  (c + 1) % m = IF c + 1 = m THEN 0 ELSE c + 1
<1>1. CASE c + 1 = m
  BY <1>1, ModSmall, 0 \in 0..(m - 1), 0 + m = c + 1
<1>2. CASE c + 1 # m
  BY <1>2, ModSmall, c + 1 \in 0..(m - 1)
<1> QED BY <1>1, <1>2

\* What has passed between two values of a wrapped counter.
LEMMA WrapElapsed ==
  ASSUME NEW m \in Nat \ {0}, NEW c \in 0..(m - 1), NEW b \in 0..(m - 1)
  PROVE  (c - b) % m = IF c >= b THEN c - b ELSE c - b + m
<1>1. CASE c >= b
  BY <1>1, ModSmall, c - b \in 0..(m - 1)
<1>2. CASE c < b
  BY <1>2, ModSmall, c - b + m \in 0..(m - 1), (c - b + m) - m = c - b
<1> QED BY <1>1, <1>2

\* A multiple of the modulus makes no difference.
LEMMA ModPlusMultiple ==
  ASSUME NEW m \in Nat \ {0}, NEW a \in Int, NEW k \in Int
  PROVE  (a + m * k) % m = a % m
<1> DEFINE q == a \div m
           r == a % m
           b == a + m * k
           p == b \div m
           s == b % m
<1>1. a = m * q + r /\ r \in 0..(m - 1) /\ q \in Int
  BY DivMod
<1>2. b \in Int
  OBVIOUS
<1>3. b = m * p + s /\ s \in 0..(m - 1) /\ p \in Int
  <2> HIDE DEF b
  <2> QED BY <1>2, DivMod
<1>4. m * (q + k) = m * q + m * k /\ q + k \in Int
  BY <1>1
<1>5. m * p + s = m * (q + k) + r
  <2> HIDE DEF q, r, p, s
  <2> QED BY <1>1, <1>3, <1>4
<1> HIDE DEF q, r, p, s
<1>6. s = r
  BY <1>1, <1>3, <1>4, <1>5, DivModUnique
<1> QED BY <1>6 DEF r, s

\* A summand may be reduced first.
LEMMA ModAdd ==
  ASSUME NEW m \in Nat \ {0}, NEW a \in Int, NEW b \in Int
  PROVE  ((a % m) + b) % m = (a + b) % m
<1> DEFINE q == a \div m
           r == a % m
<1>1. a = m * q + r /\ r \in 0..(m - 1) /\ q \in Int
  BY DivMod
<1> HIDE DEF q, r
<1>2. a + b = (r + b) + m * q /\ r + b \in Int
  BY <1>1
<1>3. (a + b) % m = (r + b) % m
  BY <1>1, <1>2, ModPlusMultiple
<1> QED BY <1>3 DEF r

\* The difference of two reduced numbers, computed without going below zero.
LEMMA ModSub ==
  ASSUME NEW m \in Nat \ {0}, NEW a \in Int, NEW b \in Int
  PROVE  ((a % m) + m - (b % m)) % m = (a - b) % m
<1> DEFINE q == a \div m
           r == a % m
           p == b \div m
           s == b % m
<1>1. a = m * q + r /\ r \in 0..(m - 1) /\ q \in Int
  BY DivMod
<1>2. b = m * p + s /\ s \in 0..(m - 1) /\ p \in Int
  BY DivMod
<1> HIDE DEF q, r, p, s
<1> DEFINE k == (1 - q) + p
           d == a - b
<1>3. m * k = (m - m * q) + m * p /\ k \in Int
  BY <1>1, <1>2
<1>4. r + m - s = d + m * k /\ d \in Int
  BY <1>1, <1>2, <1>3
<1>5. (d + m * k) % m = d % m
  <2> HIDE DEF k, d
  <2> QED BY <1>3, <1>4, ModPlusMultiple
<1>6. (r + m - s) % m = (a - b) % m
  BY <1>4, <1>5
<1> QED BY <1>6 DEF r, s

\* A count that wraps at a multiple of m counts modulo m, too.
LEMMA ModMod ==
  ASSUME NEW m \in Nat \ {0}, NEW n \in Nat \ {0}, n % m = 0, NEW a \in Int
  PROVE  (a % n) % m = a % m
<1> DEFINE q == a \div n
           r == a % n
           k == n \div m
<1>1. a = n * q + r /\ r \in 0..(n - 1) /\ q \in Int
  BY DivMod
<1>2. n = m * k /\ k \in Int
  BY DivMod
<1> HIDE DEF q, r, k
<1>3. n * q = m * (k * q) /\ k * q \in Int
  BY <1>1, <1>2
<1>4. a = r + m * (k * q) /\ r \in Int
  BY <1>1, <1>3
<1>5. a % m = r % m
  BY <1>3, <1>4, ModPlusMultiple
<1> QED BY <1>5 DEF r

\* Quotients are ordered as what is divided.
LEMMA DivMono ==
  ASSUME NEW m \in Nat \ {0}, NEW a \in Int, NEW b \in Int, a <= b
  PROVE  a \div m <= b \div m
<1> DEFINE q == a \div m
           r == a % m
           p == b \div m
           s == b % m
<1>1. a = m * q + r /\ r \in 0..(m - 1) /\ q \in Int
  BY DivMod
<1>2. b = m * p + s /\ s \in 0..(m - 1) /\ p \in Int
  BY DivMod
<1> HIDE DEF q, r, p, s
<1> SUFFICES ASSUME q > p
             PROVE  FALSE
  BY <1>1, <1>2 DEF q, p
<1> DEFINE d == q - (p + 1)
           x == m * d
<1>3. d \in Nat
  BY <1>1, <1>2
<1>4. x >= 0 /\ x \in Int
  <2> HIDE DEF d
  <2> QED BY <1>3
<1>5. m * q = x + (m * p + m)
  BY <1>1, <1>2
<1> HIDE DEF x
<1> QED BY <1>1, <1>2, <1>4, <1>5

\* What is left of a multiple.
LEMMA DivMultiple ==
  ASSUME NEW m \in Nat \ {0}, NEW k \in Int
  PROVE  (m * k) \div m = k
<1> DEFINE a == m * k
           q == a \div m
           r == a % m
<1>1. a \in Int
  OBVIOUS
<1>2. a = m * q + r /\ r \in 0..(m - 1) /\ q \in Int
  <2> HIDE DEF a
  <2> QED BY <1>1, DivMod
<1>3. m * k + 0 = m * q + r
  BY <1>2
<1> HIDE DEF a, q, r
<1>4. k = q
  BY <1>2, <1>3, DivModUnique, 0 \in 0..(m - 1)
<1> QED BY <1>4 DEF a, q

\* Induction over the natural numbers, of a set that holds 0 and with every
\* number the next: otherwise a least number would be missing.
LEMMA Induct ==
  ASSUME NEW S, 0 \in S, \A n \in Nat : n \in S => n + 1 \in S
  PROVE  Nat \subseteq S
<1> DEFINE T == Nat \ S
           R == {ss \in Nat \X Nat : ss[1] < ss[2]}
<1> SUFFICES ASSUME T # {} PROVE FALSE
  OBVIOUS
<1>0. IsWellFoundedOn(R, Nat)
  BY NatLessThanWellFounded, Zenon DEF OpToRel
<1>1. PICK x \in T : \A y \in T : ~(<<y, x>> \in R)
  <2> HIDE DEF R
  <2> QED BY <1>0, WFMin
<1>2. x \in Nat /\ x # 0 /\ x - 1 \in Nat
  BY <1>1
<1>3. x - 1 \notin S
  BY <1>1, <1>2
<1>4. x - 1 \in T /\ x \in T /\ x - 1 < x
  BY <1>1, <1>2, <1>3
<1>5. <<x - 1, x>> \in R
  <2>1. <<x - 1, x>> \in Nat \X Nat
    BY <1>2
  <2> QED BY <2>1, <1>4
<1> QED BY <1>1, <1>4, <1>5

=============================================================================
