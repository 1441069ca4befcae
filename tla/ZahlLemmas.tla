------------------------------- MODULE ZahlLemmas -------------------------------
(* Arithmetic that the proofs about several modules need: least numbers,     *)
(* quotients, powers, running sums, digits and bits, and primes.             *)
EXTENDS Integers, FiniteSetsExt, WellFoundedInduction, FiniteSetTheorems, TLAPS

------------------------------------------------------------------------------
(* Division.                                                                 *)

\* A set of numbers that is not empty has a least element.
LEMMA LeastNumber ==
  ASSUME NEW Z \in SUBSET Nat, Z # {}
  PROVE  \E m \in Z : \A k \in Z : ~(k < m)
<1>1. PICK m \in Z : \A k \in Z : <<k, m>> \notin OpToRel(<, Nat)
  BY WFMin, NatLessThanWellFounded, Zenon
<1>2. \A k \in Z : ~(k < m)
  BY <1>1, Zenon DEF OpToRel
<1> QED BY <1>2

\* Induction, for sets of numbers.
LEMMA Inductive ==
  ASSUME NEW Z \in SUBSET Nat, 0 \in Z, \A k \in Nat : k \in Z => k + 1 \in Z
  PROVE  \A n \in Nat : n \in Z
<1> DEFINE Y == {n \in Nat : n \notin Z}
<1>1. SUFFICES ASSUME Y # {} PROVE FALSE
  OBVIOUS
<1>2. PICK n \in Y : \A k \in Y : ~(k < n)
  BY <1>1, LeastNumber
<1>3. n - 1 \in Nat /\ n - 1 < n /\ (n - 1) + 1 = n
  BY <1>2
<1>4. n - 1 \in Z
  BY <1>2, <1>3
<1> QED BY <1>2, <1>3, <1>4

LEMMA CompletelyInductive ==
  ASSUME NEW Z \in SUBSET Nat,
         \A n \in Nat : (\A k \in Nat : k < n => k \in Z) => n \in Z
  PROVE  \A n \in Nat : n \in Z
<1> DEFINE Y == {n \in Nat : n \notin Z}
<1>1. SUFFICES ASSUME Y # {} PROVE FALSE
  OBVIOUS
<1>2. PICK n \in Y : \A k \in Y : ~(k < n)
  BY <1>1, LeastNumber
<1> QED BY <1>2

LEMMA Quotient ==
  ASSUME NEW v \in Nat, NEW d \in Nat, d > 0
  PROVE  v \div d \in Nat /\ v % d \in Nat /\ v % d < d /\ v = d * (v \div d) + (v % d)
<1> DEFINE q == v \div d
           r == v % d
<1>1. q \in Int /\ r \in Int /\ 0 <= r /\ r < d /\ v = d * q + r
  OBVIOUS
<1> HIDE DEF q, r
<1>2. q >= 0
  <2>1. SUFFICES ASSUME q <= -1 PROVE FALSE
    BY <1>1
  <2>2. d * (-1 - q) >= 0
    BY <1>1, <2>1
  <2>3. d * (-1 - q) = -d - d * q
    BY <1>1
  <2> QED BY <1>1, <2>2, <2>3
<1>3. q \in Nat /\ r \in Nat /\ r < d /\ v = d * q + r
  BY <1>1, <1>2
<1> QED BY <1>3, Zenon DEF q, r

LEMMA QuotientUnique ==
  ASSUME NEW d \in Nat, d > 0, NEW q \in Nat, NEW r \in Nat, r < d,
         NEW p \in Nat, NEW s \in Nat, s < d, d * q + r = d * p + s
  PROVE  q = p /\ r = s
<1>1. CASE q > p
  <2>1. d * (q - p) >= d
    BY <1>1
  <2>2. d * (q - p) = d * q - d * p
    OBVIOUS
  <2> QED BY <2>1, <2>2
<1>2. CASE q < p
  <2>1. d * (p - q) >= d
    BY <1>2
  <2>2. d * (p - q) = d * p - d * q
    OBVIOUS
  <2> QED BY <2>1, <2>2
<1>3. CASE q = p
  BY <1>3
<1> QED BY <1>1, <1>2, <1>3

LEMMA QuotientIs ==
  ASSUME NEW d \in Nat, d > 0, NEW q \in Nat, NEW r \in Nat, r < d,
         NEW v \in Nat, v = d * q + r
  PROVE  v \div d = q /\ v % d = r
<1>1. d * q + r = d * (v \div d) + (v % d)
  BY Quotient
<1> QED BY <1>1, Quotient, QuotientUnique

LEMMA Quotients ==
  \A d, q, r, v \in Nat : d > 0 /\ r < d /\ v = d * q + r => v \div d = q /\ v % d = r
BY QuotientIs

\* What is reduced in a factor is reduced in the product.
LEMMA ReducedFactor ==
  ASSUME NEW d \in Nat, d > 0, NEW v \in Nat, NEW w \in Nat
  PROVE  (v * (w % d)) % d = (v * w) % d
<1> DEFINE q == w \div d
           r == w % d
<1>1. q \in Nat /\ r \in Nat /\ w = d * q + r
  BY Quotient
<1> HIDE DEF q, r
<1>2. v * r \in Nat /\ v * w \in Nat /\ v * q \in Nat
  BY <1>1
<1> DEFINE p == (v * r) \div d
           s == (v * r) % d
<1>3. p \in Nat /\ s \in Nat /\ s < d /\ v * r = d * p + s
  BY <1>2, Quotient
<1>4. v * w = d * (v * q + p) + s
  <2>1. v * w = v * (d * q) + v * r
    BY <1>1
  <2>2. v * (d * q) = d * (v * q)
    BY <1>1
  <2>3. d * (v * q + p) = d * (v * q) + d * p
    BY <1>2, <1>3
  <2> HIDE DEF p, s
  <2> QED BY <1>2, <1>3, <2>1, <2>2, <2>3
<1> HIDE DEF p, s
<1>5. v * q + p \in Nat
  BY <1>2, <1>3
<1>6. \A n, k \in Nat : n = d * k + s => n % d = s
  BY <1>3, QuotientIs
<1>7. (v * w) % d = s
  BY <1>2, <1>4, <1>5, <1>6, Zenon
<1> QED BY <1>7 DEF s, r

\* Quotients and remainders in a row.
LEMMA QuotientOfQuotient ==
  ASSUME NEW v \in Nat, NEW d \in Nat, d > 0, NEW e \in Nat, e > 0
  PROVE  (v \div d) \div e = v \div (d * e) /\ d * e \in Nat /\ d * e > 0
<1> DEFINE q == v \div d
           r == v % d
           p == q \div e
           s == q % e
<1>1. q \in Nat /\ r \in Nat /\ r < d /\ v = d * q + r
  BY Quotient
<1> HIDE DEF q, r
<1>2. p \in Nat /\ s \in Nat /\ s < e /\ q = e * p + s
  BY <1>1, Quotient
<1> HIDE DEF p, s
<1>3. d * e \in Nat /\ d * e > 0 /\ d * s \in Nat /\ d * s + r \in Nat
  BY <1>1, <1>2
<1>4. d * s + r < d * e
  <2>1. d * (e - 1 - s) >= 0
    BY <1>2
  <2>2. d * (e - 1 - s) = d * e - d - d * s
    BY <1>2
  <2> QED BY <1>1, <1>2, <1>3, <2>1, <2>2
<1>5. v = (d * e) * p + (d * s + r)
  <2>1. d * (e * p + s) = (d * e) * p + d * s
    BY <1>2
  <2> QED BY <1>1, <1>2, <2>1
<1>6. v \div (d * e) = p
  BY <1>2, <1>3, <1>4, <1>5, QuotientIs
<1> QED BY <1>3, <1>6 DEF p, q

LEMMA QuotientOfRemainder ==
  ASSUME NEW v \in Nat, NEW d \in Nat, d > 0, NEW e \in Nat, e > 0
  PROVE  (v % (d * e)) \div d = (v \div d) % e
<1> DEFINE q == v \div d
           r == v % d
           p == q \div e
           s == q % e
<1>1. q \in Nat /\ r \in Nat /\ r < d /\ v = d * q + r
  BY Quotient
<1> HIDE DEF q, r
<1>2. p \in Nat /\ s \in Nat /\ s < e /\ q = e * p + s
  BY <1>1, Quotient
<1> HIDE DEF p, s
<1>3. d * e \in Nat /\ d * e > 0 /\ d * s \in Nat /\ d * s + r \in Nat
  BY <1>1, <1>2
<1>4. d * s + r < d * e
  <2>1. d * (e - 1 - s) >= 0
    BY <1>2
  <2>2. d * (e - 1 - s) = d * e - d - d * s
    BY <1>2
  <2> QED BY <1>1, <1>2, <1>3, <2>1, <2>2
<1>5. v = (d * e) * p + (d * s + r)
  <2>1. d * (e * p + s) = (d * e) * p + d * s
    BY <1>2
  <2> QED BY <1>1, <1>2, <2>1
<1>6. v % (d * e) = d * s + r
  BY <1>2, <1>3, <1>4, <1>5, Quotients
<1>7. (d * s + r) \div d = s
  BY <1>1, <1>2, <1>3, QuotientIs
<1> QED BY <1>6, <1>7 DEF s, q

LEMMA RemainderOfRemainder ==
  ASSUME NEW v \in Nat, NEW d \in Nat, d > 0, NEW e \in Nat, e > 0
  PROVE  (v % (d * e)) % d = v % d
<1> DEFINE q == v \div (d * e)
           r == v % (d * e)
           p == r \div d
           s == r % d
<1>0. d * e \in Nat /\ d * e > 0
  BY QuotientOfQuotient
<1>1. q \in Nat /\ r \in Nat /\ v = (d * e) * q + r
  BY <1>0, Quotient
<1> HIDE DEF q, r
<1>2. p \in Nat /\ s \in Nat /\ s < d /\ r = d * p + s
  BY <1>1, Quotient
<1> HIDE DEF p, s
<1>3. e * q + p \in Nat /\ v = d * (e * q + p) + s
  <2>1. e * q \in Nat
    BY <1>1
  <2>2. d * (e * q + p) = d * (e * q) + d * p /\ d * (e * q) = (d * e) * q
    BY <1>1, <1>2, <2>1
  <2> QED BY <1>1, <1>2, <2>1, <2>2
<1>4. v % d = s
  <2>1. PICK k \in Nat : v = d * k + s
    BY <1>3
  <2> QED BY <1>2, <2>1, QuotientIs
<1> QED BY <1>4 DEF r, s

LEMMA QuotientMonotone ==
  ASSUME NEW v \in Nat, NEW d \in Nat, d > 0, NEW k \in Nat
  PROVE  v \div d < k <=> v < d * k
<1> DEFINE q == v \div d
           r == v % d
<1>1. q \in Nat /\ r \in Nat /\ r < d /\ v = d * q + r
  BY Quotient
<1> HIDE DEF q, r
<1>2. CASE q < k
  <2>1. d * (k - 1 - q) >= 0 /\ d * (k - 1 - q) = d * k - d - d * q
    BY <1>1, <1>2
  <2>2. d * k \in Nat /\ d * q \in Nat
    BY <1>1
  <2>3. v < d * k
    BY <1>1, <2>1, <2>2
  <2> QED BY <1>2, <2>3 DEF q
<1>3. CASE ~(q < k)
  <2>1. d * (q - k) >= 0 /\ d * (q - k) = d * q - d * k
    BY <1>1, <1>3
  <2>2. d * k \in Nat /\ d * q \in Nat
    BY <1>1
  <2>3. ~(v < d * k)
    BY <1>1, <2>1, <2>2
  <2> QED BY <1>3, <2>3 DEF q
<1> QED BY <1>2, <1>3

\* A part of the divisor, at most all of it, times m and divided, is at most m.
LEMMA QuotientOfPart ==
  ASSUME NEW d \in Nat, d > 0, NEW u \in Nat, u <= d, NEW m \in Nat
  PROVE  (u * m) \div d \in 0 .. m
<1>1. u * m \in Nat /\ d * m \in Nat /\ d * (m + 1) = d * m + d
  OBVIOUS
<1>2. (d - u) * m >= 0 /\ (d - u) * m = d * m - u * m
  OBVIOUS
<1>3. u * m < d * (m + 1)
  BY <1>1, <1>2
<1>4. PICK p \in Nat : p = u * m
  BY <1>1
<1>5. p \div d < m + 1 /\ p \div d \in Nat
  BY <1>3, <1>4, QuotientMonotone, Quotient, m + 1 \in Nat
<1> QED BY <1>4, <1>5

------------------------------------------------------------------------------
(* Powers.                                                                   *)

\* T has the powers of g up to the m-th, and the k-th power of g.
PowersOf(g, T, m) ==
  T \in [0 .. m -> Nat] /\ T[0] = 1 /\ \A k \in 1 .. m : T[k] = g * T[k - 1]
Raised(g, k) == (CHOOSE T : PowersOf(g, T, k))[k]

LEMMA PowersExistUpTo ==
  ASSUME NEW g \in Nat
  PROVE  \A m \in Nat : \E T : PowersOf(g, T, m)
<1> DEFINE Z == {m \in Nat : \E T : PowersOf(g, T, m)}
<1>1. 0 \in Z
  <2> DEFINE T == [k \in 0 .. 0 |-> 1]
  <2>1. PowersOf(g, T, 0)
    BY DEF PowersOf
  <2> QED BY <2>1
<1>2. ASSUME NEW m \in Nat, m \in Z
      PROVE  m + 1 \in Z
  <2>1. PICK T : PowersOf(g, T, m)
    BY <1>2
  <2> DEFINE V == [k \in 0 .. m + 1 |-> IF k = m + 1 THEN g * T[m] ELSE T[k]]
  <2>2. \A k \in 0 .. m : T[k] \in Nat
    BY <2>1 DEF PowersOf
  <2>3. g * T[m] \in Nat
    BY <2>2
  <2>4. \A k \in 0 .. m + 1 : k # m + 1 => k \in 0 .. m
    OBVIOUS
  <2>5. V \in [0 .. m + 1 -> Nat]
    BY <2>2, <2>3, <2>4
  <2>6. V[0] = 1
    BY <2>1 DEF PowersOf
  <2>7. ASSUME NEW k \in 1 .. m + 1
        PROVE  V[k] = g * V[k - 1]
    <3>1. k \in 0 .. m + 1 /\ k - 1 \in 0 .. m + 1 /\ k - 1 # m + 1
      OBVIOUS
    <3>2. V[k - 1] = T[k - 1]
      BY <3>1
    <3>3. CASE k = m + 1
      <4>1. k - 1 = m
        BY <3>3
      <4> QED BY <3>1, <3>2, <3>3, <4>1
    <3>4. CASE k # m + 1
      <4>1. k \in 1 .. m
        BY <3>4
      <4>2. T[k] = g * T[k - 1]
        BY <2>1, <4>1 DEF PowersOf
      <4> QED BY <3>1, <3>2, <3>4, <4>2
    <3> QED BY <3>3, <3>4
  <2> HIDE DEF V
  <2>8. PowersOf(g, V, m + 1)
    BY <2>5, <2>6, <2>7 DEF PowersOf
  <2> QED BY <2>8
<1> HIDE DEF Z
<1>3. Z \in SUBSET Nat
  BY DEF Z
<1>4. \A m \in Nat : m \in Z
  BY <1>1, <1>2, <1>3, Inductive
<1> QED BY <1>4 DEF Z

LEMMA PowersCoincide ==
  ASSUME NEW g \in Nat, NEW m \in Nat, NEW l \in Nat, m <= l,
         NEW T, PowersOf(g, T, m), NEW V, PowersOf(g, V, l)
  PROVE  \A k \in 0 .. m : T[k] = V[k]
<1> DEFINE Z == {k \in Nat : k <= m => T[k] = V[k]}
<1>1. 0 \in Z
  BY DEF PowersOf
<1>2. ASSUME NEW k \in Nat, k \in Z
      PROVE  k + 1 \in Z
  <2>1. SUFFICES ASSUME k + 1 <= m PROVE T[k + 1] = V[k + 1]
    OBVIOUS
  <2>2. k + 1 \in 1 .. m /\ k + 1 \in 1 .. l /\ (k + 1) - 1 = k /\ k <= m
    BY <2>1
  <2>3. T[k + 1] = g * T[k] /\ V[k + 1] = g * V[k]
    BY <2>2 DEF PowersOf
  <2> QED BY <1>2, <2>2, <2>3
<1>3. \A k \in Nat : k \in Z
  <2>1. Z \in SUBSET Nat
    OBVIOUS
  <2> HIDE DEF Z
  <2> QED BY <1>1, <1>2, <2>1, Inductive
<1> QED BY <1>3

LEMMA RaisedSteps ==
  ASSUME NEW g \in Nat
  PROVE  /\ Raised(g, 0) = 1
         /\ \A k \in Nat : Raised(g, k) \in Nat /\ Raised(g, k + 1) = g * Raised(g, k)
<1> DEFINE F(k) == CHOOSE T : PowersOf(g, T, k)
<1>1. \A k \in Nat : PowersOf(g, F(k), k)
  BY PowersExistUpTo
<1>2. \A k : Raised(g, k) = F(k)[k]
  BY DEF Raised
<1> HIDE DEF F
<1>3. F(0)[0] = 1
  BY <1>1 DEF PowersOf
<1>4. ASSUME NEW k \in Nat
      PROVE  F(k)[k] \in Nat /\ F(k + 1)[k + 1] = g * F(k)[k]
  <2>1. k \in 0 .. k /\ k + 1 \in 1 .. k + 1 /\ (k + 1) - 1 = k /\ k <= k + 1 /\ k + 1 \in Nat
    OBVIOUS
  <2>2. F(k)[k] \in Nat
    BY <1>1, <2>1 DEF PowersOf
  <2>3. F(k + 1)[k + 1] = g * F(k + 1)[k]
    BY <1>1, <2>1 DEF PowersOf
  <2>4. F(k)[k] = F(k + 1)[k]
    BY <1>1, <2>1, PowersCoincide
  <2> QED BY <2>2, <2>3, <2>4
<1> QED BY <1>2, <1>3, <1>4

\* A row of powers, as the modules have it, has these powers.
LEMMA PowersAreRaised ==
  ASSUME NEW g \in Nat, NEW m \in Nat, NEW T, PowersOf(g, T, m)
  PROVE  \A k \in 0 .. m : T[k] = Raised(g, k)
<1> DEFINE F(k) == CHOOSE V : PowersOf(g, V, k)
<1>1. \A k \in Nat : PowersOf(g, F(k), k)
  BY PowersExistUpTo
<1>2. \A k : Raised(g, k) = F(k)[k]
  BY DEF Raised
<1> HIDE DEF F
<1>3. ASSUME NEW k \in 0 .. m
      PROVE  F(k)[k] = T[k]
  <2>1. k \in Nat /\ k <= m /\ k \in 0 .. k
    OBVIOUS
  <2> QED BY <1>1, <2>1, PowersCoincide
<1> QED BY <1>2, <1>3

LEMMA RaisedPositive ==
  ASSUME NEW g \in Nat, g > 0
  PROVE  \A k \in Nat : Raised(g, k) \in Nat /\ Raised(g, k) > 0
<1> DEFINE Z == {k \in Nat : Raised(g, k) > 0}
<1>1. 0 \in Z
  BY RaisedSteps
<1>2. ASSUME NEW k \in Nat, k \in Z PROVE k + 1 \in Z
  <2>1. Raised(g, k) \in Nat /\ Raised(g, k) > 0 /\ Raised(g, k + 1) = g * Raised(g, k)
    BY <1>2, RaisedSteps
  <2>2. \A v, w \in Nat : v > 0 /\ w > 0 => v * w > 0
    OBVIOUS
  <2> QED BY <2>1, <2>2
<1>3. \A k \in Nat : k \in Z
  <2>1. Z \in SUBSET Nat
    OBVIOUS
  <2> HIDE DEF Z
  <2> QED BY <1>1, <1>2, <2>1, Inductive
<1> QED BY <1>3, RaisedSteps

LEMMA RaisedSum ==
  ASSUME NEW g \in Nat, NEW j \in Nat
  PROVE  \A k \in Nat : Raised(g, j + k) = Raised(g, j) * Raised(g, k)
<1> DEFINE Z == {k \in Nat : Raised(g, j + k) = Raised(g, j) * Raised(g, k)}
<1>0. \A k \in Nat : Raised(g, k) \in Nat /\ Raised(g, k + 1) = g * Raised(g, k)
  BY RaisedSteps
<1>1. 0 \in Z
  <2>1. j + 0 = j /\ Raised(g, 0) = 1 /\ Raised(g, j) \in Nat
    BY RaisedSteps
  <2> QED BY <2>1
<1>2. ASSUME NEW k \in Nat, k \in Z PROVE k + 1 \in Z
  <2>1. j + (k + 1) = (j + k) + 1 /\ j + k \in Nat
    OBVIOUS
  <2>2. Raised(g, j + (k + 1)) = g * (Raised(g, j) * Raised(g, k))
    BY <1>0, <1>2, <2>1
  <2>3. \A v, w \in Nat : g * (v * w) = v * (g * w)
    OBVIOUS
  <2> QED BY <1>0, <2>2, <2>3
<1>3. \A k \in Nat : k \in Z
  <2>1. Z \in SUBSET Nat
    OBVIOUS
  <2> HIDE DEF Z
  <2> QED BY <1>1, <1>2, <2>1, Inductive
<1> QED BY <1>3

LEMMA RaisedMonotone ==
  ASSUME NEW g \in Nat, g > 0, NEW j \in Nat, NEW k \in Nat, j <= k
  PROVE  /\ Raised(g, j) <= Raised(g, k)
         /\ g > 1 /\ j < k => Raised(g, j) < Raised(g, k)
<1>1. PICK d \in Nat : k = j + d
  BY k - j \in Nat, k = j + (k - j)
<1>2. Raised(g, k) = Raised(g, j) * Raised(g, d)
  BY <1>1, RaisedSum
<1>3. Raised(g, j) \in Nat /\ Raised(g, j) > 0 /\ Raised(g, d) \in Nat /\ Raised(g, d) > 0
  BY RaisedPositive
<1>4. g > 1 /\ j < k => Raised(g, d) > 1
  <2>1. SUFFICES ASSUME g > 1, j < k PROVE Raised(g, d) > 1
    OBVIOUS
  <2>2. PICK e \in Nat : d = e + 1
    BY <1>1, <2>1, d - 1 \in Nat, d = (d - 1) + 1
  <2>3. Raised(g, d) = g * Raised(g, e) /\ Raised(g, e) \in Nat /\ Raised(g, e) > 0
    BY <2>2, RaisedSteps, RaisedPositive
  <2>4. \A v, w \in Nat : v > 1 /\ w > 0 => v * w > 1
    OBVIOUS
  <2> QED BY <2>1, <2>3, <2>4
<1>5. \A v, w \in Nat : v > 0 /\ w > 0 => v <= v * w
  OBVIOUS
<1>6. \A v, w \in Nat : v > 0 /\ w > 1 => v < v * w
  OBVIOUS
<1> QED BY <1>2, <1>3, <1>4, <1>5, <1>6

\* A number lies between two powers in one place only.
LEMMA RaisedPlace ==
  ASSUME NEW g \in Nat, g > 1, NEW v \in Nat, NEW j \in Nat, NEW k \in Nat,
         Raised(g, j) <= v, v < Raised(g, k)
  PROVE  j < k
<1>1. SUFFICES ASSUME k <= j PROVE FALSE
  OBVIOUS
<1>2. Raised(g, k) <= Raised(g, j)
  BY <1>1, RaisedMonotone
<1>3. Raised(g, k) \in Nat /\ Raised(g, j) \in Nat
  BY RaisedSteps
<1> QED BY <1>2, <1>3

------------------------------------------------------------------------------
(* Least and greatest.                                                       *)

LEMMA MinIs ==
  ASSUME NEW S \in SUBSET Nat, S # {}
  PROVE  Min(S) \in S /\ \A k \in S : Min(S) <= k
<1>1. PICK m \in S : \A k \in S : ~(k < m)
  BY LeastNumber
<1>2. \A k \in S : m <= k
  <2>1. \A k \in S : k \in Nat /\ m \in Nat
    OBVIOUS
  <2> QED BY <1>1, <2>1
<1> DEFINE Least(x) == x \in S /\ \A k \in S : x =< k
<1>3. Least(m)
  BY <1>2
<1>4. Least(CHOOSE x : Least(x))
  <2> HIDE DEF Least
  <2> QED BY <1>3, Zenon
<1>5. Min(S) = CHOOSE x : Least(x)
  BY DEF Min
<1> QED BY <1>4, <1>5

LEMMA MaxIs ==
  ASSUME NEW n \in Nat, NEW S \in SUBSET (0 .. n), S # {}
  PROVE  Max(S) \in S /\ \A k \in S : k <= Max(S)
<1> DEFINE Z == {k \in Nat : n - k \in S}
<1>1. Z # {}
  <2>1. PICK x \in S : TRUE
    OBVIOUS
  <2>2. x \in 0 .. n /\ n - x \in Nat /\ n - (n - x) = x
    OBVIOUS
  <2>3. n - x \in Z
    BY <2>2
  <2> QED BY <2>3
<1>2. PICK z \in Z : \A k \in Z : ~(k < z)
  <2>1. Z \in SUBSET Nat
    OBVIOUS
  <2> HIDE DEF Z
  <2> QED BY <1>1, <2>1, LeastNumber
<1>3. PICK m \in S : m = n - z
  BY <1>2
<1>4. \A k \in S : k <= m
  <2> SUFFICES ASSUME NEW k \in S PROVE k <= m
    OBVIOUS
  <2>1. k \in 0 .. n /\ m \in 0 .. n /\ z \in Nat
    BY <1>2
  <2>2. n - k \in Nat /\ n - (n - k) = k
    BY <2>1
  <2>3. n - k \in Z
    BY <2>2
  <2>4. ~(n - k < z)
    BY <1>2, <2>3
  <2> QED BY <1>3, <2>1, <2>2, <2>4
<1> DEFINE Most(x) == x \in S /\ \A k \in S : x >= k
<1>5. Most(m)
  BY <1>4
<1>6. Most(CHOOSE x : Most(x))
  <2> HIDE DEF Most
  <2> QED BY <1>5, Zenon
<1>7. Max(S) = CHOOSE x : Most(x)
  BY DEF Max
<1>8. \A k \in S : k \in Int
  OBVIOUS
<1> QED BY <1>6, <1>7, <1>8

------------------------------------------------------------------------------
(* Running sums and carries, as loops make them.                             *)

\* The sums of the first k of N values w, for every k.
LEMMA RunningSums ==
  ASSUME NEW N \in Nat, NEW w
  PROVE  \E f : f = [k \in 0 .. N |-> IF k = 0 THEN 0 ELSE f[k - 1] + w[k - 1]]
<1> DEFINE Upto(f, m) == f = [k \in 0 .. m |-> IF k = 0 THEN 0 ELSE f[k - 1] + w[k - 1]]
           Z == {m \in Nat : \E f : Upto(f, m)}
<1>1. 0 \in Z
  <2> DEFINE f == [k \in 0 .. 0 |-> 0]
  <2>1. Upto(f, 0)
    OBVIOUS
  <2> QED BY <2>1
<1>2. ASSUME NEW m \in Nat, m \in Z PROVE m + 1 \in Z
  <2>1. PICK f : Upto(f, m)
    BY <1>2
  <2> DEFINE g == [k \in 0 .. m + 1 |-> IF k = 0 THEN 0 ELSE IF k = m + 1 THEN f[m] + w[m] ELSE f[k]]
  <2>2. \A k \in 0 .. m : g[k] = f[k]
    BY <2>1
  <2>3. ASSUME NEW k \in 0 .. m + 1, k # 0 PROVE g[k] = g[k - 1] + w[k - 1]
    <3>1. CASE k = m + 1
      <4>1. g[m] = f[m] /\ (m + 1) - 1 = m /\ m \in 0 .. m
        BY <2>2
      <4>2. g[k] = f[m] + w[m]
        BY <3>1
      <4> QED BY <3>1, <4>1, <4>2
    <3>2. CASE k # m + 1
      <4>1. k \in 0 .. m /\ k - 1 \in 0 .. m
        BY <2>3, <3>2
      <4>2. f[k] = f[k - 1] + w[k - 1]
        BY <2>1, <2>3, <4>1
      <4>3. g[k] = f[k] /\ g[k - 1] = f[k - 1]
        BY <2>2, <4>1
      <4> QED BY <4>2, <4>3
    <3> QED BY <3>1, <3>2
  <2>4. Upto(g, m + 1)
    <3>1. g[0] = 0
      OBVIOUS
    <3>2. g = [k \in 0 .. m + 1 |-> g[k]]
      OBVIOUS
    <3> HIDE DEF g
    <3> QED BY <2>3, <3>1, <3>2
  <2> HIDE DEF g
  <2> QED BY <2>4
<1>3. Z \in SUBSET Nat
  OBVIOUS
<1>4. N \in Z
  <2> HIDE DEF Z
  <2> QED BY <1>1, <1>2, <1>3, Inductive
<1> QED BY <1>4

\* The carries of N turns that begin with none: out[k][c] is what turn k makes
\* of the carry c.
TurnsCarry(out, N) == \A k \in 0 .. N - 1, c \in {0, 1} : out[k][c] \in {0, 1}
CarryRow(f, out, N) ==
  /\ f \in [0 .. N -> {0, 1}]
  /\ f = [k \in 0 .. N |-> IF k = 0 THEN 0 ELSE out[k - 1][f[k - 1]]]

LEMMA RunningCarries ==
  ASSUME NEW N \in Nat, NEW out, TurnsCarry(out, N)
  PROVE  \E f : CarryRow(f, out, N)
<1> DEFINE Upto(f, m) ==
             /\ f \in [0 .. m -> {0, 1}]
             /\ f = [k \in 0 .. m |-> IF k = 0 THEN 0 ELSE out[k - 1][f[k - 1]]]
           Z == {m \in Nat : m <= N => \E f : Upto(f, m)}
<1>1. 0 \in Z
  <2> DEFINE f == [k \in 0 .. 0 |-> 0]
  <2>1. Upto(f, 0)
    OBVIOUS
  <2> QED BY <2>1
<1>2. ASSUME NEW m \in Nat, m \in Z PROVE m + 1 \in Z
  <2> SUFFICES ASSUME m + 1 <= N PROVE \E f : Upto(f, m + 1)
    OBVIOUS
  <2>1. PICK f : Upto(f, m)
    BY <1>2
  <2>2. f[m] \in {0, 1} /\ m \in 0 .. N - 1
    BY <2>1
  <2>3. out[m][f[m]] \in {0, 1}
    BY <2>2 DEF TurnsCarry
  <2> DEFINE g == [k \in 0 .. m + 1 |-> IF k = 0 THEN 0 ELSE IF k = m + 1 THEN out[m][f[m]] ELSE f[k]]
  <2>4. \A k \in 0 .. m : g[k] = f[k]
    BY <2>1
  <2>5. ASSUME NEW k \in 0 .. m + 1, k # 0 PROVE g[k] = out[k - 1][g[k - 1]]
    <3>1. CASE k = m + 1
      <4>1. g[m] = f[m] /\ (m + 1) - 1 = m /\ m \in 0 .. m
        BY <2>4
      <4>2. g[k] = out[m][f[m]]
        BY <3>1
      <4> QED BY <3>1, <4>1, <4>2
    <3>2. CASE k # m + 1
      <4>1. k \in 0 .. m /\ k - 1 \in 0 .. m
        BY <2>5, <3>2
      <4>2. f[k] = out[k - 1][f[k - 1]]
        BY <2>1, <2>5, <4>1
      <4>3. g[k] = f[k] /\ g[k - 1] = f[k - 1]
        BY <2>4, <4>1
      <4> QED BY <4>2, <4>3
    <3> QED BY <3>1, <3>2
  <2>6. g \in [0 .. m + 1 -> {0, 1}]
    <3>1. ASSUME NEW k \in 0 .. m + 1 PROVE g[k] \in {0, 1}
      <4>1. k # 0 /\ k # m + 1 => f[k] \in {0, 1}
        BY <2>1
      <4> QED BY <2>3, <4>1
    <3> QED BY <3>1
  <2>7. Upto(g, m + 1)
    <3>1. g[0] = 0
      OBVIOUS
    <3>2. g = [k \in 0 .. m + 1 |-> g[k]]
      OBVIOUS
    <3> HIDE DEF g
    <3> QED BY <2>5, <2>6, <3>1, <3>2
  <2> HIDE DEF g
  <2> QED BY <2>7
<1>3. Z \in SUBSET Nat
  OBVIOUS
<1>4. N \in Z
  <2> HIDE DEF Z
  <2> QED BY <1>1, <1>2, <1>3, Inductive
<1> QED BY <1>4 DEF CarryRow

------------------------------------------------------------------------------
(* Digits of numbers in a base, and bits.                                    *)

\* A digit more.
LEMMA DigitMore ==
  ASSUME NEW l \in Nat, NEW p \in Nat, NEW b \in Nat, NEW x \in Nat, l < p, x < b
  PROVE  l + x * p \in Nat /\ l + x * p < b * p /\ x * p <= l + x * p /\ x * p \in Nat
<1>1. x * p \in Nat /\ b * p \in Nat
  OBVIOUS
<1>2. (b - 1 - x) * p >= 0 /\ (b - 1 - x) * p = b * p - p - x * p
  OBVIOUS
<1> QED BY <1>1, <1>2

\* A digit more, that is a value more.
LEMMA CarryStep ==
  \A l, m, s, x, y, z, c, d, p, b \in Int :
    l + m = s + c * p /\ x + y + c = z + b * d
      => (l + x * p) + (m + y * p) = (s + z * p) + d * (b * p)
<1> SUFFICES ASSUME NEW l \in Int, NEW m \in Int, NEW s \in Int, NEW x \in Int, NEW y \in Int,
                    NEW z \in Int, NEW c \in Int, NEW d \in Int, NEW p \in Int, NEW b \in Int,
                    l + m = s + c * p, x + y + c = z + b * d
             PROVE  (l + x * p) + (m + y * p) = (s + z * p) + d * (b * p)
  OBVIOUS
<1>1. (x + y + c) * p = (z + b * d) * p
  OBVIOUS
<1>2. (x + y + c) * p = x * p + y * p + c * p
  OBVIOUS
<1>3. (z + b * d) * p = z * p + d * (b * p)
  OBVIOUS
<1> QED BY <1>1, <1>2, <1>3

LEMMA Divisions ==
  \A v, d, e \in Nat : d > 0 /\ e > 0 =>
    /\ (v % (d * e)) \div d = (v \div d) % e /\ (v % (d * e)) % d = v % d
    /\ (v \div d) \div e = v \div (d * e) /\ v \div d \in Nat /\ v % d \in Nat
<1> SUFFICES ASSUME NEW v \in Nat, NEW d \in Nat, NEW e \in Nat, d > 0, e > 0
             PROVE  /\ (v % (d * e)) \div d = (v \div d) % e /\ (v % (d * e)) % d = v % d
                    /\ (v \div d) \div e = v \div (d * e) /\ v \div d \in Nat /\ v % d \in Nat
  OBVIOUS
<1>1. (v % (d * e)) \div d = (v \div d) % e
  BY QuotientOfRemainder
<1>2. (v % (d * e)) % d = v % d
  BY RemainderOfRemainder
<1>3. (v \div d) \div e = v \div (d * e)
  BY QuotientOfQuotient
<1> QED BY <1>1, <1>2, <1>3, Quotient

\* Remainders that are no remainders.
LEMMA SmallRemainder ==
  \A v, d \in Nat : d > 0 /\ v < d => v % d = v
<1>1. ASSUME NEW v \in Nat, NEW d \in Nat, d > 0, v < d PROVE v % d = v
  <2>1. v = d * 0 + v /\ 0 \in Nat
    OBVIOUS
  <2> QED BY ONLY <1>1, <2>1, v \in Nat, d \in Nat, QuotientIs
<1> QED BY <1>1

\* Bits of a higher character are higher.
LEMMA BitOrder ==
  \A b, k, l, x, y \in Nat : k < l /\ x < b => b * k + x < b * l + y
<1> SUFFICES ASSUME NEW b \in Nat, NEW k \in Nat, NEW l \in Nat, NEW x \in Nat, NEW y \in Nat,
                    k < l, x < b
             PROVE  b * k + x < b * l + y
  OBVIOUS
<1>1. PICK d \in Nat : l = k + 1 + d
  BY l - k - 1 \in Nat, l = k + 1 + (l - k - 1)
<1>2. b * l = b * k + b + b * d /\ b * k \in Nat /\ b * d \in Nat
  BY <1>1
<1> QED BY <1>2

LEMMA BitSpan ==
  \A b, k, n, j \in Nat : j < b => b * k + j \in Nat /\ b * n \in Nat /\ (b * k + j < b * n <=> k < n)
<1> SUFFICES ASSUME NEW b \in Nat, NEW k \in Nat, NEW n \in Nat, NEW j \in Nat, j < b
             PROVE  b * k + j \in Nat /\ b * n \in Nat /\ (b * k + j < b * n <=> k < n)
  OBVIOUS
<1>1. b * k \in Nat /\ b * n \in Nat
  OBVIOUS
<1>2. CASE k < n
  <2>1. b * k + j < b * n + 0
    BY <1>2, BitOrder
  <2> QED BY <1>1, <1>2, <2>1
<1>3. CASE ~(k < n)
  <2>1. PICK d \in Nat : k = n + d
    BY <1>3, k - n \in Nat, k = n + (k - n)
  <2>2. b * k = b * n + b * d /\ b * d \in Nat
    BY <2>1
  <2> QED BY <1>1, <1>3, <2>2
<1> QED BY <1>2, <1>3

\* The remainder after division by a power of b: a number with nothing below the
\* j-th digit, v there and w above.
LEMMA LowestOneOf ==
  ASSUME NEW b \in Nat, b >= 2, NEW v \in Nat, v # 0, v < b, NEW w \in Nat, NEW j \in Nat,
         NEW a \in Nat, a = v * Raised(b, j) + Raised(b, j + 1) * w, NEW i \in Nat
  PROVE  a % Raised(b, i + 1) = Raised(b, i) <=> i = j /\ v = 1
<1>2. PICK p \in Nat : p = Raised(b, j) /\ p > 0 /\ Raised(b, j + 1) = b * p
  BY RaisedSteps, RaisedPositive
<1>3. v * p \in Nat /\ v * p > 0 /\ v * p < b * p /\ b * p \in Nat /\ b * p > 0
  <2>1. (v - 1) * p >= 0 /\ (v - 1) * p = v * p - p
    OBVIOUS
  <2>2. (b - v) * p > 0 /\ (b - v) * p = b * p - v * p
    BY <1>2
  <2> QED BY <1>2, <2>1, <2>2
<1>4. PICK d \in Nat, r \in Nat : d = b * p /\ r = v * p /\ d > 0 /\ r > 0 /\ r < d
  BY <1>3
<1>5. a = d * w + r
  BY <1>2, <1>4
<1>6. a % d = r
  BY <1>4, <1>5, Quotients
<1>7. CASE i = j
  <2>1. Raised(b, i + 1) = d /\ Raised(b, i) = p
    BY <1>2, <1>4, <1>7
  <2>2. r = p <=> v = 1
    <3>1. ASSUME r = p PROVE v = 1
      <4>1. (v - 1) * p = 0
        BY <1>4, <3>1
      <4>2. \A y \in Int : y * p = 0 => y = 0
        BY <1>2
      <4> QED BY <4>1, <4>2
    <3>2. ASSUME v = 1 PROVE r = p
      BY <1>4, <3>2
    <3> QED BY <3>1, <3>2
  <2> QED BY <1>6, <1>7, <2>1, <2>2
<1>8. CASE i < j
  <2>1. PICK e \in Nat : j = (i + 1) + e
    BY <1>8, j - (i + 1) \in Nat, j = (i + 1) + (j - (i + 1))
  <2>2. PICK q \in Nat, t \in Nat : q = Raised(b, i + 1) /\ t = Raised(b, e) /\ p = q * t /\ q > 0
    <3>1. PICK k \in Nat : k = i + 1
      OBVIOUS
    <3>2. Raised(b, k + e) = Raised(b, k) * Raised(b, e)
      BY RaisedSum
    <3>3. Raised(b, k) > 0 /\ Raised(b, k) \in Nat /\ Raised(b, e) \in Nat
      BY b > 0, RaisedPositive
    <3> QED BY <1>2, <2>1, <3>1, <3>2, <3>3
  <2>3. PICK y \in Nat : y = t * (v + b * w)
    BY <2>2
  <2>4. a = q * y + 0
    <3>1. a = v * p + (b * p) * w
      BY <1>2
    <3>2. v * p + (b * p) * w = p * (v + b * w)
      OBVIOUS
    <3>3. p * (v + b * w) = q * (t * (v + b * w))
      BY <2>2
    <3> QED BY <2>3, <3>1, <3>2, <3>3
  <2>5. a % q = 0
    BY <2>2, <2>4, Quotients
  <2>6. Raised(b, i) \in Nat /\ Raised(b, i) > 0
    BY b > 0, RaisedPositive
  <2> QED BY <1>8, <2>2, <2>5, <2>6
<1>9. CASE i > j
  <2>1. PICK e \in Nat : i = (j + 1) + e
    BY <1>9, i - (j + 1) \in Nat, i = (j + 1) + (i - (j + 1))
  <2>2. PICK t \in Nat : t = Raised(b, e) /\ t > 0
    BY RaisedSteps, RaisedPositive
  <2>3. Raised(b, i) = d * t
    BY <1>2, <1>4, <2>1, <2>2, RaisedSum, RaisedPositive
  <2>4. PICK m \in Nat : m = b * t /\ m > 0
    BY <2>2
  <2>5. Raised(b, i + 1) = d * m
    <3>1. Raised(b, i + 1) = b * Raised(b, i)
      BY RaisedSteps, RaisedPositive
    <3>2. b * (d * t) = d * (b * t)
      OBVIOUS
    <3> QED BY <2>3, <2>4, <3>1, <3>2
  <2>6. (a % (d * m)) % d = a % d
    <3>1. a \in Nat /\ d \in Nat /\ m \in Nat /\ d > 0 /\ m > 0
      BY <1>4, <2>4
    <3> QED BY ONLY <3>1, RemainderOfRemainder
  <2>7. (d * t) % d = 0
    <3>1. d * t \in Nat /\ d * t = d * t + 0
      OBVIOUS
    <3> QED BY <1>4, <3>1, Quotients
  <2>8. a % Raised(b, i + 1) # Raised(b, i)
    BY <1>4, <1>6, <2>3, <2>5, <2>6, <2>7
  <2> QED BY <1>9, <2>8
<1> QED BY <1>7, <1>8, <1>9

\* What goes up by p is the rest of the character and the carry.
Moved(x, p, q, c, b) == x * p + c = (((x * p) % b) + c) + b * (x \div q)

LEMMA MovedUp ==
  ASSUME NEW b \in Nat, NEW x \in Nat, x < b, NEW p \in Nat, NEW q \in Nat, p > 0, q > 0, q * p = b,
         NEW c \in Nat, c < p
  PROVE  /\ x \div q \in Nat /\ x \div q < p
         /\ ((x * p) % b) + c \in 0 .. b - 1
         /\ Moved(x, p, q, c, b)
<1>1. x \in Nat /\ x < q * p
  OBVIOUS
<1>2. PICK h \in Nat, l \in Nat : h = x \div q /\ l = x % q /\ l < q /\ x = q * h + l
  BY <1>1, Quotient
<1>3. h < p
  BY <1>1, <1>2, QuotientMonotone
<1>4. b > 0 /\ b = q * p
  OBVIOUS
<1>5. PICK m \in Nat : m = l * p
  BY <1>2
<1>6. x * p = b * h + m
  <2>1. (q * h + l) * p = (q * p) * h + l * p
    BY <1>2
  <2> QED BY <1>2, <1>4, <1>5, <2>1
<1>7. m + p <= b
  <2>1. PICK d \in Nat : q = l + 1 + d
    <3>1. q - l - 1 \in Nat
      BY <1>2
    <3> QED BY <1>2, <3>1
  <2>2. q * p = l * p + p + d * p /\ d * p \in Nat
    <3>1. q * p = (l + 1 + d) * p
      BY <2>1
    <3>2. (l + 1 + d) * p = l * p + p + d * p /\ d * p \in Nat
      OBVIOUS
    <3> QED BY <3>1, <3>2
  <2> QED BY <1>4, <1>5, <2>2
<1>8. PICK v \in Nat : v = x * p
  BY <1>1
<1>9. v % b = m
  <2>1. m < b /\ v = b * h + m
    BY <1>6, <1>7, <1>8
  <2> QED BY ONLY <1>4, <2>1, b \in Nat, h \in Nat, m \in Nat, v \in Nat, QuotientIs
<1>10. m + c \in 0 .. b - 1
  <2>1. m + c \in Nat /\ m + c < b
    BY <1>7
  <2> QED BY <1>4, <2>1
<1>11. Moved(x, p, q, c, b)
  BY <1>2, <1>4, <1>6, <1>8, <1>9 DEF Moved
<1> QED BY <1>2, <1>3, <1>4, <1>8, <1>9, <1>10, <1>11

\* What is left of a character below, when bits come down from the one above.
Dropped(x, y, p, q, b) ==
  p * ((x \div p) + ((y * q) % b)) + (x % p) = x + b * (y % p)

LEMMA DroppedDown ==
  ASSUME NEW b \in Nat, NEW x \in Nat, x < b, NEW y \in Nat, y < b,
         NEW p \in Nat, NEW q \in Nat, p > 0, q > 0, p * q = b
  PROVE  /\ (x \div p) + ((y * q) % b) \in 0 .. b - 1
         /\ Dropped(x, y, p, q, b)
<1>1. b > 0 /\ b = p * q
  OBVIOUS
<1>2. x \in Nat /\ x < p * q /\ y \in Nat /\ y < p * q
  OBVIOUS
<1>3. PICK h \in Nat, l \in Nat : h = x \div p /\ l = x % p /\ l < p /\ x = p * h + l
  BY <1>2, Quotient
<1>4. h < q
  BY <1>2, <1>3, QuotientMonotone
<1>5. PICK g \in Nat, m \in Nat : g = y \div p /\ m = y % p /\ m < p /\ y = p * g + m
  BY <1>2, Quotient
<1>6. PICK v \in Nat, w \in Nat : v = m * q /\ w = y * q
  BY <1>2
<1>7. w = b * g + v
  <2>1. (p * g + m) * q = (p * q) * g + m * q
    OBVIOUS
  <2> QED BY <1>1, <1>5, <1>6, <2>1
<1>8. v + q <= b
  <2>1. PICK d \in Nat : p = m + 1 + d
    <3>1. p - m - 1 \in Nat
      BY <1>5
    <3> QED BY <1>5, <3>1
  <2>2. p * q = (m + 1 + d) * q
    BY <2>1
  <2>3. (m + 1 + d) * q = m * q + q + d * q /\ d * q \in Nat
    OBVIOUS
  <2> QED BY <1>1, <1>6, <2>2, <2>3
<1>9. w % b = v
  <2>1. b > 0 /\ v < b /\ w = b * g + v
    BY <1>1, <1>7, <1>8
  <2> QED BY ONLY <2>1, b \in Nat, g \in Nat, v \in Nat, w \in Nat, QuotientIs
<1>10. h + v \in 0 .. b - 1
  <2>1. h + v \in Nat /\ h + v < b
    BY <1>4, <1>8
  <2> QED BY <1>1, <2>1
<1>11. Dropped(x, y, p, q, b)
  <2>1. p * (h + v) + l = x + b * m
    <3>1. p * (h + m * q) + l = (p * h + l) + (p * q) * m
      OBVIOUS
    <3> QED BY <1>1, <1>3, <1>6, <3>1
  <2> QED BY <1>1, <1>3, <1>5, <1>6, <1>9, <2>1 DEF Dropped
<1> QED BY <1>1, <1>3, <1>6, <1>9, <1>10, <1>11

LEMMA TwosRaised == \A i \in Nat : Raised(2, i) \in Nat /\ Raised(2, i) > 0
BY RaisedPositive

\* A bit of a digit of b bits is one of the number.
LEMMA BitOfDigit ==
  ASSUME NEW b \in Nat, NEW j \in Nat, j < b, NEW v \in Nat, NEW m \in Nat,
         NEW x \in Nat, (v \div Raised(2, m)) % Raised(2, b) = x
  PROVE  (v \div Raised(2, m + j)) % 2 = (x \div Raised(2, j)) % 2
<1>1. PICK h \in Nat : b = (j + 1) + h
  BY b - j - 1 \in Nat, b = (j + 1) + (b - j - 1)
<1>2. PICK p \in Nat, e \in Nat, g \in Nat :
        p = Raised(2, m) /\ p > 0 /\ e = Raised(2, j) /\ e > 0 /\ g = Raised(2, h) /\ g > 0
  BY TwosRaised
<1>3. Raised(2, b) = (e * 2) * g
  <2>1. PICK i \in Nat : i = j + 1
    OBVIOUS
  <2>2. Raised(2, i + h) = Raised(2, i) * Raised(2, h)
    BY RaisedSum
  <2>3. Raised(2, i) = 2 * e
    BY <1>2, <2>1, RaisedSteps
  <2> QED BY <1>1, <1>2, <2>1, <2>2, <2>3
<1>4. PICK u \in Nat : v \div p = u
  BY <1>2, Quotient
<1>5. PICK d \in Nat : d = e * 2 /\ d > 0
  BY <1>2
<1>6. (u % (e * 2)) \div e = (u \div e) % 2 /\ (x % (e * 2)) \div e = (x \div e) % 2
  BY <1>2, Divisions
<1>7. (u % (d * g)) % d = u % d
  BY <1>2, <1>5, Divisions
<1>8. x % d = u % d
  BY <1>2, <1>3, <1>4, <1>5, <1>7
<1>9. v \div Raised(2, m + j) = u \div e
  <2>1. Raised(2, m + j) = p * e
    BY <1>2, RaisedSum
  <2>2. (v \div p) \div e = v \div (p * e)
    BY <1>2, Divisions
  <2> QED BY <1>4, <2>1, <2>2
<1> QED BY <1>2, <1>5, <1>6, <1>8, <1>9

\* The bits of v below the n-th are those in S.
BitsAre(v, S, n) ==
  /\ v \in Nat /\ v < Raised(2, n)
  /\ \A i \in 0 .. n - 1 : (v \div Raised(2, i)) % 2 = 1 <=> i \in S

\* A bit is put above those that are there.
LEMMA BitAbove ==
  ASSUME NEW v, NEW S, NEW n \in Nat, BitsAre(v, S, n), NEW c \in {0, 1}, c = 1 <=> n \in S,
         NEW w, w = v + c * Raised(2, n)
  PROVE  BitsAre(w, S, n + 1)
<1>1. PICK p \in Nat : p = Raised(2, n) /\ p > 0 /\ v \in Nat /\ v < p
  BY TwosRaised DEF BitsAre
<1>2. Raised(2, n + 1) = 2 * p
  BY <1>1, RaisedSteps
<1>3. w \in Nat /\ w < 2 * p /\ w = p * c + v
  BY <1>1
<1>4. w \div p = c
  <2>1. c \in Nat
    OBVIOUS
  <2>2. w \in Nat /\ w = p * c + v /\ v \in Nat /\ v < p /\ p > 0
    BY <1>1, <1>3
  <2> QED BY ONLY p \in Nat, <2>1, <2>2, QuotientIs
<1>5. ASSUME NEW i \in 0 .. n - 1 PROVE (w \div Raised(2, i)) % 2 = (v \div Raised(2, i)) % 2
  <2>1. PICK d \in Nat, j \in Nat : d = Raised(2, i) /\ d > 0 /\ n = i + (j + 1)
    BY TwosRaised, n - i - 1 \in Nat, n = i + ((n - i - 1) + 1)
  <2>2. PICK e \in Nat : e = Raised(2, j)
    BY TwosRaised
  <2>3. p = d * (2 * e)
    BY <1>1, <2>1, <2>2, RaisedSteps, RaisedSum
  <2>4. PICK q \in Nat, r \in Nat : q = v \div d /\ r = v % d /\ r < d /\ v = d * q + r
    <3>1. v \in Nat
      BY <1>1
    <3>2. v \div d \in Nat /\ v % d \in Nat /\ v % d < d /\ v = d * (v \div d) + (v % d)
      BY ONLY <2>1, <3>1, Quotient
    <3> QED BY <3>2
  <2>5. w = d * (2 * (e * c) + q) + r
    <3>1. p * c = d * (2 * (e * c))
      BY <2>3
    <3>2. d * (2 * (e * c) + q) = d * (2 * (e * c)) + d * q
      OBVIOUS
    <3> QED BY <1>3, <2>4, <3>1, <3>2
  <2>6. PICK m \in Nat : m = e * c
    OBVIOUS
  <2>7. w \div d = 2 * m + q
    <3>1. PICK x \in Nat : x = 2 * m + q
      OBVIOUS
    <3>2. w = d * x + r
      BY <2>5, <2>6, <3>1
    <3>3. w \div d = x
      <4>1. w \in Nat /\ d \in Nat /\ d > 0 /\ r < d
        BY <1>3, <2>1, <2>4
      <4> QED BY ONLY <4>1, x \in Nat, r \in Nat, <3>2, QuotientIs
    <3> QED BY <3>1, <3>3
  <2>8. (2 * m + q) % 2 = q % 2
    OBVIOUS
  <2> QED BY <2>1, <2>4, <2>7, <2>8
<1>6. ASSUME NEW i \in 0 .. (n + 1) - 1 PROVE (w \div Raised(2, i)) % 2 = 1 <=> i \in S
  <2>1. CASE i = n
    <3>1. c % 2 = c
      OBVIOUS
    <3> QED BY <1>1, <1>4, <2>1, <3>1
  <2>2. CASE i # n
    <3>1. i \in 0 .. n - 1
      BY <2>2
    <3> QED BY <1>5, <3>1 DEF BitsAre
  <2> QED BY <2>1, <2>2
<1> QED BY <1>2, <1>3, <1>6 DEF BitsAre

\* Two numbers with the same bits are one.
LEMMA SameBits ==
  ASSUME NEW v, NEW w, NEW S, NEW n \in Nat, BitsAre(v, S, n), BitsAre(w, S, n)
  PROVE  v = w
<1>1. v \in Nat /\ w \in Nat /\ v < Raised(2, n) /\ w < Raised(2, n)
  BY DEF BitsAre
<1> DEFINE Z == {m \in Nat : m <= n => v % Raised(2, m) = w % Raised(2, m)}
<1>2. 0 \in Z
  BY <1>1, RaisedSteps, v % 1 = 0, w % 1 = 0
<1>3. ASSUME NEW m \in Nat, m \in Z PROVE m + 1 \in Z
  <2> SUFFICES ASSUME m + 1 <= n PROVE v % Raised(2, m + 1) = w % Raised(2, m + 1)
    OBVIOUS
  <2>1. PICK p \in Nat : p = Raised(2, m) /\ p > 0 /\ Raised(2, m + 1) = p * 2
    <3>1. PICK p \in Nat : p = Raised(2, m) /\ p > 0
      BY TwosRaised
    <3>2. Raised(2, m + 1) = 2 * p
      BY <3>1, RaisedSteps
    <3> QED BY <3>1, <3>2
  <2>2. v % p = w % p
    BY <1>3, <2>1
  <2>3. PICK x \in Nat, y \in Nat : x = v % (p * 2) /\ y = w % (p * 2)
    <3>1. p * 2 \in Nat /\ p * 2 > 0
      BY <2>1
    <3> QED BY <1>1, <3>1, Quotient
  <2>4. (v \div p) % 2 = (w \div p) % 2
    <3>1. m \in 0 .. n - 1
      OBVIOUS
    <3>2. (v \div p) % 2 = 1 <=> (w \div p) % 2 = 1
      BY <2>1, <3>1 DEF BitsAre
    <3>3. v \div p \in Nat /\ w \div p \in Nat
      BY <1>1, <2>1, Quotient
    <3> QED BY <3>2, <3>3
  <2>5. x \div p = y \div p /\ x % p = y % p
    BY <1>1, <2>1, <2>2, <2>3, <2>4, Divisions
  <2>6. x = p * (x \div p) + (x % p) /\ y = p * (y \div p) + (y % p)
    BY <2>1, <2>3, Quotient
  <2> QED BY <2>1, <2>3, <2>5, <2>6
<1>4. n \in Z
  <2>1. Z \in SUBSET Nat
    OBVIOUS
  <2> HIDE DEF Z
  <2> QED BY <1>2, <1>3, <2>1, Inductive
<1>5. PICK p \in Nat : p = Raised(2, n) /\ p > 0
  BY TwosRaised
<1>6. v % p = v /\ w % p = w
  BY <1>1, <1>5, QuotientIs, p * 0 + v = v, p * 0 + w = w
<1> QED BY <1>4, <1>5, <1>6

\* A number less than 2 ** n that has no bits is 0.
LEMMA NoBits ==
  ASSUME NEW v \in Nat, NEW n \in Nat, v < Raised(2, n),
         \A i \in 0 .. n - 1 : (v \div Raised(2, i)) % 2 # 1
  PROVE  v = 0
<1>1. BitsAre(v, {}, n)
  BY DEF BitsAre
<1>2. ASSUME NEW i \in 0 .. n - 1 PROVE (0 \div Raised(2, i)) % 2 # 1
  <2>1. PICK p \in Nat : p = Raised(2, i) /\ p > 0
    BY TwosRaised
  <2>2. 0 \div p = 0
    BY <2>1, QuotientIs, p * 0 + 0 = 0
  <2> QED BY <2>1, <2>2
<1>3. PICK z : z = 0
  OBVIOUS
<1>4. BitsAre(z, {}, n)
  BY <1>2, <1>3, TwosRaised DEF BitsAre
<1> QED BY ONLY <1>1, <1>3, <1>4, n \in Nat, SameBits

\* The bits of 2 ** b - 1, of 2 ** p - 1, of 2 ** p, and of 2 ** b - 1 - 2 ** p.
LEMMA BitMasks ==
  ASSUME NEW b \in Nat, NEW p \in Nat, p < b
  PROVE  /\ BitsAre(Raised(2, b) - 1, 0 .. b - 1, b)
         /\ BitsAre(Raised(2, p) - 1, 0 .. p - 1, b)
         /\ BitsAre(Raised(2, p), {p}, b)
         /\ BitsAre(Raised(2, b) - 1 - Raised(2, p), (0 .. b - 1) \ {p}, b)
<1>0. PICK base \in Nat : base = Raised(2, b) /\ base > 0
  BY TwosRaised
<1> DEFINE Full(n) == BitsAre(Raised(2, n) - 1, 0 .. n - 1, n)
           Z == {n \in Nat : Full(n)}
<1>1. \A n \in Nat : Full(n)
  <2>1. 0 \in Z
    <3>1. Raised(2, 0) = 1
      BY RaisedSteps
    <3> QED BY <3>1 DEF BitsAre
  <2>2. ASSUME NEW n \in Nat, n \in Z PROVE n + 1 \in Z
    <3>1. PICK q \in Nat : q = Raised(2, n) /\ q > 0 /\ Raised(2, n + 1) = 2 * q
      BY TwosRaised, RaisedSteps
    <3>2. BitsAre(q - 1, 0 .. n - 1, n)
      BY <2>2, <3>1
    <3>3. BitsAre(q - 1, 0 .. n, n)
      BY <3>2 DEF BitsAre
    <3>4. PICK x, S : x = q - 1 /\ S = 0 .. n
      OBVIOUS
    <3>5. PICK w : w = x + 1 * Raised(2, n)
      OBVIOUS
    <3>6. BitsAre(w, S, n + 1)
      <4>1. BitsAre(x, S, n) /\ 1 \in {0, 1} /\ (1 = 1 <=> n \in S)
        BY <3>3, <3>4
      <4> QED BY ONLY <4>1, <3>5, n \in Nat, BitAbove
    <3>7. w = Raised(2, n + 1) - 1 /\ S = 0 .. (n + 1) - 1
      BY <3>1, <3>4, <3>5
    <3> QED BY <3>6, <3>7
  <2>3. Z \in SUBSET Nat
    OBVIOUS
  <2>4. \A n \in Nat : n \in Z
    <3> HIDE DEF Z
    <3> QED BY <2>1, <2>2, <2>3, Inductive
  <2> QED BY <2>4
<1>3. BitsAre(base - 1, 0 .. b - 1, b)
  BY <1>0, <1>1
<1>5. PICK q \in Nat : q = Raised(2, p) /\ q > 0
  BY <1>0, TwosRaised
<1>7. BitsAre(q - 1, 0 .. p - 1, b) /\ q < base
  <2>1. BitsAre(q - 1, 0 .. p - 1, p)
    BY <1>0, <1>1, <1>5
  <2>2. q < base
    <3>1. 2 \in Nat /\ 2 > 0 /\ 2 > 1 /\ p \in Nat /\ b \in Nat /\ p <= b /\ p < b
      BY <1>0
    <3>2. Raised(2, p) < Raised(2, b)
      BY ONLY <3>1, RaisedMonotone
    <3> QED BY <1>0, <1>5, <3>2
  <2>4. ASSUME NEW i \in 0 .. b - 1 PROVE ((q - 1) \div Raised(2, i)) % 2 = 1 <=> i \in 0 .. p - 1
    <3>1. CASE i < p
      <4>1. i \in 0 .. p - 1
        BY <1>0, <3>1
      <4> QED BY <2>1, <4>1 DEF BitsAre
    <3>2. CASE i >= p
      <4>1. PICK e \in Nat : e = Raised(2, i) /\ e > 0 /\ q <= e
        <5>1. 2 \in Nat /\ 2 > 0 /\ p \in Nat /\ i \in Nat /\ p <= i
          BY <1>0, <3>2
        <5>2. Raised(2, p) <= Raised(2, i)
          BY ONLY <5>1, RaisedMonotone
        <5> QED BY <1>5, <5>1, <5>2, TwosRaised
      <4>2. PICK x \in Nat : x = q - 1 /\ x < e
        BY <1>5, <4>1
      <4>3. x \div e = 0
        BY <4>1, <4>2, QuotientIs, e * 0 + x = x
      <4> QED BY <1>0, <3>2, <4>1, <4>2, <4>3
    <3> QED BY <1>0, <3>1, <3>2
  <2> QED BY <1>0, <1>5, <2>2, <2>4 DEF BitsAre
<1>9. BitsAre(q, {p}, b)
  <2>1. ASSUME NEW i \in 0 .. b - 1 PROVE (q \div Raised(2, i)) % 2 = 1 <=> i \in {p}
    <3>1. CASE i > p
      <4>1. PICK e \in Nat : e = Raised(2, i) /\ e > 0 /\ q < e
        <5>1. 2 \in Nat /\ 2 > 0 /\ 2 > 1 /\ p \in Nat /\ i \in Nat /\ p <= i /\ p < i
          BY <1>0, <3>1
        <5>2. Raised(2, p) < Raised(2, i)
          BY ONLY <5>1, RaisedMonotone
        <5> QED BY <1>5, <5>1, <5>2, TwosRaised
      <4>2. q \div e = 0
        BY <1>5, <4>1, QuotientIs, e * 0 + q = q
      <4> QED BY <1>0, <3>1, <4>1, <4>2
    <3>2. CASE i = p
      <4>1. q \div q = 1
        BY <1>5, QuotientIs, q * 1 + 0 = q
      <4> QED BY <1>5, <3>2, <4>1
    <3>3. CASE i < p
      <4>1. PICK d \in Nat, j \in Nat : d = Raised(2, i) /\ d > 0 /\ p = i + (j + 1)
        BY <1>0, <3>3, TwosRaised, p - i - 1 \in Nat, p = i + ((p - i - 1) + 1)
      <4>2. PICK e \in Nat : e = Raised(2, j)
        BY TwosRaised
      <4>3. q = d * (2 * e)
        BY <1>5, <4>1, <4>2, RaisedSteps, RaisedSum
      <4>4. q \div d = 2 * e
        <5>1. PICK x \in Nat : x = 2 * e
          OBVIOUS
        <5>2. q = d * x + 0
          BY <4>3, <5>1
        <5> QED BY <4>1, <5>1, <5>2, QuotientIs
      <4>5. (2 * e) % 2 # 1
        OBVIOUS
      <4> QED BY <1>0, <3>3, <4>1, <4>4, <4>5
    <3> QED BY <1>0, <3>1, <3>2, <3>3
  <2> QED BY <1>0, <1>5, <1>7, <2>1 DEF BitsAre
<1>10. BitsAre(base - 1 - q, (0 .. b - 1) \ {p}, b)
  <2>1. PICK l \in Nat : b = p + (l + 1)
    BY <1>0, b - p - 1 \in Nat, b = p + ((b - p - 1) + 1)
  <2>2. PICK e \in Nat : e = Raised(2, l) /\ e > 0
    BY TwosRaised
  <2>3. base = q * (2 * e)
    BY <1>0, <1>5, <2>1, <2>2, RaisedSteps, RaisedSum
  <2>4. PICK x : x = base - 1 - q
    OBVIOUS
  <2>5. x \in Nat /\ x < base
    BY <1>0, <1>5, <1>7, <2>4
  <2>6. ASSUME NEW i \in 0 .. b - 1 PROVE (x \div Raised(2, i)) % 2 = 1 <=> i \in (0 .. b - 1) \ {p}
    <3>1. CASE i < p
      <4>1. PICK d \in Nat, j \in Nat : d = Raised(2, i) /\ d > 0 /\ p = i + (j + 1)
        BY <1>0, <3>1, TwosRaised, p - i - 1 \in Nat, p = i + ((p - i - 1) + 1)
      <4>2. PICK g \in Nat : g = Raised(2, j) /\ g > 0
        BY TwosRaised
      <4>3. q = d * (2 * g)
        BY <1>5, <4>1, <4>2, RaisedSteps, RaisedSum
      <4>4. PICK m \in Nat : m = (2 * g) * (e - 1) + (g - 1) /\ 2 * m + 1 = (2 * g) * (2 * e - 2) + (2 * g - 1)
        <5>1. (2 * g) * (e - 1) \in Nat /\ g - 1 \in Nat
          BY <2>2, <4>2
        <5>2. 2 * ((2 * g) * (e - 1)) = (2 * g) * (2 * e - 2)
          BY <2>2, <4>2
        <5>3. PICK y \in Nat : y = (2 * g) * (e - 1)
          BY <5>1
        <5>4. 2 * (y + (g - 1)) + 1 = 2 * y + (2 * g - 1)
          BY <4>2
        <5> QED BY <5>1, <5>2, <5>3, <5>4
      <4>5. x = d * (2 * m + 1) + (d - 1)
        <5>1. d * (2 * m + 1) = (d * (2 * g)) * (2 * e - 2) + (d * (2 * g) - d)
          BY <2>2, <4>1, <4>2, <4>4
        <5>2. d * (2 * m + 1) = q * (2 * e - 2) + (q - d)
          BY <4>3, <5>1
        <5>3. q * (2 * e - 2) = q * (2 * e) - 2 * q
          BY <1>5, <2>2
        <5> QED BY <1>0, <1>5, <2>3, <2>4, <4>1, <4>4, <5>2, <5>3
      <4>6. x \div d = 2 * m + 1
        <5>1. 2 * m + 1 \in Nat /\ d - 1 \in Nat /\ d - 1 < d /\ d > 0
          BY <4>1
        <5> QED BY ONLY d \in Nat, <2>5, <4>5, <5>1, QuotientIs
      <4>7. (2 * m + 1) % 2 = 1
        OBVIOUS
      <4> QED BY <1>0, <3>1, <4>1, <4>6, <4>7
    <3>2. CASE i = p
      <4>1. x = q * (2 * e - 2) + (q - 1)
        <5>1. q * (2 * e - 2) = q * (2 * e) - 2 * q
          BY <1>5, <2>2
        <5> QED BY <1>0, <1>5, <2>3, <2>4, <5>1
      <4>2. x \div q = 2 * e - 2
        <5>1. 2 * e - 2 \in Nat /\ q - 1 \in Nat /\ q - 1 < q /\ q > 0
          BY <1>5, <2>2
        <5> QED BY ONLY q \in Nat, <2>5, <4>1, <5>1, QuotientIs
      <4>3. (2 * e - 2) % 2 = 0
        BY <2>2
      <4> QED BY <1>5, <3>2, <4>2, <4>3
    <3>3. CASE i > p
      <4>1. PICK j \in Nat, k \in Nat : i = p + (j + 1) /\ b = i + (k + 1)
        BY <1>0, <3>3, i - p - 1 \in Nat, i = p + ((i - p - 1) + 1),
           b - i - 1 \in Nat, b = i + ((b - i - 1) + 1)
      <4>2. PICK h \in Nat, m \in Nat : h = Raised(2, j) /\ h > 0 /\ m = Raised(2, k) /\ m > 0
        BY TwosRaised
      <4>3. PICK d \in Nat : d = Raised(2, i) /\ d = q * (2 * h) /\ base = d * (2 * m) /\ d > 0
        <5>1. Raised(2, i) = q * (2 * h)
          BY <1>5, <4>1, <4>2, RaisedSteps, RaisedSum
        <5>2. Raised(2, b) = Raised(2, i) * (2 * m)
          BY <1>0, <4>1, <4>2, RaisedSteps, RaisedSum
        <5>3. i \in Nat
          BY <1>0
        <5> QED BY <1>0, <5>1, <5>2, <5>3, TwosRaised
      <4>4. d >= 2 * q
        <5>1. q * (2 * h) = 2 * q + (2 * q) * (h - 1) /\ (2 * q) * (h - 1) \in Nat
          BY <1>5, <4>2
        <5> QED BY <1>5, <4>3, <5>1
      <4>5. PICK r \in Nat : r = d - 1 - q /\ r < d
        BY <1>5, <4>3, <4>4
      <4>6. x = d * (2 * m - 1) + r
        <5>1. d * (2 * m - 1) = d * (2 * m) - d
          BY <4>2
        <5> QED BY <1>0, <1>5, <2>4, <4>3, <4>5, <5>1
      <4>7. x \div d = 2 * m - 1
        <5>1. 2 * m - 1 \in Nat /\ d > 0
          BY <4>2, <4>3
        <5> QED BY ONLY d \in Nat, <2>5, <4>5, <4>6, <5>1, QuotientIs
      <4>8. (2 * m - 1) % 2 = 1
        BY <4>2
      <4> QED BY <1>0, <3>3, <4>3, <4>7, <4>8
    <3> QED BY <1>0, <3>1, <3>2, <3>3
  <2> QED BY <1>0, <2>4, <2>5, <2>6 DEF BitsAre
<1> QED BY <1>0, <1>3, <1>5, <1>7, <1>9, <1>10

------------------------------------------------------------------------------
(* Primes: Euclid's lemma, Fermat's little theorem, and that 1 has no other   *)
(* roots than 1 and -1 modulo a prime.                                        *)

Prime(p) == p > 1 /\ \A k \in 2 .. p - 1 : p % k # 0

LEMMA Multiple ==
  ASSUME NEW d \in Nat, d > 0, NEW v \in Nat
  PROVE  v % d = 0 <=> \E k \in Nat : v = d * k
<1>1. v \div d \in Nat /\ v % d \in Nat /\ v = d * (v \div d) + (v % d)
  BY Quotient
<1>2. ASSUME v % d = 0 PROVE \E k \in Nat : v = d * k
  <2>1. PICK k \in Nat : k = v \div d
    BY <1>1
  <2>2. d * k \in Nat /\ v = d * k + 0
    BY <1>1, <1>2, <2>1
  <2> QED BY <2>2
<1>3. ASSUME NEW k \in Nat, v = d * k PROVE v % d = 0
  <2>1. 0 \in Nat /\ v = d * k + 0
    BY <1>3
  <2> QED BY <2>1, Quotients
<1> QED BY <1>2, <1>3

\* The remainder of a product is that of the remainders.
LEMMA ReducedFactors ==
  ASSUME NEW d \in Nat, d > 0, NEW v \in Nat, NEW w \in Nat
  PROVE  (v * w) % d = ((v % d) * (w % d)) % d /\ (v * w) % d = ((v % d) * w) % d
<1>1. PICK u \in Nat : u = v % d
  BY Quotient
<1>2. PICK z \in Nat : z = w % d
  BY Quotient
<1>3. (w * u) % d = (w * v) % d
  BY <1>1, ReducedFactor
<1>4. (u * z) % d = (u * w) % d
  BY <1>2, ReducedFactor
<1>5. w * u = u * w /\ w * v = v * w
  BY <1>1
<1> QED BY <1>1, <1>2, <1>3, <1>4, <1>5

\* Numbers leave the same remainder if their difference leaves none.
LEMMA SameRemainder ==
  ASSUME NEW d \in Nat, d > 0, NEW v \in Nat, NEW w \in Nat, w <= v
  PROVE  v % d = w % d <=> (v - w) % d = 0
<1>1. PICK q \in Nat, s \in Nat : v = d * q + s /\ s < d /\ s = v % d
  BY Quotient
<1>2. PICK p \in Nat, u \in Nat : w = d * p + u /\ u < d /\ u = w % d
  BY Quotient
<1>3. PICK n \in Nat : n = v - w
  OBVIOUS
<1>4. ASSUME s = u PROVE n % d = 0
  <2>1. n = d * (q - p)
    <3>1. d * (q - p) = d * q - d * p /\ d * q \in Int /\ d * p \in Int
      OBVIOUS
    <3>2. v = d * q + s /\ w = d * p + s
      BY <1>1, <1>2, <1>4
    <3> QED BY <1>3, <3>1, <3>2
  <2>2. q - p \in Nat
    <3>1. SUFFICES ASSUME q < p PROVE FALSE
      OBVIOUS
    <3>2. d * (p - q) >= d /\ d * (p - q) = d * p - d * q
      BY <3>1
    <3>3. d * p \in Nat /\ d * q \in Nat
      OBVIOUS
    <3> QED BY <1>1, <1>2, <1>4, <3>2, <3>3
  <2> QED BY <2>1, <2>2, Multiple
<1>5. ASSUME n % d = 0 PROVE s = u
  <2>1. PICK k \in Nat : n = d * k
    BY <1>5, Multiple
  <2>2. d * p \in Nat /\ d * k \in Nat /\ d * q \in Nat
    OBVIOUS
  <2>3. d * q + s = d * (p + k) + u
    <3>1. d * (p + k) = d * p + d * k
      OBVIOUS
    <3> QED BY <1>1, <1>2, <1>3, <2>1, <2>2, <3>1
  <2> QED BY <1>1, <1>2, <2>3, QuotientUnique, p + k \in Nat
<1> QED BY <1>1, <1>2, <1>3, <1>4, <1>5

\* A prime number that divides a product divides a factor.
LEMMA PrimeDivides ==
  ASSUME NEW p \in Nat, Prime(p), NEW a \in Nat, NEW b \in Nat, (a * b) % p = 0
  PROVE  a % p = 0 \/ b % p = 0
<1>1. SUFFICES ASSUME b % p # 0 PROVE a % p = 0
  OBVIOUS
<1> DEFINE Z == {d \in Nat : d > 0 /\ (d * b) % p = 0}
<1>2. p \in Nat /\ p > 1
  BY DEF Prime
<1>3. p \in Z
  <2>1. p * b \in Nat
    OBVIOUS
  <2>2. (p * b) % p = 0
    BY <1>2, <2>1, Multiple
  <2> QED BY <1>2, <2>2
<1>4. PICK d \in Z : \A k \in Z : ~(k < d)
  BY <1>3, LeastNumber
<1>5. d \in Nat /\ d > 0 /\ (d * b) % p = 0
  OBVIOUS
<1>6. PICK e \in Nat : d * b = p * e
  BY <1>2, <1>5, Multiple, d * b \in Nat
<1>7. \A z \in Z : z % d = 0
  <2> SUFFICES ASSUME NEW z \in Z, z % d # 0 PROVE FALSE
    OBVIOUS
  <2>1. z \in Nat /\ z > 0 /\ (z * b) % p = 0
    OBVIOUS
  <2>2. PICK q \in Nat, s \in Nat : z = d * q + s /\ s < d /\ s = z % d
    BY <1>5, <2>1, Quotient
  <2>3. PICK k \in Nat : z * b = p * k
    BY <1>2, <2>1, Multiple, z * b \in Nat
  <2> HIDE DEF Z
  <2>4. s * b = p * k - p * (e * q)
    <3>1. z * b = (d * q) * b + s * b
      BY <2>1, <2>2
    <3>2. (d * q) * b = (d * b) * q
      BY <1>5
    <3>3. (p * e) * q = p * (e * q)
      BY <1>2
    <3>4. (d * q) * b = p * (e * q)
      BY <1>6, <3>2, <3>3
    <3>5. PICK g \in Int : g = p * (e * q)
      BY e * q \in Int, p * (e * q) \in Int
    <3>6. PICK h \in Int : h = s * b
      BY s * b \in Int
    <3>7. PICK l \in Int : l = p * k
      BY p * k \in Int
    <3>8. l = g + h
      BY <2>3, <3>1, <3>4, <3>5, <3>6, <3>7
    <3>9. h = l - g
      BY <3>8
    <3> QED BY <3>5, <3>6, <3>7, <3>9
  <2>5. PICK f \in Nat : f = e * q
    OBVIOUS
  <2>6. p * k >= p * f
    <3>1. s * b \in Nat /\ p * k \in Nat /\ p * f \in Nat
      OBVIOUS
    <3> QED BY <2>4, <2>5, <3>1
  <2>7. k - f \in Nat
    <3>1. SUFFICES ASSUME k < f PROVE FALSE
      OBVIOUS
    <3>2. p * (f - k) > 0 /\ p * (f - k) = p * f - p * k
      BY <1>2, <3>1
    <3> QED BY <2>6, <3>2
  <2>8. s * b = p * (k - f)
    BY <2>4, <2>5
  <2>9. (s * b) % p = 0
    BY <1>2, <2>7, <2>8, Multiple, s * b \in Nat
  <2>10. s > 0
    BY <2>2
  <2>11. s \in Z
    BY <2>9, <2>10 DEF Z
  <2> QED BY <1>4, <2>2, <2>11
<1>8. p % d = 0
  BY <1>3, <1>7
<1>9. d <= p
  BY <1>2, <1>3, <1>4
<1>10. d = 1 \/ d = p
  <2>1. SUFFICES ASSUME d # 1, d # p PROVE FALSE
    OBVIOUS
  <2>2. d \in 2 .. p - 1
    BY <1>2, <1>5, <1>9, <2>1
  <2> QED BY <1>8, <2>2 DEF Prime
<1>11. d # 1
  <2>1. SUFFICES ASSUME d = 1 PROVE FALSE
    OBVIOUS
  <2>2. d * b = b
    BY <2>1
  <2> QED BY <1>1, <1>5, <2>2
<1>12. CASE a = 0
  <2>1. a = p * 0
    BY <1>12
  <2> QED BY <1>2, <2>1, Multiple, 0 \in Nat
<1>13. CASE a > 0
  <2>1. a \in Z
    BY <1>13
  <2> QED BY <1>7, <1>10, <1>11, <2>1
<1> QED BY <1>12, <1>13

------------------------------------------------------------------------------
(* Remainders, of which the rest is proved by their name.                    *)

Residue(v, p) == v % p

LEMMA ModType ==
  ASSUME NEW p \in Nat, p > 0, NEW v \in Nat
  PROVE  /\ Residue(v, p) \in Nat /\ Residue(v, p) < p /\ Residue(v, p) \in 0 .. p - 1
         /\ v < p => Residue(v, p) = v
<1>1. v % p \in Nat /\ v % p < p
  BY Quotient
<1>2. v < p => 0 \in Nat /\ v = p * 0 + v
  OBVIOUS
<1>3. v < p => v % p = v
  BY <1>2, Quotients
<1> QED BY <1>1, <1>3 DEF Residue

LEMMA ModProduct ==
  ASSUME NEW p \in Nat, p > 0, NEW v \in Nat, NEW w \in Nat
  PROVE  Residue(v * w, p) = Residue(Residue(v, p) * Residue(w, p), p) /\ Residue(v * w, p) = Residue(Residue(v, p) * w, p)
BY ReducedFactors, Zenon DEF Residue

LEMMA ModDifference ==
  ASSUME NEW p \in Nat, p > 0, NEW v \in Nat, NEW w \in Nat, w <= v
  PROVE  Residue(v, p) = Residue(w, p) <=> Residue(v - w, p) = 0
BY SameRemainder, Zenon DEF Residue

LEMMA PrimeFactor ==
  ASSUME NEW p \in Nat, Prime(p), NEW a \in Nat, NEW b \in Nat, Residue(a * b, p) = 0
  PROVE  Residue(a, p) = 0 \/ Residue(b, p) = 0
BY PrimeDivides, Zenon DEF Residue

LEMMA Cancelled ==
  ASSUME NEW p \in Nat, Prime(p), NEW y \in Nat, Residue(y, p) # 0, NEW v \in Nat, NEW w \in Nat,
         Residue(y * v, p) = Residue(y * w, p)
  PROVE  Residue(v, p) = Residue(w, p)
<1>1. p > 0
  BY DEF Prime
<1>2. ASSUME NEW m \in Nat, NEW n \in Nat, n <= m, Residue(y * m, p) = Residue(y * n, p)
      PROVE  Residue(m, p) = Residue(n, p)
  <2>1. y * m \in Nat /\ y * n \in Nat /\ y * (m - n) = y * m - y * n /\ y * (m - n) >= 0
    BY <1>2
  <2>2. PICK d \in Nat : d = m - n
    BY <1>2
  <2>3. Residue(y * m - y * n, p) = 0
    <3>1. PICK a \in Nat, b \in Nat : a = y * m /\ b = y * n /\ b <= a
      BY <2>1
    <3>2. Residue(a, p) = Residue(b, p)
      BY <1>2, <3>1
    <3>3. Residue(a - b, p) = 0
      BY <1>1, <3>1, <3>2, ModDifference
    <3> QED BY <3>1, <3>3
  <2>4. Residue(y * d, p) = 0
    BY <2>1, <2>2, <2>3
  <2>5. Residue(d, p) = 0
    BY <2>4, PrimeFactor
  <2> QED BY <1>1, <1>2, <2>2, <2>5, ModDifference
<1>3. CASE w <= v
  BY <1>2, <1>3
<1>4. CASE v <= w
  BY <1>2, <1>4
<1> QED BY <1>3, <1>4

------------------------------------------------------------------------------
(* Fermat's little theorem.                                                  *)

LEMMA PowersNotZero ==
  ASSUME NEW p \in Nat, Prime(p), NEW a \in Nat, Residue(a, p) # 0
  PROVE  \A k \in Nat : Raised(a, k) \in Nat /\ Residue(Raised(a, k), p) # 0
<1> DEFINE Z == {k \in Nat : Residue(Raised(a, k), p) # 0}
<1>0. p > 1
  BY DEF Prime
<1>1. 0 \in Z
  BY <1>0, RaisedSteps, ModType, 1 \in Nat
<1>2. ASSUME NEW k \in Nat, k \in Z PROVE k + 1 \in Z
  <2>1. PICK v \in Nat : v = Raised(a, k)
    BY RaisedSteps
  <2>2. Raised(a, k + 1) = a * v
    BY <2>1, RaisedSteps
  <2>3. Residue(v, p) # 0
    BY <1>2, <2>1
  <2>4. Residue(a * v, p) # 0
    BY <2>3, PrimeFactor
  <2> QED BY <2>2, <2>4
<1>3. \A k \in Nat : k \in Z
  <2>1. Z \in SUBSET Nat
    OBVIOUS
  <2> HIDE DEF Z
  <2> QED BY <1>1, <1>2, <2>1, Inductive
<1> QED BY <1>3, RaisedSteps

\* Two powers that leave the same remainder are a power apart that leaves 1.
LEMMA PowersApart ==
  ASSUME NEW p \in Nat, Prime(p), NEW a \in Nat, Residue(a, p) # 0,
         NEW j \in Nat, NEW k \in Nat, Residue(Raised(a, j), p) = Residue(Raised(a, j + k), p)
  PROVE  Residue(Raised(a, k), p) = 1
<1>1. PICK v \in Nat, w \in Nat : v = Raised(a, j) /\ w = Raised(a, k) /\ Residue(v, p) # 0
  BY PowersNotZero
<1>2. Raised(a, j + k) = v * w
  BY <1>1, RaisedSum
<1>3. v * 1 = v
  BY <1>1
<1>4. Residue(v * w, p) = Residue(v * 1, p)
  BY <1>1, <1>2, <1>3
<1>5. PICK u \in Nat : u = 1
  OBVIOUS
<1>6. Residue(w, p) = Residue(u, p)
  BY <1>1, <1>4, <1>5, Cancelled
<1>7. Residue(u, p) = u
  BY <1>5, ModType DEF Prime
<1> QED BY <1>1, <1>5, <1>6, <1>7

\* How many different powers a number has.
Order(a, p, m) ==
  m > 0 /\ Residue(Raised(a, m), p) = 1 /\ \A k \in 1 .. m - 1 : Residue(Raised(a, k), p) # 1

LEMMA OrderExists ==
  ASSUME NEW p \in Nat, Prime(p), NEW a \in Nat, Residue(a, p) # 0
  PROVE  \E m \in Nat : Order(a, p, m)
<1>0. p > 1
  BY DEF Prime
<1> DEFINE f == [k \in 0 .. p - 1 |-> Residue(Raised(a, k), p)]
           Z == {m \in Nat : m > 0 /\ Residue(Raised(a, m), p) = 1}
<1>1. \A k \in Nat : Residue(Raised(a, k), p) \in 1 .. p - 1
  <2> SUFFICES ASSUME NEW k \in Nat PROVE Residue(Raised(a, k), p) \in 1 .. p - 1
    OBVIOUS
  <2>1. PICK v \in Nat : v = Raised(a, k) /\ Residue(v, p) # 0
    BY PowersNotZero
  <2>2. Residue(v, p) \in Nat /\ Residue(v, p) < p
    BY <1>0, ModType
  <2> QED BY <2>1, <2>2
<1>2. f \in [0 .. p - 1 -> 1 .. p - 1]
  BY <1>1
<1>3. /\ IsFiniteSet(0 .. p - 1) /\ Cardinality(0 .. p - 1) = p
      /\ IsFiniteSet(1 .. p - 1) /\ Cardinality(1 .. p - 1) = p - 1
  <2>1. 0 \in Int /\ 1 \in Int /\ p - 1 \in Int
    OBVIOUS
  <2>2. /\ IsFiniteSet(0 .. p - 1)
        /\ Cardinality(0 .. p - 1) = IF 0 > p - 1 THEN 0 ELSE (p - 1) - 0 + 1
    BY <2>1, FS_Interval
  <2>3. /\ IsFiniteSet(1 .. p - 1)
        /\ Cardinality(1 .. p - 1) = IF 1 > p - 1 THEN 0 ELSE (p - 1) - 1 + 1
    BY <2>1, FS_Interval
  <2> QED BY <1>0, <2>2, <2>3
<1>4. PICK i \in 0 .. p - 1, j \in 0 .. p - 1 : i # j /\ f[i] = f[j]
  <2>1. Cardinality(1 .. p - 1) < Cardinality(0 .. p - 1)
    BY <1>3
  <2> HIDE DEF f
  <2> QED BY <1>2, <1>3, <2>1, FS_PigeonHole
<1>5. PICK k \in Nat, l \in Nat : k < l /\ Residue(Raised(a, k), p) = Residue(Raised(a, l), p)
  <2>1. i \in Nat /\ j \in Nat /\ Residue(Raised(a, i), p) = Residue(Raised(a, j), p)
    BY <1>4
  <2> QED BY <1>4, <2>1
<1>6. l - k \in Z
  <2>1. PICK d \in Nat : d = l - k /\ d > 0 /\ l = k + d
    BY <1>5
  <2>2. Residue(Raised(a, d), p) = 1
    BY <1>5, <2>1, PowersApart
  <2> QED BY <2>1, <2>2
<1>7. PICK m \in Z : \A n \in Z : ~(n < m)
  BY <1>6, LeastNumber
<1>8. \A n \in 1 .. m - 1 : n \notin Z
  BY <1>7
<1>9. m \in Nat /\ Order(a, p, m)
  <2>1. \A n \in 1 .. m - 1 : Residue(Raised(a, n), p) # 1
    BY <1>8
  <2> QED BY <2>1 DEF Order
<1> QED BY <1>9

\* The powers of a, times y.
Coset(a, p, m, y) == {Residue(y * Raised(a, i), p) : i \in 0 .. m - 1}

LEMMA CosetSize ==
  ASSUME NEW p \in Nat, Prime(p), NEW a \in Nat, Residue(a, p) # 0, NEW m \in Nat, Order(a, p, m),
         NEW y \in 1 .. p - 1
  PROVE  /\ Coset(a, p, m, y) \subseteq 1 .. p - 1 /\ y \in Coset(a, p, m, y)
         /\ IsFiniteSet(Coset(a, p, m, y)) /\ Cardinality(Coset(a, p, m, y)) = m
<1> DEFINE f == [i \in 0 .. m - 1 |-> Residue(y * Raised(a, i), p)]
           C == Coset(a, p, m, y)
<1>0. p > 1 /\ y \in Nat /\ y < p /\ y > 0 /\ Residue(y, p) = y /\ m > 0
  BY ModType DEF Prime, Order
<1>1. \A i \in 0 .. m - 1 : i \in Nat /\ Residue(y * Raised(a, i), p) \in 1 .. p - 1
  <2> SUFFICES ASSUME NEW i \in 0 .. m - 1 PROVE Residue(y * Raised(a, i), p) \in 1 .. p - 1
    OBVIOUS
  <2>1. PICK v \in Nat : v = Raised(a, i) /\ Residue(v, p) # 0
    BY PowersNotZero
  <2>2. Residue(y * v, p) # 0
    BY <1>0, <2>1, PrimeFactor
  <2>3. PICK u \in Nat : u = y * v
    BY <1>0
  <2>4. Residue(u, p) \in Nat /\ Residue(u, p) < p
    BY <1>0, ModType
  <2> QED BY <2>1, <2>2, <2>3, <2>4
<1>2. C = {f[i] : i \in 0 .. m - 1}
  BY DEF Coset
<1>3. \A i, j \in 0 .. m - 1 : f[i] = f[j] => i = j
  <2>1. ASSUME NEW i \in 0 .. m - 1, NEW j \in 0 .. m - 1, i < j, f[i] = f[j] PROVE FALSE
    <3>1. PICK v \in Nat, w \in Nat : v = Raised(a, i) /\ w = Raised(a, j)
      BY <1>1, RaisedSteps
    <3>2. Residue(y * v, p) = Residue(y * w, p)
      BY <2>1, <3>1
    <3> HIDE DEF f, C
    <3>3. Residue(v, p) = Residue(w, p)
      <4>1. PICK z \in Nat : z = y /\ Residue(z, p) # 0
        BY <1>0
      <4>2. Residue(z * v, p) = Residue(z * w, p)
        BY <3>2, <4>1
      <4>3. Residue(z, p) # 0
        BY <4>1
      <4> QED BY <4>2, <4>3, Cancelled
    <3>4. PICK d \in Nat : d = j - i /\ j = i + d /\ d \in 1 .. m - 1
      BY <2>1
    <3>5. Residue(Raised(a, d), p) = 1
      BY <1>1, <3>1, <3>3, <3>4, PowersApart
    <3> QED BY <3>4, <3>5 DEF Order
  <2>2. \A i, j \in 0 .. m - 1 : i < j \/ j < i \/ i = j
    BY <1>1
  <2> HIDE DEF f
  <2> QED BY <2>1, <2>2
<1>4. y \in C
  <2>1. 0 \in 0 .. m - 1
    BY <1>0
  <2>2. f[0] = y
    <3>1. Raised(a, 0) = 1
      BY RaisedSteps
    <3>2. y * 1 = y
      BY <1>0
    <3> QED BY <1>0, <2>1, <3>1, <3>2
  <2> HIDE DEF f
  <2> QED BY <1>2, <2>1, <2>2
<1>5. C \subseteq 1 .. p - 1
  BY <1>1, <1>2
<1>6. IsFiniteSet(0 .. m - 1) /\ Cardinality(0 .. m - 1) = m
  <2>1. 0 \in Int /\ m - 1 \in Int
    OBVIOUS
  <2>2. /\ IsFiniteSet(0 .. m - 1)
        /\ Cardinality(0 .. m - 1) = IF 0 > m - 1 THEN 0 ELSE (m - 1) - 0 + 1
    BY <2>1, FS_Interval
  <2> QED BY <1>0, <2>2
<1>7. f \in Surjection(0 .. m - 1, C) /\ f \in Injection(0 .. m - 1, C)
  <2>1. f \in [0 .. m - 1 -> C]
    BY <1>2
  <2>2. \A c \in C : \E i \in 0 .. m - 1 : f[i] = c
    BY <1>2
  <2> HIDE DEF f, C
  <2>3. f \in Surjection(0 .. m - 1, C)
    BY <2>1, <2>2, Zenon DEF Surjection
  <2>4. f \in Injection(0 .. m - 1, C)
    BY <1>3, <2>1, Zenon DEF Injection, IsInjective
  <2> QED BY <2>3, <2>4
<1> HIDE DEF f
<1>8. IsFiniteSet(C) /\ Cardinality(C) = m
  BY <1>6, <1>7, FS_Surjection
<1> QED BY <1>4, <1>5, <1>8

\* Sets of remainders from which a does not lead out.
Closed(a, p, X) == X \subseteq 1 .. p - 1 /\ \A x \in X : Residue(x * a, p) \in X

LEMMA StaysClosed ==
  ASSUME NEW p \in Nat, p > 1, NEW a \in Nat, NEW X, Closed(a, p, X), NEW x \in X
  PROVE  \A k \in Nat : Residue(x * Raised(a, k), p) \in X
<1> DEFINE Z == {k \in Nat : Residue(x * Raised(a, k), p) \in X}
<1>0. x \in Nat /\ x < p /\ X \subseteq Nat
  BY DEF Closed
<1>1. 0 \in Z
  <2>1. Raised(a, 0) = 1 /\ x * 1 = x /\ Residue(x, p) = x
    BY <1>0, RaisedSteps, ModType
  <2> QED BY <2>1
<1>2. ASSUME NEW k \in Nat, k \in Z PROVE k + 1 \in Z
  <2>1. PICK v \in Nat : v = Raised(a, k) /\ Raised(a, k + 1) = a * v
    BY RaisedSteps
  <2>2. PICK u \in Nat : u = x * v
    BY <1>0
  <2>3. x * (a * v) = u * a
    <3>1. \A b, c, d \in Nat : b * (c * d) = (b * d) * c
      OBVIOUS
    <3> QED BY <1>0, <2>2, <3>1
  <2>4. Residue(u * a, p) = Residue(Residue(u, p) * a, p)
    BY ModProduct
  <2>5. Residue(u, p) \in X
    BY <1>2, <2>1, <2>2
  <2>6. Residue(Residue(u, p) * a, p) \in X
    BY <2>5 DEF Closed
  <2> QED BY <2>1, <2>3, <2>4, <2>6
<1>3. \A k \in Nat : k \in Z
  <2>1. Z \in SUBSET Nat
    OBVIOUS
  <2> HIDE DEF Z
  <2> QED BY <1>1, <1>2, <2>1, Inductive
<1> QED BY <1>3

\* A coset has nothing of a closed set that its first number is not in.
LEMMA CosetApart ==
  ASSUME NEW p \in Nat, p > 1, NEW a \in Nat, NEW m \in Nat, Order(a, p, m),
         NEW X, Closed(a, p, X), NEW y \in 1 .. p - 1, y \notin X
  PROVE  Coset(a, p, m, y) \cap X = {}
<1>1. SUFFICES ASSUME NEW i \in 0 .. m - 1, Residue(y * Raised(a, i), p) \in X PROVE FALSE
  BY DEF Coset
<1>2. PICK k \in Nat : m = i + k /\ i \in Nat
  <2>1. i \in Nat /\ m - i \in Nat /\ m = i + (m - i)
    OBVIOUS
  <2> QED BY <2>1
<1>3. PICK v \in Nat, w \in Nat : v = Raised(a, i) /\ w = Raised(a, k)
  BY <1>2, RaisedSteps
<1>4. PICK z \in Nat : z = y /\ Residue(z, p) = z
  BY ModType, y \in Nat, y < p
<1>5. PICK u \in Nat : u = z * v
  BY <1>4
<1>6. Residue(Residue(u, p) * w, p) \in X
  <2>1. Residue(u, p) \in X
    BY <1>1, <1>3, <1>4, <1>5
  <2> QED BY <1>2, <1>3, <2>1, StaysClosed
<1>7. Residue(Residue(u, p) * w, p) = Residue(u * w, p)
  BY ModProduct
<1>8. u * w = (v * w) * z
  <2>1. \A b, c, d \in Nat : (b * c) * d = (c * d) * b
    OBVIOUS
  <2> QED BY <1>5, <2>1
<1>9. Raised(a, m) = v * w
  BY <1>2, <1>3, RaisedSum
<1>10. PICK n \in Nat : n = v * w
  OBVIOUS
<1>11. Residue(n * z, p) = Residue(Residue(n, p) * z, p)
  BY ModProduct
<1>12. Residue(n, p) = 1
  BY <1>9, <1>10 DEF Order
<1>13. 1 * z = z
  BY <1>4
<1>14. Residue(n * z, p) = z
  BY <1>4, <1>11, <1>12, <1>13
<1> QED BY <1>4, <1>6, <1>7, <1>8, <1>10, <1>14

\* With a coset a closed set remains closed.
LEMMA WithCoset ==
  ASSUME NEW p \in Nat, Prime(p), NEW a \in Nat, Residue(a, p) # 0,
         NEW m \in Nat, Order(a, p, m),
         NEW X, Closed(a, p, X), NEW y \in 1 .. p - 1
  PROVE  Closed(a, p, X \cup Coset(a, p, m, y))
<1>0. p > 1
  BY DEF Prime
<1>1. Coset(a, p, m, y) \subseteq 1 .. p - 1 /\ y \in Coset(a, p, m, y)
  BY CosetSize
<1>2. ASSUME NEW i \in 0 .. m - 1
      PROVE  Residue(Residue(y * Raised(a, i), p) * a, p) \in Coset(a, p, m, y)
  <2>1. PICK v \in Nat : v = Raised(a, i) /\ Raised(a, i + 1) = a * v
    BY RaisedSteps, i \in Nat
  <2>2. PICK z \in Nat : z = y /\ Residue(z, p) = z
    BY <1>0, ModType, y \in Nat, y < p
  <2>3. PICK u \in Nat : u = z * v
    BY <2>2
  <2>4. PICK n \in Nat : n = a * v
    BY <2>1
  <2>5. u * a = z * n /\ u * a = n * z
    <3>1. \A b, c, d \in Nat : (b * c) * d = b * (d * c) /\ (b * c) * d = (d * c) * b
      OBVIOUS
    <3> QED BY <2>3, <2>4, <3>1
  <2>6. Residue(Residue(u, p) * a, p) = Residue(u * a, p)
    BY <1>0, ModProduct
  <2>7. CASE i + 1 \in 0 .. m - 1
    <3>1. Residue(z * n, p) \in Coset(a, p, m, y)
      BY <2>1, <2>2, <2>4, <2>7 DEF Coset
    <3> QED BY <2>1, <2>2, <2>3, <2>5, <2>6, <3>1
  <2>8. CASE i + 1 = m
    <3>1. Residue(n, p) = 1
      BY <2>1, <2>4, <2>8 DEF Order
    <3>2. Residue(n * z, p) = Residue(Residue(n, p) * z, p)
      BY <1>0, ModProduct
    <3>3. 1 * z = z
      BY <2>2
    <3>4. Residue(u * a, p) = y
      BY <2>2, <2>5, <3>1, <3>2, <3>3
    <3> QED BY <1>1, <2>1, <2>2, <2>3, <2>6, <3>4
  <2>9. i + 1 \in 0 .. m - 1 \/ i + 1 = m
    OBVIOUS
  <2> QED BY <2>7, <2>8, <2>9
<1>3. \A c \in Coset(a, p, m, y) : Residue(c * a, p) \in Coset(a, p, m, y)
  BY <1>2 DEF Coset
<1> QED BY <1>1, <1>3 DEF Closed

\* The remainders but 0 are so many cosets.
LEMMA OrderDivides ==
  ASSUME NEW p \in Nat, Prime(p), NEW a \in Nat, Residue(a, p) # 0, NEW m \in Nat, Order(a, p, m)
  PROVE  \E c \in Nat : p - 1 = m * c
<1>0. p > 1 /\ m > 0
  BY DEF Prime, Order
<1>1. SUFFICES ASSUME \A c \in Nat : p - 1 # m * c PROVE FALSE
  OBVIOUS
<1> DEFINE Whole == 1 .. p - 1
           Z == {c \in Nat : \E X : Closed(a, p, X) /\ Cardinality(X) = m * c}
<1>2. IsFiniteSet(Whole) /\ Cardinality(Whole) = p - 1
  <2>1. 1 \in Int /\ p - 1 \in Int
    OBVIOUS
  <2>2. /\ IsFiniteSet(1 .. p - 1)
        /\ Cardinality(1 .. p - 1) = IF 1 > p - 1 THEN 0 ELSE (p - 1) - 1 + 1
    BY <2>1, FS_Interval
  <2> QED BY <1>0, <2>2
<1> HIDE DEF Whole
<1>3. \A X : Closed(a, p, X) => X \in SUBSET Whole
  BY DEF Closed, Whole
<1>4. 0 \in Z
  <2>1. Closed(a, p, {})
    BY DEF Closed
  <2>2. Cardinality({}) = m * 0
    BY FS_EmptySet, m * 0 = 0
  <2> QED BY <2>1, <2>2
<1>5. ASSUME NEW c \in Nat, c \in Z PROVE c + 1 \in Z
  <2>1. PICK X : Closed(a, p, X) /\ Cardinality(X) = m * c
    BY <1>5
  <2>2. X \in SUBSET Whole /\ X # Whole
    BY <1>1, <1>2, <1>3, <2>1
  <2>3. PICK y \in Whole : y \notin X
    BY <2>2
  <2>4. y \in 1 .. p - 1
    BY <2>3 DEF Whole
  <2>5. /\ IsFiniteSet(Coset(a, p, m, y)) /\ Cardinality(Coset(a, p, m, y)) = m
        /\ Coset(a, p, m, y) \cap X = {}
    BY <1>0, <2>1, <2>3, <2>4, CosetSize, CosetApart
  <2> DEFINE Y == X \cup Coset(a, p, m, y)
  <2>6. Closed(a, p, Y)
    BY <2>1, <2>4, WithCoset
  <2>7. IsFiniteSet(X)
    BY <1>2, <2>2, FS_Subset
  <2>8. Cardinality(Y) = m * c + m
    <3>1. X \cap Coset(a, p, m, y) = {}
      BY <2>5
    <3>2. Cardinality(Y) = Cardinality(X) + Cardinality(Coset(a, p, m, y))
                             - Cardinality(X \cap Coset(a, p, m, y))
      BY <2>5, <2>7, FS_Union
    <3>3. m * c \in Nat
      OBVIOUS
    <3>4. Cardinality(X \cap Coset(a, p, m, y)) = 0
      BY <3>1, FS_EmptySet
    <3> QED BY <2>1, <2>5, <3>2, <3>3, <3>4
  <2>9. m * (c + 1) = m * c + m
    OBVIOUS
  <2> HIDE DEF Y
  <2> QED BY <2>6, <2>8, <2>9
<1>6. p \in Z
  <2>1. Z \in SUBSET Nat
    OBVIOUS
  <2> HIDE DEF Z
  <2> QED BY <1>4, <1>5, <2>1, Inductive
<1>7. PICK X : Closed(a, p, X) /\ Cardinality(X) = m * p
  BY <1>6
<1>8. Cardinality(X) <= p - 1
  BY <1>2, <1>3, <1>7, FS_Subset
<1>9. m * p >= p
  <2>1. (m - 1) * p >= 0 /\ (m - 1) * p = m * p - p
    BY <1>0
  <2>2. m * p \in Nat
    OBVIOUS
  <2> QED BY <2>1, <2>2
<1> QED BY <1>7, <1>8, <1>9

\* Fermat's little theorem: the powers of a number that p does not divide come back
\* to 1 after p - 1 steps.
LEMMA Fermat ==
  ASSUME NEW p \in Nat, Prime(p), NEW a \in Nat, Residue(a, p) # 0
  PROVE  Residue(Raised(a, p - 1), p) = 1
<1>0. p > 1
  BY DEF Prime
<1>1. PICK m \in Nat : Order(a, p, m)
  BY OrderExists
<1>2. PICK c \in Nat : p - 1 = m * c
  BY <1>1, OrderDivides
<1> DEFINE Z == {k \in Nat : Residue(Raised(a, m * k), p) = 1}
<1>3. 0 \in Z
  <2>1. m * 0 = 0 /\ Raised(a, 0) = 1 /\ Residue(1, p) = 1
    BY <1>0, RaisedSteps, ModType, 1 \in Nat
  <2> QED BY <2>1
<1>4. ASSUME NEW k \in Nat, k \in Z PROVE k + 1 \in Z
  <2>1. PICK j \in Nat : j = m * k
    OBVIOUS
  <2>2. m * (k + 1) = j + m
    BY <2>1
  <2>3. PICK v \in Nat, w \in Nat : v = Raised(a, j) /\ w = Raised(a, m)
    BY RaisedSteps
  <2>4. Raised(a, j + m) = v * w
    BY <2>3, RaisedSum
  <2>5. Residue(v, p) = 1 /\ Residue(w, p) = 1
    BY <1>1, <1>4, <2>1, <2>3 DEF Order
  <2>6. Residue(v * w, p) = Residue(Residue(v, p) * w, p)
    BY <1>0, ModProduct
  <2>7. 1 * w = w
    OBVIOUS
  <2>8. Residue(Raised(a, m * (k + 1)), p) = 1
    BY <2>2, <2>4, <2>5, <2>6, <2>7
  <2> QED BY <2>8
<1>5. \A k \in Nat : k \in Z
  <2>1. Z \in SUBSET Nat
    OBVIOUS
  <2> HIDE DEF Z
  <2> QED BY <1>3, <1>4, <2>1, Inductive
<1> QED BY <1>2, <1>5

------------------------------------------------------------------------------
(* Squares that become 1.                                                    *)

LEMMA RootsOfOne ==
  ASSUME NEW p \in Nat, Prime(p), NEW v \in Nat, v < p, Residue(v * v, p) = 1
  PROVE  v = 1 \/ v = p - 1
<1>0. p > 1
  BY DEF Prime
<1>1. v # 0
  <2>1. SUFFICES ASSUME v = 0 PROVE FALSE
    OBVIOUS
  <2>2. v * v = 0 /\ Residue(0, p) = 0
    BY <1>0, <2>1, ModType, 0 \in Nat
  <2> QED BY <2>2
<1>2. PICK u \in Nat : v = u + 1
  BY <1>1, v - 1 \in Nat, v = (v - 1) + 1
<1>3. PICK w \in Nat : w = v + 1
  OBVIOUS
<1>4. u * w = v * v - 1
  <2>1. u * (v + 1) = u * v + u /\ (u + 1) * v = u * v + v
    OBVIOUS
  <2>2. u * v \in Nat /\ v * v = (u + 1) * v
    BY <1>2
  <2> QED BY <1>2, <1>3, <2>1, <2>2
<1>5. Residue(u * w, p) = 0
  <2>1. PICK a \in Nat : a = v * v
    OBVIOUS
  <2>2. PICK c \in Nat : c = 1
    OBVIOUS
  <2>3. Residue(a, p) = Residue(c, p) /\ c <= a
    <3>1. Residue(c, p) = c
      BY <1>0, <2>2, ModType
    <3>2. v * v >= 1
      BY <1>1
    <3> QED BY <2>1, <2>2, <3>1, <3>2
  <2>4. Residue(a - c, p) = 0
    BY <1>0, <2>3, ModDifference
  <2> QED BY <1>4, <2>1, <2>2, <2>4
<1>6. Residue(u, p) = 0 \/ Residue(w, p) = 0
  BY <1>5, PrimeFactor
<1>7. Residue(u, p) = u /\ (w < p => Residue(w, p) = w)
  BY <1>0, <1>2, ModType
<1> QED BY <1>2, <1>3, <1>6, <1>7

\* The d * 2^k-th power of b.
Squared(b, d, k, p) == Residue(Raised(b, d * Raised(2, k)), p)

LEMMA SquaredSteps ==
  ASSUME NEW p \in Nat, p > 1, NEW b \in Nat, NEW d \in Nat
  PROVE  /\ Squared(b, d, 0, p) = Residue(Raised(b, d), p)
         /\ \A k \in Nat : /\ Squared(b, d, k, p) \in Nat /\ Squared(b, d, k, p) < p
                           /\ Squared(b, d, k + 1, p)
                                = Residue(Squared(b, d, k, p) * Squared(b, d, k, p), p)
<1>1. Squared(b, d, 0, p) = Residue(Raised(b, d), p)
  <2>1. Raised(2, 0) = 1 /\ d * 1 = d
    BY RaisedSteps
  <2> QED BY <2>1 DEF Squared
<1>2. ASSUME NEW k \in Nat
      PROVE  /\ Squared(b, d, k, p) \in Nat /\ Squared(b, d, k, p) < p
             /\ Squared(b, d, k + 1, p) = Residue(Squared(b, d, k, p) * Squared(b, d, k, p), p)
  <2>1. PICK e \in Nat : e = Raised(2, k) /\ Raised(2, k + 1) = 2 * e
    BY RaisedSteps
  <2>2. PICK n \in Nat : n = d * e
    OBVIOUS
  <2>3. d * (2 * e) = n + n
    BY <2>2
  <2>4. PICK v \in Nat : v = Raised(b, n)
    BY RaisedSteps
  <2>5. Raised(b, n + n) = v * v
    BY <2>4, RaisedSum
  <2>6. Residue(v * v, p) = Residue(Residue(v, p) * Residue(v, p), p)
    BY ModProduct
  <2>7. Residue(v, p) \in Nat /\ Residue(v, p) < p
    BY ModType
  <2>8. Squared(b, d, k, p) = Residue(v, p)
    BY <2>1, <2>2, <2>4 DEF Squared
  <2>9. Squared(b, d, k + 1, p) = Residue(v * v, p)
    BY <2>1, <2>3, <2>5 DEF Squared
  <2> QED BY <2>6, <2>7, <2>8, <2>9
<1> QED BY <1>1, <1>2

\* Once 1 the squares remain 1.
LEMMA SquaresStay ==
  ASSUME NEW p \in Nat, p > 1, NEW b \in Nat, NEW d \in Nat, NEW j \in Nat,
         Squared(b, d, j, p) = 1
  PROVE  \A k \in Nat : Squared(b, d, j + k, p) = 1
<1> DEFINE Z == {k \in Nat : Squared(b, d, j + k, p) = 1}
<1>1. 0 \in Z
  BY j + 0 = j
<1>2. ASSUME NEW k \in Nat, k \in Z PROVE k + 1 \in Z
  <2>1. PICK n \in Nat : n = j + k /\ j + (k + 1) = n + 1
    OBVIOUS
  <2>2. Squared(b, d, n, p) = 1
    BY <1>2, <2>1
  <2>3. Squared(b, d, n + 1, p) = Residue(1 * 1, p)
    BY <2>2, SquaredSteps
  <2>4. 1 * 1 = 1 /\ Residue(1, p) = 1
    BY ModType, 1 \in Nat
  <2> QED BY <2>1, <2>3, <2>4
<1>3. \A k \in Nat : k \in Z
  <2>1. Z \in SUBSET Nat
    OBVIOUS
  <2> HIDE DEF Z
  <2> QED BY <1>1, <1>2, <2>1, Inductive
<1> QED BY <1>3

\* Miller and Rabin: for a prime number the powers come to 1 from its predecessor, or
\* start there.
LEMMA PrimesHaveNoWitness ==
  ASSUME NEW p \in Nat, Prime(p), NEW b \in Nat, Residue(b, p) # 0,
         NEW d \in Nat, NEW s \in Nat, p - 1 = d * Raised(2, s),
         Residue(Raised(b, d), p) # 1
  PROVE  \E k \in 0 .. s - 1 : Squared(b, d, k, p) = p - 1
<1>0. p > 1
  BY DEF Prime
<1> DEFINE Z == {k \in Nat : Squared(b, d, k, p) = 1}
<1>1. s \in Z
  BY Fermat DEF Squared
<1>2. PICK m \in Z : \A k \in Z : ~(k < m)
  BY <1>1, LeastNumber
<1>3. m \in Nat /\ Squared(b, d, m, p) = 1 /\ m <= s
  BY <1>1, <1>2
<1>4. m # 0
  BY <1>0, <1>3, SquaredSteps
<1>5. PICK k \in Nat : m = k + 1 /\ k \in 0 .. s - 1
  BY <1>3, <1>4, m - 1 \in Nat, m = (m - 1) + 1
<1>6. k \notin Z
  BY <1>2, <1>5
<1>7. PICK v \in Nat : v = Squared(b, d, k, p) /\ v < p /\ v # 1
  <2>1. Squared(b, d, k, p) # 1
    BY <1>6
  <2>2. Squared(b, d, k, p) \in Nat /\ Squared(b, d, k, p) < p
    BY <1>0, SquaredSteps
  <2> QED BY <2>1, <2>2
<1>8. Residue(v * v, p) = 1
  BY <1>0, <1>3, <1>5, <1>7, SquaredSteps
<1>9. v = p - 1
  BY <1>7, <1>8, RootsOfOne
<1> QED BY <1>5, <1>7, <1>9
==============================================================================
