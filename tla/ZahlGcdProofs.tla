---------------------------- MODULE ZahlGcdProofs ----------------------------
(* For every width of characters and of integers and all operands: zgcd    *)
(* puts its pointers back, its loop keeps the common divisors, and what it *)
(* stores is the greatest of them, unless zsub_impl loses a character.     *)
EXTENDS ZahlGcd, WellFoundedInduction, TLAPS

LEMMA PowerType ==
  /\ \A n \in 0 .. MaxBits : Power[n] \in Nat /\ Power[n] > 0
  /\ \A n \in 0 .. MaxBits : n > 0 => Power[n] = 2 * Power[n - 1]
  /\ Power[0] = 1 /\ MaxBits \in Nat /\ CharBits \in Nat \ {0} /\ MaxChars \in Nat
<1>1. \A i, j \in Nat : i * j \in Nat
  OBVIOUS
<1>2. MaxBits \in Nat
  BY <1>1, GcdAssumption DEF MaxBits
<1> QED BY <1>2, GcdAssumption

\* A set of numbers without a least element is empty.
LEMMA LeastNumber ==
  ASSUME NEW S \in SUBSET Nat, S # {}
  PROVE  \E m \in S : \A k \in S : ~(k < m)
<1>1. PICK m \in S : \A k \in S : <<k, m>> \notin OpToRel(<, Nat)
  BY WFMin, NatLessThanWellFounded, Zenon
<1>2. \A k \in S : ~(k < m)
  BY <1>1, Zenon DEF OpToRel
<1> QED BY <1>2

LEMMA PowerMonotone ==
  ASSUME NEW m \in 0 .. MaxBits
  PROVE  \A n \in 0 .. MaxBits : m <= n => Power[m] <= Power[n]
<1> DEFINE S == {n \in 0 .. MaxBits : m <= n /\ ~(Power[m] <= Power[n])}
<1>1. SUFFICES ASSUME S # {} PROVE FALSE
  OBVIOUS
<1>2. S \in SUBSET Nat
  BY PowerType
<1>3. PICK n \in S : \A k \in S : ~(k < n)
  BY <1>1, <1>2, LeastNumber
<1>4. n # m
  BY PowerType
<1>5. n \in Nat /\ n <= MaxBits /\ n - 1 \in 0 .. MaxBits /\ n - 1 < n /\ m <= n - 1
  BY <1>4, PowerType
<1>6. Power[m] <= Power[n - 1]
  BY <1>3, <1>5
<1>7. Power[n] = 2 * Power[n - 1] /\ Power[n - 1] \in Nat /\ Power[m] \in Nat
  BY <1>5, PowerType
<1> QED BY <1>3, <1>6, <1>7

LEMMA PowerSum ==
  ASSUME NEW m \in 0 .. MaxBits
  PROVE  \A n \in 0 .. MaxBits : m + n <= MaxBits => Power[m + n] = Power[m] * Power[n]
<1> DEFINE S == {n \in 0 .. MaxBits : m + n <= MaxBits /\ Power[m + n] # Power[m] * Power[n]}
<1>1. SUFFICES ASSUME S # {} PROVE FALSE
  OBVIOUS
<1>2. S \in SUBSET Nat
  BY PowerType
<1>3. PICK n \in S : \A k \in S : ~(k < n)
  BY <1>1, <1>2, LeastNumber
<1>4. n # 0
  BY PowerType
<1>5. /\ n \in Nat /\ n <= MaxBits /\ n - 1 \in 0 .. MaxBits /\ n - 1 < n
      /\ m + n \in 0 .. MaxBits /\ m + (n - 1) \in 0 .. MaxBits /\ m + n > 0
      /\ (m + n) - 1 = m + (n - 1)
  BY <1>3, <1>4, PowerType
<1>6. Power[m + (n - 1)] = Power[m] * Power[n - 1]
  BY <1>3, <1>5
<1>7. Power[m + n] = 2 * Power[m + (n - 1)] /\ Power[n] = 2 * Power[n - 1]
  BY <1>5, PowerType
<1>8. \A x, y \in Nat : 2 * (x * y) = x * (2 * y)
  OBVIOUS
<1>9. Power[m] \in Nat /\ Power[n - 1] \in Nat
  BY <1>5, PowerType
<1> QED BY <1>3, <1>6, <1>7, <1>8, <1>9

-----------------------------------------------------------------------------
(* Divisibility.                                                            *)

LEMMA DivisionLaw ==
  ASSUME NEW n \in Nat, NEW d \in Nat, d > 0
  PROVE  n \div d \in Nat /\ n % d \in 0 .. d - 1 /\ n = d * (n \div d) + (n % d)
<1> DEFINE m == n \div d
           r == n % d
<1>1. m \in Int /\ r \in Int /\ 0 <= r /\ r < d /\ n = d * m + r
  OBVIOUS
<1> HIDE DEF m, r
<1>2. m >= 0
  <2>1. SUFFICES ASSUME m <= -1 PROVE FALSE
    BY <1>1
  <2>2. d * (-1 - m) >= 0
    BY <1>1, <2>1
  <2>3. d * (-1 - m) = -d - d * m
    BY <1>1
  <2> QED BY <1>1, <2>2, <2>3
<1>3. m \in Nat /\ r \in 0 .. d - 1 /\ n = d * m + r
  BY <1>1, <1>2
<1> QED BY <1>3, Zenon DEF m, r

LEMMA NoRemainder ==
  ASSUME NEW k \in Int, NEW m \in Int, NEW d \in Nat, NEW r \in Int,
         d * k = d * m + r, 0 <= r, r < d
  PROVE  r = 0 /\ k = m
<1>1. CASE k > m
  <2>1. d * (k - m - 1) >= 0
    BY <1>1
  <2>2. d * (k - m - 1) = d * k - d * m - d
    OBVIOUS
  <2> QED BY <2>1, <2>2
<1>2. CASE k < m
  <2>1. d * (m - k) >= d
    BY <1>2
  <2>2. d * (m - k) = d * m - d * k
    OBVIOUS
  <2> QED BY <2>1, <2>2
<1> QED BY <1>1, <1>2

LEMMA DividesMeans ==
  ASSUME NEW n \in Nat, NEW d \in Nat, d > 0
  PROVE  Divides(d, n) <=> \E k \in Nat : n = d * k
<1>1. Divides(d, n) => \E k \in Nat : n = d * k
  BY DivisionLaw DEF Divides
<1>2. ASSUME NEW k \in Nat, n = d * k PROVE n % d = 0
  <2> DEFINE m == n \div d
             r == n % d
  <2>1. m \in Int /\ r \in Int /\ 0 <= r /\ r < d /\ n = d * m + r
    BY DivisionLaw
  <2> HIDE DEF m, r
  <2>2. d * k = d * m + r
    BY <1>2, <2>1
  <2>3. r = 0
    BY <2>1, <2>2, NoRemainder
  <2> QED BY <2>3 DEF r
<1> QED BY <1>1, <1>2 DEF Divides

LEMMA OddMeans ==
  ASSUME NEW n \in Nat
  PROVE  /\ Odd(n) <=> \E k \in Nat : n = 2 * k + 1
         /\ ~Odd(n) <=> \E k \in Nat : n = 2 * k
BY DEF Odd

LEMMA OddProduct ==
  ASSUME NEW x \in Nat, NEW y \in Nat
  PROVE  Odd(x * y) <=> Odd(x) /\ Odd(y)
<1>1. CASE Odd(x) /\ Odd(y)
  <2>1. PICK i \in Nat : x = 2 * i + 1
    BY <1>1, OddMeans
  <2>2. PICK j \in Nat : y = 2 * j + 1
    BY <1>1, OddMeans
  <2>3. x * y = 2 * (2 * (i * j) + i + j) + 1
    BY <2>1, <2>2
  <2>4. 2 * (i * j) + i + j \in Nat /\ x * y \in Nat
    OBVIOUS
  <2> QED BY <1>1, <2>3, <2>4, OddMeans
<1>2. CASE ~Odd(x)
  <2>1. PICK i \in Nat : x = 2 * i
    BY <1>2, OddMeans
  <2>2. x * y = 2 * (i * y) /\ i * y \in Nat /\ x * y \in Nat
    BY <2>1
  <2> QED BY <1>2, <2>2, OddMeans
<1>3. CASE ~Odd(y)
  <2>1. PICK i \in Nat : y = 2 * i
    BY <1>3, OddMeans
  <2>2. x * y = 2 * (x * i) /\ x * i \in Nat /\ x * y \in Nat
    BY <2>1
  <2> QED BY <1>3, <2>2, OddMeans
<1> QED BY <1>1, <1>2, <1>3

\* A divisor is no greater, and one of an odd number is odd.
LEMMA DivisorOf ==
  ASSUME NEW n \in Nat, n > 0, NEW d \in Nat, d > 0, Divides(d, n)
  PROVE  d <= n /\ (Odd(n) => Odd(d))
<1>1. PICK k \in Nat : n = d * k
  BY DividesMeans
<1>2. k > 0
  BY <1>1
<1>3. d * (k - 1) >= 0 /\ d * (k - 1) = d * k - d
  BY <1>2
<1>4. d <= n
  BY <1>1, <1>3
<1>5. Odd(n) => Odd(d)
  BY <1>1, OddProduct
<1> QED BY <1>4, <1>5

LEMMA DividesSum ==
  ASSUME NEW x \in Nat, NEW y \in Nat, x <= y, NEW d \in Nat, d > 0, Divides(d, x)
  PROVE  Divides(d, y) <=> Divides(d, y - x)
<1>1. PICK i \in Nat : x = d * i
  BY DividesMeans
<1>2. y - x \in Nat
  OBVIOUS
<1>3. ASSUME Divides(d, y) PROVE Divides(d, y - x)
  <2>1. PICK j \in Nat : y = d * j
    BY <1>3, DividesMeans
  <2>2. y - x = d * (j - i)
    BY <1>1, <2>1
  <2>3. j >= i
    <3>1. SUFFICES ASSUME j < i PROVE FALSE
      OBVIOUS
    <3>2. d * (i - j) >= d /\ d * (i - j) = d * i - d * j
      BY <3>1
    <3> QED BY <1>1, <2>1, <3>2
  <2>4. j - i \in Nat
    BY <2>3
  <2>5. \E k \in Nat : y - x = d * k
    BY <2>2, <2>4
  <2> QED BY <1>2, <2>5, DividesMeans
<1>4. ASSUME Divides(d, y - x) PROVE Divides(d, y)
  <2>1. PICK j \in Nat : y - x = d * j
    BY <1>2, <1>4, DividesMeans
  <2>2. y = d * (j + i) /\ j + i \in Nat
    BY <1>1, <2>1
  <2> QED BY <2>2, DividesMeans
<1> QED BY <1>3, <1>4

LEMMA DividesTransitive ==
  ASSUME NEW n \in Nat, NEW d \in Nat, d > 0, NEW e \in Nat, e > 0,
         Divides(e, d), Divides(d, n)
  PROVE  Divides(e, n)
<1>1. PICK i \in Nat : d = e * i
  BY DividesMeans
<1>2. PICK j \in Nat : n = d * j
  BY DividesMeans
<1>3. n = e * (i * j) /\ i * j \in Nat
  BY <1>1, <1>2
<1> QED BY <1>3, DividesMeans

LEMMA DividesMultiple ==
  ASSUME NEW w \in Nat, NEW m \in Nat, NEW d \in Nat, d > 0, Divides(d, w)
  PROVE  Divides(d, m * w)
<1>1. PICK k \in Nat : w = d * k
  BY DividesMeans
<1>2. m * w = d * (m * k) /\ m * k \in Nat /\ m * w \in Nat
  BY <1>1
<1> QED BY <1>2, DividesMeans

\* Euclid's lemma for powers of two: an odd number that divides a multiple of one
\* divides the other factor.
LEMMA OddDivisor ==
  ASSUME NEW w \in Nat, NEW d \in Nat, d > 0, Odd(d)
  PROVE  \A n \in 0 .. MaxBits : Divides(d, Power[n] * w) => Divides(d, w)
<1> DEFINE S == {n \in 0 .. MaxBits : Divides(d, Power[n] * w) /\ ~Divides(d, w)}
<1>1. SUFFICES ASSUME S # {} PROVE FALSE
  OBVIOUS
<1>2. S \in SUBSET Nat
  BY PowerType
<1>3. PICK n \in S : \A k \in S : ~(k < n)
  BY <1>1, <1>2, LeastNumber
<1>4. n # 0
  <2>1. SUFFICES ASSUME n = 0 PROVE Divides(d, w)
    BY <1>3
  <2>2. Power[n] * w = w
    BY <2>1, PowerType
  <2> QED BY <1>3, <2>2
<1>5. /\ n \in Nat /\ n \in 0 .. MaxBits /\ n - 1 \in 0 .. MaxBits /\ n - 1 < n
      /\ Power[n] = 2 * Power[n - 1] /\ Power[n - 1] \in Nat
  BY <1>4, PowerType
<1> DEFINE z == Power[n - 1] * w
<1>6. z \in Nat /\ Power[n] * w = 2 * z
  BY <1>5
<1>7. Divides(d, 2 * z)
  BY <1>3, <1>6
<1> HIDE DEF z
<1>8. PICK k \in Nat : 2 * z = d * k
  BY <1>6, <1>7, DividesMeans
<1>9. ~Odd(k)
  <2>1. ~Odd(d * k)
    BY <1>6, <1>8, OddMeans
  <2> QED BY <2>1, OddProduct
<1>10. PICK j \in Nat : k = 2 * j
  BY <1>9, OddMeans
<1>11. 2 * z = 2 * (d * j)
  BY <1>8, <1>10
<1>12. z = d * j
  BY <1>6, <1>11
<1>13. Divides(d, z)
  BY <1>6, <1>12, DividesMeans
<1>14. n - 1 \in S
  BY <1>3, <1>5, <1>13 DEF z
<1> QED BY <1>3, <1>5, <1>14
\* Every number below the largest power is a power of two times an odd number.
LEMMA OddPart ==
  ASSUME NEW n \in Nat, 0 < n, n < Power[MaxBits]
  PROVE  \E k \in 0 .. MaxBits, e \in Nat : n = Power[k] * e /\ Odd(e)
<1> DEFINE P(d) == \E k \in 0 .. MaxBits, e \in Nat : d = Power[k] * e /\ Odd(e)
           S == {d \in Nat : 0 < d /\ d < Power[MaxBits] /\ ~P(d)}
<1>1. SUFFICES ASSUME S # {} PROVE FALSE
  OBVIOUS
<1>2. S \in SUBSET Nat
  OBVIOUS
<1>3. PICK d \in S : \A k \in S : ~(k < d)
  BY <1>1, <1>2, LeastNumber
<1>4. ~Odd(d)
  <2>1. SUFFICES ASSUME Odd(d) PROVE P(d)
    BY <1>3
  <2>2. d = Power[0] * d /\ 0 \in 0 .. MaxBits
    BY PowerType
  <2> QED BY <2>1, <2>2
<1>5. PICK h \in Nat : d = 2 * h
  BY <1>3, <1>4, OddMeans
<1>6. MaxBits \in 0 .. MaxBits /\ Power[MaxBits] \in Nat
  BY PowerType
<1>7. h \in Nat /\ 0 < h /\ h < d /\ h < Power[MaxBits]
  BY <1>3, <1>5, <1>6
<1>8. PICK k \in 0 .. MaxBits, e \in Nat : h = Power[k] * e /\ Odd(e)
  BY <1>3, <1>7
<1>9. e >= 1
  BY <1>8 DEF Odd
<1>10. Power[k] <= h
  <2>1. Power[k] \in Nat
    BY PowerType
  <2>2. Power[k] * (e - 1) >= 0 /\ Power[k] * (e - 1) = Power[k] * e - Power[k]
    BY <1>9, <2>1
  <2> QED BY <1>8, <2>1, <2>2
<1>11. k # MaxBits
  BY <1>6, <1>7, <1>10
<1>12. k + 1 \in 0 .. MaxBits /\ Power[k + 1] = 2 * Power[k] /\ Power[k] \in Nat
  BY <1>11, PowerType
<1>13. d = Power[k + 1] * e
  BY <1>5, <1>8, <1>12
<1> QED BY <1>3, <1>8, <1>12, <1>13

-----------------------------------------------------------------------------
(* Steps of the loop.                                                       *)

LEMMA BaseType == \A k \in 0 .. MaxChars : /\ CharBits * k \in 0 .. MaxBits
                                           /\ BasePower(k) \in Nat /\ BasePower(k) > 0
<1> SUFFICES ASSUME NEW k \in 0 .. MaxChars
             PROVE  CharBits * k \in 0 .. MaxBits /\ BasePower(k) \in Nat /\ BasePower(k) > 0
  OBVIOUS
<1>1. CharBits * k >= 0 /\ CharBits * (MaxChars - k) >= 0
  BY PowerType
<1>2. CharBits * (MaxChars - k) = CharBits * MaxChars - CharBits * k
  BY PowerType
<1>3. CharBits * k \in 0 .. MaxBits
  BY <1>1, <1>2, PowerType DEF MaxBits
<1> QED BY <1>3, PowerType DEF BasePower

LEMMA BaseMonotone ==
  ASSUME NEW k \in 0 .. MaxChars, NEW m \in 0 .. MaxChars, k <= m
  PROVE  BasePower(k) <= BasePower(m)
<1>1. CharBits * (m - k) >= 0 /\ CharBits * (m - k) = CharBits * m - CharBits * k
  BY PowerType
<1>2. CharBits * k <= CharBits * m
  BY <1>1, PowerType
<1> QED BY <1>2, BaseType, PowerMonotone DEF BasePower

\* A difference is not negative, even if it loses its top.
LEMMA DifferenceType ==
  ASSUME NEW x \in Nat, NEW y \in Nat, x < y, NEW w \in Difference(x, y)
  PROVE  w \in Nat
<1>1. CASE w = y - x
  BY <1>1
<1>2. CASE w # y - x
  <2>1. PICK n \in 1 .. MaxChars, m \in 1 .. MaxChars, top \in 1 .. MaxChars :
          LosesTop(x, y, n, m, top) /\ w = WithoutTop(x, y, m, top)
    BY <1>2 DEF Difference
  <2>2. n <= m /\ m + 1 \in 0 .. MaxChars /\ top - m - 2 \in 0 .. MaxChars /\ x < BasePower(n)
    BY <2>1, PowerType DEF LosesTop, IsUsed
  <2>3. x < BasePower(m)
    BY <2>2, BaseMonotone, BaseType
  <2> DEFINE A == BasePower(m)
             B == BasePower(m + 1)
             C == BasePower(top - m - 2)
             D == (y \div B) % C
             E == y % A
  <2>4. A \in Nat /\ A > 0 /\ B \in Nat /\ B > 0 /\ C \in Nat /\ C > 0
    BY <2>2, BaseType
  <2>5. w = D * B + A + (A + E - x)
    BY <2>1 DEF WithoutTop
  <2> HIDE DEF A, B, C
  <2>6. D \in Nat /\ E \in Nat
    BY <2>4, DivisionLaw
  <2>7. x < A
    BY <2>3 DEF A
  <2> HIDE DEF D, E
  <2>8. D * B \in Nat
    BY <2>4, <2>6
  <2> QED BY <2>4, <2>5, <2>6, <2>7, <2>8
<1> QED BY <1>1, <1>2

LEMMA Halved ==
  ASSUME NEW w \in Nat, NEW n \in 0 .. MaxBits, IsLsb(w, n)
  PROVE  /\ Rsh(w, n) \in Nat /\ Rsh(w, n) > 0 /\ Odd(Rsh(w, n))
         /\ w = Power[n] * Rsh(w, n) /\ Rsh(w, n) <= w
<1>1. Power[n] \in Nat /\ Power[n] > 0
  BY PowerType
<1>2. w \div Power[n] \in Nat /\ w = Power[n] * (w \div Power[n]) + (w % Power[n])
  BY <1>1, DivisionLaw
<1> DEFINE h == Rsh(w, n)
<1>3. h \in Nat /\ w = Power[n] * h /\ Odd(h)
  BY <1>1, <1>2 DEF IsLsb, Rsh
<1> HIDE DEF h
<1>4. h > 0
  BY <1>3 DEF Odd
<1>5. (Power[n] - 1) * h >= 0 /\ (Power[n] - 1) * h = Power[n] * h - h
  BY <1>1, <1>3
<1> QED BY <1>1, <1>3, <1>4, <1>5 DEF h

\* Subtracting and shifting keeps the common divisors of odd numbers.
LEMMA TurnKeepsDivisors ==
  ASSUME NEW x \in Nat, NEW y \in Nat, 0 < x, x < y, Odd(x),
         NEW n \in 0 .. MaxBits, IsLsb(y - x, n), NEW d \in Nat, d > 0
  PROVE  Divides(d, x) /\ Divides(d, Rsh(y - x, n)) <=> Divides(d, x) /\ Divides(d, y)
<1> DEFINE w == y - x
           h == Rsh(w, n)
<1>1. w \in Nat /\ IsLsb(w, n)
  OBVIOUS
<1>2. h \in Nat /\ w = Power[n] * h /\ Power[n] \in Nat
  BY <1>1, Halved, PowerType
<1>3. SUFFICES ASSUME Divides(d, x) PROVE Divides(d, h) <=> Divides(d, y)
  OBVIOUS
<1>4. Divides(d, y) <=> Divides(d, w)
  BY <1>3, DividesSum
<1>5. Divides(d, h) => Divides(d, Power[n] * h)
  BY <1>2, DividesMultiple
<1>6. Odd(d)
  BY <1>3, DivisorOf
<1>7. Divides(d, Power[n] * h) => Divides(d, h)
  BY <1>2, <1>6, OddDivisor
<1> HIDE DEF h, w
<1> QED BY <1>2, <1>4, <1>5, <1>7
-----------------------------------------------------------------------------
(* The end of the loop.                                                     *)

\* If h is odd and divides the odd part x of m, it divides m with as many twos as
\* they have in common.
LEMMA WithShift ==
  ASSUME NEW x \in Nat, NEW h \in Nat, h > 0, Divides(h, x),
         NEW i \in 0 .. MaxBits, NEW k \in 0 .. MaxBits, k <= i
  PROVE  Divides(Power[k] * h, Power[i] * x)
<1>1. PICK f \in Nat : x = h * f
  BY DividesMeans
<1>2. i - k \in 0 .. MaxBits /\ i = k + (i - k)
  BY PowerType
<1>3. Power[i] = Power[k] * Power[i - k]
  BY <1>2, PowerSum
<1>4. Power[i] \in Nat /\ Power[k] \in Nat /\ Power[k] > 0 /\ Power[i - k] \in Nat
  BY <1>2, PowerType
<1>5. Power[i] * x = (Power[k] * h) * (Power[i - k] * f)
  BY <1>1, <1>3, <1>4
<1>6. Power[i] * x \in Nat /\ Power[k] * h \in Nat /\ Power[k] * h > 0 /\ Power[i - k] * f \in Nat
  BY <1>4
<1> QED BY <1>5, <1>6, DividesMeans

\* A divisor has no more twos than the number.
LEMMA TwosOfDivisor ==
  ASSUME NEW x \in Nat, Odd(x), NEW e \in Nat, e > 0,
         NEW i \in 0 .. MaxBits, NEW k \in 0 .. MaxBits,
         Divides(Power[k] * e, Power[i] * x)
  PROVE  k <= i
<1>1. SUFFICES ASSUME i < k PROVE FALSE
  BY PowerType
<1>2. /\ Power[i] \in Nat /\ Power[i] > 0 /\ Power[k] \in Nat /\ Power[k] > 0
      /\ k - i \in 0 .. MaxBits /\ k - i > 0 /\ k = i + (k - i) /\ (k - i) - 1 \in 0 .. MaxBits
  BY <1>1, PowerType
<1>3. Power[k - i] = 2 * Power[(k - i) - 1] /\ Power[(k - i) - 1] \in Nat
  BY <1>2, PowerType
<1>4. Power[k] = Power[i] * Power[k - i]
  BY <1>2, PowerSum
<1> DEFINE t == Power[(k - i) - 1]
<1>5. Power[k] = Power[i] * (2 * t) /\ t \in Nat
  BY <1>3, <1>4
<1> HIDE DEF t
<1>6. Power[k] * e \in Nat /\ Power[k] * e > 0 /\ Power[i] * x \in Nat
  BY <1>2
<1>7. PICK f \in Nat : Power[i] * x = (Power[k] * e) * f
  BY <1>6, DividesMeans
<1> DEFINE z == 2 * (t * e * f)
<1>8. Power[i] * x = Power[i] * z /\ z \in Nat
  BY <1>2, <1>5, <1>7
<1>9. ~Odd(z)
  <2>1. t * e * f \in Nat
    BY <1>5
  <2> QED BY <1>8, <2>1, OddMeans
<1> HIDE DEF z
<1>10. x = z
  BY <1>2, <1>8, NoRemainder
<1> QED BY <1>9, <1>10

HasDivisorsOf(h, x, y) ==
  \A d \in 1 .. Power[MaxBits] : Divides(d, h) <=> Divides(d, x) /\ Divides(d, y)

\* x is the odd part of m, which has i twos.
Parts(m, i, x) == m < Power[MaxBits] /\ m = Power[i] * x /\ Odd(x)

\* What zgcd has found when its loop ends: x and y are the odd parts of m and
\* n, k counts the twos they share, and h has the divisors of x and y.
Found(m, n, x, y, i, j, k, h) ==
  /\ 0 < m /\ Parts(m, i, x) /\ 0 < n /\ Parts(n, j, y)
  /\ k = IF i < j THEN i ELSE j
  /\ 0 < h /\ h < Power[MaxBits] /\ HasDivisorsOf(h, x, y)

IsGreatest(g, m, n) ==
  /\ Divides(g, m) /\ Divides(g, n)
  /\ \A d \in g + 1 .. m : ~(Divides(d, m) /\ Divides(d, n))

LEMMA GcdFound ==
  \A m, n, x, y, h \in Nat, i, j, k \in 0 .. MaxBits :
    Found(m, n, x, y, i, j, k, h) => IsGreatest(Power[k] * h, m, n)
<1> SUFFICES
      ASSUME NEW m \in Nat, NEW n \in Nat, NEW x \in Nat, NEW y \in Nat, NEW h \in Nat,
             NEW i \in 0 .. MaxBits, NEW j \in 0 .. MaxBits, NEW k \in 0 .. MaxBits,
             Found(m, n, x, y, i, j, k, h)
      PROVE  /\ Divides(Power[k] * h, m) /\ Divides(Power[k] * h, n)
             /\ \A d \in Power[k] * h + 1 .. m : ~(Divides(d, m) /\ Divides(d, n))
  BY Zenon DEF IsGreatest
<1> USE DEF Found
<1>0. /\ Power[MaxBits] \in Nat /\ Power[k] \in Nat /\ Power[k] > 0 /\ k <= i /\ k <= j
      /\ m < Power[MaxBits] /\ m = Power[i] * x /\ Odd(x)
      /\ n < Power[MaxBits] /\ n = Power[j] * y /\ Odd(y)
  BY PowerType DEF Parts
<1>1. Divides(h, h)
  <2>1. h = h * 1
    OBVIOUS
  <2> QED BY <2>1, DividesMeans
<1>2. Divides(h, x) /\ Divides(h, y)
  BY <1>0, <1>1 DEF HasDivisorsOf
<1>3. Divides(Power[k] * h, m) /\ Divides(Power[k] * h, n)
  BY <1>0, <1>2, WithShift
<1>4. ASSUME NEW d \in Power[k] * h + 1 .. m, Divides(d, m), Divides(d, n) PROVE FALSE
  <2>0. Power[k] * h \in Nat
    BY <1>0
  <2>1. d \in Nat /\ d > Power[k] * h /\ d > 0 /\ d < Power[MaxBits]
    BY <1>0, <2>0
  <2>2. PICK l \in 0 .. MaxBits, e \in Nat : d = Power[l] * e /\ Odd(e)
    BY <2>1, OddPart
  <2>3. e > 0 /\ Power[l] \in Nat /\ Power[l] > 0
    BY <2>2, PowerType DEF Odd
  <2>4. l <= i /\ l <= j
    BY <1>0, <1>4, <2>2, <2>3, TwosOfDivisor
  <2>5. l <= k
    BY <2>4
  <2>6. Divides(e, d)
    <3>1. d = e * Power[l]
      BY <2>2, <2>3
    <3> QED BY <2>1, <2>3, <3>1, DividesMeans
  <2>7. Divides(e, m) /\ Divides(e, n)
    BY <1>4, <2>1, <2>3, <2>6, DividesTransitive
  <2>8. Divides(e, x) /\ Divides(e, y)
    BY <1>0, <2>2, <2>3, <2>7, OddDivisor
  <2>9. e <= d
    BY <2>1, <2>3, <2>6, DivisorOf
  <2>10. Divides(e, h)
    BY <1>0, <2>1, <2>3, <2>8, <2>9 DEF HasDivisorsOf
  <2>11. e <= h
    BY <2>3, <2>10, DivisorOf
  <2>12. Power[l] <= Power[k]
    BY <2>5, PowerMonotone
  <2>13. Power[l] * e <= Power[k] * h
    <3>1. Power[l] * (h - e) >= 0 /\ (Power[k] - Power[l]) * h >= 0
      BY <1>0, <2>3, <2>11, <2>12
    <3>2. Power[l] * (h - e) = Power[l] * h - Power[l] * e
      BY <2>3
    <3>3. (Power[k] - Power[l]) * h = Power[k] * h - Power[l] * h
      BY <1>0, <2>3
    <3> QED BY <1>0, <2>3, <3>1, <3>2, <3>3
  <2> QED BY <2>0, <2>1, <2>2, <2>3, <2>13
<1> QED BY <1>3, <1>4
-----------------------------------------------------------------------------
(* The invariant.                                                           *)

LEMMA OperandType ==
  ASSUME NEW n \in Numbers
  PROVE  n \in Int /\ Mag(n) \in Nat /\ Mag(n) < Power[MaxBits] /\ (n # 0 => 0 < Mag(n))
<1>1. n \in Int /\ -Power[MaxBits] < n /\ n < Power[MaxBits] /\ Power[MaxBits] \in Nat
  BY GcdAssumption, PowerType
<1> QED BY <1>1 DEF Mag

LEMMA InitInv == Init => IndInv
<1> SUFFICES ASSUME Init PROVE IndInv
  OBVIOUS
<1>0. Home.u \in Pointers /\ Home.v \in Pointers
  BY DEF Pointers, Home
<1>1. TypeOK
  <2>1. shifts \in 0 .. MaxBits /\ a \in Int /\ u \in Nat /\ v \in Nat /\ p \in Nat /\ q \in Nat
    BY PowerType DEF Init
  <2> QED BY <1>0, <2>1, Zenon DEF Init, TypeOK
<1>2. LoopInvariant
  BY <1>1 DEF Init, LoopInvariant, OddAndPositive, Running, Stripped, InRange, SameDivisors
<1>3. PointersRestored
  BY DEF Init, PointersRestored, Home
<1>4. GcdExact
  BY DEF Init, GcdExact
<1> QED BY <1>2, <1>3, <1>4 DEF IndInv

LEMMA ZeroOperandInv == IndInv /\ ZeroOperand => IndInv'
<1> SUFFICES ASSUME IndInv, ZeroOperand PROVE IndInv'
  OBVIOUS
<1>1. TypeOK /\ PointersRestored /\ b \in Int /\ c \in Int
  BY OperandType DEF IndInv, LoopInvariant, TypeOK
<1>2. pc' = "returned" /\ result' = "ok" /\ a' = (IF b = 0 THEN c ELSE b) /\ (b = 0 \/ c = 0)
      /\ UNCHANGED <<b, c, u, v, p, q, shifts, lost, uAt, vAt>> /\ pc = "begin"
  BY DEF ZeroOperand, Return
<1>3. TypeOK'
  BY <1>1, <1>2 DEF TypeOK
<1>4. LoopInvariant'
  BY <1>2, <1>3 DEF LoopInvariant, OddAndPositive, Running, Stripped, InRange, SameDivisors
<1>5. PointersRestored'
  BY <1>1, <1>2 DEF PointersRestored
<1>6. GcdExact'
  BY <1>1, <1>2 DEF GcdExact, IsGcd
<1> QED BY <1>4, <1>5, <1>6 DEF IndInv

LEMMA MemoryFailsInv == IndInv /\ MemoryFails => IndInv'
<1> SUFFICES ASSUME IndInv, MemoryFails PROVE IndInv'
  OBVIOUS
<1>1. TypeOK /\ PointersRestored
  BY DEF IndInv, LoopInvariant
<1>2. pc' = "returned" /\ result' = "memory"
      /\ UNCHANGED <<a, b, c, u, v, p, q, shifts, lost, uAt, vAt>>
  BY DEF MemoryFails, Return
<1>3. TypeOK'
  BY <1>1, <1>2 DEF TypeOK
<1>4. LoopInvariant'
  BY <1>2, <1>3 DEF LoopInvariant, OddAndPositive, Running, Stripped, InRange, SameDivisors
<1>5. PointersRestored'
  BY <1>1, <1>2 DEF PointersRestored
<1>6. GcdExact'
  BY <1>2 DEF GcdExact
<1> QED BY <1>4, <1>5, <1>6 DEF IndInv

LEMMA StripInv == IndInv /\ Strip => IndInv'
<1> SUFFICES ASSUME IndInv, Strip PROVE IndInv'
  OBVIOUS
<1>1. TypeOK /\ PointersRestored
  BY DEF IndInv, LoopInvariant
<1>2. /\ pc = "begin" /\ pc' = "loop" /\ b # 0 /\ c # 0 /\ u' = p' /\ v' = q'
      /\ UNCHANGED <<b, c, a, result, uAt, vAt, lost>>
  BY DEF Strip
<1>3. PICK i \in 0 .. MaxBits, j \in 0 .. MaxBits :
        /\ IsLsb(Mag(b), i) /\ p' = Rsh(Mag(b), i)
        /\ IsLsb(Mag(c), j) /\ q' = Rsh(Mag(c), j)
        /\ shifts' = IF i < j THEN i ELSE j
  BY DEF Strip
<1>4. /\ Mag(b) \in Nat /\ 0 < Mag(b) /\ Mag(b) < Power[MaxBits]
      /\ Mag(c) \in Nat /\ 0 < Mag(c) /\ Mag(c) < Power[MaxBits]
  BY <1>1, <1>2, OperandType DEF TypeOK
<1>5. p' \in Nat /\ p' > 0 /\ Odd(p') /\ Mag(b) = Power[i] * p' /\ p' <= Mag(b)
  BY <1>3, <1>4, Halved
<1>6. q' \in Nat /\ q' > 0 /\ Odd(q') /\ Mag(c) = Power[j] * q' /\ q' <= Mag(c)
  BY <1>3, <1>4, Halved
<1>7. pc = "begin" => result = "none"
  BY DEF IndInv, LoopInvariant, Running
<1>8. TypeOK'
  BY <1>1, <1>2, <1>3, <1>5, <1>6 DEF TypeOK
<1>9. OddAndPositive' /\ InRange'
  <2>1. Power[MaxBits] \in Nat
    BY PowerType
  <2>2. u' < Power[MaxBits] /\ v' < Power[MaxBits]
    BY <1>2, <1>4, <1>5, <1>6, <2>1
  <2>3. InRange'
    BY <2>2 DEF InRange
  <2>4. OddAndPositive'
    BY <1>2, <1>5, <1>6 DEF OddAndPositive, Odd
  <2> QED BY <2>3, <2>4
<1>10. Running'
  BY <1>2, <1>7 DEF Running
<1>11. Stripped'
  BY <1>2, <1>3, <1>5, <1>6 DEF Stripped, Odd, Mag
<1>12. SameDivisors'
  BY <1>2 DEF SameDivisors, Divides
<1>13. PointersRestored'
  BY <1>1, <1>2, <1>10 DEF PointersRestored, Running
<1>14. GcdExact'
  BY <1>2 DEF GcdExact
<1> QED BY <1>8, <1>9, <1>10, <1>11, <1>12, <1>13, <1>14 DEF IndInv, LoopInvariant

LEMMA TurnInv == IndInv /\ Turn => IndInv'
<1> SUFFICES ASSUME IndInv, Turn PROVE IndInv'
  OBVIOUS
<1>1. /\ TypeOK /\ OddAndPositive /\ Running /\ Stripped /\ InRange /\ SameDivisors
      /\ PointersRestored /\ pc = "loop" /\ u # v
      /\ UNCHANGED <<b, c, a, pc, result, p, q, shifts>>
  BY DEF IndInv, LoopInvariant, Turn
<1> DEFINE swap == u > v
           x == IF swap THEN v ELSE u
           y == IF swap THEN u ELSE v
           at == IF swap THEN uAt ELSE vAt
<1>2. PICK w \in Difference(x, y), n \in 0 .. MaxBits :
        /\ IsLsb(w, n)
        /\ u' = x /\ v' = Rsh(w, n)
        /\ uAt' = IF swap THEN vAt ELSE uAt
        /\ vAt' = [at EXCEPT !.from = @ + (n \div CharBits)]
        /\ lost' = (lost \/ w # y - x)
  BY DEF Turn
<1>3. x \in Nat /\ y \in Nat /\ x < y /\ Odd(x) /\ 0 < x
  BY <1>1 DEF TypeOK, OddAndPositive
<1>4. w \in Nat
  BY <1>3, DifferenceType
<1>5. v' \in Nat /\ v' > 0 /\ Odd(v') /\ v' <= w
  BY <1>2, <1>4, Halved
<1>6. n \div CharBits \in Nat
  BY PowerType, DivisionLaw
<1>7. TypeOK'
  BY <1>1, <1>2, <1>3, <1>5, <1>6 DEF TypeOK, Pointers
<1>8. OddAndPositive'
  BY <1>1, <1>2, <1>3, <1>5 DEF OddAndPositive, Odd
<1>9. Running' /\ Stripped'
  BY <1>1 DEF Running, Stripped, Odd, Mag
<1>10. ASSUME ~lost' PROVE w = y - x /\ ~lost
  BY <1>1, <1>2, <1>10 DEF TypeOK
<1>11. InRange'
  BY <1>1, <1>2, <1>3, <1>5, <1>10, PowerType DEF InRange
<1>12. SameDivisors'
  <2> SUFFICES ASSUME ~lost', NEW d \in 1 .. Power[MaxBits]
               PROVE  Divides(d, u') /\ Divides(d, v') <=> Divides(d, p') /\ Divides(d, q')
    BY <1>1 DEF SameDivisors, Divides
  <2>1. d \in Nat /\ d > 0
    BY PowerType
  <2>2. Divides(d, x) /\ Divides(d, v') <=> Divides(d, x) /\ Divides(d, y)
    BY <1>2, <1>3, <1>10, <2>1, TurnKeepsDivisors
  <2>3. Divides(d, u) /\ Divides(d, v) <=> Divides(d, p) /\ Divides(d, q)
    BY <1>1, <1>10 DEF SameDivisors
  <2>4. Divides(d, x) /\ Divides(d, y) <=> Divides(d, u) /\ Divides(d, v)
    OBVIOUS
  <2> QED BY <1>1, <1>2, <2>2, <2>3, <2>4
<1>13. PointersRestored'
  BY <1>1, <1>2 DEF PointersRestored, Running, TypeOK, Pointers
<1>14. GcdExact'
  BY <1>1 DEF GcdExact
<1> QED BY <1>7, <1>8, <1>9, <1>11, <1>12, <1>13, <1>14 DEF IndInv, LoopInvariant

LEMMA StoreInv == IndInv /\ Store => IndInv'
<1> SUFFICES ASSUME IndInv, Store PROVE IndInv'
  OBVIOUS
<1>1. /\ TypeOK /\ OddAndPositive /\ Running /\ Stripped /\ InRange /\ SameDivisors
      /\ PointersRestored /\ pc = "loop" /\ u = v
  BY DEF IndInv, LoopInvariant, Store
<1>2. /\ pc' = "returned" /\ result' = "ok" /\ uAt' = Home.u /\ vAt' = Home.v
      /\ a' = (IF b < 0 /\ c < 0 THEN -1 ELSE 1) * (Power[shifts] * u)
      /\ UNCHANGED <<b, c, u, v, p, q, shifts, lost>>
  BY DEF Store, Return
<1>3. u \in Nat /\ 0 < u /\ Odd(u) /\ shifts \in 0 .. MaxBits /\ p \in Nat /\ q \in Nat
  BY <1>1 DEF TypeOK, OddAndPositive
<1>4. Power[shifts] \in Nat /\ Power[shifts] > 0
  BY <1>3, PowerType
<1> DEFINE g == Power[shifts] * u
<1>5. g \in Nat /\ g > 0
  BY <1>3, <1>4
<1>6. a' = (IF b < 0 /\ c < 0 THEN -1 ELSE 1) * g
  BY <1>2
<1> HIDE DEF g
<1>7. /\ b \in Int /\ b # 0 /\ Mag(b) \in Nat /\ 0 < Mag(b) /\ Mag(b) < Power[MaxBits]
      /\ c \in Int /\ c # 0 /\ Mag(c) \in Nat /\ 0 < Mag(c) /\ Mag(c) < Power[MaxBits]
  BY <1>1, OperandType DEF TypeOK, Running
<1>8. a' \in Int /\ Mag(a') = g /\ (a' < 0 <=> b < 0 /\ c < 0)
  BY <1>5, <1>6, <1>7 DEF Mag
<1>9. TypeOK'
  BY <1>1, <1>2, <1>8 DEF TypeOK, Home, Pointers
<1>10. LoopInvariant'
  BY <1>2, <1>9 DEF LoopInvariant, OddAndPositive, Running, Stripped, InRange, SameDivisors
<1>11. PointersRestored'
  BY <1>2 DEF PointersRestored, Home
<1>12. ASSUME ~lost
       PROVE  /\ Divides(g, Mag(b)) /\ Divides(g, Mag(c))
              /\ \A d \in g + 1 .. Mag(b) : ~(Divides(d, Mag(b)) /\ Divides(d, Mag(c)))
  <2>1. PICK i \in 0 .. MaxBits, j \in 0 .. MaxBits :
          Mag(b) = Power[i] * p /\ Mag(c) = Power[j] * q /\ shifts = IF i < j THEN i ELSE j
    BY <1>1 DEF Stripped
  <2>2. Odd(p) /\ Odd(q) /\ u < Power[MaxBits]
    BY <1>1, <1>12 DEF Stripped, InRange
  <2>3. HasDivisorsOf(u, p, q)
    BY <1>1, <1>12 DEF SameDivisors, HasDivisorsOf
  <2>4. Found(Mag(b), Mag(c), p, q, i, j, shifts, u)
    BY <1>3, <1>7, <2>1, <2>2, <2>3 DEF Found, Parts
  <2>5. IsGreatest(Power[shifts] * u, Mag(b), Mag(c))
    BY <1>3, <1>7, <2>4, GcdFound, Zenon
  <2> QED BY <2>5, Zenon DEF g, IsGreatest
<1>13. GcdExact'
  <2> SUFFICES ASSUME ~lost
               PROVE  /\ Divides(Mag(a'), Mag(b)) /\ Divides(Mag(a'), Mag(c))
                      /\ \A d \in Mag(a') + 1 .. Mag(b) : ~(Divides(d, Mag(b)) /\ Divides(d, Mag(c)))
                      /\ a' < 0 <=> b < 0 /\ c < 0
    BY <1>2, <1>7 DEF GcdExact, IsGcd, Divides, Mag
  <2> QED BY <1>8, <1>12
<1> QED BY <1>10, <1>11, <1>13 DEF IndInv

LEMMA StutterInv == IndInv /\ UNCHANGED vars => IndInv'
BY DEF IndInv, vars, LoopInvariant, TypeOK, OddAndPositive, Running, Stripped, InRange,
       SameDivisors, PointersRestored, GcdExact, IsGcd

LEMMA NextInv == IndInv /\ [Next]_vars => IndInv'
BY ZeroOperandInv, StripInv, TurnInv, StoreInv, MemoryFailsInv, StutterInv DEF Next

THEOREM Invariance == Spec => []IndInv
BY InitInv, NextInv, PTL DEF Spec

\* zsub_positive_assign and zlsb are only given what they can work on, and the
\* divisors of the numbers in zgcd's loop stay what they were.
THEOREM LoopKeepsDivisors == Spec => []LoopInvariant
<1>1. IndInv => LoopInvariant
  BY DEF IndInv
<1> QED BY <1>1, Invariance, PTL

\* When zgcd has returned its result the temporaries have their own blocks again.
THEOREM PointersAreRestored == Spec => []PointersRestored
<1>1. IndInv => PointersRestored
  BY DEF IndInv
<1> QED BY <1>1, Invariance, PTL

\* zgcd stores the greatest common divisor, unless zsub_impl has lost a character.
THEOREM StoresGcd == Spec => []GcdExact
<1>1. IndInv => GcdExact
  BY DEF IndInv
<1> QED BY <1>1, Invariance, PTL
=============================================================================
