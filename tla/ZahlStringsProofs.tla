--------------------------- MODULE ZahlStringsProofs ---------------------------
(* For every radix, size of groups and characters, and all integers, strings *)
(* and buffers: zstr writes the numeral and stays in its buffer, zsets reads *)
(* it, zstr_length counts it, and zerror has the words it should have.       *)
EXTENDS ZahlStrings, ZahlLemmas, SequenceTheorems

------------------------------------------------------------------------------
(* Numerals.                                                                 *)

AreNumerals(f, g, v) ==
  f = [w \in 0 .. v |-> IF w < g THEN <<w>> ELSE Append(f[w \div g], w % g)]

LEMMA NumeralIs ==
  ASSUME NEW v, NEW g
  PROVE  Numeral(v, g) = (CHOOSE f : AreNumerals(f, g, v))[v]
BY Zenon DEF Numeral, AreNumerals

\* Without its last digit a number is smaller.
LEMMA WithoutDigit ==
  ASSUME NEW g \in Nat, g > 1, NEW v \in Nat, v >= g
  PROVE  v \div g \in Nat /\ v \div g < v /\ v \div g > 0 /\ v % g \in Nat
<1> DEFINE q == v \div g
           r == v % g
<1>1. q \in Nat /\ r \in Nat /\ r < g /\ v = g * q + r
  BY Quotient
<1> HIDE DEF q, r
<1>2. q # 0
  BY <1>1
<1>3. g * q > q
  <2>1. (g - 1) * q > 0 /\ (g - 1) * q = g * q - q
    BY <1>1, <1>2
  <2> QED BY <1>1, <2>1
<1>4. q < v /\ q > 0
  BY <1>1, <1>2, <1>3
<1> QED BY <1>1, <1>4 DEF q, r

LEMMA NumeralsExist ==
  ASSUME NEW g \in Nat, g > 1
  PROVE  \A v \in Nat : \E f : AreNumerals(f, g, v) /\ \A w \in 0 .. v : f[w] \in Seq(Nat)
<1> DEFINE P(v) == \E f : AreNumerals(f, g, v) /\ \A w \in 0 .. v : f[w] \in Seq(Nat)
           Z == {v \in Nat : P(v)}
<1>1. 0 \in Z
  <2> DEFINE f == [w \in 0 .. 0 |-> <<0>>]
  <2>1. AreNumerals(f, g, 0) /\ \A w \in 0 .. 0 : f[w] \in Seq(Nat)
    BY DEF AreNumerals
  <2> QED BY <2>1
<1>2. ASSUME NEW v \in Nat, v \in Z
      PROVE  v + 1 \in Z
  <2>1. PICK f : AreNumerals(f, g, v) /\ \A w \in 0 .. v : f[w] \in Seq(Nat)
    BY <1>2
  <2> DEFINE u == v + 1
             last_ == IF u < g THEN <<u>> ELSE Append(f[u \div g], u % g)
             h == [w \in 0 .. u |-> IF w = u THEN last_ ELSE f[w]]
  <2>0. u \in Nat /\ u = v + 1 /\ u \in 0 .. u
    OBVIOUS
  <2> HIDE DEF u
  <2>2. \A w \in 0 .. u : w # u => w \in 0 .. v
    BY <2>0
  <2>3. ASSUME NEW w \in 0 .. u, ~(w < g)
        PROVE  w \div g \in 0 .. v /\ w \div g \in 0 .. u /\ w \div g # u
    <3>1. w \div g \in Nat /\ w \div g < w
      BY <2>0, <2>3, WithoutDigit
    <3> QED BY <2>0, <3>1
  <2>4. last_ \in Seq(Nat)
    <3>1. CASE u < g
      BY <2>0, <3>1
    <3>2. CASE ~(u < g)
      <4>1. f[u \div g] \in Seq(Nat)
        BY <2>0, <2>1, <2>3, <3>2
      <4>2. u % g \in Nat
        BY <2>0, <3>2, WithoutDigit
      <4>3. Append(f[u \div g], u % g) \in Seq(Nat)
        BY <4>1, <4>2, AppendProperties
      <4> QED BY <3>2, <4>3
    <3> QED BY <3>1, <3>2
  <2>5. \A w \in 0 .. u : h[w] \in Seq(Nat)
    BY <2>1, <2>2, <2>4
  <2>6. ASSUME NEW w \in 0 .. u
        PROVE  h[w] = IF w < g THEN <<w>> ELSE Append(h[w \div g], w % g)
    <3>1. ~(w < g) => h[w \div g] = f[w \div g]
      BY <2>3
    <3>2. CASE w = u
      BY <3>1, <3>2
    <3>3. CASE w # u
      <4>1. w \in 0 .. v
        BY <2>2, <3>3
      <4>2. f[w] = IF w < g THEN <<w>> ELSE Append(f[w \div g], w % g)
        BY <2>1, <4>1, Zenon DEF AreNumerals
      <4> QED BY <3>1, <3>3, <4>2
    <3> QED BY <3>2, <3>3
  <2>7. AreNumerals(h, g, u)
    <3>1. h = [w \in 0 .. u |-> h[w]]
      OBVIOUS
    <3> HIDE DEF h
    <3> QED BY <2>6, <3>1 DEF AreNumerals
  <2> HIDE DEF h, last_
  <2>8. P(v + 1)
    BY <2>0, <2>5, <2>7
  <2> QED BY <2>8
<1>3. \A v \in Nat : v \in Z
  <2>1. Z \in SUBSET Nat
    OBVIOUS
  <2> HIDE DEF Z
  <2> QED BY <1>1, <1>2, <2>1, Inductive
<1> QED BY <1>3

LEMMA NumeralsCoincide ==
  ASSUME NEW g \in Nat, g > 1, NEW v \in Nat, NEW u \in Nat, v <= u,
         NEW f, AreNumerals(f, g, v), NEW h, AreNumerals(h, g, u)
  PROVE  \A w \in 0 .. v : f[w] = h[w]
<1> DEFINE Z == {w \in Nat : w <= v => f[w] = h[w]}
<1>1. ASSUME NEW w \in Nat, \A k \in Nat : k < w => k \in Z
      PROVE  w \in Z
  <2>1. SUFFICES ASSUME w <= v PROVE f[w] = h[w]
    OBVIOUS
  <2>2. w \in 0 .. v /\ w \in 0 .. u
    BY <2>1
  <2>3. /\ f[w] = IF w < g THEN <<w>> ELSE Append(f[w \div g], w % g)
        /\ h[w] = IF w < g THEN <<w>> ELSE Append(h[w \div g], w % g)
    BY <2>2, Zenon DEF AreNumerals
  <2>4. ~(w < g) => f[w \div g] = h[w \div g]
    BY <1>1, <2>1, WithoutDigit
  <2> QED BY <2>3, <2>4, Zenon
<1>2. \A w \in Nat : w \in Z
  <2>1. Z \in SUBSET Nat
    OBVIOUS
  <2> HIDE DEF Z
  <2> QED BY <1>1, <2>1, CompletelyInductive
<1> QED BY <1>2

LEMMA NumeralSteps ==
  ASSUME NEW g \in Nat, g > 1, NEW v \in Nat
  PROVE  /\ Numeral(v, g) \in Seq(Nat)
         /\ v < g => Numeral(v, g) = <<v>>
         /\ v >= g => Numeral(v, g) = Append(Numeral(v \div g, g), v % g)
<1> DEFINE F(w) == CHOOSE f : AreNumerals(f, g, w)
<1>1. ASSUME NEW w \in Nat
      PROVE  AreNumerals(F(w), g, w) /\ F(w)[w] \in Seq(Nat)
  <2>1. PICK f : AreNumerals(f, g, w) /\ \A k \in 0 .. w : f[k] \in Seq(Nat)
    BY NumeralsExist
  <2>2. AreNumerals(F(w), g, w)
    BY <2>1, Zenon
  <2> HIDE DEF F
  <2>3. w <= w /\ w \in 0 .. w
    OBVIOUS
  <2>4. F(w)[w] = f[w]
    BY <2>1, <2>2, <2>3, NumeralsCoincide
  <2> QED BY <2>1, <2>2, <2>3, <2>4
<1>2. \A w : Numeral(w, g) = F(w)[w]
  BY NumeralIs
<1> HIDE DEF F
<1>3. F(v)[v] = IF v < g THEN <<v>> ELSE Append(F(v)[v \div g], v % g)
  <2>1. v \in 0 .. v
    OBVIOUS
  <2> QED BY <1>1, <2>1, Zenon DEF AreNumerals
<1>4. v >= g => F(v)[v \div g] = F(v \div g)[v \div g]
  <2>1. SUFFICES ASSUME v >= g PROVE F(v)[v \div g] = F(v \div g)[v \div g]
    OBVIOUS
  <2>2. v \div g \in Nat /\ v \div g <= v /\ v \div g \in 0 .. v \div g
    BY <2>1, WithoutDigit
  <2> QED BY <1>1, <2>2, NumeralsCoincide
<1>5. ~(v < g) <=> v >= g
  OBVIOUS
<1> QED BY <1>1, <1>2, <1>3, <1>4, <1>5

\* Digit k of v, from the right.
Digit(v, g, k) == (v \div Raised(g, k)) % g

LEMMA DigitType ==
  ASSUME NEW g \in Nat, g > 1, NEW v \in Nat, NEW k \in Nat
  PROVE  Digit(v, g, k) \in 0 .. g - 1
<1>1. Raised(g, k) \in Nat /\ Raised(g, k) > 0
  BY RaisedPositive
<1>2. v \div Raised(g, k) \in Nat
  BY <1>1, Quotient
<1>3. (v \div Raised(g, k)) % g \in Nat /\ (v \div Raised(g, k)) % g < g
  BY <1>2, Quotient
<1> QED BY <1>3 DEF Digit

\* The digits of a quotient by a power.
LEMMA DigitOfQuotient ==
  ASSUME NEW g \in Nat, g > 1, NEW v \in Nat, NEW j \in Nat, NEW k \in Nat
  PROVE  Digit(v \div Raised(g, j), g, k) = Digit(v, g, j + k)
<1>1. /\ Raised(g, j) \in Nat /\ Raised(g, j) > 0 /\ Raised(g, k) \in Nat /\ Raised(g, k) > 0
      /\ Raised(g, j + k) = Raised(g, j) * Raised(g, k)
  BY RaisedPositive, RaisedSum
<1>2. (v \div Raised(g, j)) \div Raised(g, k) = v \div (Raised(g, j) * Raised(g, k))
  BY <1>1, QuotientOfQuotient
<1> QED BY <1>1, <1>2, Zenon DEF Digit

\* A numeral has as many digits as the number needs, and these.
LEMMA NumeralDigits ==
  ASSUME NEW g \in Nat, g > 1
  PROVE  \A v \in Nat :
           /\ Len(Numeral(v, g)) \in Nat /\ Len(Numeral(v, g)) > 0
           /\ v < Raised(g, Len(Numeral(v, g)))
           /\ v > 0 => Raised(g, Len(Numeral(v, g)) - 1) <= v
           /\ \A i \in 1 .. Len(Numeral(v, g)) :
                Numeral(v, g)[i] = Digit(v, g, Len(Numeral(v, g)) - i)
<1> DEFINE L(v) == Len(Numeral(v, g))
           Right(v) == /\ L(v) \in Nat /\ L(v) > 0 /\ v < Raised(g, L(v))
                       /\ v > 0 => Raised(g, L(v) - 1) <= v
                       /\ \A i \in 1 .. L(v) : Numeral(v, g)[i] = Digit(v, g, L(v) - i)
           Z == {v \in Nat : Right(v)}
<1>0. Raised(g, 0) = 1 /\ \A k \in Nat : Raised(g, k) \in Nat /\ Raised(g, k + 1) = g * Raised(g, k)
  BY RaisedSteps
<1>1. ASSUME NEW v \in Nat, \A k \in Nat : k < v => k \in Z
      PROVE  Right(v)
  <2>1. CASE v < g
    <3>1. Numeral(v, g) = <<v>>
      BY <2>1, NumeralSteps
    <3>2. L(v) = 1 /\ <<v>>[1] = v
      BY <3>1
    <3>3. Raised(g, 1) = g /\ L(v) - 1 = 0 /\ 1 .. L(v) = {1}
      BY <1>0, <3>2, 0 + 1 = 1
    <3>4. Digit(v, g, 0) = v
      <4>1. v = 1 * v + 0 /\ v = g * 0 + v
        OBVIOUS
      <4>2. v \div 1 = v
        BY <4>1, QuotientIs
      <4>3. v % g = v
        BY <2>1, <4>1, QuotientIs
      <4> QED BY <1>0, <4>2, <4>3 DEF Digit
    <3> QED BY <1>0, <2>1, <3>1, <3>2, <3>3, <3>4
  <2>2. CASE v >= g
    <3> DEFINE w == v \div g
               d == v % g
               m == L(w)
    <3>1. w \in Nat /\ w < v /\ w > 0 /\ d \in Nat /\ d < g /\ v = g * w + d
      BY <2>2, WithoutDigit, Quotient
    <3>2. Right(w)
      BY <1>1, <3>1
    <3>3. Numeral(w, g) \in Seq(Nat) /\ Numeral(v, g) = Append(Numeral(w, g), d)
      BY <2>2, <3>1, NumeralSteps
    <3>4. L(v) = m + 1
      BY <3>3
    <3>5. \A k \in Nat : Digit(v, g, k + 1) = Digit(w, g, k)
      <4>1. Raised(g, 1) = g
        BY <1>0, 0 + 1 = 1
      <4>2. \A k \in Nat : Digit(w, g, k) = Digit(v, g, 1 + k)
        BY <4>1, DigitOfQuotient
      <4> QED BY <4>2
    <3>6. Digit(v, g, 0) = d
      <4>1. v = 1 * v + 0
        OBVIOUS
      <4>2. v \div 1 = v
        BY <4>1, QuotientIs
      <4> QED BY <1>0, <4>2 DEF Digit
    <3> HIDE DEF w, d
    <3>7. m \in Nat /\ m > 0 /\ w < Raised(g, m) /\ Raised(g, m - 1) <= w
      BY <3>1, <3>2
    <3>8. \A i \in 1 .. m : Numeral(w, g)[i] = Digit(w, g, m - i)
      BY <3>2
    <3>9. \A i \in 1 .. m + 1 : Numeral(v, g)[i] = Digit(v, g, (m + 1) - i)
      <4> SUFFICES ASSUME NEW i \in 1 .. m + 1
                   PROVE  Numeral(v, g)[i] = Digit(v, g, (m + 1) - i)
        BY <3>7
      <4>1. CASE i = m + 1
        <5>1. Numeral(v, g)[i] = d /\ (m + 1) - i = 0
          BY <3>3, <3>7, <4>1
        <5> QED BY <3>6, <5>1
      <4>2. CASE i # m + 1
        <5>1. i \in 1 .. m /\ m - i \in Nat /\ (m + 1) - i = (m - i) + 1
          BY <3>7, <4>2
        <5>2. Numeral(v, g)[i] = Numeral(w, g)[i]
          BY <3>3, <5>1
        <5> QED BY <3>5, <3>8, <5>1, <5>2
      <4> QED BY <4>1, <4>2
    <3>10. v < Raised(g, m + 1)
      <4>1. Raised(g, m + 1) = g * Raised(g, m) /\ Raised(g, m) \in Nat
        BY <1>0, <3>7
      <4>2. g * (Raised(g, m) - 1 - w) >= 0
        BY <3>1, <3>7, <4>1
      <4>3. g * (Raised(g, m) - 1 - w) = g * Raised(g, m) - g - g * w
        BY <3>1, <4>1
      <4> QED BY <3>1, <4>1, <4>2, <4>3
    <3>11. Raised(g, m) <= v
      <4>1. m - 1 \in Nat /\ (m - 1) + 1 = m
        BY <3>7
      <4>2. Raised(g, m) = g * Raised(g, m - 1) /\ Raised(g, m - 1) \in Nat
        BY <1>0, <4>1
      <4>3. g * (w - Raised(g, m - 1)) >= 0
        BY <3>1, <3>7, <4>2
      <4>4. g * (w - Raised(g, m - 1)) = g * w - g * Raised(g, m - 1)
        BY <3>1, <4>2
      <4> QED BY <3>1, <4>2, <4>3, <4>4
    <3>12. L(v) \in Nat /\ L(v) > 0 /\ L(v) - 1 = m
      BY <3>4, <3>7
    <3> HIDE DEF L
    <3> QED BY <3>4, <3>9, <3>10, <3>11, <3>12
  <2> QED BY <2>1, <2>2
<1> HIDE DEF Right
<1>2. \A v \in Nat : v \in Z
  <2>1. Z \in SUBSET Nat
    OBVIOUS
  <2>2. ASSUME NEW v \in Nat, \A k \in Nat : k < v => k \in Z PROVE v \in Z
    BY <1>1, <2>2
  <2> HIDE DEF Z
  <2> QED BY <2>1, <2>2, CompletelyInductive
<1> QED BY <1>2 DEF Right

LEMMA NumeralLength ==
  ASSUME NEW g \in Nat, g > 1, NEW v \in Nat, NEW k \in Nat, k > 0,
         v < Raised(g, k), Raised(g, k - 1) <= v
  PROVE  Len(Numeral(v, g)) = k
<1> DEFINE l == Len(Numeral(v, g))
<1>1. l \in Nat /\ l > 0 /\ v < Raised(g, l) /\ (v > 0 => Raised(g, l - 1) <= v)
  BY NumeralDigits
<1>2. Raised(g, k - 1) > 0 /\ Raised(g, k - 1) \in Nat
  BY k - 1 \in Nat, RaisedPositive
<1>3. v > 0
  BY <1>2
<1> HIDE DEF l
<1>4. l - 1 < k
  BY <1>1, <1>3, RaisedPlace, l - 1 \in Nat
<1>5. k - 1 < l
  BY <1>1, RaisedPlace, k - 1 \in Nat
<1>6. l = k
  BY <1>1, <1>4, <1>5
<1> QED BY <1>6 DEF l

------------------------------------------------------------------------------
(* The length zstr reckons with.                                             *)

LEMMA Constants ==
  /\ Radix \in Nat /\ Radix > 1 /\ Digits \in Nat /\ Digits > 0
  /\ CharBase \in Nat /\ CharBase > 1
  /\ \A k \in 0 .. Digits : RadixPower[k] = Raised(Radix, k)
  /\ PowerOfRadix = Raised(Radix, Digits)
<1>1. Radix \in Nat /\ Radix > 1 /\ Digits \in Nat /\ Digits > 0 /\ CharBase \in Nat
  BY StringsAssumption
<1>2. PowersOf(Radix, RadixPower, Digits)
  BY StringsAssumption DEF PowersOf
<1>3. \A k \in 0 .. Digits : RadixPower[k] = Raised(Radix, k)
  BY <1>1, <1>2, PowersAreRaised
<1>4. RadixPower[Digits] = Raised(Radix, Digits)
  BY <1>1, <1>3
<1>5. Raised(Radix, Digits) > 1
  <2>1. Raised(Radix, 0) < Raised(Radix, Digits)
    BY <1>1, RaisedMonotone
  <2> QED BY <1>1, <2>1, RaisedSteps
<1>6. CharBase > 1
  <2>1. RadixPower[Digits] <= CharBase /\ Raised(Radix, Digits) \in Nat
    BY <1>1, StringsAssumption, RaisedSteps
  <2> QED BY <1>1, <1>4, <1>5, <2>1
<1> QED BY <1>1, <1>3, <1>4, <1>6 DEF PowerOfRadix

LEMMA ProductsOrdered ==
  ASSUME NEW i \in Nat, NEW j \in Nat, NEW k \in Nat, NEW l \in Nat, i <= j, k <= l
  PROVE  i * k <= j * l
<1>1. i * k <= j * k
  <2>1. (j - i) * k >= 0 /\ (j - i) * k = j * k - i * k
    OBVIOUS
  <2> QED BY <2>1
<1>2. j * k <= j * l
  <2>1. j * (l - k) >= 0 /\ j * (l - k) = j * l - j * k
    OBVIOUS
  <2> QED BY <2>1
<1>3. i * k \in Nat /\ j * k \in Nat /\ j * l \in Nat
  OBVIOUS
<1> QED BY <1>1, <1>2, <1>3

\* One character may have a digit more than a group, several have less.
LEMMA DigitsOfChars ==
  /\ Raised(CharBase, 1) <= Raised(Radix, Guess(1))
  /\ \A k \in Nat : k > 1 => Raised(CharBase, k) <= Raised(Radix, Guess(k) - 1)
<1> DEFINE C(k) == Raised(CharBase, k)
           R(k) == Raised(Radix, k)
           Z == {k \in Nat : C(k + 2) <= R(Guess(k + 2) - 1)}
<1>0. Radix \in Nat /\ Radix > 1 /\ Digits \in Nat /\ Digits > 0 /\ CharBase \in Nat
  BY Constants
<1>1. C(0) = 1 /\ \A k \in Nat : C(k) \in Nat /\ C(k + 1) = CharBase * C(k)
  BY <1>0, RaisedSteps
<1>2. R(0) = 1 /\ \A k \in Nat : R(k) \in Nat /\ R(k + 1) = Radix * R(k)
  BY <1>0, RaisedSteps
<1>3. \A j, k \in Nat : R(j + k) = R(j) * R(k)
  BY <1>0, RaisedSum
<1>4. CharBase <= Radix * R(Digits) /\ CharBase * CharBase <= Radix * (R(Digits) * R(Digits))
  BY Constants, StringsAssumption
<1>5. /\ Guess(1) = Digits + 1 /\ Guess(2) = Digits + Digits + 2
      /\ \A k \in Nat : Guess(k + 1) = Guess(k) + Digits + 1 /\ Guess(k) \in Nat
      /\ \A k \in Nat : k > 0 => Guess(k) > 0
  <2>1. \A k \in Nat : (Digits + 1) * (k + 1) = (Digits + 1) * k + (Digits + 1)
    BY <1>0
  <2>2. \A k \in Nat : (Digits + 1) * k \in Nat /\ (k > 0 => (Digits + 1) * k > 0)
    BY <1>0
  <2>3. (Digits + 1) * 1 = Digits + 1 /\ (Digits + 1) * 2 = Digits + Digits + 2
    BY <1>0
  <2>4. \A k \in Nat : Guess(k) \in Nat
    BY <2>2 DEF Guess
  <2>5. \A k \in Nat : Guess(k + 1) = Guess(k) + Digits + 1
    BY <1>0, <2>1, <2>2 DEF Guess
  <2>6. Guess(1) = Digits + 1 /\ Guess(2) = Digits + Digits + 2
    BY <2>3 DEF Guess
  <2>7. \A k \in Nat : k > 0 => Guess(k) > 0
    BY <2>2 DEF Guess
  <2> QED BY <2>4, <2>5, <2>6, <2>7
<1> HIDE DEF C, R
<1>6. C(1) = CharBase /\ C(2) = CharBase * CharBase
  <2>1. C(0 + 1) = CharBase * 1 /\ C(1 + 1) = CharBase * C(1)
    BY <1>1
  <2> QED BY <1>0, <2>1
<1>7. C(1) <= R(Guess(1))
  BY <1>0, <1>2, <1>4, <1>5, <1>6
<1>8. 0 \in Z
  <2>1. R(Digits + Digits + 1) = Radix * (R(Digits) * R(Digits))
    BY <1>0, <1>2, <1>3
  <2>2. (Digits + Digits + 2) - 1 = Digits + Digits + 1 /\ 0 + 2 = 2
    BY <1>0
  <2> QED BY <1>4, <1>5, <1>6, <2>1, <2>2
<1>9. ASSUME NEW k \in Nat, k \in Z
      PROVE  k + 1 \in Z
  <2> DEFINE e == Guess(k + 2) - 1
  <2>1. e \in Nat /\ Guess((k + 1) + 2) - 1 = (Digits + 1) + e
    <3>1. k + 2 \in Nat /\ k + 2 > 0 /\ (k + 1) + 2 = (k + 2) + 1
      OBVIOUS
    <3> QED BY <1>0, <1>5, <3>1
  <2>2. C(k + 2) <= R(e) /\ C(k + 2) \in Nat /\ R(e) \in Nat
    BY <1>1, <1>2, <1>9, <2>1
  <2>3. C((k + 1) + 2) = CharBase * C(k + 2)
    BY <1>1, (k + 1) + 2 = (k + 2) + 1
  <2> HIDE DEF e
  <2>4. CharBase <= R(Digits + 1) /\ R(Digits + 1) \in Nat
    BY <1>0, <1>2, <1>4
  <2>5. CharBase * C(k + 2) <= R(Digits + 1) * R(e)
    BY <1>0, <2>2, <2>4, ProductsOrdered
  <2>6. R((Digits + 1) + e) = R(Digits + 1) * R(e)
    BY <1>0, <1>3, <2>1
  <2> QED BY <2>1, <2>3, <2>5, <2>6
<1>10. \A k \in Nat : k \in Z
  <2>1. Z \in SUBSET Nat
    OBVIOUS
  <2> HIDE DEF Z
  <2> QED BY <1>8, <1>9, <2>1, Inductive
<1>11. ASSUME NEW k \in Nat, k > 1
       PROVE  C(k) <= R(Guess(k) - 1)
  <2>1. k - 2 \in Nat /\ (k - 2) + 2 = k
    BY <1>11
  <2> QED BY <1>10, <2>1
<1> QED BY <1>7, <1>11 DEF C, R

LEMMA Guessed ==
  ASSUME NEW v \in Nat, v > 0
  PROVE  /\ Len(Numeral(v, CharBase)) \in Nat /\ Len(Numeral(v, CharBase)) > 0
         /\ Len(Numeral(v, Radix)) <= Guess(Len(Numeral(v, CharBase)))
         /\ Len(Numeral(v, Radix)) = Guess(Len(Numeral(v, CharBase)))
              => Len(Numeral(v, CharBase)) = 1
<1> DEFINE c == Len(Numeral(v, CharBase))
           l == Len(Numeral(v, Radix))
<1>0. Radix \in Nat /\ Radix > 1 /\ Digits \in Nat /\ Digits > 0 /\ CharBase \in Nat /\ CharBase > 1
  BY Constants
<1>1. c \in Nat /\ c > 0 /\ v < Raised(CharBase, c)
  BY <1>0, NumeralDigits
<1>2. l \in Nat /\ l > 0 /\ Raised(Radix, l - 1) <= v
  BY <1>0, NumeralDigits
<1> HIDE DEF c, l
<1>3. Guess(c) \in Nat /\ Guess(c) > 0
  <2>1. (Digits + 1) * c > 0
    BY <1>0, <1>1
  <2>2. (Digits + 1) * c \in Nat
    BY <1>0, <1>1
  <2> QED BY <2>1, <2>2 DEF Guess
<1>4. CASE c = 1
  <2>1. v < Raised(Radix, Guess(c))
    <3>1. Raised(CharBase, c) <= Raised(Radix, Guess(c))
      BY <1>4, DigitsOfChars
    <3>2. Raised(CharBase, c) \in Nat /\ Raised(Radix, Guess(c)) \in Nat
      BY <1>0, <1>1, <1>3, RaisedSteps
    <3> QED BY <1>1, <3>1, <3>2
  <2>2. l - 1 < Guess(c)
    BY <1>0, <1>2, <1>3, <2>1, RaisedPlace, l - 1 \in Nat
  <2>3. l <= Guess(c)
    BY <1>2, <1>3, <2>2
  <2> QED BY <1>1, <1>4, <2>3 DEF c, l
<1>5. CASE c > 1
  <2>1. v < Raised(Radix, Guess(c) - 1)
    <3>1. Raised(CharBase, c) <= Raised(Radix, Guess(c) - 1)
      BY <1>1, <1>5, DigitsOfChars
    <3>2. Raised(CharBase, c) \in Nat /\ Raised(Radix, Guess(c) - 1) \in Nat
      <4>1. Guess(c) - 1 \in Nat
        BY <1>3
      <4> QED BY <1>0, <1>1, <4>1, RaisedSteps
    <3> QED BY <1>1, <3>1, <3>2
  <2>2. l - 1 < Guess(c) - 1
    <3>1. l - 1 \in Nat /\ Guess(c) - 1 \in Nat
      BY <1>2, <1>3
    <3> QED BY <1>0, <1>2, <2>1, <3>1, RaisedPlace
  <2>3. l < Guess(c)
    BY <1>2, <1>3, <2>2
  <2> QED BY <1>1, <1>2, <1>3, <2>3 DEF c, l
<1> QED BY <1>1, <1>4, <1>5

------------------------------------------------------------------------------
(* A call of zstr.                                                           *)

LEMMA Printing ==
  ASSUME call \in Calls, call.routine = "zstr"
  PROVE  /\ call.v \in Printed /\ call.v \in Int /\ call.given \in BOOLEAN
         /\ \E zeros \in {0, 1} : call.used = Chars(call.v) + zeros
         /\ call.n = 0 \/ call.n \in Len(Decimal(call.v)) .. Len(Decimal(call.v)) + Spare
<1>1. PICK v \in Printed : call \in Prints(v)
  BY DEF Calls
<1>2. PICK zeros \in {0, 1}, given \in BOOLEAN,
           k \in {0} \cup (Len(Decimal(v)) .. Len(Decimal(v)) + Spare) :
        call = [routine |-> "zstr", v |-> v, used |-> Chars(v) + zeros, n |-> k, given |-> given]
  BY <1>1, SMT DEF Prints
<1>3. call.v = v /\ call.used = Chars(v) + zeros /\ call.n = k /\ call.given = given
  BY <1>2
<1>4. v \in Int
  BY StringsAssumption
<1> QED BY <1>3, <1>4

LEMMA MagNeg ==
  ASSUME NEW v \in Int
  PROVE  /\ Mag(v) \in Nat /\ (Mag(v) = 0 <=> v = 0) /\ (v # 0 => Mag(v) > 0)
         /\ Neg(v) \in {0, 1} /\ (Neg(v) = 1 <=> v < 0)
BY DEF Mag, Neg

\* The digits of the magnitude, and where zstr would have the last one end.
Length == Len(Numeral(Mag(call.v), Radix))
Reach  == Reckoned - Neg(call.v)
DigitAt(k) == Digit(Mag(call.v), Radix, k)

\* The string with the sign.
LEMMA DecimalIs ==
  ASSUME NEW v \in Int
  PROVE  LET l == Len(Numeral(Mag(v), Radix))
         IN /\ Decimal(v) \in Seq(Int) /\ Len(Decimal(v)) = Neg(v) + l
            /\ v < 0 => Decimal(v)[1] = Minus
            /\ \A i \in 1 .. l : Decimal(v)[Neg(v) + i] = Digit(Mag(v), Radix, l - i)
<1> DEFINE s == Numeral(Mag(v), Radix)
           l == Len(s)
<1>1. Mag(v) \in Nat /\ Radix \in Nat /\ Radix > 1
  BY MagNeg, Constants
<1>2. s \in Seq(Nat)
  BY <1>1, NumeralSteps
<1>3. l \in Nat /\ \A i \in 1 .. l : s[i] = Digit(Mag(v), Radix, l - i)
  BY <1>1, NumeralDigits
<1>4. Decimal(v) = (IF v < 0 THEN <<Minus>> ELSE <<>>) \o s
  BY DEF Decimal
<1> HIDE DEF s
<1>5. s \in Seq(Int)
  BY <1>2
<1>6. CASE v < 0
  <2>1. Neg(v) = 1 /\ <<Minus>> \in Seq(Int) /\ Len(<<Minus>>) = 1 /\ <<Minus>>[1] = Minus
    BY <1>6 DEF Neg, Minus
  <2>2. Decimal(v) = <<Minus>> \o s
    BY <1>4, <1>6
  <2>3. Decimal(v) \in Seq(Int) /\ Len(Decimal(v)) = 1 + l /\ Decimal(v)[1] = Minus
        /\ \A i \in 1 .. l : Decimal(v)[1 + i] = s[i]
    BY <1>3, <1>5, <2>1, <2>2
  <2> QED BY <1>3, <2>1, <2>3 DEF s
<1>7. CASE ~(v < 0)
  <2>1. Neg(v) = 0
    BY <1>7 DEF Neg
  <2>2. Decimal(v) = <<>> \o s
    BY <1>4, <1>7
  <2>3. Decimal(v) = s
    BY <1>5, <2>2
  <2>4. \A i \in 1 .. l : 0 + i = i
    BY <1>3
  <2> QED BY <1>3, <1>5, <1>7, <2>1, <2>3, <2>4 DEF s
<1> QED BY <1>6, <1>7

\* What zstr reckons with has room for the numeral and its sign, but where it is Tight;
\* then it is too short by one place, and one group reaches back to the sign.
LEMMA Reckoning ==
  ASSUME call \in Calls, call.routine = "zstr", call.v # 0
  PROVE  /\ Reckoned \in Nat /\ Reckoned > 0 /\ Reckoned + 2 <= Room
         /\ Reach \in Nat /\ Length \in Nat /\ Length > 0
         /\ ~Tight => Length <= Reach
         /\ Tight => Length = Reach + 1 /\ Reach = Digits /\ Neg(call.v) = 1
<1> DEFINE v == call.v
           c == Chars(v)
<1>0. /\ v \in Printed /\ v \in Int /\ v # 0 /\ Mag(v) \in Nat /\ Mag(v) > 0
      /\ Neg(v) \in {0, 1} /\ (Neg(v) = 1 <=> v < 0)
  BY Printing, MagNeg
<1>1. Digits \in Nat /\ Digits > 0 /\ Radix \in Nat /\ Radix > 1
  BY Constants
<1>2. PICK zeros \in {0, 1} : call.used = c + zeros
  BY Printing
<1>3. c = Len(Numeral(Mag(v), CharBase))
  BY <1>0 DEF Chars
<1>4. Length \in Nat /\ Length > 0
  BY <1>0, <1>1, NumeralDigits DEF Length
<1>5. c \in Nat /\ c > 0 /\ Length <= Guess(c) /\ (Length = Guess(c) => c = 1)
  BY <1>0, <1>3, Guessed DEF Length
<1>6. Len(Decimal(v)) = Neg(v) + Length
  BY <1>0, DecimalIs DEF Length
<1>7. Guess(c + 1) + 2 <= Room /\ Neg(v) + Length + Spare + 2 <= Room
      /\ Spare \in Nat /\ Room \in Nat
  BY <1>0, <1>6, RoomAssumption, StringsAssumption
<1>8. /\ Guess(c) \in Nat /\ Guess(c) > Digits /\ Guess(c + 1) = Guess(c) + (Digits + 1)
      /\ Guess(1) = Digits + 1
  <2>1. (Digits + 1) * (c + 1) = (Digits + 1) * c + (Digits + 1)
        /\ (Digits + 1) * c >= Digits + 1 /\ (Digits + 1) * c \in Nat
        /\ (Digits + 1) * 1 = Digits + 1
    BY <1>1, <1>5
  <2> QED BY <1>1, <2>1 DEF Guess
<1> HIDE DEF v, c
<1>9. call.n = 0 \/ call.n \in Neg(v) + Length .. Neg(v) + Length + Spare
  BY <1>6, Printing DEF v
<1>10. CASE call.n = 0
  <2>1. Reckoned = Guess(c + zeros) /\ Reach = Guess(c + zeros) - Neg(v)
    BY <1>2, <1>10 DEF Reckoned, Reach, v
  <2>2. Tight <=> v < 0 /\ Length = Guess(c + zeros)
    BY <1>2, <1>10 DEF Tight, Length, v
  <2>3. CASE zeros = 0
    <3>1. c + zeros = c
      BY <1>5, <2>3
    <3> QED BY <1>0, <1>1, <1>4, <1>5, <1>7, <1>8, <2>1, <2>2, <3>1 DEF v
  <2>4. CASE zeros = 1
    <3>1. c + zeros = c + 1
      BY <2>4
    <3> QED BY <1>0, <1>1, <1>4, <1>5, <1>7, <1>8, <2>1, <2>2, <3>1 DEF v
  <2> QED BY <1>2, <2>3, <2>4
<1>11. CASE call.n # 0
  <2>1. Reckoned = call.n /\ Reach = call.n - Neg(v) /\ ~Tight
    BY <1>11 DEF Reckoned, Reach, v, Tight
  <2> QED BY <1>0, <1>4, <1>7, <1>9, <1>11, <2>1 DEF v
<1> QED BY <1>10, <1>11

------------------------------------------------------------------------------
(* Groups of digits.                                                         *)

\* A number has digits left exactly while its length is not reached, and as many as
\* are left of it.
LEMMA QuotientLength ==
  ASSUME NEW g \in Nat, g > 1, NEW v \in Nat, v > 0, NEW t \in Nat
  PROVE  LET l == Len(Numeral(v, g))
         IN /\ v \div Raised(g, t) \in Nat
            /\ v \div Raised(g, t) = 0 <=> l <= t
            /\ t < l => Len(Numeral(v \div Raised(g, t), g)) = l - t
<1> DEFINE l == Len(Numeral(v, g))
           q == v \div Raised(g, t)
<1>1. l \in Nat /\ l > 0 /\ v < Raised(g, l) /\ Raised(g, l - 1) <= v
  BY NumeralDigits
<1>2. Raised(g, t) \in Nat /\ Raised(g, t) > 0
  BY RaisedPositive
<1>3. q \in Nat /\ \A k \in Nat : q < k <=> v < Raised(g, t) * k
  BY <1>2, Quotient, QuotientMonotone
<1> HIDE DEF l, q
<1>4. CASE l <= t
  <2>1. Raised(g, l) <= Raised(g, t) /\ Raised(g, l) \in Nat
    BY <1>1, <1>4, RaisedMonotone, RaisedSteps
  <2>2. v < Raised(g, t) * 1
    BY <1>1, <1>2, <2>1
  <2>3. q = 0
    BY <1>3, <2>2
  <2> QED BY <1>1, <1>3, <1>4, <2>3 DEF l, q
<1>5. CASE t < l
  <2>1. PICK k \in Nat : l = t + (k + 1) /\ l - 1 = t + k /\ l - t = k + 1
    <3>1. (l - t) - 1 \in Nat
      BY <1>1, <1>5
    <3>2. l = t + (((l - t) - 1) + 1) /\ l - 1 = t + ((l - t) - 1) /\ l - t = ((l - t) - 1) + 1
      BY <1>1
    <3> QED BY <3>1, <3>2
  <2>2. \A j \in Nat : Raised(g, t + j) = Raised(g, t) * Raised(g, j)
    BY RaisedSum
  <2>3. \A j \in Nat : Raised(g, j) \in Nat /\ Raised(g, j) > 0
    BY RaisedPositive
  <2>4. k + 1 \in Nat /\ k + 1 > 0 /\ (k + 1) - 1 = k
    OBVIOUS
  <2>5. q < Raised(g, k + 1) /\ ~(q < Raised(g, k))
    <3>1. v < Raised(g, t) * Raised(g, k + 1) /\ ~(v < Raised(g, t) * Raised(g, k))
      <4>1. Raised(g, l - 1) \in Nat
        BY <2>1, <2>3, t + k \in Nat
      <4> QED BY <1>1, <2>1, <2>2, <2>4, <4>1
    <3> QED BY <1>3, <2>3, <2>4, <3>1
  <2>6. Len(Numeral(q, g)) = l - t
    <3>1. Raised(g, (k + 1) - 1) <= q
      BY <1>3, <2>3, <2>4, <2>5
    <3> QED BY <1>3, <2>1, <2>4, <2>5, <3>1, NumeralLength
  <2>7. q # 0
    BY <1>3, <2>3, <2>5
  <2> QED BY <1>1, <1>3, <1>5, <2>6, <2>7 DEF l, q
<1> QED BY <1>1, <1>4, <1>5

\* A group has the next digits.
LEMMA GroupDigits ==
  ASSUME NEW v \in Nat, NEW t \in Nat
  PROVE  /\ Fix((v \div Raised(Radix, t)) % PowerOfRadix) \in Seq(Int)
         /\ Len(Fix((v \div Raised(Radix, t)) % PowerOfRadix)) = Digits
         /\ \A i \in 1 .. Digits :
              Fix((v \div Raised(Radix, t)) % PowerOfRadix)[i]
                = Digit(v, Radix, t + (Digits - i))
<1> DEFINE x == v \div Raised(Radix, t)
           w == x % PowerOfRadix
<1>0. Radix \in Nat /\ Radix > 1 /\ Digits \in Nat /\ Digits > 0
  BY Constants
<1>1. Raised(Radix, t) \in Nat /\ Raised(Radix, t) > 0
  BY <1>0, RaisedPositive
<1>2. x \in Nat
  BY <1>1, Quotient
<1>3. ASSUME NEW i \in 1 .. Digits
      PROVE  /\ (w \div RadixPower[Digits - i]) % Radix = Digit(v, Radix, t + (Digits - i))
             /\ (w \div RadixPower[Digits - i]) % Radix \in Int
  <2>1. /\ Digits - i \in Nat /\ i \in Nat /\ i - 1 \in Nat /\ (Digits - i) + i = Digits
        /\ (i - 1) + 1 = i /\ Digits - i \in 0 .. Digits
    BY <1>0
  <2> DEFINE d == Raised(Radix, Digits - i)
             e == Raised(Radix, i)
             f == Raised(Radix, i - 1)
  <2>0. /\ \A k \in Nat : Raised(Radix, k) \in Nat /\ Raised(Radix, k) > 0
        /\ \A k \in Nat : Raised(Radix, k + 1) = Radix * Raised(Radix, k)
        /\ \A j, k \in Nat : Raised(Radix, j + k) = Raised(Radix, j) * Raised(Radix, k)
    BY <1>0, RaisedPositive, RaisedSum, RaisedSteps
  <2>2. d \in Nat /\ d > 0 /\ e \in Nat /\ e > 0 /\ f \in Nat /\ f > 0
    BY <2>0, <2>1
  <2>3. PowerOfRadix = d * e /\ e = Radix * f /\ RadixPower[Digits - i] = d
    <3>1. Raised(Radix, (Digits - i) + i) = d * e /\ Raised(Radix, (i - 1) + 1) = Radix * f
      BY <2>0, <2>1, Zenon
    <3> QED BY <2>1, <3>1, Constants
  <2>4. (v \div Raised(Radix, t)) \div d = x \div d
    OBVIOUS
  <2> HIDE DEF d, e, f, x
  <2>5. w \div d = (x \div d) % e
    BY <1>2, <2>2, <2>3, QuotientOfRemainder
  <2>6. x \div d \in Nat
    BY <1>2, <2>2, Quotient
  <2>7. ((x \div d) % e) % Radix = (x \div d) % Radix
    <3>1. PICK y \in Nat : y = x \div d
      BY <2>6
    <3>2. (y % (Radix * f)) % Radix = y % Radix
      <4>1. Radix > 0
        BY <1>0
      <4> QED BY <1>0, <2>2, <4>1, RemainderOfRemainder
    <3> QED BY <2>3, <3>1, <3>2
  <2>8. (x \div d) % Radix = Digit(v, Radix, t + (Digits - i))
    <3>1. Digit(x, Radix, Digits - i) = Digit(v, Radix, t + (Digits - i))
      BY <1>0, <2>1, DigitOfQuotient DEF x
    <3> QED BY <3>1 DEF Digit, d
  <2>9. Digit(v, Radix, t + (Digits - i)) \in Int
    <3>1. t + (Digits - i) \in Nat
      BY <2>1
    <3>2. Digit(v, Radix, t + (Digits - i)) \in 0 .. Radix - 1
      BY <1>0, <3>1, DigitType
    <3> QED BY <1>0, <3>2
  <2> QED BY <2>3, <2>5, <2>7, <2>8, <2>9
<1> HIDE DEF x, w
<1>4. Fix(w) = [i \in 1 .. Digits |-> (w \div RadixPower[Digits - i]) % Radix]
  BY DEF Fix
<1>5. Fix(w) \in [1 .. Digits -> Int] /\ \A i \in 1 .. Digits : Fix(w)[i] = Digit(v, Radix, t + (Digits - i))
  BY <1>3, <1>4
<1>6. Fix(w) \in Seq(Int) /\ Len(Fix(w)) = Digits
  BY <1>0, <1>5
<1> QED BY <1>5, <1>6 DEF w, x

\* What is stored where.
LEMMA StoreIs ==
  ASSUME NEW t, DOMAIN t = 0 .. Room - 1, NEW addr \in Int, NEW chars \in Seq(Int)
  PROVE  /\ DOMAIN Store(t, addr, chars) = 0 .. Room - 1
         /\ \A i \in 0 .. Room - 1 :
              Store(t, addr, chars)[i] = IF i \in addr .. addr + Len(chars) - 1
                                         THEN chars[i - addr + 1] ELSE t[i]
<1>1. DOMAIN chars = 1 .. Len(chars) /\ Len(chars) \in Nat
  OBVIOUS
<1>2. \A i \in 0 .. Room - 1 : i - addr + 1 \in 1 .. Len(chars) <=> i \in addr .. addr + Len(chars) - 1
  BY <1>1
<1> QED BY <1>1, <1>2 DEF Store

------------------------------------------------------------------------------
(* The inductive invariant.                                                  *)

Routines ==
  /\ call \in Calls
  /\ pc \in {"zstr", "group"} => call.routine = "zstr"
  /\ pc \in {"zstr_length", "length", "square"} => call.routine = "zstr_length"
  /\ pc \in {"zsets", "digits"} => call.routine = "zsets"
  /\ pc = "another" => call.routine = "another"

\* An error is one that has words, or the one that zstr_length refuses a radix with.
Errors ==
  /\ pc = "failed" => \/ error = "errno" \/ error \in LIST_ERRORS
                      \/ call.routine = "zstr_length" /\ call.radix < 2
  /\ ErrorsDescribed

\* The buffer zstr is given, if it is.
Given ==
  pc = "zstr" => /\ size = IF call.given THEN Larger(2, Reckoned + 1) ELSE 0
                 /\ str = Fresh(size)

\* Between two groups, tot digits of the magnitude stand at the end of the buffer, to
\* the right of last, and num has the others; the sign stands at its beginning.
Grouping ==
  pc = "group" =>
    /\ call.v # 0 /\ size = Reckoned + 1 /\ DOMAIN str = 0 .. Room - 1
    /\ \A i \in 0 .. Room - 1 : i >= size => str[i] = Outside
    /\ call.v < 0 => str[0] = Minus
    /\ b = Neg(call.v) /\ tot \in Nat /\ last \in Nat /\ last + tot = Reach
    /\ tot < Length /\ (tot = 0 \/ tot >= Digits)
    /\ num = Mag(call.v) \div Raised(Radix, tot)
    /\ n = IF last > Digits THEN last - Digits ELSE 0
    /\ overridden = IF tot = 0 THEN Nul ELSE DigitAt(tot - 1)
    /\ \A i \in 0 .. tot - 1 : str[b + last + i] = DigitAt(tot - 1 - i)
    /\ tot > 0 => str[b + Reach] = Nul

\* The digit that stands at place i of the string when zstr returns.
Standing(i) == DigitAt(Length - 1 - (IF Tight /\ i = 1 THEN 0 ELSE i))

Ended == Neg(call.v) + Length

PrintedRight ==
  Over("zstr") =>
    /\ DOMAIN str = 0 .. Room - 1 /\ Ended < Room /\ size \in Nat
    /\ call.v < 0 => str[0] = Minus
    /\ \A i \in 0 .. Length - 1 : str[Neg(call.v) + i] = Standing(i)
    /\ str[Ended] = Nul
    /\ Tight => Ended = size
    /\ ~Tight => Ended < size /\ \A i \in 0 .. Room - 1 : i >= size => str[i] = Outside

\* zsets has the number of the digits it has read, unless it has lost that, and those it
\* has not are whole groups.
Parsing ==
  /\ pc = "zsets" => a = call.v
  /\ pc = "digits" =>
       /\ IsNumeral /\ at \in Start .. Len(S) /\ (~lost => a = Number(S, Start, at))
       /\ at # Start => (Len(S) - at) % Digits = 0

ParsedRight ==
  Over("zsets") =>
    /\ result = "ok" <=> IsNumeral
    /\ ~IsNumeral => a = call.v
    /\ IsNumeral /\ ~lost =>
         /\ Mag(a) = Number(S, Start, Len(S))
         /\ (S[1] = Minus => a <= 0) /\ (S[1] # Minus => a >= 0)

\* The digits that zstr_length has counted and those of what is left.
Whole == Len(Numeral(Mag(call.v), call.radix))
Counted ==
  /\ num \in Nat /\ sizeTotal \in Nat
  /\ num = 0 => sizeTotal = Whole
  /\ num # 0 => sizeTotal + Len(Numeral(num, call.radix)) = Whole + 1

Measuring ==
  /\ pc \in {"length", "square"} => call.radix >= 2 /\ (~lost => Counted)
  /\ pc = "square" /\ ~lost =>
       /\ num # 0 /\ sizeTemp \in Nat /\ sizeTemp > 0
       /\ mag = Raised(call.radix, sizeTemp)
       /\ IF sizeTemp = 1 THEN div = call.radix
          ELSE \E k \in 1 .. sizeTemp :
                 sizeTemp = 2 * k /\ div = Raised(call.radix, k) /\ div <= num

MeasuredRight ==
  Over("zstr_length") => call.radix >= 2 /\ (~lost => sizeTotal = Whole + Neg(call.v))

IndInv ==
  /\ Routines /\ Errors /\ Given /\ Grouping /\ PrintedRight
  /\ Parsing /\ ParsedRight /\ Measuring /\ MeasuredRight

------------------------------------------------------------------------------
(* The steps.                                                                *)

\* Which actions lead where.
LEMMA Comings ==
  ASSUME Routines, Next
  PROVE  /\ call' = call
         /\ pc' \notin {"zstr", "zstr_length", "zsets", "another"}
         /\ pc' = "group" => Begin \/ Group
         /\ pc' = "returned" /\ call.routine = "zstr" => PrintZero \/ FirstGroup
         /\ pc' \in {"length", "square"} => Measure \/ Radical \/ Square \/ Cut
         /\ pc' = "returned" /\ call.routine = "zstr_length" => EndMeasure
         /\ pc' = "digits" => Parse \/ FirstDigits \/ NextDigits
         /\ pc' = "returned" /\ call.routine = "zsets" => Parse \/ SetSign
         /\ pc' = "failed" => Measure \/ MemoryFails \/ Another
         /\ pc' \in {"described", "aborted"} => Report
<1>1. CASE PrintZero
  BY <1>1 DEF PrintZero, Return, Routines
<1>2. CASE Begin
  BY <1>2 DEF Begin, Goto, Routines
<1>3. CASE Group
  BY <1>3 DEF Group, Goto, Routines
<1>4. CASE FirstGroup
  BY <1>4 DEF FirstGroup, Return, Routines
<1>5. CASE Measure
  BY <1>5 DEF Measure, Goto, Fail, Routines
<1>6. CASE Radical
  BY <1>6 DEF Radical, Goto, Routines
<1>7. CASE Square
  BY <1>7 DEF Square, Stored, Routines
<1>8. CASE Cut
  BY <1>8 DEF Cut, Goto, Routines
<1>9. CASE EndMeasure
  BY <1>9 DEF EndMeasure, Return, Routines
<1>10. CASE Parse
  BY <1>10 DEF Parse, Goto, Return, Routines
<1>11. CASE FirstDigits
  BY <1>11 DEF FirstDigits, Goto, Routines
<1>12. CASE NextDigits
  BY <1>12 DEF NextDigits, Stored, Routines
<1>13. CASE SetSign
  BY <1>13 DEF SetSign, Return, Routines
<1>14. CASE MemoryFails
  BY <1>14 DEF MemoryFails, Fail, Routines
<1>15. CASE Another
  BY <1>15 DEF Another, Fail, Routines
<1>16. CASE Report
  BY <1>16 DEF Report, ZError, Routines
<1>17. CASE ZPError
  BY <1>17 DEF ZPError, Report, ZError, Routines
<1> QED BY <1>1, <1>2, <1>3, <1>4, <1>5, <1>6, <1>7, <1>8, <1>9, <1>10, <1>11, <1>12,
           <1>13, <1>14, <1>15, <1>16, <1>17, Zenon DEF Next

LEMMA CallStays ==
  ASSUME call' = call
  PROVE  /\ Reckoned' = Reckoned /\ Length' = Length /\ Reach' = Reach /\ Tight' = Tight
         /\ Ended' = Ended /\ S' = S /\ Signed' = Signed /\ Start' = Start
         /\ IsNumeral' = IsNumeral /\ Whole' = Whole
<1>1. Reckoned' = Reckoned
  BY DEF Reckoned
<1>2. Length' = Length
  BY DEF Length
<1>3. S' = S
  BY DEF S
<1>4. Signed' = Signed
  BY <1>3 DEF Signed
<1>5. Start' = Start
  BY <1>4 DEF Start
<1> QED BY <1>1, <1>2, <1>3, <1>4, <1>5 DEF Reach, Tight, Ended, IsNumeral, Whole

LEMMA RoutinesStep ==
  ASSUME Routines, [Next]_vars
  PROVE  Routines'
<1>1. CASE Next
  BY <1>1, Comings DEF Routines, Begin, Group, Measure, Radical, Square, Cut,
     Parse, FirstDigits, NextDigits
<1>2. CASE UNCHANGED vars
  BY <1>2 DEF Routines, vars
<1> QED BY <1>1, <1>2

LEMMA AnothersRaise ==
  ASSUME call \in Calls, call.routine = "another"
  PROVE  call.raises = "errno" \/ call.raises \in LIST_ERRORS
<1>1. \A v : call \notin Prints(v)
  BY DEF Prints
<1> QED BY <1>1 DEF Calls, LIST_ERRORS

LEMMA ErrorsStep ==
  ASSUME Routines, Errors, [Next]_vars
  PROVE  Errors'
<1>1. CASE Next
  <2>1. call' = call
    BY <1>1, Comings
  <2>2. CASE pc' = "failed"
    <3>1. CASE Measure
      BY <2>1, <2>2, <3>1 DEF Errors, ErrorsDescribed, Measure, Fail, Goto, Routines
    <3>2. CASE MemoryFails
      BY <2>2, <3>2 DEF Errors, ErrorsDescribed, MemoryFails, Fail
    <3>3. CASE Another
      BY <2>1, <2>2, <3>3, AnothersRaise DEF Errors, ErrorsDescribed, Another, Fail, Routines
    <3> QED BY <1>1, <2>2, <3>1, <3>2, <3>3, Comings
  <2>3. CASE pc' \in {"described", "aborted"}
    <3>1. Report
      BY <1>1, <2>3, Comings
    <3>2. PICK desc \in BOOLEAN : ZError(desc)
      BY <3>1 DEF Report
    <3> QED BY <2>1, <2>3, <3>2 DEF Errors, ErrorsDescribed, ZError
  <2>4. CASE pc' \notin {"failed", "described", "aborted"}
    BY <2>4 DEF Errors, ErrorsDescribed
  <2> QED BY <2>2, <2>3, <2>4
<1>2. CASE UNCHANGED vars
  BY <1>2 DEF Errors, ErrorsDescribed, vars
<1> QED BY <1>1, <1>2

LEMMA GivenStep ==
  ASSUME Routines, Given, [Next]_vars
  PROVE  Given'
<1>1. CASE Next
  BY <1>1, Comings DEF Given
<1>2. CASE UNCHANGED vars
  BY <1>2, CallStays DEF Given, Fresh, vars
<1> QED BY <1>1, <1>2

LEMMA FreshIs ==
  ASSUME Room \in Nat, Room > 0, NEW k \in Nat
  PROVE  /\ Room - 1 \in Nat /\ DOMAIN Fresh(k) = 0 .. Room - 1
         /\ \A i \in 0 .. Room - 1 : i >= k => Fresh(k)[i] = Outside
BY DEF Fresh

LEMMA SignStored ==
  ASSUME NEW t, DOMAIN t = 0 .. Room - 1
  PROVE  /\ DOMAIN Store(t, 0, <<Minus>>) = 0 .. Room - 1
         /\ \A i \in 0 .. Room - 1 : Store(t, 0, <<Minus>>)[i] = IF i = 0 THEN Minus ELSE t[i]
<1>1. DOMAIN <<Minus>> = {1} /\ <<Minus>>[1] = Minus
  OBVIOUS
<1>2. \A i \in 0 .. Room - 1 : i - 0 + 1 \in {1} <=> i = 0
  OBVIOUS
<1> QED BY <1>1, <1>2 DEF Store

LEMMA BeginStep ==
  ASSUME Routines, Given, Begin
  PROVE  Grouping'
<1>1. /\ pc = "zstr" /\ call.v # 0 /\ call \in Calls /\ call.routine = "zstr" /\ call' = call
      /\ size' = Allotted /\ num' = Mag(call.v) /\ b' = Neg(call.v)
      /\ str' = Store(IF call.given THEN str ELSE Fresh(Allotted), 0, <<Minus>>)
      /\ last' = Reach /\ n' = (IF Reach > Digits THEN Reach - Digits ELSE 0)
      /\ tot' = 0 /\ overridden' = Nul
  BY DEF Routines, Begin, Goto, NextGroup, Reach
<1>2. /\ Reckoned \in Nat /\ Reckoned > 0 /\ Reckoned + 2 <= Room
      /\ Reach \in Nat /\ Length \in Nat /\ Length > 0
  BY <1>1, Reckoning
<1>3. call.v \in Int /\ call.given \in BOOLEAN /\ Mag(call.v) \in Nat
  BY <1>1, Printing, MagNeg
<1>4. Room \in Nat /\ Radix \in Nat
  BY StringsAssumption
<1>5. size' = Reckoned + 1
  BY <1>1, <1>2, <1>3 DEF Allotted, Given, Larger
<1>6. (IF call.given THEN str ELSE Fresh(Allotted)) = Fresh(Reckoned + 1)
  BY <1>1, <1>2, <1>3 DEF Allotted, Given, Larger
<1>7. DOMAIN str' = 0 .. Room - 1
      /\ \A i \in 0 .. Room - 1 : str'[i] = IF i = 0 THEN Minus ELSE Fresh(Reckoned + 1)[i]
  <2>1. DOMAIN Fresh(Reckoned + 1) = 0 .. Room - 1
    BY <1>2, <1>4, FreshIs
  <2>2. str' = Store(Fresh(Reckoned + 1), 0, <<Minus>>)
    BY <1>1, <1>6
  <2> QED BY <2>1, <2>2, SignStored
<1>8. \A i \in 0 .. Room - 1 : i >= Reckoned + 1 => str'[i] = Outside
  <2>1. \A i \in 0 .. Room - 1 : i >= Reckoned + 1 => Fresh(Reckoned + 1)[i] = Outside
    BY <1>2, <1>4, FreshIs
  <2> QED BY <1>2, <1>7, <2>1
<1>9. str'[0] = Minus
  BY <1>2, <1>4, <1>7
<1>10. num' = Mag(call.v) \div Raised(Radix, 0)
  <2>1. Raised(Radix, 0) = 1
    BY <1>4, RaisedSteps
  <2>2. Mag(call.v) = 1 * Mag(call.v) + 0
    BY <1>3
  <2>3. Mag(call.v) \div 1 = Mag(call.v)
    BY <1>3, <2>2, QuotientIs
  <2> QED BY <1>1, <2>1, <2>3
<1>11. Reckoned' = Reckoned /\ Reach' = Reach /\ Length' = Length
  BY <1>1, CallStays
<1> QED BY <1>1, <1>2, <1>5, <1>7, <1>8, <1>9, <1>10, <1>11 DEF Grouping

\* What another group may follow.
LEMMA Left ==
  ASSUME Routines, Grouping, pc = "group"
  PROVE  /\ call.v \in Int /\ Mag(call.v) \in Nat /\ Mag(call.v) > 0 /\ Neg(call.v) \in {0, 1}
         /\ num \div PowerOfRadix # 0 <=> tot + Digits < Length
         /\ num % PowerOfRadix = (Mag(call.v) \div Raised(Radix, tot)) % PowerOfRadix
         /\ num \div PowerOfRadix = Mag(call.v) \div Raised(Radix, tot + Digits)
         /\ num \in Nat
<1>1. call \in Calls /\ call.routine = "zstr" /\ call.v # 0 /\ tot \in Nat
      /\ num = Mag(call.v) \div Raised(Radix, tot)
  BY DEF Routines, Grouping
<1>2. call.v \in Int /\ Mag(call.v) \in Nat /\ Mag(call.v) > 0 /\ Neg(call.v) \in {0, 1}
  BY <1>1, Printing, MagNeg
<1>3. Radix \in Nat /\ Radix > 1 /\ Digits \in Nat /\ PowerOfRadix = Raised(Radix, Digits)
  BY Constants
<1>4. /\ Raised(Radix, tot) \in Nat /\ Raised(Radix, tot) > 0
      /\ Raised(Radix, Digits) \in Nat /\ Raised(Radix, Digits) > 0
      /\ Raised(Radix, tot + Digits) = Raised(Radix, tot) * Raised(Radix, Digits)
  BY <1>1, <1>3, RaisedPositive, RaisedSum
<1>5. num \div PowerOfRadix = Mag(call.v) \div Raised(Radix, tot + Digits)
  BY <1>1, <1>2, <1>3, <1>4, QuotientOfQuotient
<1>6. tot + Digits \in Nat
  BY <1>1, <1>3
<1>7. Mag(call.v) \div Raised(Radix, tot + Digits) = 0 <=> Length <= tot + Digits
  BY <1>2, <1>3, <1>6, QuotientLength DEF Length
<1>8. Length \in Nat
  BY <1>2, <1>3, NumeralDigits DEF Length
<1>9. num \in Nat
  BY <1>1, <1>2, <1>3, QuotientLength
<1> QED BY <1>1, <1>2, <1>5, <1>6, <1>7, <1>8, <1>9

LEMMA GroupStep ==
  ASSUME Routines, Grouping, Group
  PROVE  Grouping'
<1>1. /\ pc = "group" /\ call.v # 0 /\ call \in Calls /\ call.routine = "zstr" /\ call' = call
      /\ num \div PowerOfRadix # 0 /\ num' = num \div PowerOfRadix
      /\ str' = Store(str, b + n, Fix(num % PowerOfRadix) \o <<overridden>>)
      /\ overridden' = str'[b + n] /\ last' = n /\ n' = (IF n > Digits THEN n - Digits ELSE 0)
      /\ tot' = tot + Digits /\ size' = size /\ b' = b /\ pc' = "group"
  <2>1. pc = "group" /\ call' = call /\ pc' = "group" /\ size' = size /\ b' = b
        /\ num \div PowerOfRadix # 0 /\ num' = num \div PowerOfRadix
    BY DEF Group, Goto
  <2>2. str' = Store(str, b + n, Fix(num % PowerOfRadix) \o <<overridden>>)
        /\ overridden' = str'[b + n] /\ tot' = tot + Digits
    BY Zenon DEF Group
  <2>3. last' = n /\ n' = (IF n > Digits THEN n - Digits ELSE 0)
    BY Zenon DEF Group, NextGroup
  <2>4. call.v # 0 /\ call \in Calls /\ call.routine = "zstr"
    BY <2>1 DEF Routines, Grouping
  <2> QED BY <2>1, <2>2, <2>3, <2>4
<1>2. /\ size = Reckoned + 1 /\ DOMAIN str = 0 .. Room - 1
      /\ \A i \in 0 .. Room - 1 : i >= size => str[i] = Outside
      /\ call.v < 0 => str[0] = Minus
      /\ b = Neg(call.v) /\ tot \in Nat /\ last \in Nat /\ last + tot = Reach
      /\ tot < Length /\ (tot = 0 \/ tot >= Digits)
      /\ n = IF last > Digits THEN last - Digits ELSE 0
      /\ overridden = IF tot = 0 THEN Nul ELSE DigitAt(tot - 1)
      /\ \A i \in 0 .. tot - 1 : str[b + last + i] = DigitAt(tot - 1 - i)
      /\ tot > 0 => str[b + Reach] = Nul
  BY <1>1 DEF Grouping
<1>3. /\ Reckoned \in Nat /\ Reckoned + 2 <= Room /\ Reach \in Nat /\ Length \in Nat
      /\ ~Tight => Length <= Reach
      /\ Tight => Length = Reach + 1 /\ Reach = Digits
  BY <1>1, Reckoning
<1>4. /\ call.v \in Int /\ Mag(call.v) \in Nat /\ Neg(call.v) \in {0, 1}
      /\ tot + Digits < Length
      /\ num % PowerOfRadix = (Mag(call.v) \div Raised(Radix, tot)) % PowerOfRadix
      /\ num' = Mag(call.v) \div Raised(Radix, tot + Digits)
  BY <1>1, Left
<1>5. Digits \in Nat /\ Digits > 0 /\ Radix \in Nat /\ Radix > 1 /\ Room \in Nat
  BY Constants, StringsAssumption
<1>6. last >= Digits /\ n = last - Digits /\ n \in Nat
  BY <1>2, <1>3, <1>4, <1>5
<1>7. Reach = Reckoned - b /\ b \in {0, 1} /\ (call.v < 0 => b = 1)
  BY <1>2, <1>4, MagNeg DEF Reach
<1>8. overridden \in Int
  <2>1. CASE tot = 0
    BY <1>2, <2>1 DEF Nul
  <2>2. CASE tot > 0
    <3>1. tot - 1 \in Nat
      BY <1>2, <2>2
    <3>2. DigitAt(tot - 1) \in 0 .. Radix - 1
      BY <1>4, <1>5, <3>1, DigitType DEF DigitAt
    <3> QED BY <1>2, <1>5, <2>2, <3>2
  <2> QED BY <1>2, <2>1, <2>2
<1>9. PICK chars \in Seq(Int) :
        /\ chars = Fix(num % PowerOfRadix) \o <<overridden>> /\ Len(chars) = Digits + 1
        /\ chars[Digits + 1] = overridden
        /\ \A i \in 1 .. Digits : chars[i] = DigitAt(tot + (Digits - i))
  <2>1. PICK g \in Seq(Int) :
          /\ g = Fix(num % PowerOfRadix) /\ Len(g) = Digits
          /\ \A i \in 1 .. Digits : g[i] = Digit(Mag(call.v), Radix, tot + (Digits - i))
    BY <1>2, <1>4, GroupDigits
  <2>2. g \o <<overridden>> \in Seq(Int) /\ Len(g \o <<overridden>>) = Digits + 1
        /\ (g \o <<overridden>>)[Digits + 1] = overridden
        /\ \A i \in 1 .. Digits : (g \o <<overridden>>)[i] = g[i]
    BY <1>5, <1>8, <2>1
  <2> QED BY <2>1, <2>2 DEF DigitAt
<1>10. PICK addr \in Nat : addr = b + n /\ addr + Digits = b + last /\ b + last <= Reckoned
  <2>1. b + n \in Nat /\ b + n + Digits = b + last /\ b + last <= Reckoned
    BY <1>2, <1>3, <1>5, <1>6, <1>7
  <2> QED BY <2>1
<1>0. /\ b \in Nat /\ n \in Nat /\ last \in Nat /\ tot \in Nat /\ Reach \in Nat /\ Length \in Nat
      /\ Reckoned \in Nat /\ Room \in Nat /\ Digits \in Nat /\ Digits > 0 /\ size = Reckoned + 1
      /\ last = n + Digits /\ last + tot = Reach /\ Reckoned = b + Reach /\ Reckoned + 2 <= Room
      /\ addr \in Nat /\ addr = b + n /\ addr + Digits = b + last /\ b + last <= Reckoned
      /\ tot + Digits < Length /\ Len(chars) = Digits + 1 /\ (call.v < 0 => b = 1)
  <2>1. n \in Nat /\ last = n + Digits
    BY <1>2, <1>5, <1>6
  <2>2. Reckoned = b + Reach /\ b \in Nat
    BY <1>3, <1>7
  <2> QED BY <1>2, <1>3, <1>4, <1>5, <1>7, <1>9, <1>10, <2>1, <2>2
<1>11. DOMAIN str' = 0 .. Room - 1
       /\ \A i \in 0 .. Room - 1 :
            str'[i] = IF i \in addr .. addr + Digits THEN chars[i - addr + 1] ELSE str[i]
  <2>1. str' = Store(str, addr, chars)
    BY <1>1, <1>9, <1>10
  <2>2. DOMAIN Store(str, addr, chars) = 0 .. Room - 1
        /\ \A i \in 0 .. Room - 1 :
             Store(str, addr, chars)[i] = IF i \in addr .. addr + Len(chars) - 1
                                          THEN chars[i - addr + 1] ELSE str[i]
    BY <1>2, addr \in Int, StoreIs
  <2>3. addr + Len(chars) - 1 = addr + Digits
    BY <1>0
  <2> QED BY <2>1, <2>2, <2>3
<1>12. \A i \in 0 .. Room - 1 : i >= size => str'[i] = Outside
  <2>1. \A i \in 0 .. Room - 1 : i >= size => i \notin addr .. addr + Digits
    BY <1>0
  <2> QED BY <1>2, <1>11, <2>1
<1>13. call.v < 0 => str'[0] = Minus
  <2>1. 0 \in 0 .. Room - 1 /\ (call.v < 0 => 0 \notin addr .. addr + Digits)
    BY <1>0
  <2> QED BY <1>2, <1>11, <2>1
<1>14. overridden' = DigitAt(tot + Digits - 1)
  <2>1. addr \in 0 .. Room - 1 /\ addr \in addr .. addr + Digits /\ addr - addr + 1 = 1 /\ 1 \in 1 .. Digits
    BY <1>0
  <2>2. str'[addr] = chars[1] /\ chars[1] = DigitAt(tot + (Digits - 1))
    BY <1>9, <1>11, <2>1
  <2>3. tot + (Digits - 1) = tot + Digits - 1
    BY <1>2, <1>5
  <2> QED BY <1>1, <1>10, <2>2, <2>3
<1>15. ASSUME NEW i \in 0 .. tot + Digits - 1
       PROVE  str'[b + n + i] = DigitAt(tot + Digits - 1 - i)
  <2>1. PICK k \in 0 .. Room - 1 : k = b + n + i /\ k = addr + i
    <3>1. b + n + i = addr + i /\ addr + i \in 0 .. Room - 1
      BY <1>0
    <3> QED BY <3>1
  <2>2. CASE i < Digits
    <3>1. k \in addr .. addr + Digits /\ k - addr + 1 = i + 1 /\ i + 1 \in 1 .. Digits
      BY <1>5, <2>1, <2>2
    <3>2. str'[k] = chars[i + 1]
      BY <1>11, <3>1
    <3>3. chars[i + 1] = DigitAt(tot + (Digits - (i + 1)))
      BY <1>9, <3>1
    <3>4. tot + (Digits - (i + 1)) = tot + Digits - 1 - i
      BY <1>2, <1>5
    <3> QED BY <2>1, <3>2, <3>3, <3>4
  <2>3. CASE i = Digits
    <3>1. k \in addr .. addr + Digits /\ k - addr + 1 = Digits + 1 /\ tot # 0
      BY <1>0, <2>1, <2>3
    <3>2. str'[k] = overridden
      BY <1>9, <1>11, <3>1
    <3>3. tot + Digits - 1 - i = tot - 1
      BY <1>2, <1>5, <2>3
    <3> QED BY <1>2, <2>1, <3>1, <3>2, <3>3
  <2>4. CASE i > Digits
    <3>1. PICK j \in 0 .. tot - 1 : i = Digits + j
      <4>1. i - Digits \in 0 .. tot - 1 /\ i = Digits + (i - Digits)
        BY <1>2, <1>5, <2>4
      <4> QED BY <4>1
    <3>2. k \notin addr .. addr + Digits /\ k = b + last + j /\ tot + Digits - 1 - i = tot - 1 - j
      BY <1>0, <2>1, <2>4, <3>1
    <3>3. str'[k] = str[k]
      BY <1>11, <3>2
    <3> QED BY <1>2, <2>1, <3>2, <3>3
  <2> QED BY <1>5, <2>2, <2>3, <2>4
<1>16. str'[b + Reach] = Nul
  <2>1. PICK k \in 0 .. Room - 1 : k = b + Reach
    <3>1. b + Reach \in 0 .. Room - 1
      BY <1>0
    <3> QED BY <3>1
  <2>2. CASE tot = 0
    <3>1. k \in addr .. addr + Digits /\ k - addr + 1 = Digits + 1
      BY <1>0, <2>1, <2>2
    <3> QED BY <1>2, <1>9, <1>11, <2>1, <2>2, <3>1
  <2>3. CASE tot > 0
    <3>1. k \notin addr .. addr + Digits
      BY <1>0, <2>1, <2>3
    <3> QED BY <1>2, <1>11, <2>1, <2>3, <3>1
  <2> QED BY <1>2, <2>2, <2>3
<1>17. Reckoned' = Reckoned /\ Reach' = Reach /\ Length' = Length
  BY <1>1, CallStays
<1>18. \A k : DigitAt(k)' = DigitAt(k)
  BY <1>1 DEF DigitAt
<1>19. tot' \in Nat /\ last' \in Nat /\ last' + tot' = Reach /\ tot' < Length
       /\ tot' >= Digits /\ tot' > 0
  <2>1. tot + Digits \in Nat /\ n + (tot + Digits) = Reach /\ tot + Digits >= Digits /\ tot + Digits > 0
    BY <1>0
  <2> QED BY <1>0, <1>1, <2>1
<1>20. overridden' = Digit(Mag(call.v), Radix, tot' - 1)
       /\ \A i \in 0 .. tot' - 1 : str'[b + last' + i] = Digit(Mag(call.v), Radix, tot' - 1 - i)
  <2>1. tot' = tot + Digits /\ last' = n
    BY <1>1
  <2>2. PICK t \in Nat : t = tot' /\ t = tot + Digits
    BY <1>0, <2>1
  <2>3. overridden' = DigitAt(t - 1)
    BY <1>0, <1>14, <2>2
  <2>4. ASSUME NEW i \in 0 .. t - 1
        PROVE  str'[b + last' + i] = DigitAt(t - 1 - i)
    <3>1. i \in 0 .. tot + Digits - 1
      BY <1>0, <2>2
    <3>2. str'[b + n + i] = DigitAt(tot + Digits - 1 - i)
      BY <1>15, <3>1
    <3> QED BY <1>0, <2>1, <2>2, <3>2
  <2> QED BY <2>2, <2>3, <2>4 DEF DigitAt
<1> QED BY <1>1, <1>2, <1>4, <1>11, <1>12, <1>13, <1>16, <1>17, <1>19, <1>20
    DEF Grouping, DigitAt

LEMMA GroupingStep ==
  ASSUME Routines, Given, Grouping, [Next]_vars
  PROVE  Grouping'
<1>1. CASE Next
  <2>1. pc' = "group" => Begin \/ Group
    BY <1>1, Comings
  <2>2. pc' # "group" => Grouping'
    BY DEF Grouping
  <2> QED BY <2>1, <2>2, BeginStep, GroupStep, Zenon
<1>2. CASE UNCHANGED vars
  <2>1. Reckoned' = Reckoned /\ Length' = Length /\ Reach' = Reach
    BY <1>2, CallStays DEF vars
  <2> QED BY <1>2, <2>1 DEF Grouping, DigitAt, vars
<1> QED BY <1>1, <1>2

LEMMA ZeroStored ==
  ASSUME NEW t, DOMAIN t = 0 .. Room - 1
  PROVE  /\ DOMAIN Store(t, 0, <<0, Nul>>) = 0 .. Room - 1
         /\ \A i \in 0 .. Room - 1 :
              Store(t, 0, <<0, Nul>>)[i] = IF i = 0 THEN 0 ELSE IF i = 1 THEN Nul ELSE t[i]
<1>1. DOMAIN <<0, Nul>> = {1, 2} /\ <<0, Nul>>[1] = 0 /\ <<0, Nul>>[2] = Nul
  OBVIOUS
<1>2. \A i \in 0 .. Room - 1 : (i - 0 + 1 \in {1, 2} <=> i = 0 \/ i = 1)
                               /\ (i = 0 => i - 0 + 1 = 1) /\ (i = 1 => i - 0 + 1 = 2)
  OBVIOUS
<1> QED BY <1>1, <1>2 DEF Store

LEMMA PrintZeroStep ==
  ASSUME Routines, Given, PrintZero
  PROVE  PrintedRight'
<1>1. /\ pc = "zstr" /\ call.v = 0 /\ call \in Calls /\ call.routine = "zstr" /\ call' = call
      /\ size' = (IF call.given THEN size ELSE 2)
      /\ str' = Store(IF call.given THEN str ELSE Fresh(2), 0, <<0, Nul>>)
  BY DEF Routines, PrintZero, Return
<1>2. Radix \in Nat /\ Radix > 1 /\ CharBase \in Nat /\ Digits \in Nat
      /\ Room \in Nat /\ Spare \in Nat
  BY Constants, StringsAssumption
<1>3. call.v \in Printed /\ call.v \in Int /\ call.given \in BOOLEAN
      /\ (\E zeros \in {0, 1} : call.used = Chars(call.v) + zeros)
      /\ (call.n = 0 \/ call.n \in Len(Decimal(call.v)) .. Len(Decimal(call.v)) + Spare)
  BY <1>1, Printing
<1>4. Mag(call.v) = 0 /\ Neg(call.v) = 0 /\ Chars(call.v) = 0
  BY <1>1 DEF Mag, Neg, Chars
<1>5. Length = 1 /\ DigitAt(0) = 0
  <2>1. Numeral(0, Radix) = <<0>>
    BY <1>2, NumeralSteps
  <2>2. Length = 1
    BY <1>4, <2>1 DEF Length
  <2>3. \A i \in 1 .. Len(Numeral(0, Radix)) :
          Numeral(0, Radix)[i] = Digit(0, Radix, Len(Numeral(0, Radix)) - i)
    BY <1>2, NumeralDigits
  <2>4. Len(<<0>>) = 1 /\ 1 \in 1 .. 1 /\ 1 - 1 = 0 /\ <<0>>[1] = 0
    OBVIOUS
  <2>5. 0 = Digit(0, Radix, 0)
    BY <2>1, <2>3, <2>4
  <2> QED BY <1>4, <2>2, <2>5 DEF DigitAt
<1>6. Len(Decimal(call.v)) = 1
  <2>1. Len(Decimal(call.v)) = Neg(call.v) + Length
    BY <1>3, DecimalIs DEF Length
  <2> QED BY <1>4, <1>5, <2>1
<1>7. Reckoned \in Nat
  <2>1. call.used \in Nat
    BY <1>3, <1>4
  <2>2. (Digits + 1) * call.used \in Nat
    BY <1>2, <2>1
  <2>3. call.n # 0 => call.n \in Nat
    BY <1>2, <1>3, <1>6
  <2> QED BY <2>2, <2>3 DEF Reckoned, Guess
<1>8. Room >= 3
  <2>1. Len(Decimal(call.v)) + Spare + 2 <= Room
    BY <1>3, RoomAssumption
  <2> QED BY <1>2, <1>6, <2>1
<1>9. PICK k \in Nat : k >= 2 /\ size' = k /\ str' = Store(Fresh(k), 0, <<0, Nul>>)
  <2>1. CASE call.given
    <3>1. Larger(2, Reckoned + 1) \in Nat /\ Larger(2, Reckoned + 1) >= 2
      BY <1>7 DEF Larger
    <3>2. size = Larger(2, Reckoned + 1) /\ str = Fresh(size)
      BY <1>1, <2>1 DEF Given
    <3> QED BY <1>1, <2>1, <3>1, <3>2
  <2>2. CASE ~call.given
    BY <1>1, <2>2
  <2> QED BY <2>1, <2>2
<1>10. DOMAIN Fresh(k) = 0 .. Room - 1 /\ \A i \in 0 .. Room - 1 : i >= k => Fresh(k)[i] = Outside
  BY <1>2, <1>8, FreshIs
<1>11. DOMAIN str' = 0 .. Room - 1
       /\ \A i \in 0 .. Room - 1 : str'[i] = IF i = 0 THEN 0 ELSE IF i = 1 THEN Nul ELSE Fresh(k)[i]
  BY <1>9, <1>10, ZeroStored
<1>12. str'[0] = 0 /\ str'[1] = Nul
  BY <1>2, <1>8, <1>11
<1>13. \A i \in 0 .. Room - 1 : i >= k => str'[i] = Outside
  BY <1>9, <1>10, <1>11
<1>14. Ended = 1 /\ ~Tight
  BY <1>1, <1>4, <1>5 DEF Ended, Tight
<1>15. ASSUME NEW i \in 0 .. Length - 1
       PROVE  str'[Neg(call.v) + i] = Standing(i)
  BY <1>4, <1>5, <1>12, <1>14 DEF Standing
<1>16. Length' = Length /\ Tight' = Tight /\ Ended' = Ended
  BY <1>1, CallStays
<1>17. \A i : Standing(i)' = Standing(i)
  BY <1>1, <1>16 DEF Standing, DigitAt
<1>18. Ended' < Room /\ ~Tight' /\ size' \in Nat /\ Ended' < size' /\ str'[Ended'] = Nul
       /\ ~(call'.v < 0)
  <2>1. Ended' = 1 /\ ~Tight'
    BY <1>14, <1>16
  <2>2. ~(call'.v < 0)
    BY <1>1
  <2>3. Ended' < Room /\ size' \in Nat /\ Ended' < size'
    BY <1>2, <1>8, <1>9, <2>1
  <2> QED BY <1>12, <2>1, <2>2, <2>3
<1>19. \A i \in 0 .. Length' - 1 : str'[Neg(call'.v) + i] = Standing(i)'
  BY <1>1, <1>15, <1>16, <1>17
<1>20. \A i \in 0 .. Room - 1 : i >= size' => str'[i] = Outside
  BY <1>9, <1>13
<1> QED BY <1>11, <1>18, <1>19, <1>20 DEF PrintedRight

\* The places of a string between two groups.
LEMMA Places ==
  ASSUME Routines, Grouping, pc = "group"
  PROVE  /\ b \in {0, 1} /\ last \in Nat /\ tot \in Nat /\ Reach \in Nat
         /\ Length \in Nat /\ Reckoned \in Nat /\ Room \in Nat /\ Digits \in Nat /\ Digits > 0
         /\ size = Reckoned + 1 /\ last + tot = Reach /\ Reckoned = b + Reach
         /\ Reckoned + 2 <= Room /\ tot < Length /\ (tot = 0 \/ tot >= Digits)
         /\ (call.v < 0 => b = 1) /\ b = Neg(call.v) /\ Ended = b + Length
         /\ (~Tight => Length <= Reach)
         /\ (Tight => Length = Reach + 1 /\ Reach = Digits /\ b = 1)
         /\ DOMAIN str = 0 .. Room - 1
<1>1. call \in Calls /\ call.routine = "zstr" /\ call.v # 0
  BY DEF Routines, Grouping
<1>2. call.v \in Int
  BY <1>1, Printing
<1>3. /\ b = Neg(call.v) /\ last \in Nat /\ tot \in Nat /\ size = Reckoned + 1
      /\ last + tot = Reach /\ tot < Length /\ (tot = 0 \/ tot >= Digits)
      /\ DOMAIN str = 0 .. Room - 1
  BY DEF Grouping
<1>4. /\ Reckoned \in Nat /\ Reckoned + 2 <= Room /\ Reach \in Nat /\ Length \in Nat
      /\ (~Tight => Length <= Reach)
      /\ (Tight => Length = Reach + 1 /\ Reach = Digits /\ Neg(call.v) = 1)
  BY <1>1, Reckoning
<1>5. Neg(call.v) \in {0, 1} /\ (call.v < 0 => Neg(call.v) = 1)
  BY <1>2, MagNeg
<1>6. Room \in Nat /\ Digits \in Nat /\ Digits > 0
  BY Constants, StringsAssumption
<1>7. Reckoned = Neg(call.v) + Reach
  BY <1>4, <1>5 DEF Reach
<1> QED BY <1>3, <1>4, <1>5, <1>6, <1>7 DEF Ended

\* The first group has the digits that are left.
LEMMA FirstDigitsOf ==
  ASSUME Routines, Grouping, pc = "group", num \div PowerOfRadix = 0
  PROVE  /\ Length <= tot + Digits
         /\ \E chars \in Seq(Int) :
              /\ chars = Short(num % PowerOfRadix) /\ Len(chars) = Length - tot
              /\ \A i \in 1 .. Length - tot : chars[i] = DigitAt(Length - i)
<1>1. /\ call.v \in Int /\ Mag(call.v) \in Nat /\ Mag(call.v) > 0
      /\ ~(tot + Digits < Length) /\ num \in Nat
  BY Left
<1>2. num = Mag(call.v) \div Raised(Radix, tot) /\ tot \in Nat /\ tot < Length
      /\ Length \in Nat /\ Digits \in Nat
  BY Places DEF Grouping
<1>3. Radix \in Nat /\ Radix > 1 /\ PowerOfRadix = Raised(Radix, Digits)
  BY Constants
<1>4. PowerOfRadix \in Nat /\ PowerOfRadix > 0
  BY <1>2, <1>3, RaisedPositive
<1>5. num % PowerOfRadix = num
  <2>1. PICK r \in Nat : r = num % PowerOfRadix /\ num = PowerOfRadix * (num \div PowerOfRadix) + r
    BY <1>1, <1>4, Quotient
  <2>2. num = PowerOfRadix * 0 + r
    BY <2>1
  <2>3. PowerOfRadix * 0 + r = r
    BY <1>4
  <2> QED BY <2>1, <2>2, <2>3
<1>6. Len(Numeral(num, Radix)) = Length - tot
  BY <1>1, <1>2, <1>3, QuotientLength DEF Length
<1>7. PICK m \in Nat : m = Length - tot /\ Length = tot + m
  <2>1. Length - tot \in Nat /\ Length = tot + (Length - tot)
    BY <1>2
  <2> QED BY <2>1
<1>8. PICK chars : chars = Numeral(num, Radix)
  OBVIOUS
<1>9. chars \in Seq(Nat) /\ Len(chars) = m
      /\ \A i \in 1 .. m : chars[i] = Digit(num, Radix, m - i)
  <2>1. chars \in Seq(Nat)
    BY <1>1, <1>3, <1>8, NumeralSteps
  <2>2. Len(chars) = m
    BY <1>6, <1>7, <1>8
  <2>3. \A i \in 1 .. Len(Numeral(num, Radix)) :
          Numeral(num, Radix)[i] = Digit(num, Radix, Len(Numeral(num, Radix)) - i)
    <3>1. PICK w \in Nat : w = num
      BY <1>1
    <3>2. \A i \in 1 .. Len(Numeral(w, Radix)) :
            Numeral(w, Radix)[i] = Digit(w, Radix, Len(Numeral(w, Radix)) - i)
      BY <1>3, NumeralDigits
    <3> QED BY <3>1, <3>2
  <2>4. \A i \in 1 .. m : chars[i] = Digit(num, Radix, m - i)
    BY <1>8, <2>2, <2>3
  <2> QED BY <2>1, <2>2, <2>4
<1>10. ASSUME NEW i \in 1 .. m
       PROVE  chars[i] = DigitAt(Length - i)
  <2>1. PICK k \in Nat : k = m - i /\ Length - i = tot + k
    <3>1. m - i \in Nat /\ Length - i = tot + (m - i)
      BY <1>2, <1>7
    <3> QED BY <3>1
  <2>2. Digit(num, Radix, k) = Digit(Mag(call.v), Radix, tot + k)
    BY <1>1, <1>2, <1>3, DigitOfQuotient
  <2> QED BY <1>9, <2>1, <2>2 DEF DigitAt
<1>11. chars \in Seq(Int)
  BY <1>9
<1> QED BY <1>1, <1>2, <1>5, <1>7, <1>8, <1>9, <1>10, <1>11 DEF Short

\* The string when zstr returns, of what its parts are.
LEMMA PrintedParts ==
  ASSUME call' = call, DOMAIN str' = 0 .. Room - 1, size' = size, size \in Nat, Ended < Room,
         call.v < 0 => str'[0] = Minus,
         \A i \in 0 .. Length - 1 : str'[Neg(call.v) + i] = Standing(i),
         str'[Ended] = Nul,
         Tight => Ended = size,
         ~Tight => Ended < size /\ \A i \in 0 .. Room - 1 : i >= size => str'[i] = Outside
  PROVE  PrintedRight'
<1>1. Length' = Length /\ Tight' = Tight /\ Ended' = Ended
  BY CallStays
<1>2. \A i : Standing(i)' = Standing(i)
  BY <1>1 DEF Standing, DigitAt
<1> QED BY <1>1, <1>2 DEF PrintedRight

LEMMA OnlyGroupStep ==
  ASSUME Routines, Grouping, FirstGroup, tot = 0
  PROVE  PrintedRight'
<1>1. /\ pc = "group" /\ call' = call /\ size' = size /\ num \div PowerOfRadix = 0
      /\ str' = Store(str, b, Short(num % PowerOfRadix) \o <<Nul>>)
  BY DEF FirstGroup, Return
<1>0. Ended = b + Length /\ b = Neg(call.v) /\ ~Tight /\ DOMAIN str = 0 .. Room - 1
  <2>1. Length <= tot + Digits
    BY <1>1, FirstDigitsOf
  <2>2. ~Tight
    BY <1>1, <2>1, Places
  <2> QED BY <1>1, <2>2, Places
<1>2. /\ b \in Nat /\ Length \in Nat /\ Room \in Nat /\ size \in Nat
      /\ Length > 0 /\ b + Length < size /\ size < Room /\ (call.v < 0 => b = 1)
  BY <1>0, <1>1, Places
<1>3. PICK chars \in Seq(Int) :
        /\ chars = Short(num % PowerOfRadix) \o <<Nul>> /\ Len(chars) = Length + 1
        /\ \A i \in 1 .. Length : chars[i] = DigitAt(Length - i)
        /\ chars[Length + 1] = Nul
  <2>1. PICK g \in Seq(Int) :
          /\ g = Short(num % PowerOfRadix) /\ Len(g) = Length - tot
          /\ \A i \in 1 .. Length - tot : g[i] = DigitAt(Length - i)
    BY <1>1, FirstDigitsOf
  <2>2. Length - tot = Length
    BY <1>2
  <2>3. g \o <<Nul>> \in Seq(Int) /\ Len(g \o <<Nul>>) = Length + 1
        /\ (g \o <<Nul>>)[Length + 1] = Nul
        /\ \A i \in 1 .. Length : (g \o <<Nul>>)[i] = g[i]
    <3>1. Nul \in Int
      BY DEF Nul
    <3>2. Len(g) = Length
      BY <2>1, <2>2
    <3>3. PICK e \in Int : e = Nul
      BY <3>1
    <3>4. \A h \in Seq(Int) : /\ h \o <<e>> \in Seq(Int) /\ Len(h \o <<e>>) = Len(h) + 1
                             /\ (h \o <<e>>)[Len(h) + 1] = e
                             /\ \A i \in 1 .. Len(h) : (h \o <<e>>)[i] = h[i]
      OBVIOUS
    <3> QED BY <2>1, <3>2, <3>3, <3>4
  <2> QED BY <2>1, <2>2, <2>3
<1>4. DOMAIN str' = 0 .. Room - 1
      /\ \A i \in 0 .. Room - 1 :
           str'[i] = IF i \in b .. b + Length THEN chars[i - b + 1] ELSE str[i]
  <2>1. str' = Store(str, b, chars) /\ b \in Int
    BY <1>1, <1>2, <1>3
  <2>2. DOMAIN Store(str, b, chars) = 0 .. Room - 1
        /\ \A i \in 0 .. Room - 1 :
             Store(str, b, chars)[i] = IF i \in b .. b + Len(chars) - 1
                                       THEN chars[i - b + 1] ELSE str[i]
    BY <1>0, <2>1, StoreIs
  <2>3. b + Len(chars) - 1 = b + Length
    <3>1. Len(chars) = Length + 1
      BY <1>3
    <3> QED BY <1>2, <3>1
  <2> QED BY <2>1, <2>2, <2>3
<1>5. call.v < 0 => str'[0] = Minus
  <2>1. 0 \in 0 .. Room - 1 /\ (call.v < 0 => 0 \notin b .. b + Length)
    BY <1>2
  <2> QED BY <1>1, <1>4, <2>1 DEF Grouping
<1>6. ASSUME NEW i \in 0 .. Length - 1
      PROVE  str'[Neg(call.v) + i] = Standing(i)
  <2>1. /\ b + i \in 0 .. Room - 1 /\ b + i \in b .. b + Length /\ (b + i) - b + 1 = i + 1
        /\ i + 1 \in 1 .. Length /\ Length - (i + 1) = Length - 1 - i
    BY <1>2
  <2>2. str'[b + i] = chars[i + 1]
    BY <1>4, <2>1
  <2> QED BY <1>0, <1>3, <2>1, <2>2 DEF Standing
<1>7. str'[Ended] = Nul /\ Ended < size /\ Ended < Room
  <2>1. b + Length \in 0 .. Room - 1 /\ b + Length \in b .. b + Length
        /\ (b + Length) - b + 1 = Length + 1 /\ b + Length < size /\ b + Length < Room
    BY <1>2
  <2> QED BY <1>0, <1>3, <1>4, <2>1
<1>8. \A i \in 0 .. Room - 1 : i >= size => str'[i] = Outside
  <2>1. \A i \in 0 .. Room - 1 : i >= size => i \notin b .. b + Length
    BY <1>2
  <2> QED BY <1>1, <1>4, <2>1 DEF Grouping
<1>9. size \in Nat
  BY <1>2
<1> QED BY <1>0, <1>1, <1>4, <1>5, <1>6, <1>7, <1>8, <1>9, PrintedParts

\* The first digits are stored and the groups moved up to them, or, where the string is
\* Tight, the group away from them: the second digit stays where the first one was put.
LEMMA FirstOfGroupsStep ==
  ASSUME Routines, Grouping, FirstGroup, tot # 0
  PROVE  PrintedRight'
<1>1. /\ pc = "group" /\ call' = call /\ size' = size /\ num \div PowerOfRadix = 0
  BY DEF FirstGroup, Return
<1>2. /\ Ended = b + Length /\ b = Neg(call.v) /\ DOMAIN str = 0 .. Room - 1
      /\ b + Reach = Reckoned
  BY <1>1, Places
<1>3. PICK chars \in Seq(Int) :
        /\ chars = Short(num % PowerOfRadix) /\ Len(chars) = Length - tot
        /\ \A i \in 1 .. Length - tot : chars[i] = DigitAt(Length - i)
  BY <1>1, FirstDigitsOf
<1>4. PICK m \in Nat : Len(chars) = m /\ m = Length - tot /\ m > 0 /\ Length = tot + m
  <2>1. Length - tot \in Nat /\ Length - tot > 0 /\ Length = tot + (Length - tot)
    BY <1>1, Places
  <2> QED BY <1>3, <2>1
<1>5. /\ b \in Nat /\ last \in Nat /\ tot \in Nat /\ tot > 0 /\ Room \in Nat /\ size \in Nat
      /\ Length \in Nat /\ Length = tot + m /\ size = b + last + tot + 1 /\ size < Room
      /\ (call.v < 0 => b = 1)
      /\ (~Tight => m <= last)
      /\ (Tight => b = 1 /\ last = 0 /\ m = 1)
  <2>1. /\ b \in Nat /\ last \in Nat /\ tot \in Nat /\ Room \in Nat /\ Length \in Nat
        /\ Reckoned \in Nat /\ Reach \in Nat /\ size = Reckoned + 1 /\ last + tot = Reach
        /\ Reckoned = b + Reach /\ Reckoned + 2 <= Room /\ (tot = 0 \/ tot >= Digits)
        /\ Digits \in Nat /\ (call.v < 0 => b = 1)
    BY <1>1, Places
  <2>2. tot > 0 /\ size \in Nat /\ size = b + last + tot + 1 /\ size < Room
    BY <2>1
  <2>3. ~Tight => m <= last
    <3>1. ~Tight => Length <= Reach
      BY <1>1, Places
    <3> QED BY <1>4, <2>1, <3>1
  <2>4. Tight => b = 1 /\ last = 0 /\ m = 1
    <3>1. Tight => Length = Reach + 1 /\ Reach = Digits /\ b = 1
      BY <1>1, Places
    <3> QED BY <1>4, <2>1, <2>2, <3>1
  <2> QED BY <1>4, <2>1, <2>2, <2>3, <2>4
<1>6. PICK to \in Int, from \in Int, k \in Nat : to = b + m /\ from = b + last /\ k = tot + 1
  <2>1. b + m \in Int /\ b + last \in Int /\ tot + 1 \in Nat
    BY <1>5
  <2> QED BY <2>1
<1>7. PICK t : t = Store(str, b, chars)
  OBVIOUS
<1>8. DOMAIN t = 0 .. Room - 1
      /\ \A i \in 0 .. Room - 1 : t[i] = IF i \in b .. b + m - 1 THEN chars[i - b + 1] ELSE str[i]
  <2>1. b \in Int
    BY <1>5
  <2>2. DOMAIN Store(str, b, chars) = 0 .. Room - 1
        /\ \A i \in 0 .. Room - 1 :
             Store(str, b, chars)[i] = IF i \in b .. b + Len(chars) - 1
                                       THEN chars[i - b + 1] ELSE str[i]
    BY <1>2, <2>1, StoreIs
  <2> QED BY <1>4, <1>7, <2>2
<1>9. DOMAIN str' = 0 .. Room - 1
      /\ \A i \in 0 .. Room - 1 :
           str'[i] = IF i \in to .. to + k - 1 THEN t[from + i - to] ELSE t[i]
  <2>1. str' = Move(Store(str, b, Short(num % PowerOfRadix)), b + Len(Short(num % PowerOfRadix)),
                    b + last, tot + 1)
    BY Zenon DEF FirstGroup
  <2>2. str' = Move(t, to, from, k)
    BY <1>3, <1>4, <1>6, <1>7, <2>1
  <2>3. DOMAIN t = 0 .. Room - 1
    BY <1>8
  <2>4. DOMAIN Move(t, to, from, k) = 0 .. Room - 1
        /\ \A i \in 0 .. Room - 1 :
             Move(t, to, from, k)[i] = IF i \in to .. to + k - 1 THEN t[from + i - to] ELSE t[i]
    BY <2>3 DEF Move
  <2> QED BY <2>2, <2>4
\* What is left of the groups: what is there unless it is under the first digits.
<1>10. ASSUME NEW j \in 0 .. tot, ~Tight \/ j > 0
       PROVE  str'[b + m + j] = IF j = tot THEN Nul ELSE DigitAt(tot - 1 - j)
  <2>1. PICK i \in 0 .. Room - 1, l \in 0 .. Room - 1 :
          /\ i = b + m + j /\ l = b + last + j /\ i \in to .. to + k - 1 /\ from + i - to = l
          /\ l \notin b .. b + m - 1
    <3>1. b + m + j \in 0 .. Room - 1 /\ b + last + j \in 0 .. Room - 1
      BY <1>5, <1>10
    <3>2. b + m + j \in to .. to + k - 1 /\ from + (b + m + j) - to = b + last + j
      BY <1>5, <1>6
    <3>3. b + last + j \notin b .. b + m - 1
      BY <1>5, <1>10
    <3> QED BY <3>1, <3>2, <3>3
  <2>2. str'[i] = str[l]
    BY <1>8, <1>9, <2>1
  <2>3. CASE j = tot
    <3>1. l = b + Reach
      BY <1>1, <1>5, <2>1, <2>3, Places
    <3>2. str[b + Reach] = Nul
      BY <1>1, <1>5 DEF Grouping
    <3> QED BY <2>1, <2>2, <2>3, <3>1, <3>2
  <2>4. CASE j # tot
    <3>1. j \in 0 .. tot - 1
      BY <1>5, <2>4
    <3>2. str[b + last + j] = DigitAt(tot - 1 - j)
      BY <1>1, <3>1 DEF Grouping
    <3> QED BY <2>1, <2>2, <2>4, <3>2
  <2> QED BY <2>3, <2>4
<1>11. ASSUME NEW i \in 0 .. m - 1
       PROVE  str'[b + i] = DigitAt(Length - 1 - i)
  <2>1. PICK l \in 0 .. Room - 1 :
          l = b + i /\ l \notin to .. to + k - 1 /\ l \in b .. b + m - 1 /\ l - b + 1 = i + 1
    <3>1. b + i \in 0 .. Room - 1 /\ b + i \notin to .. to + k - 1 /\ b + i \in b .. b + m - 1
          /\ (b + i) - b + 1 = i + 1
      BY <1>5, <1>6
    <3> QED BY <3>1
  <2>2. str'[l] = chars[i + 1]
    BY <1>8, <1>9, <2>1
  <2>3. i + 1 \in 1 .. Length - tot /\ Length - (i + 1) = Length - 1 - i
    BY <1>4, <1>5
  <2> QED BY <1>3, <2>1, <2>2, <2>3
<1>12. Tight => str'[b + m] = DigitAt(Length - 1)
  <2>1. SUFFICES ASSUME Tight PROVE str'[b + m] = DigitAt(Length - 1)
    OBVIOUS
  <2>2. PICK i \in 0 .. Room - 1, l \in 0 .. Room - 1 :
          /\ i = b + m /\ l = b /\ i \in to .. to + k - 1 /\ from + i - to = l
          /\ l \in b .. b + m - 1 /\ l - b + 1 = 1
    <3>1. b + m \in 0 .. Room - 1 /\ b \in 0 .. Room - 1 /\ b + m \in to .. to + k - 1
          /\ from + (b + m) - to = b /\ b \in b .. b + m - 1 /\ b - b + 1 = 1
      BY <1>5, <1>6, <2>1
    <3> QED BY <3>1
  <2>3. str'[i] = chars[1]
    BY <1>8, <1>9, <2>2
  <2>4. 1 \in 1 .. Length - tot
    BY <1>4, <1>5
  <2> QED BY <1>3, <2>2, <2>3, <2>4
<1>13. ASSUME NEW i \in 0 .. Length - 1
       PROVE  str'[b + i] = Standing(i)
  <2>1. CASE i < m
    <3>1. i \in 0 .. m - 1 /\ (Tight => i # 1)
      BY <1>5, <2>1
    <3> QED BY <1>11, <3>1 DEF Standing
  <2>2. CASE ~(i < m)
    <3>1. PICK j \in 0 .. tot - 1 : i = m + j
      <4>1. i - m \in 0 .. tot - 1 /\ i = m + (i - m)
        BY <1>5, <2>2
      <4> QED BY <4>1
    <3>2. b + i = b + m + j /\ j \in 0 .. tot /\ j # tot /\ tot - 1 - j = Length - 1 - i
      BY <1>5, <3>1
    <3>3. CASE ~Tight \/ j > 0
      <4>1. str'[b + i] = DigitAt(Length - 1 - i)
        BY <1>10, <3>2, <3>3
      <4>2. ~(Tight /\ i = 1)
        BY <1>5, <3>1, <3>3
      <4> QED BY <4>1, <4>2 DEF Standing
    <3>4. CASE Tight /\ j = 0
      <4>1. i = 1 /\ b + i = b + m /\ Length - 1 - 0 = Length - 1
        BY <1>5, <3>1, <3>4
      <4> QED BY <1>12, <3>4, <4>1 DEF Standing
    <3> QED BY <3>1, <3>3, <3>4
  <2> QED BY <2>1, <2>2
<1>14. str'[Ended] = Nul
  <2>1. tot \in 0 .. tot /\ tot > 0 /\ b + m + tot = b + Length
    BY <1>5
  <2> QED BY <1>2, <1>10, <2>1
<1>15. call.v < 0 => str'[0] = Minus
  <2>1. 0 \in 0 .. Room - 1 /\ (call.v < 0 => 0 \notin to .. to + k - 1 /\ 0 \notin b .. b + m - 1)
    BY <1>5, <1>6
  <2> QED BY <1>1, <1>8, <1>9, <2>1 DEF Grouping
<1>16. ASSUME ~Tight, NEW i \in 0 .. Room - 1, i >= size
       PROVE  str'[i] = Outside
  <2>1. i \notin to .. to + k - 1 /\ i \notin b .. b + m - 1
    BY <1>5, <1>6, <1>16
  <2> QED BY <1>1, <1>8, <1>9, <1>16, <2>1 DEF Grouping
<1>17. Ended < Room /\ (Tight => Ended = size) /\ (~Tight => Ended < size)
  BY <1>2, <1>5
<1>18. size \in Nat
  BY <1>5
<1> QED BY <1>1, <1>2, <1>9, <1>13, <1>14, <1>15, <1>16, <1>17, <1>18, PrintedParts

LEMMA PrintedStep ==
  ASSUME Routines, Given, Grouping, PrintedRight, [Next]_vars
  PROVE  PrintedRight'
<1>1. CASE Next
  <2>1. pc' = "returned" /\ call.routine = "zstr" => PrintZero \/ FirstGroup
    BY <1>1, Comings
  <2>2. call' = call
    BY <1>1, Comings
  <2>3. ~(pc' = "returned" /\ call.routine = "zstr") => PrintedRight'
    BY <2>2 DEF PrintedRight, Over
  <2> QED BY <2>1, <2>3, PrintZeroStep, OnlyGroupStep, FirstOfGroupsStep, Zenon
<1>2. CASE UNCHANGED vars
  <2>1. call' = call /\ pc' = pc /\ str' = str /\ size' = size
    BY <1>2 DEF vars
  <2>2. Length' = Length /\ Tight' = Tight /\ Ended' = Ended
    BY <2>1, CallStays
  <2>3. \A i : Standing(i)' = Standing(i)
    BY <2>1, <2>2 DEF Standing, DigitAt
  <2> QED BY <2>1, <2>2, <2>3 DEF PrintedRight, Over
<1> QED BY <1>1, <1>2

------------------------------------------------------------------------------
(* The number of digits that are read.                                       *)

AreNumbers(f, s, from, to) ==
  f = [i \in from .. to |-> IF i = from THEN 0 ELSE f[i - 1] * Radix + s[i]]

LEMMA NumberIs ==
  ASSUME NEW s, NEW from, NEW to
  PROVE  Number(s, from, to) = (CHOOSE f : AreNumbers(f, s, from, to))[to]
BY Zenon DEF Number, AreNumbers

LEMMA NumbersExist ==
  ASSUME NEW s, NEW from \in Nat
  PROVE  \A k \in Nat : \E f : AreNumbers(f, s, from, from + k)
<1> DEFINE Z == {k \in Nat : \E f : AreNumbers(f, s, from, from + k)}
<1>1. 0 \in Z
  <2> DEFINE h == [i \in from .. from + 0 |-> 0]
  <2>1. \A i \in from .. from + 0 : i = from
    OBVIOUS
  <2>2. AreNumbers(h, s, from, from + 0)
    BY <2>1 DEF AreNumbers
  <2> QED BY <2>2
<1>2. ASSUME NEW k \in Nat, k \in Z
      PROVE  k + 1 \in Z
  <2>1. PICK f : AreNumbers(f, s, from, from + k)
    BY <1>2
  <2>2. PICK to \in Nat : to = from + k
    OBVIOUS
  <2> DEFINE h == [i \in from .. to + 1 |-> IF i = to + 1 THEN f[to] * Radix + s[i] ELSE f[i]]
  <2>3. ASSUME NEW i \in from .. to + 1
        PROVE  h[i] = IF i = from THEN 0 ELSE h[i - 1] * Radix + s[i]
    <3>1. CASE i = to + 1
      <4>1. i # from /\ i - 1 = to /\ to \in from .. to + 1 /\ to # to + 1
        BY <2>2, <3>1
      <4>2. h[to] = f[to] /\ h[i] = f[to] * Radix + s[i]
        BY <3>1, <4>1
      <4> QED BY <4>1, <4>2
    <3>2. CASE i # to + 1
      <4>1. i \in from .. to
        BY <2>2, <3>2
      <4>2. f[i] = IF i = from THEN 0 ELSE f[i - 1] * Radix + s[i]
        BY <2>1, <2>2, <4>1, Zenon DEF AreNumbers
      <4>3. i # from => i - 1 \in from .. to + 1 /\ i - 1 # to + 1
        BY <2>2, <4>1
      <4>4. i # from => h[i - 1] = f[i - 1]
        BY <4>3
      <4>5. h[i] = f[i]
        BY <3>2
      <4> QED BY <4>2, <4>4, <4>5
    <3> QED BY <3>1, <3>2
  <2>4. AreNumbers(h, s, from, to + 1)
    <3>1. h = [i \in from .. to + 1 |-> h[i]]
      OBVIOUS
    <3> HIDE DEF h
    <3> QED BY <2>3, <3>1 DEF AreNumbers
  <2>5. to + 1 = from + (k + 1)
    BY <2>2
  <2> HIDE DEF h
  <2>6. AreNumbers(h, s, from, from + (k + 1))
    BY <2>4, <2>5
  <2> QED BY <2>6
<1>3. Z \in SUBSET Nat
  OBVIOUS
<1>4. \A k \in Nat : k \in Z
  <2> HIDE DEF Z
  <2> QED BY <1>1, <1>2, <1>3, Inductive
<1> QED BY <1>4

LEMMA NumbersCoincide ==
  ASSUME NEW s, NEW from \in Nat, NEW to \in Nat, NEW end \in Nat, from <= to, to <= end,
         NEW f, AreNumbers(f, s, from, to), NEW h, AreNumbers(h, s, from, end)
  PROVE  f[to] = h[to]
<1> DEFINE Z == {k \in Nat : from + k <= to => f[from + k] = h[from + k]}
<1>0. \A i \in from .. to :
        /\ f[i] = IF i = from THEN 0 ELSE f[i - 1] * Radix + s[i]
        /\ h[i] = IF i = from THEN 0 ELSE h[i - 1] * Radix + s[i]
  <2> SUFFICES ASSUME NEW i \in from .. to
               PROVE  /\ f[i] = IF i = from THEN 0 ELSE f[i - 1] * Radix + s[i]
                      /\ h[i] = IF i = from THEN 0 ELSE h[i - 1] * Radix + s[i]
    OBVIOUS
  <2>1. i \in from .. end
    OBVIOUS
  <2> QED BY <2>1, Zenon DEF AreNumbers
<1>1. 0 \in Z
  <2>1. from + 0 = from /\ from \in from .. to
    OBVIOUS
  <2> QED BY <1>0, <2>1
<1>2. ASSUME NEW k \in Nat, k \in Z
      PROVE  k + 1 \in Z
  <2>1. SUFFICES ASSUME from + (k + 1) <= to PROVE f[from + (k + 1)] = h[from + (k + 1)]
    OBVIOUS
  <2>2. PICK i \in from .. to : i = from + (k + 1) /\ i - 1 = from + k /\ i # from
    <3>1. from + (k + 1) \in from .. to
      BY <2>1
    <3> QED BY <3>1
  <2>3. f[i - 1] = h[i - 1]
    BY <1>2, <2>1, <2>2
  <2> QED BY <1>0, <2>2, <2>3
<1>3. \A k \in Nat : k \in Z
  <2>1. Z \in SUBSET Nat
    OBVIOUS
  <2> HIDE DEF Z
  <2> QED BY <1>1, <1>2, <2>1, Inductive
<1>4. PICK k \in Nat : to = from + k
  BY to - from \in Nat, to = from + (to - from)
<1> QED BY <1>3, <1>4

LEMMA NumberSteps ==
  ASSUME NEW s, NEW from \in Nat
  PROVE  /\ Number(s, from, from) = 0
         /\ \A k \in Nat : Number(s, from, from + k + 1)
                             = Number(s, from, from + k) * Radix + s[from + k + 1]
<1> DEFINE F(to) == CHOOSE f : AreNumbers(f, s, from, to)
<1>1. \A k \in Nat : AreNumbers(F(from + k), s, from, from + k)
  BY NumbersExist
<1>2. \A to : Number(s, from, to) = F(to)[to]
  BY NumberIs
<1> HIDE DEF F
<1>3. Number(s, from, from) = 0
  <2>1. AreNumbers(F(from), s, from, from)
    BY <1>1, 0 \in Nat, from + 0 = from
  <2>2. from \in from .. from
    OBVIOUS
  <2>3. F(from)[from] = 0
    BY <2>1, <2>2, Zenon DEF AreNumbers
  <2> QED BY <1>2, <2>3
<1>4. ASSUME NEW k \in Nat
      PROVE  Number(s, from, from + k + 1)
               = Number(s, from, from + k) * Radix + s[from + k + 1]
  <2>1. PICK to \in Nat, next \in Nat : to = from + k /\ next = from + k + 1 /\ next = to + 1
    OBVIOUS
  <2>2. AreNumbers(F(to), s, from, to) /\ AreNumbers(F(next), s, from, next)
    <3>1. next = from + (k + 1) /\ k + 1 \in Nat
      BY <2>1
    <3> QED BY <1>1, <2>1, <3>1
  <2>3. next \in from .. next /\ next # from /\ next - 1 = to /\ from <= to /\ to <= next
    BY <2>1
  <2>4. F(next)[next] = F(next)[next - 1] * Radix + s[next]
    BY <2>2, <2>3, Zenon DEF AreNumbers
  <2>5. F(next)[to] = F(to)[to]
    BY <2>2, <2>3, NumbersCoincide
  <2> QED BY <1>2, <2>1, <2>3, <2>4, <2>5
<1> QED BY <1>3, <1>4

LEMMA NumberType ==
  ASSUME NEW s, NEW from \in Nat, NEW end \in Nat, \A i \in from + 1 .. end : s[i] \in Nat
  PROVE  \A to \in from .. end : Number(s, from, to) \in Nat
<1> DEFINE Z == {k \in Nat : from + k <= end => Number(s, from, from + k) \in Nat}
<1>1. 0 \in Z
  <2>1. from + 0 = from
    OBVIOUS
  <2> QED BY <2>1, NumberSteps
<1>2. ASSUME NEW k \in Nat, k \in Z
      PROVE  k + 1 \in Z
  <2>1. SUFFICES ASSUME from + (k + 1) <= end PROVE Number(s, from, from + (k + 1)) \in Nat
    OBVIOUS
  <2>2. Number(s, from, from + k) \in Nat /\ s[from + k + 1] \in Nat
    BY <1>2, <2>1
  <2>3. PICK x \in Nat, y \in Nat : Number(s, from, from + k) = x /\ s[from + k + 1] = y
    BY <2>2
  <2>4. Number(s, from, from + k + 1) = x * Radix + y
    BY <2>3, NumberSteps
  <2>5. x * Radix + y \in Nat /\ from + (k + 1) = from + k + 1
    BY Constants
  <2> QED BY <2>4, <2>5
<1>3. \A k \in Nat : k \in Z
  <2>1. Z \in SUBSET Nat
    OBVIOUS
  <2> HIDE DEF Z
  <2> QED BY <1>1, <1>2, <2>1, Inductive
<1>4. \A to \in from .. end : to - from \in Nat /\ from + (to - from) = to
  OBVIOUS
<1> QED BY <1>3, <1>4

\* The number of some digits and of those after them.
LEMMA NumberSum ==
  ASSUME NEW s, NEW from \in Nat, NEW m \in Nat, NEW end \in Nat, from <= m, m <= end,
         \A i \in from + 1 .. end : s[i] \in Nat
  PROVE  \A k \in Nat : m + k <= end =>
           Number(s, from, m + k) = Number(s, from, m) * Raised(Radix, k) + Number(s, m, m + k)
<1> DEFINE Z == {k \in Nat : m + k <= end =>
                   Number(s, from, m + k)
                     = Number(s, from, m) * Raised(Radix, k) + Number(s, m, m + k)}
<1>0. Radix \in Nat /\ Raised(Radix, 0) = 1
      /\ \A k \in Nat : Raised(Radix, k) \in Nat /\ Raised(Radix, k + 1) = Radix * Raised(Radix, k)
  BY Constants, RaisedSteps
<1>1. /\ \A to \in from .. end : Number(s, from, to) \in Nat
      /\ \A to \in m .. end : Number(s, m, to) \in Nat
  <2>1. \A i \in m + 1 .. end : s[i] \in Nat
    OBVIOUS
  <2> QED BY <2>1, NumberType
<1>2. PICK x \in Nat : x = Number(s, from, m)
  BY <1>1, m \in from .. end
<1>3. 0 \in Z
  <2>1. Number(s, m, m) = 0 /\ m + 0 = m
    BY NumberSteps
  <2>2. x = x * 1 + 0
    OBVIOUS
  <2> QED BY <1>0, <1>2, <2>1, <2>2
<1>4. ASSUME NEW k \in Nat, k \in Z
      PROVE  k + 1 \in Z
  <2>1. SUFFICES ASSUME m + (k + 1) <= end
                 PROVE  Number(s, from, m + (k + 1))
                          = Number(s, from, m) * Raised(Radix, k + 1) + Number(s, m, m + (k + 1))
    OBVIOUS
  <2>2. PICK y \in Nat, z \in Nat, d \in Nat, p \in Nat :
          /\ y = Number(s, m, m + k) /\ z = Number(s, from, m + k)
          /\ d = s[m + k + 1] /\ p = Raised(Radix, k)
    <3>1. m + k \in m .. end /\ m + k \in from .. end /\ m + k + 1 \in from + 1 .. end
      BY <2>1
    <3> QED BY <1>0, <1>1, <3>1
  <2>3. z = x * p + y
    BY <1>2, <1>4, <2>1, <2>2
  <2>4. Number(s, m, m + k + 1) = y * Radix + d
    <3>1. Number(s, m, m + k + 1) = Number(s, m, m + k) * Radix + s[m + k + 1]
      BY NumberSteps
    <3> QED BY <2>2, <3>1
  <2>5. Number(s, from, m + k + 1) = z * Radix + d
    <3>1. PICK j \in Nat : m + k = from + j
      BY m + k - from \in Nat, m + k = from + (m + k - from)
    <3>2. Number(s, from, from + j + 1) = Number(s, from, from + j) * Radix + s[from + j + 1]
      BY NumberSteps
    <3> QED BY <2>2, <3>1, <3>2
  <2>6. (x * p + y) * Radix + d = x * (Radix * p) + (y * Radix + d)
    BY <1>0
  <2>7. m + (k + 1) = m + k + 1
    OBVIOUS
  <2> QED BY <1>0, <1>2, <2>2, <2>3, <2>4, <2>5, <2>6, <2>7
<1>5. \A k \in Nat : k \in Z
  <2>1. Z \in SUBSET Nat
    OBVIOUS
  <2> HIDE DEF Z
  <2> QED BY <1>3, <1>4, <2>1, Inductive
<1> QED BY <1>5

------------------------------------------------------------------------------
(* A call of zsets.                                                          *)

LEMMA ParsedStrings ==
  ASSUME call \in Calls, call.routine = "zsets"
  PROVE  S \in Seq(Int) /\ Start \in {0, 1} /\ Start <= Len(S)
<1>1. \A v : call \notin Prints(v)
  BY DEF Prints
<1>2. S \in Parsed
  BY <1>1 DEF Calls, S
<1>3. S \in Seq(Int)
  BY <1>2, StringsAssumption
<1>4. Signed => Len(S) > 0
  <2>1. Signed => S # <<>>
    BY DEF Signed
  <2> QED BY <1>3, <2>1
<1>5. Start \in {0, 1} /\ (Start = 1 => Signed)
  BY DEF Start
<1> QED BY <1>3, <1>4, <1>5

\* Where zsets is in the string.
LEMMA Reading ==
  ASSUME Routines, Parsing, pc = "digits"
  PROVE  /\ S \in Seq(Int) /\ Len(S) \in Nat /\ Start \in Nat /\ Start < Len(S)
         /\ at \in Nat /\ Start <= at /\ at <= Len(S)
         /\ \A i \in Start + 1 .. Len(S) : S[i] \in Nat
         /\ ~lost => a = Number(S, Start, at) /\ a \in Nat
         /\ Digits \in Nat /\ Digits > 0
<1>1. call \in Calls /\ call.routine = "zsets"
  BY DEF Routines
<1>2. IsNumeral /\ at \in Start .. Len(S) /\ (~lost => a = Number(S, Start, at))
  BY DEF Parsing
<1>3. S \in Seq(Int) /\ Start \in {0, 1} /\ Len(S) \in Nat
  BY <1>1, ParsedStrings
<1>4. Radix \in Nat /\ Digits \in Nat /\ Digits > 0
  BY Constants
<1>5. \A i \in Start + 1 .. Len(S) : S[i] \in Nat
  BY <1>2, <1>4 DEF IsNumeral
<1>6. Start \in Nat
  BY <1>3
<1>7. \A to \in Start .. Len(S) : Number(S, Start, to) \in Nat
  BY <1>3, <1>5, <1>6, NumberType
<1> QED BY <1>2, <1>3, <1>4, <1>5, <1>6, <1>7 DEF IsNumeral

\* What is left after some digits are read stays in the string, and is whole groups.
LEMMA FirstDigitsStep ==
  ASSUME Routines, Parsing, FirstDigits
  PROVE  Parsing'
<1>1. /\ pc = "digits" /\ at = Start /\ pc' = "digits" /\ call' = call
      /\ a' = a + Number(S, at, at + FirstCase) /\ at' = at + FirstCase /\ lost' = lost
  BY DEF FirstDigits, Take, Goto
<1>2. /\ S \in Seq(Int) /\ Len(S) \in Nat /\ Start \in Nat /\ Start < Len(S)
      /\ \A i \in Start + 1 .. Len(S) : S[i] \in Nat
      /\ (~lost => a = Number(S, Start, at)) /\ Digits \in Nat /\ Digits > 0
  BY <1>1, Reading
<1>3. PICK l \in Nat : l = Len(S) - Start /\ l > 0 /\ Len(S) = Start + l
  <2>1. Len(S) - Start \in Nat /\ Len(S) - Start > 0 /\ Len(S) = Start + (Len(S) - Start)
    BY <1>2
  <2> QED BY <2>1
<1>4. PICK q \in Nat, r \in Nat : q = l \div Digits /\ r = l % Digits /\ l = Digits * q + r /\ r < Digits
  BY <1>2, <1>3, Quotient
<1>5. FirstCase = IF r = 0 THEN Digits ELSE r
  BY <1>3, <1>4 DEF FirstCase
<1>6. PICK k \in Nat : k = FirstCase /\ k > 0 /\ k <= l /\ (l - k) % Digits = 0
  <2>0. l = Digits * q + r /\ r < Digits /\ r \in Nat
    BY <1>4
  <2>1. CASE r # 0
    <3>1. Digits * q \in Nat /\ l - r = Digits * q + 0 /\ l - r \in Nat
      BY <1>2, <1>4
    <3>2. (l - r) % Digits = 0
      BY <1>2, <3>1, QuotientIs
    <3>3. r <= l
      BY <1>2, <1>4, <3>1
    <3>4. FirstCase = r /\ r > 0
      <4>1. r > 0
        BY <2>0, <2>1
      <4> QED BY <1>5, <2>1, <4>1
    <3> QED BY <3>2, <3>3, <3>4
  <2>2. CASE r = 0
    <3>1. q # 0
      <4>1. SUFFICES ASSUME q = 0 PROVE FALSE
        OBVIOUS
      <4>2. Digits * q = 0
        BY <1>2, <4>1
      <4>3. l = 0 + 0
        BY <2>0, <2>2, <4>2
      <4> QED BY <1>3, <4>3
    <3>2. PICK p \in Nat : q = p + 1
      BY <1>4, <3>1, q - 1 \in Nat, q = (q - 1) + 1
    <3>3. Digits * (p + 1) = Digits * p + Digits /\ Digits * p \in Nat
      BY <1>2
    <3>4. l = Digits * p + Digits
      <4>1. Digits * q = Digits * p + Digits
        BY <3>2, <3>3
      <4> QED BY <1>2, <1>4, <2>2, <3>3, <4>1
    <3>5. l - Digits = Digits * p + 0 /\ l - Digits \in Nat /\ Digits <= l
      BY <1>2, <3>3, <3>4
    <3>6. (l - Digits) % Digits = 0
      BY <1>2, <3>5, QuotientIs
    <3> QED BY <1>2, <1>5, <2>2, <3>5, <3>6
  <2> QED BY <2>1, <2>2
<1>7. at' = Start + k /\ at' \in Start .. Len(S) /\ Len(S) - at' = l - k
  BY <1>1, <1>2, <1>3, <1>6
<1>8. ASSUME ~lost' PROVE a' = Number(S, Start, at')
  <2>1. a = 0
    BY <1>1, <1>2, <1>8, NumberSteps
  <2>2. Number(S, Start, Start + k) \in Nat
    BY <1>2, <1>7, NumberType
  <2>3. a' = 0 + Number(S, Start, Start + k)
    BY <1>1, <1>6, <2>1
  <2> QED BY <1>7, <2>2, <2>3
<1>9. IsNumeral
  BY <1>1 DEF Parsing
<1>10. IsNumeral' /\ S' = S /\ Start' = Start
  BY <1>1, <1>9, CallStays
<1> QED BY <1>1, <1>6, <1>7, <1>8, <1>10 DEF Parsing

LEMMA NextDigitsStep ==
  ASSUME Routines, Parsing, NextDigits
  PROVE  Parsing'
<1>1. /\ pc = "digits" /\ at # Start /\ at < Len(S) /\ pc' = "digits" /\ call' = call
      /\ at' = at + Digits
      /\ ~lost' => ~lost /\ a' = a * PowerOfRadix + Number(S, at, at + Digits)
  BY DEF NextDigits, Take, Stored
<1>2. /\ S \in Seq(Int) /\ Len(S) \in Nat /\ Start \in Nat /\ at \in Nat /\ Start <= at
      /\ \A i \in Start + 1 .. Len(S) : S[i] \in Nat
      /\ (~lost => a = Number(S, Start, at)) /\ Digits \in Nat /\ Digits > 0
  BY <1>1, Reading
<1>3. (Len(S) - at) % Digits = 0 /\ IsNumeral
  BY <1>1 DEF Parsing
<1>4. PICK l \in Nat : l = Len(S) - at /\ l > 0 /\ Len(S) = at + l
  <2>1. Len(S) - at \in Nat /\ Len(S) - at > 0 /\ Len(S) = at + (Len(S) - at)
    BY <1>1, <1>2
  <2> QED BY <2>1
<1>5. PICK q \in Nat : l = Digits * q + 0
  BY <1>2, <1>3, <1>4, Quotient
<1>6. q # 0
  <2>1. SUFFICES ASSUME q = 0 PROVE FALSE
    OBVIOUS
  <2>2. Digits * 0 = 0
    BY <1>2
  <2> QED BY <1>4, <1>5, <2>1, <2>2
<1>7. PICK p \in Nat : q = p + 1
  BY <1>6, q - 1 \in Nat, q = (q - 1) + 1
<1>8. l - Digits \in Nat /\ (l - Digits) % Digits = 0
  <2>1. Digits * (p + 1) = Digits * p + Digits /\ Digits * p \in Nat
    BY <1>2
  <2>2. l - Digits = Digits * p + 0 /\ l - Digits \in Nat
    BY <1>2, <1>5, <1>7, <2>1
  <2> QED BY <1>2, <2>2, QuotientIs
<1>9. at' \in Start .. Len(S) /\ Len(S) - at' = l - Digits /\ at + Digits <= Len(S)
  BY <1>1, <1>2, <1>4, <1>8
<1>10. ASSUME ~lost' PROVE a' = Number(S, Start, at')
  <2>1. at <= Len(S)
    BY <1>1, <1>2
  <2>2. \A k \in Nat : at + k <= Len(S) =>
          Number(S, Start, at + k) = Number(S, Start, at) * Raised(Radix, k) + Number(S, at, at + k)
    <3>1. PICK s \in Seq(Int), end \in Nat, from \in Nat, m \in Nat :
            s = S /\ end = Len(S) /\ from = Start /\ m = at
      BY <1>2
    <3>2. from <= m /\ m <= end /\ \A i \in from + 1 .. end : s[i] \in Nat
      BY <1>2, <2>1, <3>1
    <3>3. \A k \in Nat : m + k <= end =>
            Number(s, from, m + k) = Number(s, from, m) * Raised(Radix, k) + Number(s, m, m + k)
      BY <3>2, NumberSum
    <3> QED BY <3>1, <3>3
  <2>3. Number(S, Start, at + Digits) = a * PowerOfRadix + Number(S, at, at + Digits)
    BY <1>1, <1>2, <1>9, <1>10, <2>2, Constants
  <2> QED BY <1>1, <1>10, <2>3
<1>11. IsNumeral' /\ S' = S /\ Start' = Start
  BY <1>1, <1>3, CallStays
<1> QED BY <1>1, <1>8, <1>9, <1>10, <1>11 DEF Parsing

LEMMA ParseStep ==
  ASSUME Routines, Parsing, Parse
  PROVE  Parsing' /\ ParsedRight'
<1>1. pc = "zsets" /\ call' = call /\ call \in Calls /\ call.routine = "zsets" /\ a = call.v
  BY DEF Parse, Goto, Return, Routines, Parsing
<1>2. S \in Seq(Int) /\ Start \in {0, 1} /\ Start <= Len(S) /\ Len(S) \in Nat
  BY <1>1, ParsedStrings
<1>3. S' = S /\ Start' = Start /\ IsNumeral' = IsNumeral
  BY <1>1, CallStays
<1>4. CASE Len(S) = Start \/ \E i \in Start + 1 .. Len(S) : S[i] \notin 0 .. Radix - 1
  <2>1. pc' = "returned" /\ result' = "EINVAL" /\ a' = a
    BY <1>4 DEF Parse, Return, parsing
  <2>2. ~IsNumeral
    BY <1>2, <1>4 DEF IsNumeral
  <2> QED BY <1>1, <1>3, <2>1, <2>2 DEF Parsing, ParsedRight
<1>5. CASE ~(Len(S) = Start \/ \E i \in Start + 1 .. Len(S) : S[i] \notin 0 .. Radix - 1)
  <2>1. pc' = "digits" /\ a' = 0 /\ at' = Start
    BY <1>5, Zenon DEF Parse, Goto
  <2>2. IsNumeral
    BY <1>2, <1>5 DEF IsNumeral
  <2>3. Number(S, Start, Start) = 0
    BY <1>2, NumberSteps
  <2>4. Start \in Start .. Len(S)
    BY <1>2
  <2>5. ~Over("zsets")'
    BY <2>1 DEF Over
  <2> QED BY <1>1, <1>3, <2>1, <2>2, <2>3, <2>4, <2>5 DEF Parsing, ParsedRight
<1> QED BY <1>4, <1>5

LEMMA SetSignStep ==
  ASSUME Routines, Parsing, SetSign
  PROVE  ParsedRight'
<1>1. /\ pc = "digits" /\ at = Len(S) /\ pc' = "returned" /\ result' = "ok" /\ call' = call
      /\ a' = (IF S[1] = Minus THEN -a ELSE a) /\ lost' = lost
  BY DEF SetSign, Return
<1>2. (~lost => a \in Nat /\ a = Number(S, Start, Len(S))) /\ IsNumeral
  BY <1>1, Reading DEF Parsing
<1>3. S' = S /\ Start' = Start /\ IsNumeral' = IsNumeral
  BY <1>1, CallStays
<1>4. ~lost => Mag(a') = a /\ (S[1] = Minus => a' <= 0) /\ (S[1] # Minus => a' >= 0)
  BY <1>1, <1>2 DEF Mag
<1> QED BY <1>1, <1>2, <1>3, <1>4 DEF ParsedRight

LEMMA ParsingStep ==
  ASSUME Routines, Parsing, ParsedRight, [Next]_vars
  PROVE  Parsing' /\ ParsedRight'
<1>1. CASE Next
  <2>1. /\ call' = call /\ pc' # "zsets"
        /\ pc' = "digits" => Parse \/ FirstDigits \/ NextDigits
        /\ pc' = "returned" /\ call.routine = "zsets" => Parse \/ SetSign
    BY <1>1, Comings
  <2>2. pc' # "digits" => Parsing'
    BY <2>1 DEF Parsing
  <2>3. ~(pc' = "returned" /\ call.routine = "zsets") => ParsedRight'
    BY <2>1 DEF ParsedRight, Over
  <2>4. CASE Parse
    BY <2>4, ParseStep
  <2>5. CASE FirstDigits
    <3>1. pc' = "digits"
      BY <2>5 DEF FirstDigits, Goto
    <3> QED BY <2>3, <2>5, <3>1, FirstDigitsStep
  <2>6. CASE NextDigits
    <3>1. pc' = "digits"
      BY <2>6 DEF NextDigits
    <3> QED BY <2>3, <2>6, <3>1, NextDigitsStep
  <2>7. CASE SetSign
    <3>1. pc' = "returned"
      BY <2>7 DEF SetSign, Return
    <3> QED BY <2>2, <2>7, <3>1, SetSignStep
  <2> QED BY <2>1, <2>2, <2>3, <2>4, <2>5, <2>6, <2>7
<1>2. CASE UNCHANGED vars
  <2>1. /\ call' = call /\ pc' = pc /\ result' = result /\ a' = a /\ at' = at /\ lost' = lost
    BY <1>2 DEF vars
  <2>2. S' = S /\ Start' = Start /\ IsNumeral' = IsNumeral
    BY <2>1, CallStays
  <2> QED BY <2>1, <2>2 DEF Parsing, ParsedRight, Over
<1> QED BY <1>1, <1>2

------------------------------------------------------------------------------
(* A call of zstr_length.                                                    *)

LEMMA MeasuredCalls ==
  ASSUME call \in Calls, call.routine = "zstr_length"
  PROVE  /\ call.v \in Int /\ call.radix \in Nat /\ Mag(call.v) \in Nat
         /\ Neg(call.v) \in Nat
         /\ call.radix >= 2 => Whole \in Nat /\ Whole > 0
<1>1. \A v : call \notin Prints(v)
  BY DEF Prints
<1>2. call.v \in Int /\ call.radix \in Nat
  BY <1>1, StringsAssumption DEF Calls
<1>3. Mag(call.v) \in Nat /\ Neg(call.v) \in {0, 1}
  BY <1>2, MagNeg
<1>4. call.radix >= 2 => Whole \in Nat /\ Whole > 0
  <2>1. SUFFICES ASSUME call.radix >= 2 PROVE Whole \in Nat /\ Whole > 0
    OBVIOUS
  <2>2. PICK g \in Nat, v \in Nat : g = call.radix /\ v = Mag(call.v) /\ g > 1
    BY <1>2, <1>3, <2>1
  <2>3. Len(Numeral(v, g)) \in Nat /\ Len(Numeral(v, g)) > 0
    BY <2>2, NumeralDigits
  <2> QED BY <2>2, <2>3 DEF Whole
<1> QED BY <1>2, <1>3, <1>4

LEMMA MeasureStep ==
  ASSUME Routines, Measure
  PROVE  Measuring'
<1>1. call \in Calls /\ call.routine = "zstr_length" /\ call' = call
  BY DEF Measure, Fail, Goto, Routines
<1>2. CASE call.radix < 2
  BY <1>2 DEF Measure, Fail, Measuring
<1>3. CASE ~(call.radix < 2)
  <2>1. num' = Mag(call.v) /\ sizeTotal' = 1 /\ pc' = "length"
    BY <1>3 DEF Measure, Goto
  <2>2. call.radix \in Nat /\ call.radix >= 2 /\ Mag(call.v) \in Nat /\ Whole \in Nat
    BY <1>1, <1>3, MeasuredCalls
  <2>3. Mag(call.v) = 0 => Whole = 1
    <3>1. Numeral(0, call.radix) = <<0>>
      <4>1. PICK g \in Nat : g = call.radix /\ g > 1 /\ 0 < g
        BY <2>2
      <4>2. Numeral(0, g) = <<0>>
        BY <4>1, NumeralSteps
      <4> QED BY <4>1, <4>2
    <3>2. Len(<<0>>) = 1
      OBVIOUS
    <3> QED BY <3>1, <3>2 DEF Whole
  <2>4. 1 + Whole = Whole + 1 /\ 1 \in Nat
    BY <2>2
  <2>5. Whole' = Whole
    BY <1>1, CallStays
  <2>6. Len(Numeral(num', call'.radix)) = Whole
    BY <1>1, <2>1 DEF Whole
  <2>7. Counted'
    BY <2>1, <2>2, <2>3, <2>4, <2>5, <2>6 DEF Counted
  <2> QED BY <1>1, <2>1, <2>2, <2>7 DEF Measuring
<1> QED BY <1>2, <1>3

LEMMA RadicalStep ==
  ASSUME Routines, Measuring, Radical
  PROVE  Measuring'
<1>1. /\ pc = "length" /\ num # 0 /\ mag' = call.radix /\ div' = call.radix /\ sizeTemp' = 1
      /\ pc' = "square" /\ call' = call /\ num' = num /\ sizeTotal' = sizeTotal /\ lost' = lost
  BY DEF Radical, Goto
<1>2. call.radix \in Nat /\ call.radix >= 2 /\ (~lost => Counted)
  BY <1>1, MeasuredCalls DEF Routines, Measuring
<1>3. Raised(call.radix, 1) = call.radix
  <2>1. Raised(call.radix, 0 + 1) = call.radix * Raised(call.radix, 0) /\ Raised(call.radix, 0) = 1
    BY <1>2, RaisedSteps
  <2> QED BY <1>2, <2>1
<1>4. ~lost => Counted'
  BY <1>1, <1>2, CallStays DEF Counted
<1>5. 1 \in Nat /\ 1 > 0
  OBVIOUS
<1> QED BY <1>1, <1>2, <1>3, <1>4, <1>5 DEF Measuring

LEMMA SquareStep ==
  ASSUME Routines, Measuring, Square
  PROVE  Measuring'
<1>1. /\ pc = "square" /\ mag <= num /\ div' = mag /\ sizeTemp' = 2 * sizeTemp
      /\ pc' = "square" /\ call' = call /\ num' = num /\ sizeTotal' = sizeTotal
      /\ ~lost' => ~lost /\ mag' = mag * mag
  BY DEF Square, Stored
<1>0. CASE lost'
  <2>1. call.radix >= 2
    BY <1>1 DEF Measuring
  <2> QED BY <1>0, <1>1, <2>1 DEF Measuring
<1>2. CASE ~lost'
  <2>2. /\ call.radix \in Nat /\ call.radix >= 2 /\ Counted /\ num # 0 /\ sizeTemp \in Nat
        /\ sizeTemp > 0 /\ mag = Raised(call.radix, sizeTemp)
    BY <1>1, <1>2, MeasuredCalls DEF Routines, Measuring
  <2>3. mag' = Raised(call.radix, sizeTemp + sizeTemp)
    BY <1>1, <1>2, <2>2, RaisedSum
  <2>4. sizeTemp + sizeTemp = 2 * sizeTemp /\ 2 * sizeTemp \in Nat /\ 2 * sizeTemp > 0
        /\ 2 * sizeTemp # 1 /\ sizeTemp \in 1 .. 2 * sizeTemp
    BY <2>2
  <2>5. Counted'
    BY <1>1, <2>2, CallStays DEF Counted
  <2> QED BY <1>1, <1>2, <2>2, <2>3, <2>4, <2>5 DEF Measuring
<1> QED BY <1>0, <1>2

LEMMA CutStep ==
  ASSUME Routines, Measuring, Cut
  PROVE  Measuring'
<1>1. /\ pc = "square" /\ mag > num /\ sizeTotal' = sizeTotal + sizeTemp \div 2
      /\ num' = num \div div /\ pc' = "length" /\ call' = call /\ lost' = lost
  BY DEF Cut, Goto
<1>0. CASE lost
  <2>1. call.radix >= 2
    BY <1>1 DEF Measuring
  <2> QED BY <1>0, <1>1, <2>1 DEF Measuring
<1> SUFFICES ASSUME ~lost PROVE Measuring'
  BY <1>0
<1>2. /\ call \in Calls /\ call.routine = "zstr_length"
      /\ call.radix \in Nat /\ call.radix > 1 /\ call.radix >= 2 /\ num # 0
      /\ sizeTemp \in Nat /\ sizeTemp > 0 /\ mag = Raised(call.radix, sizeTemp)
  BY <1>1, MeasuredCalls DEF Routines, Measuring
<1>3. /\ num \in Nat /\ num > 0 /\ sizeTotal \in Nat /\ Whole \in Nat
      /\ sizeTotal + Len(Numeral(num, call.radix)) = Whole + 1
  BY <1>1, <1>2, MeasuredCalls DEF Measuring, Counted
<1>4. Whole' = Whole
  BY <1>1, CallStays
<1>5. CASE sizeTemp = 1
  <2>1. Raised(call.radix, 1) = call.radix
    <3>1. Raised(call.radix, 0 + 1) = call.radix * Raised(call.radix, 0) /\ Raised(call.radix, 0) = 1
      BY <1>2, RaisedSteps
    <3> QED BY <1>2, <3>1
  <2>2. div = call.radix /\ num < call.radix
    BY <1>1, <1>2, <1>3, <1>5, <2>1 DEF Measuring
  <2>3. num \div call.radix = 0
    <3>1. num = call.radix * 0 + num
      BY <1>2, <1>3
    <3> QED BY <1>2, <1>3, <2>2, <3>1, QuotientIs
  <2>4. Len(Numeral(num, call.radix)) = 1
    <3>1. Numeral(num, call.radix) = <<num>>
      BY <1>2, <1>3, <2>2, NumeralSteps
    <3> QED BY <3>1
  <2>5. sizeTemp \div 2 = 0
    <3>1. 1 = 2 * 0 + 1
      OBVIOUS
    <3> QED BY <1>5, <3>1, QuotientIs
  <2>6. num' = 0 /\ sizeTotal' = Whole
    BY <1>1, <1>3, <2>2, <2>3, <2>4, <2>5
  <2>7. Counted'
    BY <1>3, <1>4, <2>6 DEF Counted
  <2> QED BY <1>1, <1>2, <2>7 DEF Measuring
<1>6. CASE sizeTemp # 1
  <2>1. PICK k \in 1 .. sizeTemp : sizeTemp = 2 * k /\ div = Raised(call.radix, k) /\ div <= num
    BY <1>1, <1>6 DEF Measuring
  <2>2. PICK l \in Nat : /\ l = Len(Numeral(num, call.radix)) /\ l > 0
                         /\ num < Raised(call.radix, l)
    BY <1>2, <1>3, NumeralDigits
  <2>3. k < l
    BY <1>2, <1>3, <2>1, <2>2, RaisedPlace
  <2>4. /\ num' \in Nat /\ num' # 0 /\ Len(Numeral(num', call.radix)) = l - k
    <3>1. PICK g \in Nat, v \in Nat : g = call.radix /\ v = num /\ g > 1 /\ v > 0
      BY <1>2, <1>3
    <3>2. k \in Nat
      BY <2>1
    <3>3. /\ v \div Raised(g, k) \in Nat
          /\ v \div Raised(g, k) = 0 <=> Len(Numeral(v, g)) <= k
          /\ k < Len(Numeral(v, g))
               => Len(Numeral(v \div Raised(g, k), g)) = Len(Numeral(v, g)) - k
      BY <3>1, <3>2, QuotientLength
    <3>4. ~(l <= k)
      BY <2>2, <2>3, <3>2
    <3> QED BY <1>1, <2>1, <2>2, <2>3, <3>1, <3>3, <3>4
  <2>5. sizeTemp \div 2 = k
    <3>1. sizeTemp = 2 * k + 0
      BY <2>1
    <3> QED BY <1>2, <2>1, <3>1, QuotientIs
  <2>6. sizeTotal' = sizeTotal + k
    BY <1>1, <2>5
  <2>7. sizeTotal' \in Nat /\ sizeTotal' + (l - k) = Whole + 1
    BY <1>3, <2>1, <2>2, <2>6
  <2>8. Counted'
    BY <1>1, <1>4, <2>4, <2>7 DEF Counted
  <2> QED BY <1>1, <1>2, <2>8 DEF Measuring
<1> QED BY <1>5, <1>6

LEMMA MeasuringStep ==
  ASSUME Routines, Measuring, MeasuredRight, [Next]_vars
  PROVE  Measuring' /\ MeasuredRight'
<1>1. CASE Next
  <2>1. /\ call' = call
        /\ pc' \in {"length", "square"} => Measure \/ Radical \/ Square \/ Cut
        /\ pc' = "returned" /\ call.routine = "zstr_length" => EndMeasure
    BY <1>1, Comings
  <2>2. pc' \notin {"length", "square"} => Measuring'
    BY DEF Measuring
  <2>3. Measuring'
    BY <2>1, <2>2, MeasureStep, RadicalStep, SquareStep, CutStep, Zenon
  <2>4. CASE pc' = "returned" /\ call.routine = "zstr_length"
    <3>1. EndMeasure
      BY <2>1, <2>4
    <3>2. pc = "length" /\ num = 0 /\ sizeTotal' = sizeTotal + Neg(call.v)
      BY <3>1 DEF EndMeasure
    <3>5. lost' = lost
      BY <3>1 DEF EndMeasure, Return
    <3>3. call.radix >= 2 /\ (~lost => sizeTotal = Whole)
      BY <3>2 DEF Measuring, Counted
    <3>4. Whole' = Whole
      BY <2>1, CallStays
    <3> QED BY <2>1, <2>3, <3>2, <3>3, <3>4, <3>5 DEF MeasuredRight
  <2>5. CASE ~(pc' = "returned" /\ call.routine = "zstr_length")
    BY <2>1, <2>3, <2>5 DEF MeasuredRight, Over
  <2> QED BY <2>3, <2>4, <2>5
<1>2. CASE UNCHANGED vars
  <2>1. /\ call' = call /\ pc' = pc /\ num' = num /\ mag' = mag /\ div' = div
        /\ sizeTemp' = sizeTemp /\ sizeTotal' = sizeTotal /\ lost' = lost
    BY <1>2 DEF vars
  <2>2. Whole' = Whole
    BY <2>1, CallStays
  <2> QED BY <2>1, <2>2 DEF Measuring, MeasuredRight, Counted, Over
<1> QED BY <1>1, <1>2

------------------------------------------------------------------------------
(* The theorems.                                                             *)

LEMMA RoutineNames ==
  ASSUME call \in Calls
  PROVE  call.routine \in {"zstr", "zstr_length", "zsets", "another"}
<1>1. CASE \E v \in Printed : call \in Prints(v)
  BY <1>1, SMT DEF Prints
<1>2. CASE ~\E v \in Printed : call \in Prints(v)
  BY <1>2 DEF Calls
<1> QED BY <1>1, <1>2

LEMMA InitInv == Init => IndInv
<1> SUFFICES ASSUME Init PROVE IndInv
  OBVIOUS
<1>1. call \in Calls /\ pc = call.routine /\ pc \in {"zstr", "zstr_length", "zsets", "another"}
  BY RoutineNames DEF Init
<1>2. Routines
  BY <1>1 DEF Routines
<1>3. Errors
  BY <1>1 DEF Errors, ErrorsDescribed
<1>4. Given
  BY <1>1 DEF Given, Init
<1>5. Grouping /\ PrintedRight /\ ParsedRight /\ Measuring /\ MeasuredRight
  BY <1>1 DEF Grouping, PrintedRight, ParsedRight, Measuring, MeasuredRight, Over
<1>6. Parsing
  BY <1>1 DEF Parsing, Init
<1> QED BY <1>2, <1>3, <1>4, <1>5, <1>6 DEF IndInv

LEMMA StepInv == IndInv /\ [Next]_vars => IndInv'
<1> SUFFICES ASSUME IndInv, [Next]_vars PROVE IndInv'
  OBVIOUS
<1>1. /\ Routines /\ Errors /\ Given /\ Grouping /\ PrintedRight
      /\ Parsing /\ ParsedRight /\ Measuring /\ MeasuredRight
  BY DEF IndInv
<1> QED BY <1>1, RoutinesStep, ErrorsStep, GivenStep, GroupingStep, PrintedStep,
           ParsingStep, MeasuringStep, Zenon DEF IndInv

LEMMA Invariance == Spec => []IndInv
BY InitInv, StepInv, PTL DEF Spec

\* The end of the string is the first Nul.
LEMMA EndIs ==
  ASSUME Routines, PrintedRight, Over("zstr")
  PROVE  /\ Min({i \in DOMAIN str : str[i] = Nul}) = Ended
         /\ Ended = Neg(call.v) + Length /\ Length \in Nat /\ Length > 0 /\ Neg(call.v) \in {0, 1}
         /\ call.v \in Int /\ (Neg(call.v) = 1 <=> call.v < 0) /\ Ended < Room /\ Room \in Nat
<1>1. call \in Calls /\ call.routine = "zstr"
  BY DEF Routines, Over
<1>2. /\ call.v \in Int /\ Mag(call.v) \in Nat /\ Neg(call.v) \in {0, 1}
      /\ (Neg(call.v) = 1 <=> call.v < 0)
  BY <1>1, Printing, MagNeg
<1>3. Radix \in Nat /\ Radix > 1 /\ Room \in Nat
  BY Constants, StringsAssumption
<1>4. Length \in Nat /\ Length > 0
  BY <1>2, <1>3, NumeralDigits DEF Length
<1>5. /\ DOMAIN str = 0 .. Room - 1 /\ Ended < Room /\ str[Ended] = Nul
      /\ call.v < 0 => str[0] = Minus
      /\ \A i \in 0 .. Length - 1 : str[Neg(call.v) + i] = Standing(i)
  BY DEF PrintedRight
<1>6. Ended = Neg(call.v) + Length
  BY DEF Ended
<1> DEFINE Z == {i \in DOMAIN str : str[i] = Nul}
<1>7. Ended \in Z
  <2>1. Ended \in 0 .. Room - 1
    BY <1>2, <1>3, <1>4, <1>5, <1>6
  <2> QED BY <1>5, <2>1
<1>8. ASSUME NEW i \in Z
      PROVE  Ended <= i
  <2>1. SUFFICES ASSUME i < Ended PROVE FALSE
    BY <1>2, <1>3, <1>4, <1>5, <1>6
  <2>2. i \in 0 .. Room - 1 /\ str[i] = Nul
    BY <1>5
  <2>3. CASE i < Neg(call.v)
    <3>1. i = 0 /\ call.v < 0
      BY <1>2, <1>3, <2>2, <2>3
    <3> QED BY <1>5, <2>2, <3>1 DEF Minus, Nul
  <2>4. CASE ~(i < Neg(call.v))
    <3>1. PICK j \in 0 .. Length - 1 : i = Neg(call.v) + j
      <4>1. i - Neg(call.v) \in 0 .. Length - 1 /\ i = Neg(call.v) + (i - Neg(call.v))
        BY <1>2, <1>3, <1>4, <1>6, <2>1, <2>2, <2>4
      <4> QED BY <4>1
    <3>2. PICK k \in Nat : Standing(j) = DigitAt(k)
      <4>1. Length - 1 - j \in Nat /\ Length - 1 - 0 \in Nat
        BY <1>4
      <4> QED BY <4>1 DEF Standing
    <3>3. DigitAt(k) \in 0 .. Radix - 1
      BY <1>2, <1>3, DigitType DEF DigitAt
    <3> QED BY <1>3, <1>5, <2>2, <3>1, <3>2, <3>3 DEF Nul
  <2> QED BY <2>3, <2>4
<1>9. \A i \in Z : i \in Int
  BY <1>3, <1>5
<1> HIDE DEF Z
<1>10. Min(Z) = Ended
  <2>1. Ended \in Z /\ \A i \in Z : Ended <= i
    BY <1>7, <1>8
  <2>2. \A x, y \in Z : x <= y /\ y <= x => x = y
    BY <1>9
  <2>3. Min(Z) = CHOOSE x \in Z : \A y \in Z : x <= y
    BY DEF Min
  <2>4. Min(Z) \in Z /\ \A y \in Z : Min(Z) <= y
    BY <2>1, <2>3, Zenon
  <2> QED BY <2>1, <2>2, <2>4
<1> QED BY <1>2, <1>3, <1>4, <1>5, <1>6, <1>10 DEF Z

LEMMA PrintedSuffices ==
  ASSUME Routines, PrintedRight
  PROVE  BuffersSuffice
<1> SUFFICES ASSUME Over("zstr")
             PROVE  ~Tight <=> /\ \A i \in DOMAIN str : i >= size => str[i] = Outside
                               /\ \E i \in DOMAIN str : i < size /\ str[i] = Nul
  BY Zenon DEF BuffersSuffice
<1>1. /\ DOMAIN str = 0 .. Room - 1 /\ Ended < Room /\ size \in Nat /\ str[Ended] = Nul
      /\ Tight => Ended = size
      /\ ~Tight => Ended < size /\ \A i \in 0 .. Room - 1 : i >= size => str[i] = Outside
  BY DEF PrintedRight
<1>2. Ended \in 0 .. Room - 1
  <2>1. Ended = Neg(call.v) + Length /\ Length \in Nat /\ Neg(call.v) \in {0, 1} /\ Room \in Nat
    BY EndIs
  <2> QED BY <1>1, <2>1
<1>3. CASE Tight
  <2>1. str[size] = Nul /\ size \in DOMAIN str /\ size >= size /\ Nul # Outside
    BY <1>1, <1>2, <1>3 DEF Nul, Outside
  <2> QED BY <1>3, <2>1
<1>4. CASE ~Tight
  BY <1>1, <1>2, <1>4
<1> QED BY <1>3, <1>4

LEMMA PrintedExactly ==
  ASSUME Routines, PrintedRight, Over("zstr")
  PROVE  StringIn(str) = IF Tight THEN Garbled(Decimal(call.v)) ELSE Decimal(call.v)
<1>1. /\ Min({i \in DOMAIN str : str[i] = Nul}) = Ended
      /\ Ended = Neg(call.v) + Length /\ Length \in Nat /\ Length > 0 /\ Neg(call.v) \in {0, 1}
      /\ call.v \in Int /\ (Neg(call.v) = 1 <=> call.v < 0)
  BY EndIs
<1>2. StringIn(str) = [i \in 1 .. Ended |-> str[i - 1]]
  BY <1>1 DEF StringIn
<1>3. /\ call.v < 0 => str[0] = Minus
      /\ \A i \in 0 .. Length - 1 : str[Neg(call.v) + i] = Standing(i)
  BY DEF PrintedRight
<1>4. PICK s \in Seq(Int) : s = Decimal(call.v)
  BY <1>1, DecimalIs
<1>5. /\ Len(s) = Ended /\ (call.v < 0 => s[1] = Minus)
      /\ \A i \in 1 .. Length : s[Neg(call.v) + i] = DigitAt(Length - i)
  BY <1>1, <1>4, DecimalIs DEF Length, DigitAt
<1>6. s = [i \in 1 .. Ended |-> s[i]]
  BY <1>5
<1>7. ASSUME NEW i \in 1 .. Ended
      PROVE  str[i - 1] = IF Tight /\ i = 3 THEN s[2] ELSE s[i]
  <2>1. CASE i = 1 /\ call.v < 0
    BY <1>3, <1>5, <2>1
  <2>2. CASE ~(i = 1 /\ call.v < 0)
    <3>1. PICK j \in 1 .. Length : i = Neg(call.v) + j /\ i - 1 = Neg(call.v) + (j - 1)
      <4>1. i - Neg(call.v) \in 1 .. Length /\ i = Neg(call.v) + (i - Neg(call.v))
            /\ i - 1 = Neg(call.v) + ((i - Neg(call.v)) - 1)
        BY <1>1, <2>2
      <4> QED BY <4>1
    <3>2. j - 1 \in 0 .. Length - 1 /\ Length - 1 - (j - 1) = Length - j
      BY <1>1
    <3>3. str[i - 1] = Standing(j - 1) /\ s[i] = DigitAt(Length - j)
      BY <1>3, <1>5, <3>1, <3>2
    <3>4. CASE Tight /\ j = 2
      <4>1. call.v < 0
        BY <3>4 DEF Tight
      <4>2. i = 3 /\ 1 \in 1 .. Length /\ Neg(call.v) + 1 = 2 /\ j - 1 = 1
        BY <1>1, <3>1, <3>4, <4>1
      <4>3. s[2] = DigitAt(Length - 1)
        BY <1>5, <4>2
      <4>4. Length - 1 - 0 = Length - 1
        BY <1>1
      <4> QED BY <3>3, <3>4, <4>2, <4>3, <4>4 DEF Standing
    <3>5. CASE ~(Tight /\ j = 2)
      <4>1. ~(Tight /\ j - 1 = 1)
        BY <1>1, <3>5
      <4>2. str[i - 1] = DigitAt(Length - j)
        BY <3>2, <3>3, <4>1 DEF Standing
      <4>3. ~(Tight /\ i = 3)
        <5>1. Tight => Neg(call.v) = 1
          BY <1>1 DEF Tight
        <5> QED BY <3>1, <3>5, <5>1
      <4> QED BY <3>3, <4>2, <4>3
    <3> QED BY <3>4, <3>5
  <2> QED BY <2>1, <2>2
<1>8. CASE Tight
  <2>1. Garbled(s) = [i \in 1 .. Ended |-> IF i = 3 THEN s[2] ELSE s[i]]
    <3>1. DOMAIN s = 1 .. Ended
      BY <1>5
    <3>2. \A e : [s EXCEPT ![3] = e] = [i \in DOMAIN s |-> IF i = 3 THEN e ELSE s[i]]
      BY Zenon
    <3> QED BY <3>1, <3>2 DEF Garbled
  <2> QED BY <1>2, <1>4, <1>7, <1>8, <2>1
<1>9. CASE ~Tight
  BY <1>2, <1>4, <1>6, <1>7, <1>9
<1> QED BY <1>8, <1>9

LEMMA ExactlyInv == IndInv => StringsExact
<1> SUFFICES ASSUME IndInv PROVE StringsExact
  OBVIOUS
<1>1. Routines /\ PrintedRight /\ ParsedRight /\ MeasuredRight
  BY DEF IndInv
<1>2. Over("zstr") =>
        StringIn(str) = IF Tight THEN Garbled(Decimal(call.v)) ELSE Decimal(call.v)
  BY <1>1, PrintedExactly
<1> QED BY <1>1, <1>2, Zenon DEF StringsExact, ParsedRight, MeasuredRight, Whole

\* zstr stays within the buffer it makes or is given, whatever the integer, the radix
\* and the room, but where its guess has no place for the sign.
THEOREM BuffersAlwaysSuffice == Spec => []BuffersSuffice
<1>1. IndInv => BuffersSuffice
  BY PrintedSuffices DEF IndInv
<1> QED BY <1>1, Invariance, PTL

\* zstr prints the numeral, zsets reads numerals of any length and nothing else, and
\* zstr_length counts the digits in any radix; the last two unless a product is lost,
\* whatever zmul_ll and zsqr_ll may store.
THEOREM StringsAreExact == Spec => []StringsExact
BY ExactlyInv, Invariance, PTL

\* Every error has words, but for the radix that zstr_length refuses.
THEOREM ErrorsAreDescribed == Spec => []ErrorsDescribed
<1>1. IndInv => ErrorsDescribed
  BY DEF IndInv, Errors
<1> QED BY <1>1, Invariance, PTL
==============================================================================
