---------------------------- MODULE ZahlCallsProofs ----------------------------
(* For characters of every width, groups of every size and operands of any   *)
(* length: which assignments, sums, differences, shifts and bitwise          *)
(* operations are exact, and that comparisons and tests of bits are right.   *)
EXTENDS ZahlCalls, ZahlLemmas

------------------------------------------------------------------------------
(* Powers and characters.                                                    *)

LEMMA PowerIsRaised ==
  ASSUME NEW b \in Nat, NEW n \in Nat
  PROVE  Power(b, n) = Raised(b, n)
<1> DEFINE IsPower(p) == p = [k \in Nat |-> IF k = 0 THEN 1 ELSE b * p[k - 1]]
           h == [k \in Nat |-> Raised(b, k)]
<1>1. Power(b, n) = (CHOOSE p : IsPower(p))[n]
  BY Zenon DEF Power
<1>2. IsPower(h)
  <2>1. \A k \in Nat : Raised(b, k) = IF k = 0 THEN 1 ELSE b * h[k - 1]
    <3> SUFFICES ASSUME NEW k \in Nat PROVE Raised(b, k) = IF k = 0 THEN 1 ELSE b * h[k - 1]
      OBVIOUS
    <3>1. CASE k = 0
      BY <3>1, RaisedSteps
    <3>2. CASE k # 0
      <4>1. PICK j \in Nat : j = k - 1 /\ k = j + 1
        BY <3>2
      <4> QED BY <3>2, <4>1, RaisedSteps
    <3> QED BY <3>1, <3>2
  <2> QED BY <2>1
<1>3. PICK p : p = (CHOOSE q : IsPower(q))
  OBVIOUS
<1>4. p = [k \in Nat |-> IF k = 0 THEN 1 ELSE b * p[k - 1]]
  <2>1. IsPower(CHOOSE q : IsPower(q))
    <3> HIDE DEF IsPower
    <3> QED BY <1>2, Zenon
  <2> QED BY <1>3, <2>1
<1>5. \A k \in Nat : p[k] = Raised(b, k)
  <2> DEFINE Z == {k \in Nat : p[k] = Raised(b, k)}
  <2>1. 0 \in Z
    BY <1>4, RaisedSteps
  <2>2. ASSUME NEW k \in Nat, k \in Z PROVE k + 1 \in Z
    <3>1. k + 1 \in Nat /\ k + 1 # 0 /\ (k + 1) - 1 = k
      OBVIOUS
    <3>2. p[k + 1] = b * p[k]
      BY <1>4, <3>1
    <3> QED BY <2>2, <3>1, <3>2, RaisedSteps
  <2>3. Z \in SUBSET Nat
    OBVIOUS
  <2>4. \A k \in Nat : k \in Z
    <3> HIDE DEF Z
    <3> QED BY <2>1, <2>2, <2>3, Inductive
  <2> QED BY <2>4
<1> HIDE DEF IsPower
<1> QED BY <1>1, <1>3, <1>5

LEMMA Bases == Base \in Nat /\ Base >= 2 /\ 0 \in Digit /\ 1 \in Digit /\ Base - 1 \in Digit
<1>1. Bits \in Nat /\ Bits # 0 /\ 2 \in Nat
  BY DigitsAssumption
<1>2. PICK j \in Nat : Bits = j + 1
  BY <1>1, Bits - 1 \in Nat, Bits = (Bits - 1) + 1
<1>3. Base = 2 * Raised(2, j) /\ Raised(2, j) \in Nat /\ Raised(2, j) > 0
  BY <1>1, <1>2, PowerIsRaised, RaisedSteps, RaisedPositive DEF Base
<1> QED BY <1>3 DEF Digit

\* The value of the k-th character, as a place.
Place(k) == Raised(Base, k)

LEMMA Places ==
  /\ Place(0) = 1
  /\ \A k \in Nat : /\ Place(k) \in Nat /\ Place(k) > 0 /\ Place(k + 1) = Base * Place(k)
                    /\ Power(Base, k) = Place(k)
<1>1. Base \in Nat /\ Base > 0
  BY Bases
<1>2. PICK b \in Nat : b = Base /\ b > 0
  BY <1>1
<1>3. \A k \in Nat : Power(b, k) = Raised(b, k)
  BY PowerIsRaised
<1>4. /\ Raised(b, 0) = 1
      /\ \A k \in Nat : Raised(b, k) \in Nat /\ Raised(b, k) > 0 /\ Raised(b, k + 1) = b * Raised(b, k)
  BY <1>2, RaisedSteps, RaisedPositive
<1> QED BY <1>2, <1>3, <1>4 DEF Place

LEMMA DigitType == \A x : x \in Digit => x \in Nat /\ x < Base /\ 0 <= x /\ x <= Base - 1
BY Bases DEF Digit

------------------------------------------------------------------------------
(* The loops over characters, step by step.                                  *)

\* A number gets a character above.
LEMMA LowestSteps ==
  ASSUME NEW chars
  PROVE  /\ Lowest(chars, 0) = 0
         /\ \A k \in 0 .. Room - 1 : Lowest(chars, k + 1) = Lowest(chars, k) + chars[k] * Power(Base, k)
<1> DEFINE Row(f) == f = [k \in 0 .. Room |-> IF k = 0 THEN 0 ELSE f[k - 1] + chars[k - 1] * Power(Base, k - 1)]
           w == [k \in 0 .. Room - 1 |-> chars[k] * Power(Base, k)]
<1>1. \E f : Row(f)
  <2>1. PICK f : f = [k \in 0 .. Room |-> IF k = 0 THEN 0 ELSE f[k - 1] + w[k - 1]]
    BY DigitsAssumption, RunningSums
  <2>2. \A k \in 0 .. Room : k # 0 => w[k - 1] = chars[k - 1] * Power(Base, k - 1)
    BY DigitsAssumption
  <2> HIDE DEF w
  <2> QED BY <2>1, <2>2
<1>2. PICK f : f = (CHOOSE q : Row(q))
  OBVIOUS
<1>3. Row(f)
  <2> HIDE DEF Row
  <2>1. Row(CHOOSE q : Row(q))
    BY <1>1, Zenon
  <2> QED BY <1>2, <2>1
<1>4. \A n : Lowest(chars, n) = f[n]
  BY <1>2, Zenon DEF Lowest
<1>5. f[0] = 0 /\ \A k \in 0 .. Room - 1 : f[k + 1] = f[k] + chars[k] * Power(Base, k)
  BY <1>3, DigitsAssumption
<1> QED BY <1>4, <1>5

\* The carry into a turn comes from the turn before.
LEMMA CarriesSteps ==
  ASSUME NEW x, NEW y
  PROVE  /\ Carries(x, y)[0] = 0
         /\ \A k \in 0 .. Room - 1 : Carries(x, y)[k + 1] = Plus(x[k], y[k], Carries(x, y)[k]).carry
<1> DEFINE Row(f) == f = [k \in 0 .. Room |-> IF k = 0 THEN 0 ELSE Plus(x[k - 1], y[k - 1], f[k - 1]).carry]
           out == [k \in 0 .. Room - 1 |-> [c \in {0, 1} |-> Plus(x[k], y[k], c).carry]]
<1>1. \E f : Row(f)
  <2>1. TurnsCarry(out, Room)
    <3>1. ASSUME NEW k \in 0 .. Room - 1, NEW c \in {0, 1} PROVE Plus(x[k], y[k], c).carry \in {0, 1}
      <4>1. CASE {x[k], y[k]} \subseteq Digit
        <5>1. PICK v \in Nat, b \in Nat : v = x[k] + y[k] + c /\ b = Base /\ v < b + b /\ b > 0
          BY <4>1, DigitType, Bases
        <5>2. v \div b \in {0, 1}
          <6>1. v \div b \in Nat /\ v < b * 2
            BY <5>1, Quotient
          <6>2. v \div b < 2
            BY ONLY <5>1, <6>1, v \in Nat, b \in Nat, 2 \in Nat, QuotientMonotone
          <6> QED BY <6>1, <6>2
        <5> QED BY <4>1, <5>1, <5>2 DEF Plus
      <4>2. CASE ~({x[k], y[k]} \subseteq Digit)
        BY <4>2 DEF Plus
      <4> QED BY <4>1, <4>2
    <3> QED BY <3>1 DEF TurnsCarry
  <2> HIDE DEF out
  <2>2. PICK f : CarryRow(f, out, Room)
    BY <2>1, DigitsAssumption, RunningCarries
  <2>3. ASSUME NEW k \in 0 .. Room, k # 0
        PROVE  out[k - 1][f[k - 1]] = Plus(x[k - 1], y[k - 1], f[k - 1]).carry
    <3>1. k - 1 \in 0 .. Room - 1 /\ k - 1 \in 0 .. Room
      BY <2>3, DigitsAssumption
    <3>2. f[k - 1] \in {0, 1}
      BY <2>2, <3>1 DEF CarryRow
    <3> QED BY <3>1, <3>2 DEF out
  <2> QED BY <2>2, <2>3 DEF CarryRow
<1>2. PICK f : f = (CHOOSE q : Row(q))
  OBVIOUS
<1>3. Row(f)
  <2> HIDE DEF Row
  <2>1. Row(CHOOSE q : Row(q))
    BY <1>1, Zenon
  <2> QED BY <1>2, <2>1
<1>4. Carries(x, y) = f
  BY <1>2, Zenon DEF Carries
<1> QED BY <1>3, <1>4, DigitsAssumption

\* So does the borrow.
LEMMA BorrowsSteps ==
  ASSUME NEW x, NEW y
  PROVE  /\ Borrows(x, y)[0] = 0
         /\ \A k \in 0 .. Room - 1 : Borrows(x, y)[k + 1] = Minus(x[k], y[k], Borrows(x, y)[k]).borrow
<1> DEFINE Row(f) == f = [k \in 0 .. Room |-> IF k = 0 THEN 0 ELSE Minus(x[k - 1], y[k - 1], f[k - 1]).borrow]
           out == [k \in 0 .. Room - 1 |-> [c \in {0, 1} |-> Minus(x[k], y[k], c).borrow]]
<1>1. \E f : Row(f)
  <2>1. TurnsCarry(out, Room)
    BY DEF Minus, TurnsCarry
  <2> HIDE DEF out
  <2>2. PICK f : CarryRow(f, out, Room)
    BY <2>1, DigitsAssumption, RunningCarries
  <2>3. ASSUME NEW k \in 0 .. Room, k # 0
        PROVE  out[k - 1][f[k - 1]] = Minus(x[k - 1], y[k - 1], f[k - 1]).borrow
    <3>1. k - 1 \in 0 .. Room - 1 /\ k - 1 \in 0 .. Room
      BY <2>3, DigitsAssumption
    <3>2. f[k - 1] \in {0, 1}
      BY <2>2, <3>1 DEF CarryRow
    <3> QED BY <3>1, <3>2 DEF out
  <2> QED BY <2>2, <2>3 DEF CarryRow
<1>2. PICK f : f = (CHOOSE q : Row(q))
  OBVIOUS
<1>3. Row(f)
  <2> HIDE DEF Row
  <2>1. Row(CHOOSE q : Row(q))
    BY <1>1, Zenon
  <2> QED BY <1>2, <2>1
<1>4. Borrows(x, y) = f
  BY <1>2, Zenon DEF Borrows
<1> QED BY <1>3, <1>4, DigitsAssumption

------------------------------------------------------------------------------
(* The number in the lowest characters.                                      *)

Figures(f, n) == \A i \in 0 .. n - 1 : f[i] \in Digit

LEMMA LowestPlaces ==
  ASSUME NEW f
  PROVE  /\ Lowest(f, 0) = 0
         /\ \A k \in 0 .. Room - 1 : Lowest(f, k + 1) = Lowest(f, k) + f[k] * Place(k)
<1>1. \A k \in 0 .. Room - 1 : k \in Nat
  BY DigitsAssumption
<1>2. \A k \in 0 .. Room - 1 : Power(Base, k) = Place(k)
  BY <1>1, Places
<1> QED BY <1>2, LowestSteps

LEMMA LowestType ==
  ASSUME NEW f, NEW n \in Nat, n <= Room, Figures(f, n)
  PROVE  Lowest(f, n) \in Nat /\ Lowest(f, n) < Place(n)
<1> DEFINE Z == {k \in Nat : k <= n => Lowest(f, k) \in Nat /\ Lowest(f, k) < Place(k)}
<1>1. 0 \in Z
  BY LowestPlaces, Places
<1>2. ASSUME NEW k \in Nat, k \in Z PROVE k + 1 \in Z
  <2>1. SUFFICES ASSUME k + 1 <= n PROVE Lowest(f, k + 1) \in Nat /\ Lowest(f, k + 1) < Place(k + 1)
    OBVIOUS
  <2>2. k \in 0 .. Room - 1 /\ k \in 0 .. n - 1
    BY <2>1, DigitsAssumption
  <2>3. PICK l \in Nat : l = Lowest(f, k) /\ l < Place(k)
    BY <1>2, <2>1
  <2>4. PICK x \in Nat : x = f[k] /\ x < Base
    BY <2>2, DigitType DEF Figures
  <2>5. PICK p \in Nat : p = Place(k) /\ Place(k + 1) = Base * p
    BY Places
  <2>6. Base \in Nat
    BY Bases
  <2>7. l + x * p \in Nat /\ l + x * p < Base * p
    BY <2>3, <2>4, <2>5, <2>6, DigitMore
  <2> QED BY <2>2, <2>3, <2>4, <2>5, <2>7, LowestPlaces
<1>3. \A k \in Nat : k \in Z
  <2>1. Z \in SUBSET Nat
    OBVIOUS
  <2> HIDE DEF Z
  <2> QED BY <1>1, <1>2, <2>1, Inductive
<1> QED BY <1>3

LEMMA LowestAgrees ==
  ASSUME NEW f, NEW g, NEW n \in Nat, n <= Room, \A i \in 0 .. n - 1 : f[i] = g[i]
  PROVE  Lowest(f, n) = Lowest(g, n)
<1> DEFINE Z == {k \in Nat : k <= n => Lowest(f, k) = Lowest(g, k)}
<1>1. 0 \in Z
  BY LowestPlaces
<1>2. ASSUME NEW k \in Nat, k \in Z PROVE k + 1 \in Z
  <2>1. SUFFICES ASSUME k + 1 <= n PROVE Lowest(f, k + 1) = Lowest(g, k + 1)
    OBVIOUS
  <2>2. k \in 0 .. Room - 1 /\ k \in 0 .. n - 1 /\ k <= n
    BY <2>1, DigitsAssumption
  <2>3. f[k] = g[k] /\ Lowest(f, k) = Lowest(g, k)
    BY <1>2, <2>2
  <2> QED BY <2>2, <2>3, LowestPlaces
<1>3. \A k \in Nat : k \in Z
  <2>1. Z \in SUBSET Nat
    OBVIOUS
  <2> HIDE DEF Z
  <2> QED BY <1>1, <1>2, <2>1, Inductive
<1> QED BY <1>3

\* What the characters from .. n - 1 add to the number below them.
Upper(u, f, from, n) ==
  /\ u \in Nat
  /\ u = 0 <=> \A i \in from .. n - 1 : f[i] = 0
  /\ \A g : Lowest(g, from) \in Int /\ (\A i \in from .. n - 1 : g[i] = f[i])
              => Lowest(g, n) = Lowest(g, from) + Place(from) * u

LEMMA UpperExists ==
  ASSUME NEW f, NEW from \in Nat, NEW n \in Nat, from <= n, n <= Room,
         \A i \in from .. n - 1 : f[i] \in Digit
  PROVE  \E u \in Nat : Upper(u, f, from, n)
<1> DEFINE Z == {k \in Nat : from + k <= n => \E u \in Nat : Upper(u, f, from, from + k)}
<1>0. \A k \in Nat : Place(k) \in Nat /\ Place(k) > 0 /\ Place(k + 1) = Base * Place(k)
  BY Places
<1>1. 0 \in Z
  <2>1. Upper(0, f, from, from + 0)
    BY <1>0 DEF Upper
  <2> QED BY <2>1
<1>2. ASSUME NEW k \in Nat, k \in Z PROVE k + 1 \in Z
  <2>1. SUFFICES ASSUME from + (k + 1) <= n PROVE \E u \in Nat : Upper(u, f, from, from + (k + 1))
    OBVIOUS
  <2>2. PICK u \in Nat : Upper(u, f, from, from + k)
    BY <1>2, <2>1
  <2>3. PICK m \in Nat : m = from + k
    OBVIOUS
  <2>4. m \in 0 .. Room - 1 /\ m \in from .. n - 1 /\ from + (k + 1) = m + 1 /\ m >= from
    BY <2>1, <2>3, DigitsAssumption
  <2>5. PICK x \in Nat : x = f[m] /\ x < Base
    BY <2>4, DigitType
  <2>6. PICK p \in Nat, q \in Nat : p = Place(from) /\ q = Place(k) /\ q > 0 /\ p > 0
    BY <1>0
  <2>7. Place(m) = p * q
    BY <2>3, <2>6, Bases, RaisedSum DEF Place
  <2>8. PICK y \in Nat : y = x * q /\ (y = 0 <=> x = 0)
    BY <2>6
  <2>9. PICK v \in Nat : v = u + y
    OBVIOUS
  <2>10. x * (p * q) = p * y
    BY <2>8
  <2>11. p * v = p * u + p * y /\ p * u \in Nat /\ p * y \in Nat
    BY <2>9
  <2>12. ASSUME NEW g, Lowest(g, from) \in Int, \A i \in from .. m : g[i] = f[i]
         PROVE  Lowest(g, m + 1) = Lowest(g, from) + p * v
    <3>1. Lowest(g, m) = Lowest(g, from) + p * u
      <4>1. \A i \in from .. m - 1 : g[i] = f[i]
        BY <2>4, <2>12
      <4> QED BY <2>2, <2>3, <2>6, <2>12, <4>1 DEF Upper
    <3>2. g[m] = x
      BY <2>4, <2>5, <2>12
    <3>3. Lowest(g, m + 1) = Lowest(g, m) + x * Place(m)
      BY <2>4, <3>2, LowestPlaces
    <3>4. Lowest(g, m + 1) = (Lowest(g, from) + p * u) + p * y
      BY <2>7, <2>10, <3>1, <3>3
    <3> QED BY <2>11, <2>12, <3>4
  <2>13. v = 0 <=> \A i \in from .. m : f[i] = 0
    <3>1. v = 0 <=> u = 0 /\ x = 0
      BY <2>8, <2>9
    <3>2. u = 0 <=> \A i \in from .. m - 1 : f[i] = 0
      BY <2>2, <2>3 DEF Upper
    <3>3. \A i \in from .. m : i \in from .. m - 1 \/ i = m
      BY <2>4
    <3>4. \A i \in from .. m - 1 : i \in from .. m
      BY <2>4
    <3>5. m \in from .. m
      BY <2>4
    <3> QED BY <2>5, <3>1, <3>2, <3>3, <3>4, <3>5
  <2>14. (m + 1) - 1 = m
    OBVIOUS
  <2>15. Upper(v, f, from, m + 1)
    BY <2>6, <2>12, <2>13, <2>14 DEF Upper
  <2> QED BY <2>4, <2>15
<1>3. \A k \in Nat : k \in Z
  <2>1. Z \in SUBSET Nat
    OBVIOUS
  <2> HIDE DEF Z
  <2> QED BY <1>1, <1>2, <2>1, Inductive
<1>4. PICK k \in Nat : from + k = n
  BY n - from \in Nat, from + (n - from) = n
<1> QED BY <1>3, <1>4

\* A magnitude of digits, split at a character.
LEMMA LowestSplit ==
  ASSUME NEW f, NEW from \in Nat, NEW n \in Nat, from <= n, n <= Room, Figures(f, n)
  PROVE  \E u \in Nat : /\ Upper(u, f, from, n)
                        /\ Lowest(f, from) \in Nat /\ Lowest(f, from) < Place(from)
                        /\ Lowest(f, n) \in Nat /\ Lowest(f, n) < Place(n)
                        /\ Lowest(f, n) = Place(from) * u + Lowest(f, from)
                        /\ Lowest(f, n) \div Place(from) = u
                        /\ Lowest(f, n) % Place(from) = Lowest(f, from)
<1>1. \A i \in from .. n - 1 : f[i] \in Digit
  BY DEF Figures
<1>2. PICK u \in Nat : Upper(u, f, from, n)
  BY <1>1, UpperExists
<1>3. Figures(f, from)
  BY DEF Figures
<1>4. PICK l \in Nat : l = Lowest(f, from) /\ l < Place(from)
  <2>1. from <= Room
    BY DigitsAssumption
  <2> QED BY <1>3, <2>1, LowestType
<1>5. PICK v \in Nat : v = Lowest(f, n) /\ v < Place(n)
  BY LowestType
<1>6. PICK p \in Nat : p = Place(from) /\ p > 0
  BY Places
<1>7. v = l + p * u
  BY <1>2, <1>4, <1>5, <1>6 DEF Upper
<1>8. p * u \in Nat /\ v = p * u + l
  BY <1>7
<1>9. v \div p = u /\ v % p = l
  <2>1. l < p
    BY <1>4, <1>6
  <2>2. v = p * u + l /\ p > 0
    BY <1>6, <1>8
  <2> QED BY ONLY <2>1, <2>2, Quotients
<1> QED BY <1>2, <1>4, <1>5, <1>6, <1>8, <1>9

\* The number is zero if its characters are.
LEMMA LowestZero ==
  ASSUME NEW f, NEW n \in Nat, n <= Room, Figures(f, n)
  PROVE  Lowest(f, n) = 0 <=> \A i \in 0 .. n - 1 : f[i] = 0
<1>1. PICK u \in Nat : Upper(u, f, 0, n) /\ Lowest(f, n) = Place(0) * u + Lowest(f, 0)
  BY LowestSplit
<1>2. Lowest(f, n) = u
  BY <1>1, LowestPlaces, Places
<1> QED BY <1>1, <1>2 DEF Upper

\* It is as long as its highest character.
LEMMA LowestTop ==
  ASSUME NEW f, NEW n \in Nat, n < Room, Figures(f, n + 1), f[n] # 0
  PROVE  Lowest(f, n + 1) >= Place(n)
<1>1. PICK x \in Nat : x = f[n] /\ x >= 1
  BY DigitType DEF Figures
<1>2. Figures(f, n)
  BY DEF Figures
<1>3. PICK l \in Nat : l = Lowest(f, n)
  <2>1. n <= Room
    BY DigitsAssumption
  <2> QED BY <1>2, <2>1, LowestType
<1>4. PICK p \in Nat : p = Place(n)
  BY Places
<1>5. Lowest(f, n + 1) = l + x * p
  <2>1. n \in 0 .. Room - 1
    BY DigitsAssumption
  <2> QED BY <1>1, <1>3, <1>4, <2>1, LowestPlaces
<1>6. x * p \in Nat /\ (x - 1) * p >= 0 /\ (x - 1) * p = x * p - p
  BY <1>1
<1> QED BY <1>4, <1>5, <1>6

\* The highest character in which two differ decides.
LEMMA LowestDiffer ==
  ASSUME NEW f, NEW g, NEW n \in Nat, n <= Room, Figures(f, n), Figures(g, n),
         NEW i \in 0 .. n - 1, f[i] < g[i], \A k \in i + 1 .. n - 1 : f[k] = g[k]
  PROVE  Lowest(f, n) < Lowest(g, n)
<1>1. i \in Nat /\ i + 1 \in Nat /\ i + 1 <= n /\ i + 1 <= Room /\ i <= Room /\ i \in 0 .. Room - 1
  BY DigitsAssumption
<1>2. PICK u \in Nat : Upper(u, f, i + 1, n)
  BY <1>1, LowestSplit
<1>3. Figures(f, i) /\ Figures(g, i) /\ Figures(f, i + 1) /\ Figures(g, i + 1)
  BY <1>1 DEF Figures
<1>4. PICK x \in Nat, y \in Nat : x = f[i] /\ y = g[i] /\ x + 1 <= y
  BY DigitType DEF Figures
<1>5. PICK p \in Nat : p = Place(i)
  BY <1>1, Places
<1>6. PICK l \in Nat, m \in Nat : l = Lowest(f, i) /\ m = Lowest(g, i) /\ l < p
  BY <1>1, <1>3, <1>5, LowestType
<1>7. PICK q \in Nat : q = Place(i + 1) * u
  BY <1>1, Places
<1>8. Lowest(f, i + 1) = l + x * p /\ Lowest(g, i + 1) = m + y * p
  BY <1>1, <1>4, <1>5, <1>6, LowestPlaces
<1>9. x * p \in Nat /\ y * p \in Nat
  OBVIOUS
<1>10. Lowest(f, n) = (l + x * p) + q /\ Lowest(g, n) = (m + y * p) + q
  <2>1. Lowest(f, i + 1) \in Int /\ Lowest(g, i + 1) \in Int
    BY <1>8, <1>9
  <2>2. \A k \in i + 1 .. n - 1 : g[k] = f[k] /\ f[k] = f[k]
    OBVIOUS
  <2> QED BY <1>2, <1>7, <1>8, <2>1, <2>2 DEF Upper
<1>11. (y - x - 1) * p >= 0 /\ (y - x - 1) * p = y * p - x * p - p
  BY <1>4
<1> QED BY <1>6, <1>9, <1>10, <1>11

------------------------------------------------------------------------------
(* Carries and borrows.                                                      *)

LEMMA PlusDigits ==
  ASSUME NEW x \in Digit, NEW y \in Digit, NEW c \in {0, 1}
  PROVE  /\ Plus(x, y, c).digit \in Digit /\ Plus(x, y, c).carry \in {0, 1}
         /\ x + y + c = Plus(x, y, c).digit + Base * Plus(x, y, c).carry
<1>1. PICK b \in Nat : b = Base /\ b >= 2
  BY Bases
<1>2. x \in Nat /\ y \in Nat /\ x < b /\ y < b
  BY <1>1, DigitType
<1>3. PICK v \in Nat : v = x + y + c
  BY <1>2
<1>4. PICK q \in Nat, r \in Nat : q = v \div b /\ r = v % b /\ r < b /\ v = b * q + r
  BY <1>1, Quotient
<1>5. q \in {0, 1}
  <2>1. ASSUME q >= 2 PROVE FALSE
    <3>1. b * (q - 2) >= 0 /\ b * (q - 2) = b * q - 2 * b
      BY <2>1
    <3> QED BY <1>1, <1>2, <1>3, <1>4, <3>1
  <2> QED BY <2>1
<1>6. Plus(x, y, c) = [digit |-> r, carry |-> q]
  BY <1>1, <1>3, <1>4 DEF Plus
<1>7. r \in Digit
  BY <1>1, <1>4 DEF Digit
<1> QED BY <1>1, <1>3, <1>4, <1>5, <1>6, <1>7

SumFigures(f, x, y, n) ==
  \A i \in 0 .. n - 1 : f[i] = Plus(x[i], y[i], Carries(x, y)[i]).digit

\* What the loop of zadd_impl_4 leaves, with its carry, is the sum.
LEMMA CarriesAdd ==
  ASSUME NEW x, NEW y, NEW f, NEW n \in Nat, n <= Room, Figures(x, n), Figures(y, n),
         SumFigures(f, x, y, n)
  PROVE  /\ Carries(x, y)[n] \in {0, 1} /\ Figures(f, n)
         /\ Lowest(x, n) + Lowest(y, n) = Lowest(f, n) + Carries(x, y)[n] * Place(n)
<1> DEFINE Adds1(k) == /\ Carries(x, y)[k] \in {0, 1} /\ Figures(f, k)
                       /\ Lowest(x, k) + Lowest(y, k) = Lowest(f, k) + Carries(x, y)[k] * Place(k)
           Z == {k \in Nat : k <= n => Adds1(k)}
<1>1. 0 \in Z
  BY LowestPlaces, CarriesSteps, Places DEF Figures
<1>2. ASSUME NEW k \in Nat, k \in Z PROVE k + 1 \in Z
  <2>1. SUFFICES ASSUME k + 1 <= n PROVE Adds1(k + 1)
    OBVIOUS
  <2>2. k \in 0 .. Room - 1 /\ k \in 0 .. n - 1 /\ k <= n /\ k <= Room
    BY <2>1, DigitsAssumption
  <2>3. Adds1(k)
    BY <1>2, <2>2
  <2>4. PICK c \in {0, 1} : c = Carries(x, y)[k]
    BY <2>3
  <2>5. PICK v \in Digit, w \in Digit : v = x[k] /\ w = y[k]
    BY <2>2 DEF Figures
  <2>6. PICK z \in Digit : z = Plus(v, w, c).digit
    BY PlusDigits
  <2>7. PICK d \in {0, 1} : d = Plus(v, w, c).carry
    BY PlusDigits
  <2>8. v + w + c = z + Base * d
    BY <2>6, <2>7, PlusDigits
  <2>9. f[k] = z /\ Carries(x, y)[k + 1] = d
    BY <2>2, <2>4, <2>5, <2>6, <2>7, CarriesSteps DEF SumFigures
  <2>10. Figures(f, k + 1)
    BY <2>3, <2>9 DEF Figures
  <2>11. Figures(x, k) /\ Figures(y, k)
    BY <2>2 DEF Figures
  <2>12. PICK l \in Nat, m \in Nat, s \in Nat :
           l = Lowest(x, k) /\ m = Lowest(y, k) /\ s = Lowest(f, k)
    BY <2>2, <2>3, <2>11, LowestType
  <2>13. PICK p \in Nat, b \in Nat : p = Place(k) /\ b = Base /\ Place(k + 1) = b * p
    BY Places, Bases
  <2>14. /\ Lowest(x, k + 1) = l + v * p /\ Lowest(y, k + 1) = m + w * p
         /\ Lowest(f, k + 1) = s + z * p
    BY <2>2, <2>5, <2>9, <2>12, <2>13, LowestPlaces
  <2>15. l + m = s + c * p
    BY <2>3, <2>4, <2>12, <2>13
  <2>16. v \in Int /\ w \in Int /\ z \in Int /\ c \in Int /\ d \in Int
    BY DigitType
  <2>17. v + w + c = z + b * d
    BY <2>8, <2>13
  <2>18. (l + v * p) + (m + w * p) = (s + z * p) + d * (b * p)
    BY <2>15, <2>16, <2>17, CarryStep
  <2> QED BY <2>9, <2>10, <2>13, <2>14, <2>18
<1>3. \A k \in Nat : k \in Z
  <2>1. Z \in SUBSET Nat
    OBVIOUS
  <2> HIDE DEF Z
  <2> QED BY <1>1, <1>2, <2>1, Inductive
<1> QED BY <1>3

\* g is f where a carry, or a borrow the other way, has passed n .. m - 1.
Passed(f, g, n, m) ==
  /\ \A i \in 0 .. n - 1 : g[i] = f[i]
  /\ \A i \in n .. m - 1 : f[i] = Base - 1 /\ g[i] = 0

\* A carry runs over the greatest digits, and a borrow over zeros.
LEMMA CarryRuns ==
  ASSUME NEW f, NEW g, NEW n \in Nat, NEW m \in Nat, n <= m, m <= Room, Figures(f, n),
         Passed(f, g, n, m)
  PROVE  Lowest(f, m) + Place(n) = Lowest(g, m) + Place(m)
<1> DEFINE Z == {k \in Nat : n + k <= m =>
                   /\ Lowest(f, n + k) \in Nat /\ Lowest(g, n + k) \in Nat
                   /\ Lowest(f, n + k) + Place(n) = Lowest(g, n + k) + Place(n + k)}
<1>0. n <= Room /\ Room \in Nat
  BY DigitsAssumption
<1>1. 0 \in Z
  <2>1. Lowest(f, n) \in Nat /\ Lowest(f, n) = Lowest(g, n)
    <3>1. \A i \in 0 .. n - 1 : f[i] = g[i]
      BY DEF Passed
    <3> QED BY <1>0, <3>1, LowestType, LowestAgrees
  <2> QED BY <2>1
<1>2. ASSUME NEW k \in Nat, k \in Z PROVE k + 1 \in Z
  <2>1. SUFFICES ASSUME n + (k + 1) <= m
        PROVE  /\ Lowest(f, n + (k + 1)) \in Nat /\ Lowest(g, n + (k + 1)) \in Nat
               /\ Lowest(f, n + (k + 1)) + Place(n) = Lowest(g, n + (k + 1)) + Place(n + (k + 1))
    OBVIOUS
  <2>2. PICK j \in Nat : j = n + k /\ n + (k + 1) = j + 1
    OBVIOUS
  <2>3. j \in 0 .. Room - 1 /\ j \in n .. m - 1
    BY <1>0, <2>1, <2>2
  <2>4. f[j] = Base - 1 /\ g[j] = 0
    BY <2>3 DEF Passed
  <2>5. PICK v \in Nat, w \in Nat : v = Lowest(f, j) /\ w = Lowest(g, j)
    BY <1>2, <2>1, <2>2
  <2>6. PICK p \in Nat, q \in Nat, b \in Nat :
          /\ p = Place(j) /\ q = Place(n) /\ b = Base /\ b >= 1 /\ Place(j + 1) = b * p
    <3>1. PICK b \in Nat : b = Base /\ b >= 1
      BY Bases
    <3>2. \A t \in Nat : Place(t) \in Nat /\ Place(t + 1) = b * Place(t)
      BY <3>1, Places
    <3> QED BY <3>1, <3>2
  <2>7. v + q = w + p
    BY <1>2, <2>1, <2>2, <2>5, <2>6
  <2>8. Lowest(f, j + 1) = v + (b - 1) * p /\ Lowest(g, j + 1) = w + 0 * p
    BY <2>3, <2>4, <2>5, <2>6, LowestPlaces
  <2>9. (b - 1) * p = b * p - p /\ b * p \in Nat /\ (b - 1) * p \in Nat /\ 0 * p = 0
    BY <2>6
  <2> QED BY <2>2, <2>6, <2>7, <2>8, <2>9
<1>3. \A k \in Nat : k \in Z
  <2>1. Z \in SUBSET Nat
    OBVIOUS
  <2> HIDE DEF Z
  <2> QED BY <1>1, <1>2, <2>1, Inductive
<1>4. PICK k \in Nat : n + k = m
  BY m - n \in Nat, n + (m - n) = m
<1> QED BY <1>3, <1>4

Stopped(f, g, n, s, m) ==
  /\ f[s] # Base - 1 /\ g[s] = f[s] + 1
  /\ \A i \in 0 .. m - 1 : i < n \/ s < i => g[i] = f[i]
  /\ \A i \in n .. s - 1 : f[i] = Base - 1 /\ g[i] = 0

\* It ends at another digit.
LEMMA CarryEnds ==
  ASSUME NEW f, NEW g, NEW n \in Nat, NEW s \in Nat, NEW m \in Nat, n <= s, s < m, m <= Room,
         Figures(f, m), Stopped(f, g, n, s, m)
  PROVE  Figures(g, m) /\ Lowest(g, m) = Lowest(f, m) + Place(n)
<1>0. n <= Room /\ s <= Room /\ s + 1 <= Room /\ s + 1 <= m /\ s \in 0 .. Room - 1 /\ s \in 0 .. m - 1
  BY DigitsAssumption
<1>1. PICK x \in Nat : x = f[s] /\ x + 1 \in Digit
  BY <1>0, DigitType, Bases DEF Figures, Digit, Stopped
<1>2. Figures(g, m)
  BY <1>1, Bases DEF Figures, Stopped
<1>3. Figures(f, n) /\ Figures(f, s) /\ Figures(g, s)
  BY <1>0, <1>2 DEF Figures
<1>4. Lowest(f, s) + Place(n) = Lowest(g, s) + Place(s)
  <2>1. Passed(f, g, n, s)
    BY <1>0 DEF Stopped, Passed
  <2> QED BY <1>0, <1>3, <2>1, CarryRuns
<1>5. PICK v \in Nat, w \in Nat, p \in Nat, q \in Nat :
        v = Lowest(f, s) /\ w = Lowest(g, s) /\ p = Place(s) /\ q = Place(n)
  BY <1>0, <1>3, LowestType, Places
<1>6. Lowest(f, s + 1) = v + x * p /\ Lowest(g, s + 1) = w + (x + 1) * p
  BY <1>0, <1>1, <1>5, LowestPlaces DEF Stopped
<1>7. x * p \in Nat /\ (x + 1) * p = x * p + p
  OBVIOUS
<1>8. PICK u \in Nat : Upper(u, f, s + 1, m)
  <2>1. \A i \in s + 1 .. m - 1 : f[i] \in Digit
    BY DEF Figures
  <2>2. s + 1 \in Nat
    OBVIOUS
  <2> QED BY <1>0, <2>1, <2>2, UpperExists
<1>9. PICK z \in Nat : z = Place(s + 1) * u
  BY Places
<1>10. Lowest(f, m) = Lowest(f, s + 1) + z /\ Lowest(g, m) = Lowest(g, s + 1) + z
  <2>1. Lowest(f, s + 1) \in Int /\ Lowest(g, s + 1) \in Int
    BY <1>6, <1>7
  <2>2. \A i \in s + 1 .. m - 1 : g[i] = f[i] /\ f[i] = f[i]
    BY DEF Stopped
  <2> QED BY <1>8, <1>9, <2>1, <2>2 DEF Upper
<1> QED BY <1>2, <1>4, <1>5, <1>6, <1>7, <1>10

------------------------------------------------------------------------------
(* The characters zadd_impl leaves.                                          *)

SumChars(d, x, y, n) ==
  IF Carries(x, y)[n] = 1 THEN Carried(AddChars(d, x, y, n), n) ELSE AddChars(d, x, y, n)
SumUsed(d, x, y, n) ==
  IF Carries(x, y)[n] = 1 THEN CarryStops(AddChars(d, x, y, n), n) + 1 ELSE n

\* The carry ends below size, or it is put at size: if there is a zero.
LEMMA SumCharsExact ==
  ASSUME NEW d, NEW x, NEW y, NEW n \in Nat, NEW size \in Nat, n <= size, size < Room,
         Figures(x, n), Figures(y, n), \A i \in n .. size - 1 : d[i] \in Digit,
         NEW u \in Nat, Upper(u, d, n, size), d[size] # Base - 1,
         NEW total \in Nat, total = Lowest(x, n) + Lowest(y, n) + Place(n) * u,
         NEW f, f = SumChars(d, x, y, n), NEW last, last = SumUsed(d, x, y, n)
  PROVE  /\ total < Place(size) =>
              /\ last \in n .. size /\ Figures(f, size) /\ Lowest(f, size) = total
              /\ \A i \in Index : i >= size => f[i] = d[i]
         /\ total >= Place(size) => last = size + 1
         /\ total >= Place(size) /\ d[size] = 0 =>
              /\ Figures(f, size + 1) /\ Lowest(f, size + 1) = total
              /\ \A i \in Index : i > size => f[i] = d[i]
         /\ total >= Place(size) /\ d[size] \notin Digit => f[size] \notin Digit
<1>0. /\ n <= Room /\ size <= Room /\ size + 1 <= Room /\ size \in Index /\ Room \in Nat
      /\ Index = 0 .. Room - 1 /\ size \in 0 .. Room - 1
  BY DigitsAssumption DEF Index
<1>1. PICK g : g = AddChars(d, x, y, n)
  OBVIOUS
<1>2. /\ \A i \in 0 .. n - 1 : g[i] = Plus(x[i], y[i], Carries(x, y)[i]).digit
      /\ \A i \in n .. Room - 1 : g[i] = d[i]
  BY <1>0, <1>1 DEF AddChars
<1>3. PICK c \in {0, 1} : /\ c = Carries(x, y)[n] /\ Figures(g, n)
                          /\ Lowest(x, n) + Lowest(y, n) = Lowest(g, n) + c * Place(n)
  <2>1. n \in Nat /\ n <= Room /\ Figures(x, n) /\ Figures(y, n) /\ SumFigures(g, x, y, n)
    BY <1>0, <1>2 DEF SumFigures
  <2>2. /\ Carries(x, y)[n] \in {0, 1} /\ Figures(g, n)
        /\ Lowest(x, n) + Lowest(y, n) = Lowest(g, n) + Carries(x, y)[n] * Place(n)
    BY ONLY <2>1, CarriesAdd
  <2> QED BY <2>2, Zenon
<1>4. PICK l \in Nat, p \in Nat, q \in Nat :
        l = Lowest(g, n) /\ p = Place(n) /\ q = Place(size) /\ p > 0 /\ q > 0
  BY <1>0, <1>3, LowestType, Places
<1>5. PICK z \in Nat : z = p * u
  BY <1>4
<1>6. total = l + c * p + z
  BY <1>3, <1>4, <1>5
<1>7. Figures(g, size)
  <2> SUFFICES ASSUME NEW i \in 0 .. size - 1 PROVE g[i] \in Digit
    BY DEF Figures
  <2>1. CASE i < n
    BY <1>3, <2>1 DEF Figures
  <2>2. CASE i >= n
    BY <1>0, <1>2, <2>2
  <2> QED BY <2>1, <2>2
<1>8. Lowest(g, size) = l + z /\ l + z < q
  <2>1. \A i \in n .. size - 1 : g[i] = d[i]
    BY <1>0, <1>2
  <2>2. Lowest(g, size) = l + z
    BY <1>4, <1>5, <2>1 DEF Upper
  <2> QED BY <1>0, <1>4, <1>7, <2>2, LowestType
<1>9. CASE c = 0
  <2>1. f = g /\ last = n
    BY <1>1, <1>3, <1>9 DEF SumChars, SumUsed
  <2>2. total = l + z
    BY <1>4, <1>6, <1>9
  <2>3. \A i \in Index : i >= size => f[i] = d[i]
    BY <1>0, <1>2, <2>1
  <2> QED BY <1>4, <1>7, <1>8, <2>1, <2>2, <2>3
<1>10. CASE c = 1
  <2>1. total = l + z + p
    BY <1>4, <1>6, <1>10
  <2> DEFINE S == {i \in Index : i >= n /\ g[i] # Base - 1}
  <2>2. size \in S
    BY <1>0, <1>2
  <2>3. S \in SUBSET Nat
    BY <1>0
  <2>4. PICK stop \in S : stop = CarryStops(g, n) /\ \A k \in S : stop <= k
    <3>1. CarryStops(g, n) = Min(S)
      BY DEF CarryStops
    <3> HIDE DEF S
    <3> QED BY <2>2, <2>3, <3>1, MinIs
  <2>5. stop \in Nat /\ stop <= size /\ n <= stop /\ stop \in Index /\ g[stop] # Base - 1
    BY <1>0, <2>2, <2>4
  <2>6. \A i \in n .. stop - 1 : g[i] = Base - 1
    <3> SUFFICES ASSUME NEW i \in n .. stop - 1, g[i] # Base - 1 PROVE FALSE
      OBVIOUS
    <3>1. i \in S
      BY <1>0, <2>5
    <3> QED BY <2>4, <2>5, <3>1
  <2>7. last = stop + 1 /\ f = Carried(g, n)
    BY <1>1, <1>3, <1>10, <2>4 DEF SumChars, SumUsed
  <2>8. f = [i \in Index |-> IF i \in n .. stop - 1 THEN 0
                             ELSE IF i = stop THEN Plus(g[i], 1, 0).digit ELSE g[i]]
    BY <2>4, <2>7 DEF Carried
  <2>9. /\ \A i \in n .. stop - 1 : f[i] = 0
        /\ f[stop] = Plus(g[stop], 1, 0).digit
        /\ \A i \in Index : i < n \/ i > stop => f[i] = g[i]
    BY <1>0, <2>5, <2>8
  <2>10. CASE stop < size
    <3>1. g[stop] \in Digit
      BY <1>7, <2>5, <2>10 DEF Figures
    <3>2. f[stop] = g[stop] + 1
      <4>1. PICK b \in Nat : b = Base /\ b >= 2
        BY Bases
      <4>2. PICK w \in Nat : w = g[stop] /\ w < b /\ w # b - 1
        BY <2>5, <3>1, <4>1, DigitType
      <4>3. {w, 1} \subseteq Digit
        BY <3>1, <4>2, Bases
      <4>4. Plus(w, 1, 0).digit = (w + 1 + 0) % b
        BY <4>1, <4>3 DEF Plus
      <4>5. w + 1 + 0 = w + 1 /\ w + 1 \in 0 .. b - 1
        BY <4>1, <4>2
      <4>6. \A v \in 0 .. b - 1 : v % b = v
        BY <4>1
      <4> QED BY <2>9, <4>2, <4>4, <4>5, <4>6
    <3>3. Stopped(g, f, n, stop, size)
      BY <1>0, <2>5, <2>6, <2>9, <3>2 DEF Stopped
    <3>4. Figures(f, size) /\ Lowest(f, size) = Lowest(g, size) + Place(n)
      <4>1. n \in Nat /\ size \in Nat /\ stop \in Nat /\ n <= stop /\ size <= Room
        BY <1>0, <2>5
      <4> QED BY ONLY <1>7, <2>10, <3>3, <4>1, CarryEnds
    <3>5. Lowest(f, size) = total /\ total < q
      BY <1>0, <1>4, <1>8, <2>1, <3>4, LowestType
    <3>6. \A i \in Index : i >= size => f[i] = d[i]
      BY <1>0, <1>2, <2>5, <2>9, <2>10
    <3> QED BY <1>4, <2>5, <2>7, <2>10, <3>4, <3>5, <3>6
  <2>11. CASE stop = size
    <3>1. Passed(g, f, n, size)
      BY <1>0, <2>6, <2>9, <2>11 DEF Passed
    <3>2. Lowest(g, size) + Place(n) = Lowest(f, size) + Place(size)
      <4>1. n \in Nat /\ size \in Nat /\ n <= size /\ size <= Room
        BY <1>0
      <4> QED BY ONLY <1>3, <3>1, <4>1, CarryRuns
    <3>3. Figures(f, size)
      <4>1. \A i \in 0 .. size - 1 : i \in 0 .. n - 1 \/ i \in n .. size - 1
        OBVIOUS
      <4>2. \A i \in 0 .. n - 1 : g[i] \in Digit
        BY <1>3 DEF Figures
      <4> QED BY <3>1, <4>1, <4>2, Bases DEF Figures, Passed
    <3>4. PICK v \in Nat : v = Lowest(f, size)
      BY <1>0, <3>3, LowestType
    <3>5. total = v + q /\ total >= q
      BY <1>4, <1>8, <2>1, <3>2, <3>4
    <3>6. ASSUME d[size] = 0
          PROVE  /\ Figures(f, size + 1) /\ Lowest(f, size + 1) = total
                 /\ \A i \in Index : i > size => f[i] = d[i]
      <4>1. g[size] = 0
        BY <1>0, <1>2, <3>6
      <4>2. f[size] = 1
        <5>1. PICK b \in Nat : b = Base /\ b >= 2
          BY Bases
        <5>2. Plus(0, 1, 0).digit = (0 + 1 + 0) % b
          <6>1. {0, 1} \subseteq Digit
            BY Bases
          <6> QED BY <5>1, <6>1 DEF Plus
        <5>3. \A w \in 0 .. b - 1 : w % b = w
          BY <5>1
        <5>4. (0 + 1 + 0) % b = 1
          BY <5>1, <5>3, 0 + 1 + 0 = 1, 1 \in 0 .. b - 1
        <5> QED BY <2>9, <2>11, <4>1, <5>2, <5>4
      <4>3. Figures(f, size + 1)
        BY <3>3, <4>2, Bases DEF Figures
      <4>4. Lowest(f, size + 1) = v + 1 * q
        BY <1>0, <1>4, <3>4, <4>2, LowestPlaces
      <4>5. \A i \in Index : i > size => f[i] = d[i]
        BY <1>0, <1>2, <2>9, <2>11
      <4> QED BY <3>5, <4>3, <4>4, <4>5
    <3>7. ASSUME d[size] \notin Digit PROVE f[size] \notin Digit
      <4>1. g[size] = d[size]
        BY <1>0, <1>2
      <4>2. Plus(g[size], 1, 0).digit = Tainted({g[size], 1})
        BY <3>7, <4>1 DEF Plus
      <4> QED BY <2>9, <2>11, <4>2, MarkersAssumption DEF Tainted
    <3> QED BY <1>4, <2>7, <2>11, <3>5, <3>6, <3>7
  <2> QED BY <2>5, <2>10, <2>11
<1> QED BY <1>9, <1>10

------------------------------------------------------------------------------
(* Where a borrow ends.                                                      *)

LEMMA PlaceSum ==
  \A j, k \in Nat : Place(j + k) = Place(j) * Place(k) /\ Place(k) > 0 /\ Place(k) \in Nat
<1>1. PICK b \in Nat : b = Base /\ b > 0
  BY Bases
<1>2. \A j, k \in Nat : Raised(b, j + k) = Raised(b, j) * Raised(b, k)
  BY <1>1, RaisedSum
<1> QED BY <1>1, <1>2, Places DEF Place

LEMMA PlaceMonotone ==
  \A j, k \in Nat : j < k => Place(j) < Place(k)
<1>1. PICK b \in Nat : b = Base /\ b > 1
  BY Bases
<1>2. \A j, k \in Nat : j < k => Raised(b, j) < Raised(b, k)
  BY <1>1, RaisedMonotone
<1> QED BY <1>1, <1>2 DEF Place

\* The remainder after division by a place: a number with nothing below the j-th
\* character, v there and w above.
LEMMA LowestOne ==
  ASSUME NEW v \in Nat, v # 0, v < Base, NEW w \in Nat, NEW j \in Nat, NEW a \in Nat,
         a = v * Place(j) + Place(j + 1) * w, NEW i \in Nat
  PROVE  a % Place(i + 1) = Place(i) <=> i = j /\ v = 1
<1>1. PICK b \in Nat : b = Base /\ b >= 2 /\ v < b
  BY Bases
<1>2. a = v * Raised(b, j) + Raised(b, j + 1) * w
  BY <1>1 DEF Place
<1>3. a % Raised(b, i + 1) = Raised(b, i) <=> i = j /\ v = 1
  BY <1>1, <1>2, LowestOneOf
<1> QED BY <1>1, <1>3 DEF Place

\* Of x, what is above n characters ends in a one and has more above that.
OneInside(v) == \E i \in 0 .. MaxUsed : v % Power(Base, i + 1) = Power(Base, i) /\ v > Power(Base, i)

LEMMA OneInsideIs ==
  ASSUME NEW x, NEW n \in Nat, NEW stop \in Nat, NEW used \in Nat, n <= stop, stop < used,
         used <= Room, used <= MaxUsed + 1, Figures(x, used), x[stop] # 0,
         \A i \in n .. stop - 1 : x[i] = 0
  PROVE  OneInside(Lowest(x, used) \div Place(n))
           <=> x[stop] = 1 /\ \E k \in stop + 1 .. used - 1 : x[k] # 0
<1>0. /\ n <= Room /\ stop <= Room /\ stop + 1 <= Room /\ n <= used /\ stop \in 0 .. Room - 1
      /\ MaxUsed \in Nat /\ stop + 1 <= used /\ stop \in 0 .. used - 1
  BY DigitsAssumption, CallsAssumption
<1>1. PICK v \in Nat : v = x[stop] /\ v # 0 /\ v < Base
  BY <1>0, DigitType DEF Figures
<1>2. Figures(x, n) /\ Figures(x, stop) /\ Figures(x, stop + 1)
  BY <1>0 DEF Figures
<1>3. PICK u \in Nat : /\ Lowest(x, n) \in Nat /\ Lowest(x, n) < Place(n)
                       /\ Lowest(x, used) \in Nat
                       /\ Lowest(x, used) = Place(n) * u + Lowest(x, n)
                       /\ Lowest(x, used) \div Place(n) = u
  BY <1>0, LowestSplit
<1>4. PICK w \in Nat : /\ w = 0 <=> \A i \in stop + 1 .. used - 1 : x[i] = 0
                       /\ Lowest(x, used) = Place(stop + 1) * w + Lowest(x, stop + 1)
  <2>1. stop + 1 \in Nat /\ stop + 1 <= used
    BY <1>0
  <2>2. PICK w \in Nat : Upper(w, x, stop + 1, used)
                          /\ Lowest(x, used) = Place(stop + 1) * w + Lowest(x, stop + 1)
    BY <2>1, LowestSplit
  <2> QED BY <2>2 DEF Upper
<1>5. Lowest(x, stop) = Lowest(x, n)
  <2>1. \A i \in n .. stop - 1 : x[i] \in Digit
    BY Bases
  <2>2. PICK z \in Nat : Upper(z, x, n, stop)
    BY <1>0, <2>1, UpperExists
  <2>3. z = 0
    BY <2>2 DEF Upper
  <2>4. PICK l \in Nat, p \in Nat : l = Lowest(x, n) /\ p = Place(n)
    BY <1>3, Places
  <2>5. Lowest(x, stop) = l + p * 0
    BY <2>2, <2>3, <2>4 DEF Upper
  <2> QED BY <2>4, <2>5
<1>6. PICK j \in Nat : stop = n + j
  BY stop - n \in Nat, stop = n + (stop - n)
<1>7. PICK p \in Nat, q \in Nat, b \in Nat :
        /\ p = Place(n) /\ q = Place(j) /\ b = Base /\ p > 0 /\ q > 0
        /\ Place(j + 1) = b * q /\ Place(stop) = p * q /\ Place(stop + 1) = b * (p * q)
  <2>1. PICK b \in Nat : b = Base
    BY Bases
  <2>2. Place(stop) = Place(n) * Place(j)
    BY <1>6, PlaceSum
  <2>3. \A k \in Nat : Place(k) \in Nat /\ Place(k) > 0 /\ Place(k + 1) = b * Place(k)
    BY <2>1, Places
  <2> QED BY <2>1, <2>2, <2>3
<1>8. PICK l \in Nat : l = Lowest(x, n)
  BY <1>3
<1>9. Lowest(x, stop + 1) = l + v * (p * q)
  BY <1>0, <1>1, <1>5, <1>7, <1>8, LowestPlaces
<1>10. p * u + l = (b * (p * q)) * w + (l + v * (p * q))
  BY <1>3, <1>4, <1>7, <1>8, <1>9
<1>11. u = v * q + (b * q) * w
  <2>1. p * u = (b * (p * q)) * w + v * (p * q)
    <3>1. p * u \in Nat /\ (b * (p * q)) * w \in Nat /\ v * (p * q) \in Nat
      OBVIOUS
    <3> QED BY <1>10, <3>1
  <2>2. PICK y \in Nat : y = v * q + (b * q) * w
    OBVIOUS
  <2>3. (b * (p * q)) * w + v * (p * q) = p * y
    BY <2>2
  <2>4. (u - y) * p = 0
    <3>1. p * u = p * y
      BY <2>1, <2>2, <2>3
    <3>2. (u - y) * p = p * u - p * y /\ p * u \in Nat /\ p * y \in Nat
      OBVIOUS
    <3> QED BY <3>1, <3>2
  <2>5. \A k \in Int : k * p = 0 => k = 0
    BY <1>7
  <2>6. u - y = 0
    BY <2>4, <2>5
  <2> QED BY <2>2, <2>6
<1>12. \A i \in Nat : u % Place(i + 1) = Place(i) <=> i = j /\ v = 1
  <2>1. v \in Nat /\ w \in Nat /\ j \in Nat /\ u \in Nat /\ u = v * Place(j) + Place(j + 1) * w
    BY <1>7, <1>11
  <2> QED BY ONLY <1>1, <2>1, LowestOne
<1>13. v = 1 => (u > q <=> w # 0)
  <2>1. ASSUME v = 1 PROVE u = q + (b * q) * w
    BY <1>11, <2>1
  <2>2. (b * q) * w \in Nat /\ (w # 0 => (b * q) * w > 0) /\ (w = 0 => (b * q) * w = 0)
    <3>1. PICK d \in Nat : d = b * q /\ d > 0
      BY <1>7, Bases
    <3>2. \A y \in Nat : d * y \in Nat /\ (y # 0 => d * y > 0) /\ (y = 0 => d * y = 0)
      BY <3>1
    <3> QED BY <3>1, <3>2
  <2>3. PICK z \in Nat : z = (b * q) * w
    BY <2>2
  <2> QED BY <2>1, <2>2, <2>3
<1>14. j \in 0 .. MaxUsed
  BY <1>0, <1>6
<1>15. \A i \in Nat : Power(Base, i) = Place(i) /\ Power(Base, i + 1) = Place(i + 1)
  BY Places
<1>16. OneInside(u) <=> v = 1 /\ w # 0
  <2>1. ASSUME OneInside(u) PROVE v = 1 /\ w # 0
    <3>1. PICK i \in 0 .. MaxUsed : u % Power(Base, i + 1) = Power(Base, i) /\ u > Power(Base, i)
      BY <2>1 DEF OneInside
    <3>2. i \in Nat
      BY <1>0
    <3>3. i = j /\ v = 1 /\ u > q
      BY <1>7, <1>12, <1>15, <3>1, <3>2
    <3> QED BY <1>13, <3>3
  <2>2. ASSUME v = 1, w # 0 PROVE OneInside(u)
    <3>1. u % Place(j + 1) = Place(j) /\ u > Place(j)
      BY <1>7, <1>12, <1>13, <2>2
    <3> QED BY <1>14, <1>15, <3>1 DEF OneInside
  <2> QED BY <2>1, <2>2
<1>17. w # 0 <=> \E k \in stop + 1 .. used - 1 : x[k] # 0
  BY <1>4
<1> QED BY <1>1, <1>3, <1>16, <1>17

------------------------------------------------------------------------------
(* The characters zsub_impl leaves.                                          *)

LEMMA MinusDigits ==
  ASSUME NEW x \in Digit, NEW y \in Digit, NEW c \in {0, 1}
  PROVE  /\ Minus(x, y, c).digit \in Digit /\ Minus(x, y, c).borrow \in {0, 1}
         /\ Minus(x, y, c).digit + y + c = x + Base * Minus(x, y, c).borrow
<1>1. PICK b \in Nat : b = Base /\ b >= 2
  BY Bases
<1>2. x \in Nat /\ y \in Nat /\ x < b /\ y < b
  BY <1>1, DigitType
<1>3. PICK v \in Int : v = x - y - c /\ v \in -b .. b - 1
  BY <1>1, <1>2
<1>4. PICK t \in {0, 1} : t = IF v < 0 THEN 1 ELSE 0
  OBVIOUS
<1>5. (IF (IF c = 1 THEN x <= y ELSE x < y) THEN 1 ELSE 0) = t
  BY <1>2, <1>3, <1>4
<1>6. v % b = v + b * t
  <2>1. \A w \in 0 .. b - 1 : w % b = w
    BY <1>1
  <2>2. \A w \in -b .. -1 : w % b = w + b
    BY <1>1
  <2> QED BY <1>1, <1>3, <1>4, <2>1, <2>2
<1>7. Minus(x, y, c) = [digit |-> v + b * t, borrow |-> t]
  BY <1>1, <1>3, <1>5, <1>6 DEF Minus
<1>8. v + b * t \in 0 .. b - 1
  BY <1>1, <1>3, <1>4
<1> QED BY <1>1, <1>2, <1>3, <1>7, <1>8 DEF Digit

DifferenceFigures(f, x, y, n) ==
  \A i \in 0 .. n - 1 : f[i] = Minus(x[i], y[i], Borrows(x, y)[i]).digit

\* What the loop of zsub_impl leaves, less its borrow, is the difference.
LEMMA BorrowsSubtract ==
  ASSUME NEW x, NEW y, NEW f, NEW n \in Nat, n <= Room, Figures(x, n), Figures(y, n),
         DifferenceFigures(f, x, y, n)
  PROVE  /\ Borrows(x, y)[n] \in {0, 1} /\ Figures(f, n)
         /\ Lowest(f, n) + Lowest(y, n) = Lowest(x, n) + Borrows(x, y)[n] * Place(n)
<1> DEFINE Subtracts1(k) ==
             /\ Borrows(x, y)[k] \in {0, 1} /\ Figures(f, k)
             /\ Lowest(f, k) + Lowest(y, k) = Lowest(x, k) + Borrows(x, y)[k] * Place(k)
           Z == {k \in Nat : k <= n => Subtracts1(k)}
<1>1. 0 \in Z
  BY LowestPlaces, BorrowsSteps, Places DEF Figures
<1>2. ASSUME NEW k \in Nat, k \in Z PROVE k + 1 \in Z
  <2>1. SUFFICES ASSUME k + 1 <= n PROVE Subtracts1(k + 1)
    OBVIOUS
  <2>2. k \in 0 .. Room - 1 /\ k \in 0 .. n - 1 /\ k <= n /\ k <= Room
    BY <2>1, DigitsAssumption
  <2>3. Subtracts1(k)
    BY <1>2, <2>2
  <2>4. PICK c \in {0, 1} : c = Borrows(x, y)[k]
    BY <2>3
  <2>5. PICK v \in Digit, w \in Digit : v = x[k] /\ w = y[k]
    BY <2>2 DEF Figures
  <2>6. PICK z \in Digit : z = Minus(v, w, c).digit
    BY MinusDigits
  <2>7. PICK d \in {0, 1} : d = Minus(v, w, c).borrow
    BY MinusDigits
  <2>8. z + w + c = v + Base * d
    BY <2>6, <2>7, MinusDigits
  <2>9. f[k] = z /\ Borrows(x, y)[k + 1] = d
    BY <2>2, <2>4, <2>5, <2>6, <2>7, BorrowsSteps DEF DifferenceFigures
  <2>10. Figures(f, k + 1)
    BY <2>3, <2>9 DEF Figures
  <2>11. Figures(x, k) /\ Figures(y, k)
    BY <2>2 DEF Figures
  <2>12. PICK l \in Nat, m \in Nat, s \in Nat :
           l = Lowest(f, k) /\ m = Lowest(y, k) /\ s = Lowest(x, k)
    BY <2>2, <2>3, <2>11, LowestType
  <2>13. PICK p \in Nat, b \in Nat : p = Place(k) /\ b = Base /\ Place(k + 1) = b * p
    BY Places, Bases
  <2>14. /\ Lowest(f, k + 1) = l + z * p /\ Lowest(y, k + 1) = m + w * p
         /\ Lowest(x, k + 1) = s + v * p
    BY <2>2, <2>5, <2>9, <2>12, <2>13, LowestPlaces
  <2>15. l + m = s + c * p
    BY <2>3, <2>4, <2>12, <2>13
  <2>16. v \in Int /\ w \in Int /\ z \in Int /\ c \in Int /\ d \in Int
    BY DigitType
  <2>17. z + w + c = v + b * d
    BY <2>8, <2>13
  <2>18. (l + z * p) + (m + w * p) = (s + v * p) + d * (b * p)
    BY <2>15, <2>16, <2>17, CarryStep
  <2> QED BY <2>9, <2>10, <2>13, <2>14, <2>18
<1>3. \A k \in Nat : k \in Z
  <2>1. Z \in SUBSET Nat
    OBVIOUS
  <2> HIDE DEF Z
  <2> QED BY <1>1, <1>2, <2>1, Inductive
<1> QED BY <1>3

BelowBorrow(d, n) ==
  [k \in Index |-> IF k \in n .. BorrowStops(d, n) - 1 THEN Base - 1 ELSE d[k]]
TakesTop(x, y, n) ==
  LET d == SubChars(x, y, n) IN Borrows(x, y)[n] = 1 /\ d[BorrowStops(d, n)] = 1
DifferenceChars(x, y, n) ==
  LET d == SubChars(x, y, n)  stop == BorrowStops(d, n)
  IN IF Borrows(x, y)[n] # 1 THEN d
     ELSE IF TakesTop(x, y, n) THEN BelowBorrow(d, n)
     ELSE [BelowBorrow(d, n) EXCEPT ![stop] = Minus(@, 1, 0).digit]

\* The borrow of y ends inside x.
EndsInside(x, used, y, n) ==
  /\ Lowest(x, used) % Place(n) < Lowest(y, n)
  /\ OneInside(Lowest(x, used) \div Place(n))

\* It is the difference, unless the borrow ends inside; then it is another number.
LEMMA DifferenceCharsExact ==
  ASSUME NEW x, NEW y, NEW n \in Nat, NEW used \in Nat, n <= used, n >= 1, used <= Room,
         used <= MaxUsed + 1, Figures(x, used), Figures(y, n), used > n => x[used - 1] # 0,
         Lowest(y, n) < Lowest(x, used),
         NEW f, f = DifferenceChars(x, y, n),
         NEW top, top = IF TakesTop(x, y, n) THEN used - 1 ELSE used
  PROVE  /\ top \in 1 .. used /\ Figures(f, top) /\ Lowest(f, top) > 0
         /\ Lowest(f, top) = Lowest(x, used) - Lowest(y, n) <=> ~EndsInside(x, used, y, n)
         /\ \A i \in Index : i >= used => f[i] = x[i]
<1>0. /\ n <= Room /\ Room \in Nat /\ Index = 0 .. Room - 1 /\ used - 1 \in Nat
  BY DigitsAssumption DEF Index
<1>1. PICK g : g = SubChars(x, y, n)
  OBVIOUS
<1>2. /\ \A i \in 0 .. n - 1 : g[i] = Minus(x[i], y[i], Borrows(x, y)[i]).digit
      /\ \A i \in n .. Room - 1 : g[i] = x[i]
  BY <1>0, <1>1 DEF SubChars
<1>3. PICK c \in {0, 1} : /\ c = Borrows(x, y)[n] /\ Figures(g, n)
                          /\ Lowest(g, n) + Lowest(y, n) = Lowest(x, n) + c * Place(n)
  <2>1. n \in Nat /\ n <= Room /\ Figures(x, n) /\ Figures(y, n) /\ DifferenceFigures(g, x, y, n)
    BY <1>0, <1>2 DEF DifferenceFigures, Figures
  <2>2. /\ Borrows(x, y)[n] \in {0, 1} /\ Figures(g, n)
        /\ Lowest(g, n) + Lowest(y, n) = Lowest(x, n) + Borrows(x, y)[n] * Place(n)
    BY ONLY <2>1, BorrowsSubtract
  <2> QED BY <2>2, Zenon
<1>4. PICK u \in Nat : /\ Upper(u, x, n, used)
                       /\ Lowest(x, n) \in Nat /\ Lowest(x, used) \in Nat
                       /\ Lowest(x, used) = Place(n) * u + Lowest(x, n)
                       /\ Lowest(x, used) % Place(n) = Lowest(x, n)
  BY <1>0, LowestSplit
<1>5. PICK l \in Nat, p \in Nat, h \in Nat, v \in Nat, w \in Nat :
        /\ l = Lowest(g, n) /\ p = Place(n) /\ p > 0 /\ l < p /\ h = Lowest(x, n)
        /\ v = Lowest(x, used) /\ w = Lowest(y, n) /\ w < v
  BY <1>0, <1>3, <1>4, LowestType, Places
<1>6. PICK z \in Nat : z = p * u /\ v = z + h
  BY <1>4, <1>5
<1>7. l + w = h + c * p
  BY <1>3, <1>5
<1>8. Figures(g, used)
  <2> SUFFICES ASSUME NEW i \in 0 .. used - 1 PROVE g[i] \in Digit
    BY DEF Figures
  <2>1. CASE i < n
    BY <1>3, <2>1 DEF Figures
  <2>2. CASE i >= n
    BY <1>0, <1>2, <2>2 DEF Figures
  <2> QED BY <2>1, <2>2
<1>9. Lowest(g, used) = l + z
  <2>1. \A i \in n .. used - 1 : g[i] = x[i]
    BY <1>0, <1>2
  <2> QED BY <1>4, <1>5, <1>6, <2>1 DEF Upper
<1>10. CASE c = 0
  <2>1. f = g /\ top = used
    BY <1>1, <1>3, <1>10 DEF DifferenceChars, TakesTop
  <2>2. l + z = v - w /\ l + z > 0 /\ ~(h < w)
    BY <1>5, <1>6, <1>7, <1>10
  <2>3. ~EndsInside(x, used, y, n)
    BY <1>4, <1>5, <2>2 DEF EndsInside
  <2>4. \A i \in Index : i >= used => f[i] = x[i]
    BY <1>0, <1>2, <2>1
  <2> QED BY <1>0, <1>5, <1>8, <1>9, <2>1, <2>2, <2>3, <2>4
<1>11. CASE c = 1
  <2>1. v - w = l + z - p /\ h < w
    BY <1>5, <1>6, <1>7, <1>11
  <2>2. EndsInside(x, used, y, n) <=> OneInside(Lowest(x, used) \div Place(n))
    BY <1>4, <1>5, <2>1 DEF EndsInside
  <2> DEFINE S == {i \in Index : i >= n /\ g[i] # 0}
  <2>3. \E i \in n .. used - 1 : x[i] # 0
    <3>1. SUFFICES ASSUME u = 0 PROVE FALSE
      BY <1>4 DEF Upper
    <3>2. z = 0
      BY <1>6, <3>1
    <3> QED BY <1>5, <2>1, <3>2
  <2>4. PICK i0 \in n .. used - 1 : i0 \in S
    BY <1>0, <1>2, <2>3
  <2>5. S \in SUBSET Nat
    BY <1>0
  <2>6. PICK stop \in S : stop = BorrowStops(g, n) /\ \A k \in S : stop <= k
    <3>1. BorrowStops(g, n) = Min(S)
      BY DEF BorrowStops
    <3> HIDE DEF S
    <3> QED BY <2>4, <2>5, <3>1, MinIs
  <2>7. stop \in Nat /\ stop < used /\ n <= stop /\ stop \in Index /\ g[stop] # 0 /\ x[stop] = g[stop]
    BY <1>0, <1>2, <2>4, <2>6
  <2>8. \A i \in n .. stop - 1 : g[i] = 0 /\ x[i] = 0
    <3> SUFFICES ASSUME NEW i \in n .. stop - 1 PROVE g[i] = 0 /\ x[i] = 0
      OBVIOUS
    <3>1. i \in Index /\ i \in n .. Room - 1
      BY <1>0, <2>7
    <3>2. ASSUME g[i] # 0 PROVE FALSE
      BY <2>6, <2>7, <3>1, <3>2
    <3> QED BY <1>2, <3>1, <3>2
  <2>9. PICK d \in Nat : d = g[stop] /\ d > 0 /\ d < Base /\ d \in Digit
    BY <1>8, <2>7, DigitType DEF Figures
  <2>10. OneInside(Lowest(x, used) \div Place(n))
           <=> d = 1 /\ \E k \in stop + 1 .. used - 1 : x[k] # 0
    <3>1. /\ n \in Nat /\ stop \in Nat /\ used \in Nat /\ n <= stop /\ stop < used /\ used <= Room
          /\ used <= MaxUsed + 1 /\ Figures(x, used) /\ x[stop] # 0 /\ x[stop] = d
          /\ \A i \in n .. stop - 1 : x[i] = 0
      BY <2>7, <2>8, <2>9
    <3> QED BY ONLY <3>1, OneInsideIs
  <2>11. PICK e : e = BelowBorrow(g, n)
    OBVIOUS
  <2>12. /\ e = [k \in Index |-> IF k \in n .. stop - 1 THEN Base - 1 ELSE g[k]]
         /\ \A i \in n .. stop - 1 : e[i] = Base - 1
         /\ \A i \in Index : i < n \/ stop <= i => e[i] = g[i]
    BY <1>0, <2>6, <2>7, <2>11 DEF BelowBorrow
  <2>13. TakesTop(x, y, n) <=> d = 1
    BY <1>1, <1>3, <1>11, <2>6, <2>9 DEF TakesTop
  <2>14. CASE d # 1
    <3>1. top = used /\ f = [e EXCEPT ![stop] = Minus(@, 1, 0).digit]
      BY <1>1, <1>3, <1>11, <2>6, <2>11, <2>13, <2>14 DEF DifferenceChars
    <3>2. Minus(d, 1, 0).digit = d - 1
      <4>1. PICK b \in Nat : b = Base /\ b >= 2
        BY Bases
      <4>2. {d, 1} \subseteq Digit
        BY <2>9, Bases
      <4>3. Minus(d, 1, 0).digit = (d - 1 - 0) % b
        BY <4>1, <4>2 DEF Minus
      <4>4. \A t \in 0 .. b - 1 : t % b = t
        BY <4>1
      <4>5. d - 1 - 0 = d - 1 /\ d - 1 \in 0 .. b - 1
        BY <2>9, <4>1
      <4> QED BY <4>3, <4>4, <4>5
    <3>3. e[stop] = d
      BY <2>7, <2>9, <2>12
    <3>4. f[stop] = d - 1 /\ \A i \in Index : i # stop => f[i] = e[i]
      BY <2>7, <2>12, <3>1, <3>2, <3>3
    <3>5. /\ \A i \in n .. stop - 1 : f[i] = Base - 1
          /\ \A i \in Index : i < n \/ stop < i => f[i] = g[i]
      BY <1>0, <2>7, <2>12, <3>4
    <3>6. Stopped(f, g, n, stop, used)
      <4>1. f[stop] # Base - 1 /\ g[stop] = f[stop] + 1
        BY <2>9, <3>4, Bases
      <4>2. \A i \in 0 .. used - 1 : i \in Index
        BY <1>0
      <4> QED BY <2>8, <3>5, <4>1, <4>2 DEF Stopped
    <3>7. Figures(f, used)
      <4> SUFFICES ASSUME NEW i \in 0 .. used - 1 PROVE f[i] \in Digit
        BY DEF Figures
      <4>1. i \in Index
        BY <1>0
      <4>2. CASE i = stop
        BY <2>9, <3>4, <4>2, Bases DEF Digit
      <4>3. CASE i \in n .. stop - 1
        BY <3>5, <4>3, Bases
      <4>4. CASE i < n \/ stop < i
        BY <1>8, <3>5, <4>1, <4>4 DEF Figures
      <4> QED BY <2>7, <4>2, <4>3, <4>4
    <3>8. Lowest(g, used) = Lowest(f, used) + Place(n)
      <4>1. /\ n \in Nat /\ stop \in Nat /\ used \in Nat /\ n <= stop /\ stop < used /\ used <= Room
        BY <2>7
      <4> QED BY ONLY <3>6, <3>7, <4>1, CarryEnds
    <3>9. PICK t \in Nat : t = Lowest(f, used)
      BY <3>7, LowestType
    <3>10. t = v - w /\ t > 0
      BY <1>5, <1>9, <2>1, <3>8, <3>9
    <3>11. ~EndsInside(x, used, y, n)
      BY <2>2, <2>10, <2>14
    <3>12. \A i \in Index : i >= used => f[i] = x[i]
      BY <1>0, <1>2, <2>7, <3>5
    <3>13. top \in 1 .. used /\ Figures(f, top)
      BY <3>1, <3>7
    <3>14. Lowest(f, top) > 0 /\ Lowest(f, top) = Lowest(x, used) - Lowest(y, n)
      BY <1>5, <3>1, <3>9, <3>10
    <3> QED BY <3>11, <3>12, <3>13, <3>14
  <2>15. CASE d = 1
    <3>1. top = used - 1 /\ f = e
      BY <1>1, <1>3, <1>11, <2>11, <2>13, <2>15 DEF DifferenceChars
    <3>2. stop >= 1 /\ top \in 1 .. used /\ top >= stop /\ top \in Nat
      BY <1>0, <2>7, <3>1
    <3>3. Figures(f, used)
      <4> SUFFICES ASSUME NEW i \in 0 .. used - 1 PROVE f[i] \in Digit
        BY DEF Figures
      <4>1. i \in Index
        BY <1>0
      <4>2. CASE i \in n .. stop - 1
        BY <2>12, <3>1, <4>2, Bases
      <4>3. CASE i < n \/ stop <= i
        BY <1>8, <2>12, <3>1, <4>1, <4>3 DEF Figures
      <4> QED BY <2>7, <4>2, <4>3
    <3>4. Figures(f, top) /\ Figures(f, stop) /\ Figures(f, n) /\ Figures(g, stop) /\ Figures(g, top)
      BY <1>8, <2>7, <3>1, <3>2, <3>3 DEF Figures
    <3>5. Lowest(f, stop) + p = Lowest(g, stop) + Place(stop)
      <4>1. Passed(f, g, n, stop)
        BY <1>0, <2>7, <2>8, <2>12, <3>1 DEF Passed
      <4>2. n \in Nat /\ stop \in Nat /\ n <= stop /\ stop <= Room
        BY <1>0, <2>7
      <4>3. Lowest(f, stop) + Place(n) = Lowest(g, stop) + Place(stop)
        BY ONLY <3>4, <4>1, <4>2, CarryRuns
      <4> QED BY <1>5, <4>3
    <3>6. PICK s \in Nat, r \in Nat, q \in Nat :
            s = Lowest(f, stop) /\ r = Lowest(g, stop) /\ q = Place(stop) /\ q > 0 /\ s + p = r + q
      <4>1. stop <= Room
        BY <1>0, <2>7
      <4> QED BY <1>5, <2>7, <3>4, <3>5, <4>1, LowestType, Places
    <3>7. \A i \in Index : i >= used => f[i] = x[i]
      BY <1>0, <1>2, <2>7, <2>12, <3>1
    <3>8. CASE stop = used - 1
      <4>1. ~\E k \in stop + 1 .. used - 1 : x[k] # 0
        BY <1>0, <3>8
      <4>2. Lowest(g, stop + 1) = r + 1 * q
        <5>1. stop \in 0 .. Room - 1
          BY <1>0, <2>7
        <5> QED BY <2>9, <2>15, <3>6, <5>1, LowestPlaces
      <4>3. s = v - w /\ s > 0
        <5>1. l + z = r + q
          BY <1>9, <3>8, <4>2
        <5> QED BY <1>5, <2>1, <3>6, <5>1
      <4> QED BY <1>5, <2>2, <2>10, <3>1, <3>2, <3>4, <3>6, <3>7, <3>8, <4>1, <4>3
    <3>9. CASE stop < used - 1
      <4>1. used > n /\ x[used - 1] # 0 /\ used - 1 \in stop + 1 .. used - 1
        BY <1>0, <2>7, <3>9
      <4>2. EndsInside(x, used, y, n)
        BY <2>2, <2>10, <2>15, <4>1
      <4>3. PICK y1 \in Nat : Upper(y1, f, stop, top)
        <5>1. \A i \in stop .. top - 1 : f[i] \in Digit
          <6>1. \A i \in stop .. top - 1 : i \in 0 .. top - 1
            BY <2>7, <3>2
          <6> QED BY <3>4, <6>1 DEF Figures
        <5>2. top <= Room
          BY <1>0, <3>1
        <5> QED BY <2>7, <3>2, <5>1, <5>2, UpperExists
      <4>4. PICK t \in Nat : t = q * y1
        OBVIOUS
      <4>5. Lowest(f, top) = s + t /\ Lowest(g, top) = r + t
        <5>1. \A i \in stop .. top - 1 : g[i] = f[i] /\ f[i] = f[i]
          <6>1. \A i \in stop .. top - 1 : i \in Index /\ stop <= i
            BY <1>0, <2>7, <3>1, <3>2
          <6> QED BY <2>12, <3>1, <6>1
        <5>2. Lowest(f, stop) \in Int /\ Lowest(g, stop) \in Int
          BY <3>6
        <5>3. /\ Lowest(f, top) = Lowest(f, stop) + Place(stop) * y1
              /\ Lowest(g, top) = Lowest(g, stop) + Place(stop) * y1
          BY ONLY <4>3, <5>1, <5>2 DEF Upper
        <5> QED BY <3>6, <4>4, <5>3
      <4>6. y1 > 0
        <5>1. f[stop] = 1 /\ stop \in stop .. top - 1
          <6>1. f[stop] = d
            BY <2>7, <2>9, <2>12, <3>1
          <6> QED BY <2>7, <2>15, <3>1, <3>2, <3>9, <6>1
        <5> QED BY <4>3, <5>1 DEF Upper
      <4>7. t >= q
        <5>1. q * (y1 - 1) >= 0 /\ q * (y1 - 1) = q * y1 - q
          BY <4>6
        <5> QED BY <4>4, <5>1
      <4>8. PICK m \in Nat : m = g[top] /\ m > 0
        <5>1. g[top] = x[top] /\ top \in 0 .. used - 1
          BY <1>0, <1>2, <2>7, <3>1, <3>9
        <5> QED BY <1>8, <3>1, <4>1, <5>1, DigitType DEF Figures
      <4>9. PICK k \in Nat : k = Place(top) /\ q < k
        BY <2>7, <3>1, <3>2, <3>6, <3>9, PlaceMonotone, Places
      <4>10. l + z = (r + t) + m * k
        <5>1. top \in 0 .. Room - 1 /\ top + 1 = used
          BY <1>0, <3>1
        <5>2. Lowest(g, top + 1) = Lowest(g, top) + m * k
          BY <4>8, <4>9, <5>1, LowestPlaces
        <5> QED BY <1>9, <4>5, <5>1, <5>2
      <4>11. m * k \in Nat /\ m * k >= k
        <5>1. (m - 1) * k >= 0 /\ (m - 1) * k = m * k - k
          BY <4>8
        <5> QED BY <5>1
      <4>12. s + t # v - w /\ s + t > 0
        BY <2>1, <3>6, <4>7, <4>9, <4>10, <4>11
      <4> QED BY <1>5, <3>1, <3>2, <3>4, <3>7, <4>2, <4>5, <4>12
    <3> QED BY <1>0, <2>7, <3>8, <3>9
  <2> QED BY <2>14, <2>15
<1> QED BY <1>10, <1>11

------------------------------------------------------------------------------
(* Integers and their blocks.                                                *)

Character == Digit \cup {Stale, Foreign, Spoilt}
Number == [sign : {-1, 0, 1}, used : Nat, alloced : Nat, chars : [Index -> Character]]

\* There is a power of two that is no less.
LEMMA TwicePower == \A n \in Nat : Power(2, n) \in Nat /\ (n >= 1 => Power(2, n) >= 2 * n)
<1>0. \A n \in Nat : Power(2, n) = Raised(2, n)
  BY PowerIsRaised
<1>1. Raised(2, 0) = 1 /\ \A n \in Nat : Raised(2, n) \in Nat /\ Raised(2, n + 1) = 2 * Raised(2, n)
  BY RaisedSteps
<1> DEFINE Z == {n \in Nat : n >= 1 => Raised(2, n) >= 2 * n}
<1>2. 0 \in Z
  OBVIOUS
<1>3. ASSUME NEW n \in Nat, n \in Z PROVE n + 1 \in Z
  <2>1. CASE n = 0
    <3>1. Raised(2, 0 + 1) = 2 * Raised(2, 0)
      BY <1>1
    <3> QED BY <1>1, <2>1, <3>1
  <2>2. CASE n # 0
    BY <1>1, <1>3, <2>2
  <2> QED BY <2>1, <2>2
<1>4. \A n \in Nat : n \in Z
  <2>1. Z \in SUBSET Nat
    OBVIOUS
  <2> HIDE DEF Z
  <2> QED BY <1>2, <1>3, <2>1, Inductive
<1> QED BY <1>0, <1>1, <1>4

LEMMA RoundedUpIs ==
  /\ \A n \in 1 .. 2 * Room : RoundedUp[n] \in Nat /\ RoundedUp[n] >= n
  /\ \A n, m \in 1 .. 2 * Room : n <= m => RoundedUp[n] <= RoundedUp[m]
<1> DEFINE S(n) == {k \in {Power(2, i) : i \in 0 .. Room} : k >= n}
<1>0. Room \in Nat /\ Room >= 1
  BY DigitsAssumption
<1>1. \A i \in 0 .. Room : Power(2, i) \in Nat
  BY <1>0, TwicePower
<1>2. \A n \in 1 .. 2 * Room : S(n) \in SUBSET Nat /\ Power(2, Room) \in S(n)
  <2>1. Power(2, Room) \in Nat /\ Power(2, Room) >= 2 * Room /\ Room \in 0 .. Room
    BY <1>0, TwicePower
  <2> QED BY <1>0, <1>1, <2>1
<1>3. \A n \in 1 .. 2 * Room : RoundedUp[n] = Min(S(n))
  BY Zenon DEF RoundedUp
<1>4. ASSUME NEW n \in 1 .. 2 * Room PROVE Min(S(n)) \in S(n) /\ \A k \in S(n) : Min(S(n)) <= k
  <2>1. S(n) \in SUBSET Nat /\ S(n) # {}
    BY <1>2
  <2> HIDE DEF S
  <2> QED BY <2>1, MinIs
<1>5. ASSUME NEW n \in 1 .. 2 * Room, NEW m \in 1 .. 2 * Room, n <= m
      PROVE  RoundedUp[n] <= RoundedUp[m]
  <2>1. Min(S(m)) \in S(m)
    BY <1>4
  <2>2. Min(S(m)) \in S(n)
    <3>1. PICK k : k = Min(S(m))
      OBVIOUS
    <3>2. k \in {Power(2, i) : i \in 0 .. Room} /\ k >= m /\ k \in Nat
      BY <1>2, <2>1, <3>1
    <3>3. k \in S(n)
      BY <1>5, <3>2
    <3> QED BY <3>1, <3>3
  <2> QED BY <1>3, <1>4, <2>2
<1>6. \A n \in 1 .. 2 * Room : Min(S(n)) \in Nat /\ Min(S(n)) >= n
  BY <1>2, <1>4
<1> QED BY <1>3, <1>5, <1>6

LEMMA MostIs ==
  /\ Room \in Nat /\ MaxUsed \in Nat /\ MaxUsed >= 1 /\ Fluff \in Nat /\ Fluff >= 1
  /\ MostChars \in Nat /\ MostChars >= MaxUsed + 1 /\ MostChars < Room /\ MostChars <= 2 * Room
  /\ RoundedUp[MostChars] + Fluff <= Room
<1>1. PICK q \in Nat : q = MaxBits \div Bits
  <2>1. MaxBits \in Nat /\ Bits \in Nat /\ Bits > 0
    BY DigitsAssumption, CallsAssumption
  <2> QED BY <2>1, Quotient
<1>2. Room \in Nat /\ MaxUsed \in Nat /\ MaxUsed >= 1 /\ Fluff \in Nat /\ Fluff >= 1
  BY DigitsAssumption, CallsAssumption DEF Fluff
<1>3. MostChars = MaxUsed + q + 1
  BY <1>1 DEF MostChars
<1>4. MostChars <= 2 * Room /\ RoundedUp[MostChars] + Fluff <= Room
  BY RoomAssumption
<1>5. MostChars \in 1 .. 2 * Room
  BY <1>2, <1>3, <1>4
<1>6. PICK k \in Nat : k = RoundedUp[MostChars] /\ k >= MostChars
  BY <1>5, RoundedUpIs
<1> QED BY <1>2, <1>3, <1>4, <1>6

LEMMA EnsureIs ==
  ASSUME NEW r \in Number, NEW n \in 0 .. MostChars, NEW e, e = Ensure(r, n)
  PROVE  /\ e \in Number /\ e.sign = r.sign /\ e.used = r.used
         /\ e.alloced >= n /\ e.alloced >= r.alloced
         /\ \A i \in Index : i < r.alloced => e.chars[i] = r.chars[i]
<1>1. CASE r.alloced >= n
  BY <1>1, MostIs DEF Ensure, Number
<1>2. CASE ~(r.alloced >= n)
  <2>1. PICK a \in Nat : a = r.alloced /\ a < n
    BY <1>2 DEF Number
  <2>2. n \in 1 .. 2 * Room
    BY <2>1, MostIs
  <2>3. PICK size \in Nat : size = RoundedUp[n] /\ size >= n
    BY <2>2, RoundedUpIs
  <2> DEFINE f == [i \in Index |-> IF i \in Block(size) /\ i >= r.alloced THEN Stale ELSE r.chars[i]]
  <2>4. e = [r EXCEPT !.alloced = size, !.chars = f]
    BY <1>2, <2>3 DEF Ensure
  <2>5. f \in [Index -> Character]
    BY DEF Number, Character
  <2>6. \A i \in Index : i < r.alloced => f[i] = r.chars[i]
    <3> SUFFICES ASSUME NEW i \in Index, i < a PROVE ~(i >= a)
      BY <2>1
    <3>1. i \in Int
      BY MostIs DEF Index
    <3> QED BY <3>1
  <2> HIDE DEF f
  <2>7. e \in Number /\ e.sign = r.sign /\ e.used = r.used /\ e.alloced = size /\ e.chars = f
    BY <2>4, <2>5 DEF Number
  <2> QED BY <2>1, <2>3, <2>6, <2>7
<1> QED BY <1>1, <1>2

------------------------------------------------------------------------------
(* What a routine is given, and what assignments leave.                      *)

\* r may be given to a routine, and is no longer than operands are.
Held(r) ==
  /\ r \in Number
  /\ r.sign # 0 =>
       /\ r.used \in 1 .. r.alloced /\ r.used <= MaxUsed
       /\ Figures(r.chars, r.used)
       /\ \E i \in 0 .. r.used - 1 : r.chars[i] # 0

LEMMA HeldIs ==
  ASSUME NEW r, Held(r)
  PROVE  /\ Legal(r) /\ r.sign \in {-1, 0, 1} /\ r.used \in Nat /\ Value(r) \in Int
         /\ r.sign # 0 =>
              /\ r.used >= 1 /\ r.used <= MaxUsed /\ r.used < Room /\ Figures(r.chars, r.used)
              /\ Magnitude(r) \in Nat /\ Magnitude(r) > 0 /\ Magnitude(r) < Place(r.used)
              /\ Magnitude(r) = Lowest(r.chars, r.used) /\ Value(r) = r.sign * Magnitude(r)
         /\ r.sign = 0 => Value(r) = 0
<1>1. r \in Number
  BY DEF Held
<1>2. r.sign \in {-1, 0, 1} /\ r.used \in Nat
  BY <1>1 DEF Number
<1>3. r.sign = 0 => Value(r) = 0
  BY DEF Value
<1>4. CASE r.sign = 0
  BY <1>2, <1>3, <1>4 DEF Legal
<1>5. CASE r.sign # 0
  <2>1. /\ r.used \in 1 .. r.alloced /\ r.used <= MaxUsed /\ Figures(r.chars, r.used)
        /\ \E i \in 0 .. r.used - 1 : r.chars[i] # 0
    BY <1>5 DEF Held
  <2>2. r.used >= 1 /\ r.used < Room /\ r.used <= Room
    BY <1>2, <2>1, MostIs
  <2>3. Lowest(r.chars, r.used) \in Nat /\ Lowest(r.chars, r.used) < Place(r.used)
    BY <1>2, <2>1, <2>2, LowestType
  <2>4. Lowest(r.chars, r.used) # 0
    BY <1>2, <2>1, <2>2, LowestZero
  <2>5. PICK m \in Nat : m = Lowest(r.chars, r.used) /\ m > 0
    BY <2>3, <2>4
  <2>6. Magnitude(r) = m /\ Value(r) = r.sign * m
    BY <1>5, <2>5 DEF Magnitude, Value
  <2>7. Legal(r)
    BY <1>2, <2>1 DEF Legal, Figures
  <2> QED BY <1>2, <1>5, <2>1, <2>2, <2>3, <2>5, <2>6, <2>7
<1> QED BY <1>4, <1>5

\* r has the sign and the magnitude of q.
Copy(r, q) ==
  /\ r \in Number /\ r.sign = q.sign
  /\ q.sign # 0 => /\ r.used = q.used /\ r.used <= r.alloced
                   /\ \A i \in 0 .. q.used - 1 : r.chars[i] = q.chars[i]

LEMMA CopyHeld ==
  ASSUME NEW r, NEW q, Held(q), Copy(r, q)
  PROVE  /\ Held(r) /\ Value(r) = Value(q) /\ r.sign = q.sign
         /\ q.sign # 0 => r.used = q.used /\ Magnitude(r) = Magnitude(q)
<1>1. r.sign = q.sign /\ r \in Number
  BY DEF Copy
<1>2. CASE q.sign = 0
  BY <1>1, <1>2 DEF Held, Value
<1>3. CASE q.sign # 0
  <2>1. r.used = q.used /\ r.used <= r.alloced /\ \A i \in 0 .. q.used - 1 : r.chars[i] = q.chars[i]
    BY <1>3 DEF Copy
  <2>2. /\ q.used \in Nat /\ q.used >= 1 /\ q.used <= MaxUsed /\ q.used <= Room
        /\ Figures(q.chars, q.used)
    BY <1>3, HeldIs, MostIs
  <2>3. \E i \in 0 .. q.used - 1 : q.chars[i] # 0
    BY <1>3 DEF Held
  <2>4. Lowest(r.chars, q.used) = Lowest(q.chars, q.used)
    BY <2>1, <2>2, LowestAgrees
  <2>5. Magnitude(r) = Magnitude(q)
    BY <2>1, <2>4 DEF Magnitude
  <2>6. r.used \in 1 .. r.alloced /\ Figures(r.chars, r.used) /\ \E i \in 0 .. r.used - 1 : r.chars[i] # 0
    <3>1. r.alloced \in Nat
      BY <1>1 DEF Number
    <3> QED BY <2>1, <2>2, <2>3, <3>1 DEF Figures
  <2> QED BY <1>1, <1>3, <2>1, <2>2, <2>5, <2>6 DEF Held, Value
<1> QED BY <1>2, <1>3

LEMMA ChunksIs ==
  \A n \in Nat : /\ Chunks(n) \in Nat /\ n <= Chunks(n) /\ Chunks(n) <= n + Group - 1
                 /\ (n = 0 => Chunks(n) = 0)
                 /\ Copied(n) \in Nat /\ n <= Copied(n) /\ Copied(n) <= n + Group - 1
                 /\ (n = 0 => Copied(n) = 0)
<1> SUFFICES ASSUME NEW n \in Nat
             PROVE  /\ Chunks(n) \in Nat /\ n <= Chunks(n) /\ Chunks(n) <= n + Group - 1
                    /\ (n = 0 => Chunks(n) = 0)
                    /\ Copied(n) \in Nat /\ n <= Copied(n) /\ Copied(n) <= n + Group - 1
                    /\ (n = 0 => Copied(n) = 0)
  OBVIOUS
<1>1. PICK g \in Nat : g = Group /\ g >= 1
  BY DigitsAssumption
<1>2. PICK v \in Nat : v = n + g - 1
  BY <1>1
<1>3. PICK q \in Nat, r \in Nat : q = v \div g /\ v = g * q + r /\ r < g
  BY <1>1, Quotient
<1>4. Chunks(n) = g * q
  BY <1>1, <1>2, <1>3 DEF Chunks
<1>5. g * q \in Nat /\ n <= g * q /\ g * q <= n + g - 1
  BY <1>1, <1>2, <1>3
<1>6. n = 0 => g * q = 0
  <2>1. SUFFICES ASSUME n = 0, q # 0 PROVE FALSE
    BY <1>1
  <2>2. g * (q - 1) >= 0 /\ g * (q - 1) = g * q - g
    BY <2>1
  <2> QED BY <1>1, <1>5, <2>1, <2>2
<1> QED BY <1>1, <1>4, <1>5, <1>6 DEF Copied

\* A copy of at least n characters.
LEMMA MemCpyIs ==
  ASSUME NEW d \in [Index -> Character], NEW c \in [Index -> Character], NEW at \in Nat, NEW n \in Nat
  PROVE  /\ MemCpy(d, at, c, at, n) \in [Index -> Character]
         /\ \A i \in Index : MemCpy(d, at, c, at, n)[i]
                               = IF i \in at .. at + Copied(n) - 1 THEN c[i] ELSE d[i]
<1>1. \A i \in Index : i \in Int /\ at + i - at = i
  BY MostIs DEF Index
<1> QED BY <1>1 DEF MemCpy

\* The other integers stay what they are.
Only(t, s, a) == t \in [Var -> Number] /\ \A v \in Var : v # a => t[v] = s[v]

LEMMA ZSetIs ==
  ASSUME NEW s \in [Var -> Number], NEW a \in Var, NEW b \in Var, Held(s[b]),
         NEW t, t = ZSet(s, a, b)
  PROVE  Only(t, s, a) /\ Copy(t[a], s[b])
<1>1. PICK q, r : q = s[b] /\ r = s[a] /\ q \in Number /\ r \in Number
  OBVIOUS
<1>2. CASE q.sign = 0
  <2>1. t = [s EXCEPT ![a] = [r EXCEPT !.sign = 0]]
    BY <1>1, <1>2 DEF ZSet
  <2>2. [r EXCEPT !.sign = 0] \in Number /\ [r EXCEPT !.sign = 0].sign = 0
    BY <1>1 DEF Number
  <2>3. t[a] = [r EXCEPT !.sign = 0]
    BY <2>1
  <2> QED BY <1>1, <1>2, <2>1, <2>2, <2>3 DEF Only, Copy
<1>3. CASE q.sign # 0
  <2>1. q.used \in Nat /\ q.used <= MaxUsed /\ q.used \in 0 .. MostChars
    BY <1>1, <1>3, HeldIs, MostIs
  <2>2. PICK p : p = [r EXCEPT !.sign = q.sign, !.used = q.used]
    OBVIOUS
  <2>3. p \in Number /\ p.sign = q.sign /\ p.used = q.used
    BY <1>1, <2>1, <2>2 DEF Number
  <2>4. PICK e : e = Ensure(p, q.used)
    OBVIOUS
  <2>5. e \in Number /\ e.sign = q.sign /\ e.used = q.used /\ e.alloced >= q.used
    BY ONLY <2>1, <2>3, <2>4, EnsureIs
  <2>6. PICK f : f = MemCpy(e.chars, 0, q.chars, 0, q.used)
    OBVIOUS
  <2>7. e.chars \in [Index -> Character] /\ q.chars \in [Index -> Character]
    BY <1>1, <2>5 DEF Number
  <2>8. /\ f \in [Index -> Character]
        /\ \A i \in Index : f[i] = IF i \in 0 .. 0 + Copied(q.used) - 1 THEN q.chars[i] ELSE e.chars[i]
    BY <2>1, <2>6, <2>7, MemCpyIs
  <2>9. \A i \in 0 .. q.used - 1 : f[i] = q.chars[i]
    <3> SUFFICES ASSUME NEW i \in 0 .. q.used - 1 PROVE f[i] = q.chars[i]
      OBVIOUS
    <3>1. Copied(q.used) \in Nat /\ q.used <= Copied(q.used)
      BY <2>1, ChunksIs
    <3>2. i \in Index /\ i \in 0 .. 0 + Copied(q.used) - 1
      BY <2>1, <3>1, MostIs DEF Index
    <3> QED BY <2>8, <3>2
  <2>10. PICK w : w = [e EXCEPT !.chars = f]
    OBVIOUS
  <2>11. /\ w \in Number /\ w.sign = q.sign /\ w.used = q.used /\ w.alloced >= q.used /\ w.chars = f
    BY <2>5, <2>8, <2>10 DEF Number
  <2>12. t = [s EXCEPT ![a] = w]
    BY <1>1, <1>3, <2>2, <2>4, <2>6, <2>10 DEF ZSet
  <2>13. t[a] = w
    BY <2>12
  <2>14. w.used <= w.alloced
    BY <2>1, <2>11 DEF Number
  <2>15. Copy(t[a], s[b])
    BY <1>1, <2>9, <2>11, <2>13, <2>14 DEF Copy
  <2> QED BY <2>11, <2>12, <2>15 DEF Only
<1> QED BY <1>2, <1>3

------------------------------------------------------------------------------
(* Signs, and integers of one character.                                     *)

LEMMA UnlessSameIs ==
  ASSUME NEW s \in [Var -> Number], NEW a \in Var, NEW b \in Var, Held(s[b]),
         NEW t, t = SetUnlessSame(s, a, b)
  PROVE  Only(t, s, a) /\ Copy(t[a], s[b])
<1>1. CASE a = b
  <2>1. t = s
    BY <1>1 DEF SetUnlessSame
  <2>2. s[b].sign # 0 => s[b].used <= s[b].alloced
    <3>1. s[b].used \in Nat /\ s[b].alloced \in Nat
      BY DEF Number
    <3> QED BY <3>1 DEF Held
  <2> QED BY <1>1, <2>1, <2>2 DEF Only, Copy
<1>2. CASE a # b
  <2>1. t = ZSet(s, a, b)
    BY <1>2 DEF SetUnlessSame
  <2> QED BY <2>1, ZSetIs
<1> QED BY <1>1, <1>2

LEMMA SignedIs ==
  ASSUME NEW r \in Number, NEW sign \in {-1, 0, 1}, NEW q, q = [r EXCEPT !.sign = sign]
  PROVE  /\ q \in Number /\ q.sign = sign /\ q.used = r.used /\ q.alloced = r.alloced
         /\ q.chars = r.chars /\ Magnitude(q) = Magnitude(r)
         /\ Value(q) = IF sign = 0 THEN 0 ELSE sign * Magnitude(r)
         /\ sign = 0 => Legal(q)
         /\ r.sign # 0 /\ Held(r) => Held(q)
<1>1. q \in Number /\ q.sign = sign /\ q.used = r.used /\ q.alloced = r.alloced /\ q.chars = r.chars
  BY DEF Number
<1> QED BY <1>1 DEF Magnitude, Value, Legal, Held

LEMMA SetSignIs ==
  ASSUME NEW s \in [Var -> Number], NEW a \in Var, NEW sign \in {-1, 0, 1},
         NEW t, t = SetSign(s, a, sign)
  PROVE  Only(t, s, a) /\ t[a] = [s[a] EXCEPT !.sign = sign]
<1>1. PICK r \in Number : r = s[a]
  OBVIOUS
<1>2. t = [s EXCEPT ![a] = [r EXCEPT !.sign = sign]]
  BY <1>1 DEF SetSign
<1>3. [r EXCEPT !.sign = sign] \in Number
  BY SignedIs
<1> QED BY <1>1, <1>2, <1>3 DEF Only

LEMMA NegatedIs ==
  ASSUME NEW s \in [Var -> Number], NEW a \in Var, NEW t, t = Negated(s, a)
  PROVE  /\ Only(t, s, a) /\ -s[a].sign \in {-1, 0, 1}
         /\ t[a] = [s[a] EXCEPT !.sign = -s[a].sign]
<1>1. PICK r \in Number : r = s[a]
  OBVIOUS
<1>2. t = [s EXCEPT ![a] = [r EXCEPT !.sign = -r.sign]]
  BY <1>1 DEF Negated
<1>3. -r.sign \in {-1, 0, 1}
  BY DEF Number
<1>4. [r EXCEPT !.sign = -r.sign] \in Number
  BY <1>3, SignedIs
<1> QED BY <1>1, <1>2, <1>3, <1>4 DEF Only

LEMMA ZNegIs ==
  ASSUME NEW s \in [Var -> Number], NEW a \in Var, NEW b \in Var, Held(s[b]),
         NEW t, t = ZNeg(s, a, b)
  PROVE  Only(t, s, a) /\ Is(t[a], -Value(s[b])) /\ Held(t[a])
<1>1. PICK w : w = SetUnlessSame(s, a, b)
  OBVIOUS
<1>2. Only(w, s, a) /\ Copy(w[a], s[b])
  BY <1>1, UnlessSameIs
<1>3. w \in [Var -> Number]
  BY <1>2 DEF Only
<1>4. PICK r \in Number : r = w[a]
  BY <1>3
<1>5. /\ Held(r) /\ Value(r) = Value(s[b]) /\ r.sign = s[b].sign
  BY <1>2, <1>4, CopyHeld
<1>6. t = Negated(w, a)
  BY <1>1 DEF ZNeg
<1>7. PICK q : q = t[a]
  OBVIOUS
<1>8. Only(t, w, a) /\ -r.sign \in {-1, 0, 1} /\ q = [r EXCEPT !.sign = -r.sign]
  BY <1>3, <1>4, <1>6, <1>7, NegatedIs
<1>9. Only(t, s, a)
  BY <1>2, <1>8 DEF Only
<1>10. PICK g \in {-1, 0, 1} : g = r.sign /\ -g \in {-1, 0, 1}
  BY <1>8 DEF Number
<1>11. q = [r EXCEPT !.sign = -g]
  BY <1>8, <1>10
<1>12. /\ q \in Number /\ q.sign = -g /\ Value(q) = (IF -g = 0 THEN 0 ELSE (-g) * Magnitude(r))
       /\ -g = 0 => Legal(q)
       /\ r.sign # 0 /\ Held(r) => Held(q)
  BY ONLY <1>4, <1>10, <1>11, SignedIs
<1>13. CASE g = 0
  <2>1. Value(r) = 0
    BY <1>5, <1>10, <1>13, HeldIs
  <2>4. -g = 0
    <3>1. \A k \in Int : 0 - k = -k
      OBVIOUS
    <3>2. 0 - g = 0 /\ g \in Int
      BY <1>13
    <3> QED BY <3>1, <3>2
  <2>2. q.sign = 0 /\ Value(q) = 0 /\ Legal(q)
    BY ONLY <1>12, <2>4
  <2>3. Held(q)
    BY <1>12, <2>2 DEF Held
  <2>5. Value(q) = -Value(s[b])
    <3>1. -Value(s[b]) = -g
      BY <1>5, <1>13, <2>1
    <3> QED BY <2>2, <2>4, <3>1
  <2> QED BY <1>7, <1>9, <2>2, <2>3, <2>5 DEF Is
<1>14. CASE g # 0
  <2>1. PICK m \in Nat : m = Magnitude(r) /\ Value(r) = g * m
    BY <1>5, <1>10, <1>14, HeldIs
  <2>2. Value(q) = -Value(r)
    BY <1>10, <1>12, <1>14, <2>1
  <2>3. Held(q) /\ Legal(q)
    BY <1>5, <1>10, <1>12, <1>14, HeldIs
  <2> QED BY <1>5, <1>7, <1>9, <2>2, <2>3 DEF Is
<1> QED BY <1>13, <1>14

LEMMA ZAbsIs ==
  ASSUME NEW s \in [Var -> Number], NEW a \in Var, NEW b \in Var, Held(s[b]),
         NEW t, t = ZAbs(s, a, b)
  PROVE  Only(t, s, a) /\ Is(t[a], AbsOf(Value(s[b]))) /\ Held(t[a])
<1>1. PICK w : w = SetUnlessSame(s, a, b)
  OBVIOUS
<1>2. Only(w, s, a) /\ Copy(w[a], s[b])
  BY <1>1, UnlessSameIs
<1>3. w \in [Var -> Number]
  BY <1>2 DEF Only
<1>4. PICK r \in Number : r = w[a]
  BY <1>3
<1>5. /\ Held(r) /\ Value(r) = Value(s[b]) /\ r.sign = s[b].sign /\ Legal(r)
  BY <1>2, <1>4, CopyHeld, HeldIs
<1>6. CASE r.sign < 0
  <2>1. t = SetSign(w, a, 1)
    BY <1>1, <1>4, <1>6 DEF ZAbs
  <2>2. PICK q : q = t[a]
    OBVIOUS
  <2>3. Only(t, w, a) /\ q = [r EXCEPT !.sign = 1]
    BY <1>3, <1>4, <2>1, <2>2, SetSignIs
  <2>4. q \in Number /\ Held(q) /\ Value(q) = 1 * Magnitude(r)
    <3>1. r.sign # 0
      BY <1>6
    <3>2. 1 \in {-1, 0, 1} /\ 1 # 0
      OBVIOUS
    <3> QED BY ONLY <1>4, <1>5, <2>3, <3>1, <3>2, SignedIs
  <2>5. PICK m \in Nat : m = Magnitude(r) /\ m > 0 /\ Value(r) = r.sign * m /\ r.sign = -1
    BY <1>5, <1>6, HeldIs
  <2>6. Value(q) = AbsOf(Value(r))
    BY <2>4, <2>5 DEF AbsOf
  <2> QED BY <1>2, <1>5, <2>2, <2>3, <2>4, <2>6, HeldIs DEF Only, Is
<1>7. CASE ~(r.sign < 0)
  <2>1. t = w
    BY <1>1, <1>4, <1>7 DEF ZAbs
  <2>2. Value(r) >= 0 /\ Value(r) \in Int
    <3>1. r.sign = 0 \/ r.sign = 1
      BY <1>5, <1>7, HeldIs
    <3>2. CASE r.sign = 0
      BY <1>5, <3>2, HeldIs
    <3>3. CASE r.sign = 1
      <4>1. PICK m \in Nat : Value(r) = r.sign * m
        BY <1>5, <3>3, HeldIs
      <4> QED BY <3>3, <4>1
    <3> QED BY <3>1, <3>2, <3>3
  <2> QED BY <1>2, <1>4, <1>5, <2>1, <2>2 DEF Is, AbsOf
<1> QED BY <1>6, <1>7

\* An integer of one character.
LEMMA OneCharIs ==
  ASSUME NEW s \in [Var -> Number], NEW a \in Var, NEW sign \in {-1, 1}, NEW c \in Digit, c # 0,
         NEW t, t = OneChar(s, a, sign, c)
  PROVE  Only(t, s, a) /\ Is(t[a], sign * c) /\ Held(t[a])
<1>1. PICK r \in Number : r = s[a]
  OBVIOUS
<1>2. PICK e : e = Ensure(r, 1)
  OBVIOUS
<1>3. e \in Number /\ e.alloced >= 1
  <2>1. 1 \in 0 .. MostChars
    BY MostIs
  <2> QED BY ONLY <1>1, <1>2, <2>1, EnsureIs
<1>4. PICK f : f = [e.chars EXCEPT ![0] = c]
  OBVIOUS
<1>5. f \in [Index -> Character] /\ f[0] = c
  <2>1. e.chars \in [Index -> Character] /\ 0 \in Index /\ c \in Character
    BY <1>3, MostIs DEF Number, Index, Character
  <2> QED BY <1>4, <2>1
<1>6. PICK q : q = [e EXCEPT !.sign = sign, !.used = 1, !.chars[0] = c]
  OBVIOUS
<1>7. q \in Number /\ q.sign = sign /\ q.used = 1 /\ q.alloced >= 1 /\ q.chars = f
  BY <1>3, <1>4, <1>5, <1>6 DEF Number
<1>8. t = [s EXCEPT ![a] = q]
  BY <1>1, <1>2, <1>6 DEF OneChar
<1>9. t[a] = q /\ Only(t, s, a)
  BY <1>7, <1>8 DEF Only
<1>10. Held(q)
  <2>1. q.alloced \in Nat /\ 1 \in 1 .. q.alloced /\ 1 <= MaxUsed
    BY <1>7, MostIs DEF Number
  <2>2. Figures(f, 1) /\ \E i \in 0 .. 1 - 1 : f[i] # 0
    BY <1>5 DEF Figures
  <2> QED BY <1>7, <2>1, <2>2 DEF Held
<1>11. Value(q) = sign * c
  <2>1. Lowest(f, 0 + 1) = Lowest(f, 0) + f[0] * Place(0)
    <3>1. 0 \in 0 .. Room - 1
      BY MostIs
    <3> QED BY <3>1, LowestPlaces
  <2>2. Lowest(f, 1) = c
    BY <1>5, <2>1, LowestPlaces, Places, DigitType
  <2> QED BY <1>7, <2>2 DEF Value, Magnitude
<1> QED BY <1>9, <1>10, <1>11, HeldIs DEF Is

LEMMA ZSetUIs ==
  ASSUME NEW s \in [Var -> Number], NEW a \in Var, NEW n \in Digit,
         NEW t, t = ZSetU(s, a, n)
  PROVE  Only(t, s, a) /\ Is(t[a], n) /\ Held(t[a])
<1>1. CASE n = 0
  <2>1. t = SetSign(s, a, 0)
    BY <1>1 DEF ZSetU
  <2>2. PICK r, q : r \in Number /\ r = s[a] /\ q = t[a]
    OBVIOUS
  <2>3. Only(t, s, a) /\ q = [r EXCEPT !.sign = 0]
    BY <2>1, <2>2, SetSignIs
  <2>4. q \in Number /\ q.sign = 0 /\ Value(q) = 0 /\ Legal(q)
    <3>1. 0 \in {-1, 0, 1}
      OBVIOUS
    <3> QED BY ONLY <2>2, <2>3, <3>1, SignedIs
  <2> QED BY <1>1, <2>2, <2>3, <2>4 DEF Is, Held
<1>2. CASE n # 0
  <2>1. t = OneChar(s, a, 1, n)
    BY <1>2 DEF ZSetU
  <2>2. Only(t, s, a) /\ Is(t[a], 1 * n) /\ Held(t[a])
    BY <1>2, <2>1, OneCharIs
  <2> QED BY <2>2, DigitType
<1> QED BY <1>1, <1>2

LEMMA ZSetIIs ==
  ASSUME NEW s \in [Var -> Number], NEW a \in Var, NEW n \in Int64,
         NEW t, t = ZSetI(s, a, n)
  PROVE  Only(t, s, a) /\ Is(t[a], n) /\ Held(t[a])
<1>1. PICK b \in Nat : b = Base /\ b >= 2
  BY Bases
<1>2. PICK h \in Nat : h = b \div 2 /\ h < b
  <2>1. PICK q \in Nat, r \in Nat : q = b \div 2 /\ b = 2 * q + r
    BY <1>1, Quotient, 2 \in Nat, 2 > 0
  <2> QED BY <1>1, <2>1
<1>3. n \in -h .. h - 1
  BY <1>1, <1>2 DEF Int64
<1>4. CASE n >= 0
  <2>1. t = ZSetU(s, a, n) /\ n \in Digit
    BY <1>1, <1>2, <1>3, <1>4 DEF ZSetI, Digit
  <2> QED BY <2>1, ZSetUIs
<1>5. CASE n < 0
  <2>1. \A v \in 0 .. b - 1 : v % b = v
    BY <1>1
  <2>2. PICK m \in Nat : m = -n /\ m \in 0 .. b - 1 /\ m # 0
    BY <1>2, <1>3, <1>5
  <2>3. (-n) % b = m
    BY <2>1, <2>2
  <2>4. t = OneChar(s, a, -1, m) /\ m \in Digit
    BY <1>1, <1>3, <1>5, <2>2, <2>3 DEF ZSetI, Digit
  <2>5. Only(t, s, a) /\ Is(t[a], (-1) * m) /\ Held(t[a])
    <3>1. -1 \in {-1, 1}
      OBVIOUS
    <3> QED BY <2>2, <2>4, <3>1, OneCharIs
  <2>6. (-1) * m = n
    BY <2>2, <1>3
  <2> QED BY <2>5, <2>6
<1> QED BY <1>3, <1>4, <1>5

------------------------------------------------------------------------------
(* Comparisons.                                                              *)

\* q is r without some of the zeros above its magnitude.
Trimmed(q, r) ==
  /\ Held(q) /\ q.sign = r.sign /\ q.chars = r.chars /\ q.alloced = r.alloced
  /\ q.used <= r.used /\ Value(q) = Value(r)
  /\ r.sign # 0 => Magnitude(q) = Magnitude(r)

LEMMA TrimToIs ==
  ASSUME NEW r, Held(r), r.sign # 0, NEW floor \in Nat, NEW q, q = TrimTo(r, floor)
  PROVE  /\ Trimmed(q, r)
         /\ q.used >= floor \/ q = r
         /\ q.used > floor => q.chars[q.used - 1] # 0
<1>1. /\ r \in Number /\ r.used \in Nat /\ r.used >= 1 /\ r.used < Room /\ r.used <= MaxUsed
      /\ Figures(r.chars, r.used) /\ Magnitude(r) = Lowest(r.chars, r.used)
  BY HeldIs DEF Held
<1>2. CASE r.used <= floor
  <2>1. q = r
    BY <1>2 DEF TrimTo
  <2> QED BY <1>1, <1>2, <2>1 DEF Trimmed
<1>3. CASE ~(r.used <= floor)
  <2> DEFINE N == {k \in floor .. r.used - 1 : r.chars[k] # 0}
             S == {floor} \cup {i + 1 : i \in N}
  <2>1. PICK u : u = Max(S)
    OBVIOUS
  <2>2. S \in SUBSET (0 .. r.used) /\ floor \in S
    BY <1>1, <1>3
  <2>3. u \in S /\ \A k \in S : k <= u
    <3> HIDE DEF S
    <3> QED BY <1>1, <2>1, <2>2, MaxIs
  <2>4. u \in Nat /\ u <= r.used /\ u >= floor
    BY <1>1, <2>2, <2>3
  <2>5. \A k \in u .. r.used - 1 : r.chars[k] = 0
    <3> SUFFICES ASSUME NEW k \in u .. r.used - 1, r.chars[k] # 0 PROVE FALSE
      OBVIOUS
    <3>1. k \in N
      BY <1>1, <2>4
    <3>2. k + 1 \in S
      BY <3>1
    <3> QED BY <1>1, <2>3, <2>4, <3>2
  <2>6. u > floor => r.chars[u - 1] # 0
    <3>1. ASSUME u > floor PROVE \E i \in N : u = i + 1
      BY <2>3, <3>1
    <3>2. \A i \in N : (i + 1) - 1 = i /\ r.chars[i] # 0
      BY <1>1
    <3> QED BY <3>1, <3>2
  <2>7. \E i \in 0 .. u - 1 : r.chars[i] # 0
    <3>1. PICK i \in 0 .. r.used - 1 : r.chars[i] # 0
      BY DEF Held
    <3>2. ~(i \in u .. r.used - 1)
      BY <2>5, <3>1
    <3>3. i \in 0 .. u - 1
      BY <1>1, <2>4, <3>2
    <3> QED BY <3>1, <3>3
  <2>8. u >= 1
    BY <2>4, <2>7
  <2>9. Lowest(r.chars, u) = Lowest(r.chars, r.used)
    <3>1. PICK w \in Nat : /\ Upper(w, r.chars, u, r.used)
                           /\ Lowest(r.chars, u) \in Nat
                           /\ Lowest(r.chars, r.used) = Place(u) * w + Lowest(r.chars, u)
      <4>1. r.used <= Room
        BY <1>1, MostIs
      <4> QED BY <1>1, <2>4, <4>1, LowestSplit
    <3>2. w = 0
      BY <2>5, <3>1 DEF Upper
    <3>3. PICK l \in Nat, p \in Nat : l = Lowest(r.chars, u) /\ p = Place(u)
      BY <2>4, <3>1, Places
    <3>4. Lowest(r.chars, r.used) = p * 0 + l
      BY <3>1, <3>2, <3>3
    <3> QED BY <3>3, <3>4
  <2>10. q = [r EXCEPT !.used = u]
    BY <1>3, <2>1 DEF TrimTo
  <2>11. /\ q \in Number /\ q.sign = r.sign /\ q.used = u /\ q.alloced = r.alloced /\ q.chars = r.chars
    BY <1>1, <2>4, <2>10 DEF Number
  <2>12. Magnitude(q) = Magnitude(r) /\ Value(q) = Value(r)
    BY <2>9, <2>11 DEF Magnitude, Value
  <2>13. Held(q)
    <3>1. r.used \in 1 .. r.alloced /\ r.alloced \in Nat
      BY <1>1 DEF Held, Number
    <3>2. u \in 1 .. r.alloced /\ u <= MaxUsed
      BY <1>1, <2>4, <2>8, <3>1, MostIs
    <3>3. Figures(r.chars, u)
      BY <1>1, <2>4 DEF Figures
    <3> QED BY <2>7, <2>11, <3>2, <3>3 DEF Held
  <2> QED BY <2>4, <2>6, <2>11, <2>12, <2>13 DEF Trimmed
<1> QED BY <1>2, <1>3

LEMMA ComparedIs ==
  ASSUME NEW s \in [Var -> Number], NEW a \in Var, NEW b \in Var, Held(s[a]), Held(s[b]),
         NEW t, t = Compared(s, a, b)
  PROVE  /\ t \in [Var -> Number] /\ \A v \in Var : v \notin {a, b} => t[v] = s[v]
         /\ Trimmed(t[a], s[a]) /\ Trimmed(t[b], s[b])
         /\ s[a].sign # 0 /\ s[b].sign # 0 =>
              /\ t[a].used > t[b].used => t[a].chars[t[a].used - 1] # 0
              /\ t[b].used > t[a].used => t[b].chars[t[b].used - 1] # 0
<1>0. PICK x \in Number, y \in Number : x = s[a] /\ y = s[b] /\ Held(x) /\ Held(y)
  OBVIOUS
<1>1. x.used \in Nat /\ y.used \in Nat
  BY <1>0 DEF Number
<1>2. CASE x.sign = 0 \/ y.sign = 0
  <2>1. t = s
    BY <1>0, <1>2 DEF Compared
  <2> QED BY <1>0, <1>1, <1>2, <2>1 DEF Trimmed
<1>3. CASE x.sign # 0 /\ y.sign # 0
  <2>1. PICK p : p = TrimTo(x, y.used)
    OBVIOUS
  <2>2. PICK q : q = TrimTo(y, x.used)
    OBVIOUS
  <2>3. Trimmed(p, x) /\ (p.used >= y.used \/ p = x) /\ (p.used > y.used => p.chars[p.used - 1] # 0)
    BY <1>0, <1>1, <1>3, <2>1, TrimToIs
  <2>4. Trimmed(q, y) /\ (q.used >= x.used \/ q = y) /\ (q.used > x.used => q.chars[q.used - 1] # 0)
    BY <1>0, <1>1, <1>3, <2>2, TrimToIs
  <2>5. p \in Number /\ q \in Number /\ p.used \in Nat /\ q.used \in Nat
    BY <2>3, <2>4 DEF Trimmed, Held, Number
  <2>6. x.used <= y.used => p = x
    BY <2>1 DEF TrimTo
  <2>7. y.used <= x.used => q = y
    BY <2>2 DEF TrimTo
  <2>8. t = [s EXCEPT ![a] = TrimTo(@, s[b].used), ![b] = TrimTo(@, s[a].used)]
    BY <1>0, <1>3 DEF Compared
  <2>9. CASE a # b
    <3>1. t[a] = p /\ t[b] = q /\ t \in [Var -> Number] /\ \A v \in Var : v \notin {a, b} => t[v] = s[v]
      BY <1>0, <2>1, <2>2, <2>5, <2>8, <2>9
    <3>2. p.used > q.used => p.chars[p.used - 1] # 0
      BY <1>1, <2>3, <2>4, <2>5, <2>6, <2>7
    <3>3. q.used > p.used => q.chars[q.used - 1] # 0
      BY <1>1, <2>3, <2>4, <2>5, <2>6, <2>7
    <3> QED BY <1>0, <2>3, <2>4, <3>1, <3>2, <3>3
  <2>10. CASE a = b
    <3>1. x = y /\ TrimTo(x, x.used) = x
      BY <1>0, <1>1, <2>10 DEF TrimTo
    <3>2. t = [s EXCEPT ![a] = x]
      BY <1>0, <2>8, <2>10, <3>1
    <3>3. t = s
      BY <1>0, <3>2
    <3>4. Trimmed(x, x)
      BY <1>0, <1>1 DEF Trimmed
    <3> QED BY <1>0, <1>1, <2>10, <3>1, <3>3, <3>4
  <2> QED BY <2>9, <2>10
<1> QED BY <1>0, <1>2, <1>3

LEMMA AbsIs ==
  ASSUME NEW r, Held(r)
  PROVE  /\ AbsOf(Value(r)) = IF r.sign = 0 THEN 0 ELSE Magnitude(r)
         /\ AbsOf(Value(r)) \in Nat /\ (r.sign # 0 => AbsOf(Value(r)) > 0)
<1>1. CASE r.sign = 0
  BY <1>1, HeldIs DEF AbsOf
<1>2. CASE r.sign # 0
  <2>1. PICK m \in Nat : m = Magnitude(r) /\ m > 0 /\ Value(r) = r.sign * m
    BY <1>2, HeldIs
  <2>2. r.sign = 1 \/ r.sign = -1
    BY <1>2, HeldIs
  <2> QED BY <1>2, <2>1, <2>2 DEF AbsOf
<1> QED BY <1>1, <1>2

\* zcmpmag compares magnitudes.
LEMMA ZCmpMagIs ==
  ASSUME NEW s \in [Var -> Number], NEW a \in Var, NEW b \in Var, Held(s[a]), Held(s[b])
  PROVE  ZCmpMag(s, a, b) = Sign(AbsOf(Value(s[a])) - AbsOf(Value(s[b])))
<1>1. PICK t : t = Compared(s, a, b)
  OBVIOUS
<1>2. /\ t \in [Var -> Number] /\ Trimmed(t[a], s[a]) /\ Trimmed(t[b], s[b])
      /\ s[a].sign # 0 /\ s[b].sign # 0 =>
              /\ t[a].used > t[b].used => t[a].chars[t[a].used - 1] # 0
              /\ t[b].used > t[a].used => t[b].chars[t[b].used - 1] # 0
  BY <1>1, ComparedIs
<1>3. PICK x \in Number, y \in Number : x = t[a] /\ y = t[b]
  BY <1>2
<1>4. PICK v \in Nat, w \in Nat :
        /\ v = AbsOf(Value(s[a])) /\ w = AbsOf(Value(s[b]))
        /\ v = AbsOf(Value(x)) /\ w = AbsOf(Value(y))
  BY <1>2, <1>3, AbsIs DEF Trimmed
<1>5. Held(x) /\ Held(y) /\ x.sign = s[a].sign /\ y.sign = s[b].sign /\ x.used \in Nat /\ y.used \in Nat
  BY <1>2, <1>3 DEF Trimmed, Number
<1> DEFINE differ == {i \in 0 .. x.used - 1 : x.chars[i] # y.chars[i]}
<1>6. ZCmpMag(s, a, b) =
        CASE x.sign = 0 -> (IF y.sign = 0 THEN 0 ELSE -1)
          [] x.sign # 0 /\ y.sign = 0 -> 1
          [] x.sign # 0 /\ y.sign # 0 /\ x.used # y.used -> Sign(x.used - y.used)
          [] OTHER -> IF differ = {} THEN 0
                      ELSE Sign(x.chars[Max(differ)] - y.chars[Max(differ)])
  BY <1>1, <1>3 DEF ZCmpMag
<1>7. CASE x.sign = 0
  <2>1. v = 0 /\ (y.sign = 0 => w = 0) /\ (y.sign # 0 => w > 0)
    BY <1>4, <1>5, <1>7, AbsIs
  <2>2. ZCmpMag(s, a, b) = IF y.sign = 0 THEN 0 ELSE -1
    BY <1>6, <1>7
  <2> QED BY <1>4, <2>1, <2>2 DEF Sign
<1>8. CASE x.sign # 0 /\ y.sign = 0
  <2>1. w = 0 /\ v > 0
    BY <1>4, <1>5, <1>8, AbsIs
  <2>2. ZCmpMag(s, a, b) = 1
    BY <1>6, <1>8
  <2> QED BY <1>4, <2>1, <2>2 DEF Sign
<1>9. CASE x.sign # 0 /\ y.sign # 0
  <2>1. /\ v = Lowest(x.chars, x.used) /\ w = Lowest(y.chars, y.used)
        /\ v < Place(x.used) /\ w < Place(y.used) /\ Figures(x.chars, x.used) /\ Figures(y.chars, y.used)
        /\ x.used >= 1 /\ y.used >= 1 /\ x.used < Room /\ y.used < Room
    BY <1>4, <1>5, <1>9, AbsIs, HeldIs
  <2>2. x.used > y.used => v > w
    <3> SUFFICES ASSUME x.used > y.used PROVE v > w
      OBVIOUS
    <3>1. PICK n \in Nat : x.used = n + 1 /\ n < Room /\ y.used <= n
      BY <1>5, <2>1, MostIs, x.used - 1 \in Nat, x.used = (x.used - 1) + 1
    <3>2. x.chars[n] # 0
      BY <1>2, <1>3, <1>5, <1>9, <3>1
    <3>3. v >= Place(n)
      BY <2>1, <3>1, <3>2, LowestTop
    <3>4. Place(y.used) <= Place(n) /\ Place(n) \in Nat /\ Place(y.used) \in Nat
      <4>1. PICK m \in Nat : m = y.used /\ (m < n \/ m = n)
        BY <1>5, <3>1
      <4>2. Place(m) \in Nat /\ Place(n) \in Nat /\ (m < n => Place(m) < Place(n))
        BY PlaceMonotone, Places
      <4> QED BY <4>1, <4>2
    <3> QED BY <2>1, <3>3, <3>4
  <2>3. y.used > x.used => w > v
    <3> SUFFICES ASSUME y.used > x.used PROVE w > v
      OBVIOUS
    <3>1. PICK n \in Nat : y.used = n + 1 /\ n < Room /\ x.used <= n
      BY <1>5, <2>1, MostIs, y.used - 1 \in Nat, y.used = (y.used - 1) + 1
    <3>2. y.chars[n] # 0
      BY <1>2, <1>3, <1>5, <1>9, <3>1
    <3>3. w >= Place(n)
      BY <2>1, <3>1, <3>2, LowestTop
    <3>4. Place(x.used) <= Place(n) /\ Place(n) \in Nat /\ Place(x.used) \in Nat
      <4>1. PICK m \in Nat : m = x.used /\ (m < n \/ m = n)
        BY <1>5, <3>1
      <4>2. Place(m) \in Nat /\ Place(n) \in Nat /\ (m < n => Place(m) < Place(n))
        BY PlaceMonotone, Places
      <4> QED BY <4>1, <4>2
    <3> QED BY <2>1, <3>3, <3>4
  <2>4. CASE x.used # y.used
    <3>1. ZCmpMag(s, a, b) = Sign(x.used - y.used)
      BY <1>6, <1>9, <2>4
    <3> QED BY <1>4, <1>5, <2>2, <2>3, <2>4, <3>1 DEF Sign
  <2>5. CASE x.used = y.used
    <3>1. ZCmpMag(s, a, b) = IF differ = {} THEN 0
                             ELSE Sign(x.chars[Max(differ)] - y.chars[Max(differ)])
      BY <1>6, <1>9, <2>5
    <3>2. PICK n \in Nat : n = x.used /\ n = y.used /\ n <= Room
      BY <1>5, <2>1, <2>5, MostIs
    <3>3. CASE differ = {}
      <4>1. \A i \in 0 .. n - 1 : x.chars[i] = y.chars[i]
        BY <3>2, <3>3
      <4>2. v = w
        BY <2>1, <3>2, <4>1, LowestAgrees
      <4> QED BY <1>4, <3>1, <3>3, <4>2 DEF Sign
    <3>4. CASE differ # {}
      <4>1. PICK i : i = Max(differ)
        OBVIOUS
      <4>2. i \in differ /\ \A k \in differ : k <= i
        <5>1. differ \in SUBSET (0 .. n)
          BY <3>2
        <5> HIDE DEF differ
        <5> QED BY <3>4, <4>1, <5>1, MaxIs
      <4>3. i \in 0 .. n - 1 /\ x.chars[i] # y.chars[i]
        BY <3>2, <4>2
      <4>4. \A k \in i + 1 .. n - 1 : x.chars[k] = y.chars[k]
        <5> SUFFICES ASSUME NEW k \in i + 1 .. n - 1, x.chars[k] # y.chars[k] PROVE FALSE
          OBVIOUS
        <5>1. k \in differ
          BY <3>2, <4>3
        <5> QED BY <4>2, <4>3, <5>1
      <4>5. x.chars[i] \in Nat /\ y.chars[i] \in Nat
        BY <2>1, <3>2, <4>3, DigitType DEF Figures
      <4>6. ZCmpMag(s, a, b) = Sign(x.chars[i] - y.chars[i])
        BY <3>1, <3>4, <4>1
      <4>7. Figures(x.chars, n) /\ Figures(y.chars, n) /\ v = Lowest(x.chars, n) /\ w = Lowest(y.chars, n)
        BY <2>1, <3>2
      <4>8. CASE x.chars[i] < y.chars[i]
        <5>1. v < w
          BY <3>2, <4>3, <4>4, <4>7, <4>8, LowestDiffer
        <5> QED BY <1>4, <4>5, <4>6, <4>8, <5>1 DEF Sign
      <4>9. CASE x.chars[i] > y.chars[i]
        <5>1. w < v
          <6>1. y.chars[i] < x.chars[i] /\ \A k \in i + 1 .. n - 1 : y.chars[k] = x.chars[k]
            BY <4>4, <4>5, <4>9
          <6> QED BY <3>2, <4>3, <4>7, <6>1, LowestDiffer
        <5> QED BY <1>4, <4>5, <4>6, <4>9, <5>1 DEF Sign
      <4> QED BY <4>3, <4>5, <4>8, <4>9
    <3> QED BY <3>3, <3>4
  <2> QED BY <2>4, <2>5
<1> QED BY <1>7, <1>8, <1>9

------------------------------------------------------------------------------
(* What the loops leave is made of characters.                               *)

LEMMA TaintedType == \A S : Tainted(S) \in Character
BY DEF Tainted, Character

\* A remainder after division by the base.
LEMMA BaseRemainder == \A v \in Int : v % Base \in Digit
<1>1. PICK b \in Nat : b = Base /\ b > 0
  BY Bases
<1>2. \A v \in Int : v % b \in 0 .. b - 1
  BY <1>1
<1> QED BY <1>1, <1>2 DEF Digit

LEMMA MinusType ==
  \A x, y : \A c \in {0, 1} : /\ Minus(x, y, c).digit \in Character
                              /\ Minus(x, y, c).borrow \in {0, 1}
<1> SUFFICES ASSUME NEW x, NEW y, NEW c \in {0, 1}
             PROVE  Minus(x, y, c).digit \in Character /\ Minus(x, y, c).borrow \in {0, 1}
  OBVIOUS
<1>1. CASE {x, y} \subseteq Digit
  <2>1. x \in Digit /\ y \in Digit
    BY <1>1
  <2> QED BY <2>1, MinusDigits DEF Character
<1>2. CASE ~({x, y} \subseteq Digit)
  BY <1>2, TaintedType DEF Minus
<1> QED BY <1>1, <1>2

LEMMA PlusType ==
  \A x, y : \A c \in {0, 1} : /\ Plus(x, y, c).digit \in Character
                              /\ Plus(x, y, c).carry \in {0, 1}
<1> SUFFICES ASSUME NEW x, NEW y, NEW c \in {0, 1}
             PROVE  Plus(x, y, c).digit \in Character /\ Plus(x, y, c).carry \in {0, 1}
  OBVIOUS
<1>1. CASE {x, y} \subseteq Digit
  <2>1. x \in Digit /\ y \in Digit
    BY <1>1
  <2> QED BY <2>1, PlusDigits DEF Character
<1>2. CASE ~({x, y} \subseteq Digit)
  BY <1>2, TaintedType DEF Plus
<1> QED BY <1>1, <1>2

LEMMA BorrowsType ==
  ASSUME NEW x, NEW y
  PROVE  \A n \in Nat : n <= Room => Borrows(x, y)[n] \in {0, 1}
<1> DEFINE Z == {n \in Nat : n <= Room => Borrows(x, y)[n] \in {0, 1}}
<1>1. 0 \in Z
  BY BorrowsSteps
<1>2. ASSUME NEW n \in Nat, n \in Z PROVE n + 1 \in Z
  <2> SUFFICES ASSUME n + 1 <= Room PROVE Borrows(x, y)[n + 1] \in {0, 1}
    OBVIOUS
  <2>1. n \in 0 .. Room - 1 /\ n <= Room
    BY MostIs
  <2>2. PICK c \in {0, 1} : c = Borrows(x, y)[n]
    BY <1>2, <2>1
  <2>3. Borrows(x, y)[n + 1] = Minus(x[n], y[n], c).borrow
    BY <2>1, <2>2, BorrowsSteps
  <2> QED BY <2>3, MinusType
<1> HIDE DEF Z
<1>3. \A n \in Nat : n \in Z
  <2>1. Z \in SUBSET Nat
    BY DEF Z
  <2> QED BY <1>1, <1>2, <2>1, Inductive
<1> QED BY <1>3 DEF Z

LEMMA CarriesType ==
  ASSUME NEW x, NEW y
  PROVE  \A n \in Nat : n <= Room => Carries(x, y)[n] \in {0, 1}
<1> DEFINE Z == {n \in Nat : n <= Room => Carries(x, y)[n] \in {0, 1}}
<1>1. 0 \in Z
  BY CarriesSteps
<1>2. ASSUME NEW n \in Nat, n \in Z PROVE n + 1 \in Z
  <2> SUFFICES ASSUME n + 1 <= Room PROVE Carries(x, y)[n + 1] \in {0, 1}
    OBVIOUS
  <2>1. n \in 0 .. Room - 1 /\ n <= Room
    BY MostIs
  <2>2. PICK c \in {0, 1} : c = Carries(x, y)[n]
    BY <1>2, <2>1
  <2>3. Carries(x, y)[n + 1] = Plus(x[n], y[n], c).carry
    BY <2>1, <2>2, CarriesSteps
  <2> QED BY <2>3, PlusType
<1> HIDE DEF Z
<1>3. \A n \in Nat : n \in Z
  <2>1. Z \in SUBSET Nat
    BY DEF Z
  <2> QED BY <1>1, <1>2, <2>1, Inductive
<1> QED BY <1>3 DEF Z

LEMMA IndexIs == \A i \in Index : i \in Nat /\ i <= Room /\ i < Room
BY MostIs DEF Index

LEMMA DifferenceType ==
  ASSUME NEW x \in [Index -> Character], NEW y, NEW n, NEW f, f = DifferenceChars(x, y, n)
  PROVE  f \in [Index -> Character]
<1>1. PICK d : d = SubChars(x, y, n)
  OBVIOUS
<1>2. d \in [Index -> Character]
  <2>1. d = [i \in Index |-> IF i < n THEN Minus(x[i], y[i], Borrows(x, y)[i]).digit ELSE x[i]]
    BY <1>1 DEF SubChars
  <2>2. \A i \in Index : Minus(x[i], y[i], Borrows(x, y)[i]).digit \in Character
    BY IndexIs, BorrowsType, MinusType
  <2> QED BY <2>1, <2>2
<1>3. Base - 1 \in Character
  BY Bases DEF Character
<1>4. PICK g : g = BelowBorrow(d, n)
  OBVIOUS
<1>5. g \in [Index -> Character]
  <2>1. g = [k \in Index |-> IF k \in n .. BorrowStops(d, n) - 1 THEN Base - 1 ELSE d[k]]
    BY <1>4 DEF BelowBorrow
  <2> QED BY <1>2, <1>3, <2>1
<1>6. PICK stop : stop = BorrowStops(d, n)
  OBVIOUS
<1>7. f = d \/ f = g \/ f = [g EXCEPT ![stop] = Minus(@, 1, 0).digit]
  BY <1>1, <1>4, <1>6 DEF DifferenceChars
<1>8. \A z : Minus(z, 1, 0).digit \in Character
  BY MinusType
<1>9. [g EXCEPT ![stop] = Minus(@, 1, 0).digit] \in [Index -> Character]
  BY <1>5, <1>8
<1> QED BY <1>2, <1>5, <1>7, <1>9

LEMMA SumType ==
  ASSUME NEW d \in [Index -> Character], NEW x, NEW y, NEW n, NEW f, f = SumChars(d, x, y, n)
  PROVE  f \in [Index -> Character]
<1>1. PICK e : e = AddChars(d, x, y, n)
  OBVIOUS
<1>2. e \in [Index -> Character]
  <2>1. e = [i \in Index |-> IF i < n THEN Plus(x[i], y[i], Carries(x, y)[i]).digit ELSE d[i]]
    BY <1>1 DEF AddChars
  <2>2. \A i \in Index : Plus(x[i], y[i], Carries(x, y)[i]).digit \in Character
    BY IndexIs, CarriesType, PlusType
  <2> QED BY <2>1, <2>2
<1>3. PICK stop : stop = CarryStops(e, n)
  OBVIOUS
<1>4. PICK g : g = [i \in Index |-> IF i \in n .. stop - 1 THEN 0
                                    ELSE IF i = stop THEN Plus(e[i], 1, 0).digit ELSE e[i]]
  OBVIOUS
<1>5. g \in [Index -> Character]
  <2>1. 0 \in Character
    BY Bases DEF Character
  <2>2. \A z : Plus(z, 1, 0).digit \in Character
    BY PlusType
  <2> QED BY <1>2, <1>4, <2>1, <2>2
<1>6. Carried(e, n) = g
  BY <1>3, <1>4 DEF Carried
<1>7. f = e \/ f = g
  BY <1>1, <1>6 DEF SumChars
<1> QED BY <1>2, <1>5, <1>7

------------------------------------------------------------------------------
(* zsub_impl, and what calls it.                                             *)

\* A magnitude w of n characters is taken from v, and the borrow ends inside.
Inside(v, w, n) == v % Place(n) < w /\ OneInside(v \div Place(n))

LEMMA ZSubImplStores ==
  ASSUME NEW s \in [Var -> Number], NEW a \in Var, NEW b \in Var, NEW n \in Nat,
         NEW r, r = s[a], NEW y, y = s[b].chars, NEW t, t = ZSubImpl(s, a, b, n),
         TakesTop(r.chars, y, n) => r.used >= 1
  PROVE  /\ Only(t, s, a) /\ t[a].sign = r.sign /\ t[a].alloced = r.alloced
         /\ t[a].chars = DifferenceChars(r.chars, y, n)
         /\ t[a].used = IF TakesTop(r.chars, y, n) THEN r.used - 1 ELSE r.used
<1>1. r \in Number /\ r.chars \in [Index -> Character] /\ r.used \in Nat
  BY DEF Number
<1>2. PICK x : x = r.chars
  OBVIOUS
<1>3. PICK d : d = SubChars(x, y, n)
  OBVIOUS
<1>4. PICK f : f = DifferenceChars(x, y, n)
  OBVIOUS
<1>5. f \in [Index -> Character]
  BY ONLY <1>1, <1>2, <1>4, DifferenceType
<1>6. PICK q : q = [r EXCEPT !.chars = d]
  OBVIOUS
<1>7. d \in [Index -> Character]
  <2>1. d = [i \in Index |-> IF i < n THEN Minus(x[i], y[i], Borrows(x, y)[i]).digit ELSE x[i]]
    BY <1>3 DEF SubChars
  <2>2. \A i \in Index : Minus(x[i], y[i], Borrows(x, y)[i]).digit \in Character
    BY IndexIs, BorrowsType, MinusType
  <2> QED BY <1>1, <1>2, <2>1, <2>2
<1>8. q \in Number /\ q.chars = d /\ q.sign = r.sign /\ q.used = r.used /\ q.alloced = r.alloced
  BY <1>1, <1>6, <1>7 DEF Number
<1>9. PICK w : w = IF Borrows(x, y)[n] = 1 THEN Borrowed(q, n) ELSE q
  OBVIOUS
<1>10. t = [s EXCEPT ![a] = w]
  BY <1>2, <1>3, <1>6, <1>9 DEF ZSubImpl
<1>11. /\ w \in Number /\ w.sign = r.sign /\ w.alloced = r.alloced /\ w.chars = f
       /\ w.used = IF TakesTop(x, y, n) THEN r.used - 1 ELSE r.used
  <2>1. CASE Borrows(x, y)[n] # 1
    <3>1. w = q
      BY <1>9, <2>1
    <3>2. f = d
      BY <1>3, <1>4, <2>1 DEF DifferenceChars
    <3>3. ~TakesTop(x, y, n)
      BY <2>1 DEF TakesTop
    <3> QED BY <1>8, <3>1, <3>2, <3>3
  <2>2. CASE Borrows(x, y)[n] = 1
    <3>1. PICK stop : stop = BorrowStops(d, n)
      OBVIOUS
    <3>2. PICK g : g = BelowBorrow(d, n)
      OBVIOUS
    <3>3. g = [k \in Index |-> IF k \in n .. stop - 1 THEN Base - 1 ELSE d[k]]
      BY <3>1, <3>2 DEF BelowBorrow
    <3>4. w = Borrowed(q, n)
      BY <1>9, <2>2
    <3>5. w = IF d[stop] = 1 THEN [q EXCEPT !.chars = g, !.used = @ - 1]
              ELSE [q EXCEPT !.chars = [g EXCEPT ![stop] = Minus(@, 1, 0).digit]]
      BY <1>8, <3>1, <3>3, <3>4 DEF Borrowed
    <3>6. TakesTop(x, y, n) <=> d[stop] = 1
      BY <1>3, <2>2, <3>1 DEF TakesTop
    <3>7. CASE d[stop] = 1
      <4>1. w = [q EXCEPT !.chars = g, !.used = q.used - 1]
        BY <3>5, <3>7
      <4>2. f = g
        BY <1>3, <1>4, <2>2, <3>2, <3>6, <3>7 DEF DifferenceChars
      <4>3. r.used - 1 \in Nat
        BY <1>1, <1>2, <3>6, <3>7
      <4> QED BY <1>5, <1>8, <3>6, <3>7, <4>1, <4>2, <4>3 DEF Number
    <3>8. CASE d[stop] # 1
      <4>1. PICK h : h = [g EXCEPT ![stop] = Minus(@, 1, 0).digit]
        OBVIOUS
      <4>2. w = [q EXCEPT !.chars = h]
        BY <3>5, <3>8, <4>1
      <4>3. f = h
        BY <1>3, <1>4, <2>2, <3>1, <3>2, <3>6, <3>8, <4>1 DEF DifferenceChars
      <4> QED BY <1>5, <1>8, <3>6, <3>8, <4>2, <4>3 DEF Number
    <3> QED BY <3>7, <3>8
  <2> QED BY <2>1, <2>2
<1>12. t[a] = w
  BY <1>10
<1> QED BY <1>2, <1>4, <1>10, <1>11, <1>12 DEF Only

LEMMA ZSubImplIs ==
  ASSUME NEW s \in [Var -> Number], NEW a \in Var, NEW b \in Var, NEW n \in Nat, n >= 1,
         Held(s[a]), s[a].sign # 0, n <= s[a].used, Figures(s[b].chars, n),
         s[a].used > n => s[a].chars[s[a].used - 1] # 0,
         Lowest(s[b].chars, n) < Magnitude(s[a]),
         NEW t, t = ZSubImpl(s, a, b, n)
  PROVE  /\ Only(t, s, a) /\ Held(t[a]) /\ t[a].sign = s[a].sign
         /\ Magnitude(t[a]) = Magnitude(s[a]) - Lowest(s[b].chars, n)
              <=> ~Inside(Magnitude(s[a]), Lowest(s[b].chars, n), n)
<1>1. PICK r \in Number : r = s[a]
  OBVIOUS
<1>2. PICK x, y : x = r.chars /\ y = s[b].chars
  OBVIOUS
<1>3. PICK used \in Nat : used = r.used
  BY DEF Number
<1>4. /\ n <= used /\ used <= Room /\ used <= MaxUsed /\ used <= MaxUsed + 1 /\ Figures(x, used)
      /\ Magnitude(r) = Lowest(x, used) /\ used \in 1 .. r.alloced /\ r.sign # 0
      /\ x \in [Index -> Character] /\ (used > n => x[used - 1] # 0)
  BY <1>1, <1>2, <1>3, HeldIs, MostIs DEF Held, Number
<1>5. PICK f, top : f = DifferenceChars(x, y, n) /\ top = IF TakesTop(x, y, n) THEN used - 1 ELSE used
  OBVIOUS
<1>6. /\ top \in 1 .. used /\ Figures(f, top) /\ Lowest(f, top) > 0
      /\ Lowest(f, top) = Lowest(x, used) - Lowest(y, n) <=> ~EndsInside(x, used, y, n)
  <2>1. Figures(y, n) /\ Lowest(y, n) < Lowest(x, used) /\ n \in Nat /\ used \in Nat /\ n >= 1
    BY <1>1, <1>2, <1>4
  <2> QED BY ONLY <1>4, <1>5, <2>1, DifferenceCharsExact
<1>7. used >= 1
  BY <1>4
<1>8. /\ Only(t, s, a) /\ t[a].sign = r.sign /\ t[a].alloced = r.alloced
      /\ t[a].chars = f /\ t[a].used = top
  BY <1>1, <1>2, <1>3, <1>5, <1>7, ZSubImplStores
<1>9. PICK q : q = t[a]
  OBVIOUS
<1>10. q \in Number /\ q.sign = r.sign /\ q.alloced = r.alloced /\ q.chars = f /\ q.used = top
  BY <1>8, <1>9 DEF Only
<1>11. \E i \in 0 .. top - 1 : f[i] # 0
  <2>1. top \in Nat /\ top <= Room
    BY <1>4, <1>6, MostIs
  <2> QED BY <1>6, <2>1, LowestZero
<1>12. Held(q)
  <2>1. top \in 1 .. q.alloced /\ top <= MaxUsed
    <3>1. r.alloced \in Nat
      BY DEF Number
    <3> QED BY <1>4, <1>6, <1>10, <3>1, MostIs
  <2> QED BY <1>6, <1>10, <1>11, <2>1 DEF Held
<1>13. Magnitude(q) = Lowest(f, top)
  BY <1>10 DEF Magnitude
<1>14. EndsInside(x, used, y, n) <=> Inside(Lowest(x, used), Lowest(y, n), n)
  BY DEF EndsInside, Inside
<1> QED BY <1>1, <1>2, <1>4, <1>6, <1>8, <1>9, <1>10, <1>12, <1>13, <1>14

\* It works on a copy of the greater magnitude, and of the smaller one if that is in a.
LEMMA SubFromIs ==
  ASSUME NEW s \in [Var -> Number], NEW a \in Var, NEW big \in Var, NEW small \in Var,
         a # "tmp_sub", big # "tmp_sub", small # "tmp_sub",
         Held(s[big]), Held(s[small]), s[big].sign # 0, s[small].sign # 0,
         s[small].used <= s[big].used,
         s[big].used > s[small].used => s[big].chars[s[big].used - 1] # 0,
         Magnitude(s[small]) < Magnitude(s[big]),
         NEW t, t = SubFrom(s, a, big, small)
  PROVE  /\ t \in [Var -> Number] /\ Held(t[a]) /\ t[a].sign # 0
         /\ \A v \in Var : v \notin {a, "tmp_sub"} => t[v] = s[v]
         /\ Magnitude(t[a]) = Magnitude(s[big]) - Magnitude(s[small])
              <=> ~Inside(Magnitude(s[big]), Magnitude(s[small]), s[small].used)
<1>1. PICK x \in Number, y \in Number : x = s[big] /\ y = s[small] /\ Held(x) /\ Held(y)
  OBVIOUS
<1>2. PICK n \in Nat : n = y.used
  BY DEF Number
<1>3. /\ n >= 1 /\ n <= Room /\ Figures(y.chars, n) /\ Magnitude(y) = Lowest(y.chars, n)
      /\ y.sign # 0 /\ x.sign # 0 /\ n <= x.used
      /\ Magnitude(x) = Lowest(x.chars, x.used) /\ Magnitude(y) < Magnitude(x)
      /\ x.used > n => x.chars[x.used - 1] # 0
  BY <1>1, <1>2, HeldIs, MostIs
<1>4. \* The integers before zsub_impl, and which of them is taken from a.
      ASSUME NEW w \in [Var -> Number], NEW e \in Var, Copy(w[a], x), Copy(w[e], y),
             \A v \in Var : v \notin {a, "tmp_sub"} => w[v] = s[v], t = ZSubImpl(w, a, e, n)
      PROVE  /\ t \in [Var -> Number] /\ Held(t[a]) /\ t[a].sign # 0
             /\ \A v \in Var : v \notin {a, "tmp_sub"} => t[v] = s[v]
             /\ Magnitude(t[a]) = Magnitude(x) - Magnitude(y)
                  <=> ~Inside(Magnitude(x), Magnitude(y), n)
  <2>1. PICK p \in Number, q \in Number : p = w[a] /\ q = w[e]
    OBVIOUS
  <2>2. Copy(p, x) /\ Copy(q, y)
    BY <1>4, <2>1
  <2>3. Held(p) /\ p.sign = x.sign /\ p.used = x.used /\ Magnitude(p) = Magnitude(x)
    BY <1>1, <1>3, <2>2, CopyHeld
  <2>4. Figures(q.chars, n) /\ Lowest(q.chars, n) = Lowest(y.chars, n)
    <3>1. \A i \in 0 .. n - 1 : q.chars[i] = y.chars[i]
      BY <1>2, <1>3, <2>2 DEF Copy
    <3> QED BY <1>3, <3>1, LowestAgrees DEF Figures
  <2>5. p.used > n => p.chars[p.used - 1] # 0
    <3> SUFFICES ASSUME p.used > n PROVE p.chars[p.used - 1] # 0
      OBVIOUS
    <3>1. p.used \in Nat
      BY DEF Number
    <3>2. p.used - 1 \in 0 .. x.used - 1
      BY <2>3, <3>1
    <3>3. p.chars[x.used - 1] = x.chars[x.used - 1]
      BY <1>3, <2>2, <2>3, <3>2 DEF Copy
    <3> QED BY <1>3, <2>3, <3>3
  <2>6. PICK r : r = t[a]
    OBVIOUS
  <2>7. /\ Only(t, w, a) /\ Held(r) /\ r.sign = p.sign
        /\ Magnitude(r) = Magnitude(p) - Lowest(q.chars, n)
             <=> ~Inside(Magnitude(p), Lowest(q.chars, n), n)
    <3>1. /\ Held(w[a]) /\ w[a].sign # 0 /\ n <= w[a].used /\ Figures(w[e].chars, n)
          /\ w[a].used > n => w[a].chars[w[a].used - 1] # 0
          /\ Lowest(w[e].chars, n) < Magnitude(w[a])
      BY <1>3, <2>1, <2>3, <2>4, <2>5
    <3>2. /\ Only(t, w, a) /\ Held(t[a]) /\ t[a].sign = w[a].sign
          /\ Magnitude(t[a]) = Magnitude(w[a]) - Lowest(w[e].chars, n)
               <=> ~Inside(Magnitude(w[a]), Lowest(w[e].chars, n), n)
      BY ONLY <1>3, <1>4, <3>1, ZSubImplIs
    <3> QED BY <2>1, <2>6, <3>2
  <2>8. /\ Magnitude(r) = Magnitude(x) - Magnitude(y) <=> ~Inside(Magnitude(x), Magnitude(y), n)
    BY <1>3, <2>3, <2>4, <2>7
  <2> QED BY <1>3, <1>4, <2>3, <2>6, <2>7, <2>8 DEF Only
<1>5. CASE a = small
  <2>1. PICK u : u = ZSet(s, "tmp_sub", small)
    OBVIOUS
  <2>2. "tmp_sub" \in Var
    BY DEF Var
  <2>3. Only(u, s, "tmp_sub") /\ Copy(u["tmp_sub"], y)
    BY <1>1, <2>1, <2>2, ZSetIs
  <2>4. u \in [Var -> Number] /\ u[big] = x /\ Held(u[big])
    BY <1>1, <2>3 DEF Only
  <2>5. PICK w : w = SetUnlessSame(u, a, big)
    OBVIOUS
  <2>6. Only(w, u, a) /\ Copy(w[a], x)
    BY <2>4, <2>5, UnlessSameIs
  <2>7. w \in [Var -> Number] /\ w["tmp_sub"] = u["tmp_sub"]
        /\ \A v \in Var : v \notin {a, "tmp_sub"} => w[v] = s[v]
    BY <2>2, <2>3, <2>6 DEF Only
  <2>8. t = ZSubImpl(w, a, "tmp_sub", n)
    BY <1>1, <1>2, <1>5, <2>1, <2>5 DEF SubFrom
  <2>9. Copy(w["tmp_sub"], y)
    BY <2>3, <2>7
  <2> QED BY <1>1, <1>2, <1>4, <2>2, <2>6, <2>7, <2>8, <2>9
<1>6. CASE a # small
  <2>1. PICK w : w = SetUnlessSame(s, a, big)
    OBVIOUS
  <2>2. Only(w, s, a) /\ Copy(w[a], x)
    BY <1>1, <2>1, UnlessSameIs
  <2>3. w \in [Var -> Number] /\ w[small] = y
        /\ \A v \in Var : v \notin {a, "tmp_sub"} => w[v] = s[v]
    BY <1>1, <1>6, <2>2 DEF Only
  <2>4. t = ZSubImpl(w, a, small, n)
    BY <1>2, <1>6, <2>1, <1>1 DEF SubFrom
  <2>5. Copy(w[small], y)
    <3>1. y.alloced \in Nat /\ y.used \in 1 .. y.alloced
      BY <1>1, <1>3 DEF Held, Number
    <3>2. y.used <= y.alloced
      BY <3>1
    <3> QED BY <2>3, <3>2 DEF Copy
  <2> QED BY <1>1, <1>2, <1>4, <2>2, <2>3, <2>4, <2>5
<1> QED BY <1>5, <1>6

\* A comparison leaves the longer magnitude without zeros above it.
LEMMA ComparedOrder ==
  ASSUME NEW s \in [Var -> Number], NEW x \in Var, NEW y \in Var, Held(s[x]), Held(s[y]),
         s[x].sign # 0, s[y].sign # 0, NEW t, t = Compared(s, x, y),
         Magnitude(s[y]) < Magnitude(s[x])
  PROVE  /\ t[y].used <= t[x].used
         /\ t[x].used > t[y].used => t[x].chars[t[x].used - 1] # 0
<1>1. /\ Trimmed(t[x], s[x]) /\ Trimmed(t[y], s[y])
      /\ t[x].used > t[y].used => t[x].chars[t[x].used - 1] # 0
      /\ t[y].used > t[x].used => t[y].chars[t[y].used - 1] # 0
  BY ComparedIs
<1>2. PICK p, q : p = t[x] /\ q = t[y]
  OBVIOUS
<1>3. Held(p) /\ Held(q) /\ p.sign # 0 /\ q.sign # 0 /\ Magnitude(q) < Magnitude(p)
  BY <1>1, <1>2 DEF Trimmed
<1>4. PICK m \in Nat, n \in Nat : m = p.used /\ n = q.used
  BY <1>3, HeldIs
<1>5. n <= m
  <2> SUFFICES ASSUME n > m PROVE FALSE
    BY <1>4
  <2>1. /\ n < Room /\ n >= 1 /\ n <= Room /\ Figures(q.chars, n) /\ Magnitude(q) = Lowest(q.chars, n)
        /\ Magnitude(p) < Place(m) /\ Magnitude(p) \in Nat
    BY <1>3, <1>4, HeldIs, MostIs
  <2>2. PICK k \in Nat : k = n - 1 /\ k < Room /\ k + 1 = n /\ m <= k
    BY <2>1, MostIs
  <2>3. q.chars[k] # 0
    BY <1>1, <1>2, <1>4, <2>2
  <2>4. Lowest(q.chars, k + 1) >= Place(k)
    BY <2>1, <2>2, <2>3, LowestTop
  <2>5. PICK l \in Nat, c \in Nat : l = Place(m) /\ c = Place(k) /\ l <= c
    BY <2>2, PlaceMonotone, Places
  <2>6. PICK v \in Nat, w \in Nat : v = Magnitude(p) /\ w = Magnitude(q)
    BY <1>3, HeldIs
  <2> QED BY <1>3, <2>1, <2>2, <2>4, <2>5, <2>6
<1> QED BY <1>1, <1>2, <1>4, <1>5

\* What names the differences that are wrong, by the magnitudes.
LEMMA InsideIs ==
  ASSUME NEW s \in [Var -> Number], NEW x \in Var, NEW y \in Var, Held(s[x]), Held(s[y]),
         NEW t, t = Compared(s, x, y),
         NEW v, v = Magnitude(s[x]), NEW w, w = Magnitude(s[y])
  PROVE  BorrowEndsInside(s, x, y)
           <=> /\ s[x].sign # 0 /\ s[y].sign # 0
               /\ \/ w < v /\ Inside(v, w, t[y].used)
                  \/ v < w /\ Inside(w, v, t[x].used)
<1>1. CASE s[x].sign = 0 \/ s[y].sign = 0
  BY <1>1 DEF BorrowEndsInside
<1>2. CASE s[x].sign # 0 /\ s[y].sign # 0
  <2>1. PICK m \in Nat, n \in Nat : m = v /\ n = w /\ m > 0 /\ n > 0
    BY <1>2, HeldIs
  <2>2. Trimmed(t[x], s[x]) /\ Trimmed(t[y], s[y])
    BY ComparedIs
  <2>3. Magnitude(t[x]) = m /\ Magnitude(t[y]) = n
    BY <1>2, <2>1, <2>2 DEF Trimmed
  <2>4. ZCmpMag(s, x, y) = Sign(m - n)
    <3>1. AbsOf(Value(s[x])) = m /\ AbsOf(Value(s[y])) = n
      BY <1>2, <2>1, AbsIs
    <3> QED BY <3>1, ZCmpMagIs
  <2>5. t[x].used \in Nat /\ t[y].used \in Nat
    BY <2>2, HeldIs DEF Trimmed
  <2>6. \A k \in Nat : Power(Base, k) = Place(k)
    BY Places
  <2>7. CASE n < m
    <3>1. ZCmpMag(s, x, y) > 0
      <4>1. Sign(m - n) = 1
        BY <2>7 DEF Sign
      <4> QED BY <2>4, <4>1
    <3>2. BorrowEndsInside(s, x, y)
            <=> /\ Magnitude(t[x]) % Power(Base, t[y].used) < Magnitude(t[y])
                /\ OneInside(Magnitude(t[x]) \div Power(Base, t[y].used))
      BY <1>2, <3>1, Zenon DEF BorrowEndsInside, OneInside
    <3>3. BorrowEndsInside(s, x, y) <=> Inside(m, n, t[y].used)
      BY <2>3, <2>5, <2>6, <3>2 DEF Inside
    <3>4. ~(m < n)
      BY <2>7
    <3> QED BY <1>2, <2>1, <2>7, <3>3, <3>4
  <2>8. CASE ~(n < m)
    <3>1. ~(ZCmpMag(s, x, y) > 0)
      <4>1. Sign(m - n) = 0 \/ Sign(m - n) = -1
        BY <2>8 DEF Sign
      <4> QED BY <2>4, <4>1
    <3>2. CASE x # y
      <4>1. BorrowEndsInside(s, x, y)
              <=> /\ Magnitude(t[y]) % Power(Base, t[x].used) < Magnitude(t[x])
                  /\ OneInside(Magnitude(t[y]) \div Power(Base, t[x].used))
        BY <1>2, <3>1, <3>2, Zenon DEF BorrowEndsInside, OneInside
      <4>2. BorrowEndsInside(s, x, y) <=> Inside(n, m, t[x].used)
        BY <2>3, <2>5, <2>6, <4>1 DEF Inside
      <4>3. CASE m < n
        BY <1>2, <2>1, <2>8, <4>2, <4>3
      <4>4. CASE m = n
        <5>1. PICK p \in Nat : p = Place(t[x].used) /\ p > 0 /\ m < p
          <6>1. Magnitude(t[x]) < Place(t[x].used)
            BY <1>2, <2>2, HeldIs DEF Trimmed
          <6> QED BY <2>3, <2>5, <6>1, Places
        <5>2. n % p = n
          BY <5>1, <4>4, QuotientIs
        <5>3. ~Inside(n, m, t[x].used)
          BY <4>4, <5>1, <5>2 DEF Inside
        <5> QED BY <2>1, <4>2, <4>4, <5>3
      <4> QED BY <2>1, <2>8, <4>3, <4>4
    <3>3. CASE x = y
      <4>1. BorrowEndsInside(s, x, y)
              => Magnitude(t[y]) % Power(Base, t[y].used) < Magnitude(t[y])
        BY <3>3, Zenon DEF BorrowEndsInside
      <4>2. PICK p \in Nat : p = Place(t[y].used) /\ p > 0 /\ n < p
        <5>1. Magnitude(t[y]) < Place(t[y].used)
          BY <1>2, <2>2, HeldIs DEF Trimmed
        <5> QED BY <2>3, <2>5, <5>1, Places
      <4>3. n % p = n
        BY <4>2, QuotientIs
      <4>4. ~BorrowEndsInside(s, x, y)
        BY <2>3, <2>5, <2>6, <4>1, <4>2, <4>3
      <4> QED BY <2>1, <3>3, <4>4
    <3> QED BY <3>2, <3>3
  <2> QED BY <2>1, <2>7, <2>8
<1> QED BY <1>1, <1>2

LEMMA InsideSymmetric ==
  ASSUME NEW s \in [Var -> Number], NEW x \in Var, NEW y \in Var, Held(s[x]), Held(s[y])
  PROVE  BorrowEndsInside(s, x, y) <=> BorrowEndsInside(s, y, x)
<1>1. Compared(s, x, y) = Compared(s, y, x)
  <2>1. CASE x = y
    BY <2>1
  <2>2. CASE x # y
    BY <2>2 DEF Compared
  <2> QED BY <2>1, <2>2
<1>2. PICK t : t = Compared(s, x, y)
  OBVIOUS
<1>3. PICK v, w : v = Magnitude(s[x]) /\ w = Magnitude(s[y])
  OBVIOUS
<1>4. BorrowEndsInside(s, x, y)
           <=> /\ s[x].sign # 0 /\ s[y].sign # 0
               /\ \/ w < v /\ Inside(v, w, t[y].used)
                  \/ v < w /\ Inside(w, v, t[x].used)
  BY <1>2, <1>3, InsideIs
<1>5. BorrowEndsInside(s, y, x)
           <=> /\ s[y].sign # 0 /\ s[x].sign # 0
               /\ \/ v < w /\ Inside(w, v, t[x].used)
                  \/ w < v /\ Inside(v, w, t[y].used)
  BY <1>1, <1>2, <1>3, InsideIs
<1> QED BY <1>4, <1>5

\* A change of sign is a change of sign.
LEMMA NegatedValue ==
  ASSUME NEW s \in [Var -> Number], NEW a \in Var, s[a].used <= Room, NEW v \in Int,
         NEW t, t = Negated(s, a)
  PROVE  /\ Only(t, s, a) /\ (Is(t[a], -v) <=> Is(s[a], v)) /\ (Held(s[a]) => Held(t[a]))
         /\ t[a].used = s[a].used /\ (Legal(t[a]) <=> Legal(s[a]))
<1>1. PICK r \in Number : r = s[a]
  OBVIOUS
<1>2. PICK q : q = t[a]
  OBVIOUS
<1>3. Only(t, s, a) /\ -r.sign \in {-1, 0, 1} /\ q = [r EXCEPT !.sign = -r.sign]
  BY <1>1, <1>2, NegatedIs
<1>4. PICK g \in {-1, 0, 1}, h \in {-1, 0, 1} : g = r.sign /\ h = -g /\ h = -r.sign
  BY <1>3 DEF Number
<1>5. g = 0 <=> h = 0
  BY <1>4
<1>6. q \in Number /\ q.sign = h /\ q.used = r.used /\ q.alloced = r.alloced /\ q.chars = r.chars
  BY <1>3, <1>4 DEF Number
<1>7. Legal(q) <=> Legal(r)
  BY <1>4, <1>5, <1>6 DEF Legal
<1>8. Held(r) => Held(q)
  BY <1>4, <1>5, <1>6 DEF Held
<1>9. Legal(r) => (Value(q) = -v <=> Value(r) = v)
  <2>1. CASE g = 0
    <3>1. Value(r) = 0 /\ Value(q) = 0
      BY <1>4, <1>5, <1>6, <2>1 DEF Value
    <3> QED BY <3>1
  <2>2. CASE g # 0
    <3> SUFFICES ASSUME Legal(r) PROVE Value(q) = -v <=> Value(r) = v
      OBVIOUS
    <3>1. Figures(r.chars, r.used) /\ r.used \in Nat
      BY <1>4, <2>2 DEF Legal, Figures, Number
    <3>2. PICK m \in Nat : m = Magnitude(r) /\ m = Magnitude(q)
      BY <1>1, <1>6, <3>1, LowestType DEF Magnitude
    <3>3. Value(r) = g * m /\ Value(q) = h * m
      BY <1>4, <1>5, <1>6, <2>2, <3>2 DEF Value
    <3> QED BY <1>4, <3>2, <3>3
  <2> QED BY <2>1, <2>2
<1> QED BY <1>1, <1>2, <1>3, <1>6, <1>7, <1>8, <1>9 DEF Is

------------------------------------------------------------------------------
(* The subtractions of magnitudes.                                           *)

\* What a routine with the result a leaves: nothing else changes its value.
Leaves(t, s, a) ==
  /\ t \in [Var -> Number]
  /\ \A v \in Var : v \notin {a, "tmp_sub"} /\ Held(s[v]) => Held(t[v]) /\ Value(t[v]) = Value(s[v])

\* Setting a sign that is not zero.
LEMMA SignValue ==
  ASSUME NEW s \in [Var -> Number], NEW a \in Var, Held(s[a]), s[a].sign # 0,
         NEW sign \in {-1, 1}, NEW v \in Int, NEW t, t = SetSign(s, a, sign)
  PROVE  /\ Only(t, s, a) /\ Held(t[a])
         /\ Is(t[a], sign * v) <=> Magnitude(s[a]) = v
<1>1. PICK r, q : r \in Number /\ r = s[a] /\ q = t[a]
  OBVIOUS
<1>2. Only(t, s, a) /\ q = [r EXCEPT !.sign = sign]
  <2>1. sign \in {-1, 0, 1}
    OBVIOUS
  <2>2. t = [s EXCEPT ![a] = [r EXCEPT !.sign = sign]]
    BY <1>1 DEF SetSign
  <2>3. [r EXCEPT !.sign = sign] \in Number
    BY <1>1, <2>1 DEF Number
  <2> QED BY <1>1, <2>2, <2>3 DEF Only
<1>3. Held(q) /\ Value(q) = sign * Magnitude(r)
  BY <1>1, <1>2, SignedIs
<1>4. PICK m \in Nat : m = Magnitude(r)
  BY <1>1, HeldIs
<1>5. Is(q, sign * v) <=> sign * m = sign * v
  BY <1>3, <1>4, HeldIs DEF Is
<1> QED BY <1>1, <1>2, <1>3, <1>4, <1>5

LEMMA ZeroSigned ==
  ASSUME NEW s \in [Var -> Number], NEW a \in Var, NEW t, t = SetSign(s, a, 0)
  PROVE  Only(t, s, a) /\ Is(t[a], 0) /\ Held(t[a])
<1>1. PICK r, q : r \in Number /\ r = s[a] /\ q = t[a]
  OBVIOUS
<1>2. Only(t, s, a) /\ q = [r EXCEPT !.sign = 0]
  BY <1>1, SetSignIs
<1>3. q \in Number /\ q.sign = 0 /\ Value(q) = 0 /\ Legal(q)
  BY <1>1, <1>2, SignedIs
<1> QED BY <1>1, <1>2, <1>3 DEF Is, Held

LEMMA OnlyLeaves ==
  ASSUME NEW s \in [Var -> Number], NEW a, NEW t, Only(t, s, a)
  PROVE  Leaves(t, s, a)
BY DEF Only, Leaves

\* The difference of two magnitudes that are not zero.
LEMMA SubtractIs ==
  ASSUME NEW s \in [Var -> Number], NEW a \in Var, NEW b \in Var, NEW c \in Var,
         a # "tmp_sub", b # "tmp_sub", c # "tmp_sub", Held(s[b]), Held(s[c]),
         s[b].sign # 0, s[c].sign # 0, NEW t, t = ZSubUnsigned(s, a, b, c)
  PROVE  /\ Leaves(t, s, a) /\ Held(t[a])
         /\ Is(t[a], Magnitude(s[b]) - Magnitude(s[c])) <=> ~BorrowEndsInside(s, b, c)
<1>1. PICK v \in Nat, w \in Nat : v = Magnitude(s[b]) /\ w = Magnitude(s[c]) /\ v > 0 /\ w > 0
  BY HeldIs
<1>2. PICK p : p = Compared(s, b, c)
  OBVIOUS
<1>3. /\ p \in [Var -> Number] /\ \A k \in Var : k \notin {b, c} => p[k] = s[k]
      /\ Trimmed(p[b], s[b]) /\ Trimmed(p[c], s[c])
  BY <1>2, ComparedIs
<1>4. /\ Held(p[b]) /\ Held(p[c]) /\ p[b].sign # 0 /\ p[c].sign # 0
      /\ Magnitude(p[b]) = v /\ Magnitude(p[c]) = w
  BY <1>1, <1>3 DEF Trimmed
<1>5. \A k \in Var : Held(s[k]) => Held(p[k]) /\ Value(p[k]) = Value(s[k])
  BY <1>3 DEF Trimmed
<1>6. ZCmpMag(s, b, c) = Sign(v - w)
  <2>1. AbsOf(Value(s[b])) = v /\ AbsOf(Value(s[c])) = w
    BY <1>1, AbsIs
  <2> QED BY <2>1, ZCmpMagIs
<1>7. BorrowEndsInside(s, b, c)
        <=> \/ w < v /\ Inside(v, w, p[c].used)
            \/ v < w /\ Inside(w, v, p[b].used)
  BY <1>1, <1>2, InsideIs
<1>8. CASE v = w
  <2>1. ZCmpMag(s, b, c) = 0
    <3>1. Sign(v - w) = 0
      BY <1>8 DEF Sign
    <3> QED BY <1>6, <3>1
  <2>2. t = SetSign(p, a, 0)
    BY <1>2, <2>1 DEF ZSubUnsigned
  <2>3. Only(t, p, a) /\ Is(t[a], 0) /\ Held(t[a])
    BY <1>3, <2>2, ZeroSigned
  <2>4. v - w = 0 /\ ~BorrowEndsInside(s, b, c)
    BY <1>7, <1>8
  <2>5. Leaves(t, s, a)
    BY <1>5, <2>3 DEF Only, Leaves
  <2> QED BY <1>1, <2>3, <2>4, <2>5
<1>9. CASE v < w
  <2>1. ZCmpMag(s, b, c) < 0 /\ ZCmpMag(s, b, c) # 0 /\ ~(ZCmpMag(s, b, c) > 0)
    <3>1. Sign(v - w) = -1
      BY <1>9 DEF Sign
    <3> QED BY <1>6, <3>1
  <2>2. PICK u : u = SubFrom(p, a, c, b)
    OBVIOUS
  <2>3. t = SetSign(u, a, -1)
    BY <1>2, <2>1, <2>2 DEF ZSubUnsigned
  <2>4. /\ p[b].used <= p[c].used
        /\ p[c].used > p[b].used => p[c].chars[p[c].used - 1] # 0
    <3>1. p = Compared(s, c, b)
      <4>1. CASE c = b
        BY <1>2, <4>1
      <4>2. CASE c # b
        BY <1>2, <4>2 DEF Compared
      <4> QED BY <4>1, <4>2
    <3> QED BY <1>1, <1>9, <3>1, ComparedOrder
  <2>5. /\ u \in [Var -> Number] /\ Held(u[a]) /\ u[a].sign # 0
        /\ \A k \in Var : k \notin {a, "tmp_sub"} => u[k] = p[k]
        /\ Magnitude(u[a]) = Magnitude(p[c]) - Magnitude(p[b])
             <=> ~Inside(Magnitude(p[c]), Magnitude(p[b]), p[b].used)
    <3>1. Magnitude(p[b]) < Magnitude(p[c])
      BY <1>4, <1>9
    <3> QED BY <1>3, <1>4, <2>2, <2>4, <3>1, SubFromIs
  <2>6. /\ Only(t, u, a) /\ Held(t[a])
        /\ Is(t[a], -1 * (w - v)) <=> Magnitude(u[a]) = w - v
    <3>1. -1 \in {-1, 1} /\ w - v \in Int
      OBVIOUS
    <3> QED BY ONLY <2>3, <2>5, <3>1, a \in Var, SignValue
  <2>7. -1 * (w - v) = v - w
    OBVIOUS
  <2>8. Leaves(t, s, a)
    BY <1>5, <2>5, <2>6 DEF Only, Leaves
  <2>9. ~(w < v)
    BY <1>9
  <2>10. Inside(w, v, p[b].used) <=> BorrowEndsInside(s, b, c)
    BY <1>7, <1>9, <2>9
  <2>11. Is(t[a], v - w) <=> ~BorrowEndsInside(s, b, c)
    BY <1>4, <2>5, <2>6, <2>7, <2>10
  <2> QED BY <1>1, <2>6, <2>8, <2>11
<1>10. CASE w < v
  <2>1. ZCmpMag(s, b, c) > 0 /\ ~(ZCmpMag(s, b, c) < 0) /\ ZCmpMag(s, b, c) # 0
    <3>1. Sign(v - w) = 1
      BY <1>10 DEF Sign
    <3> QED BY <1>6, <3>1
  <2>2. PICK u : u = SubFrom(p, a, b, c)
    OBVIOUS
  <2>3. t = SetSign(u, a, 1)
    BY <1>2, <2>1, <2>2 DEF ZSubUnsigned
  <2>4. /\ p[c].used <= p[b].used
        /\ p[b].used > p[c].used => p[b].chars[p[b].used - 1] # 0
    BY <1>1, <1>2, <1>10, ComparedOrder
  <2>5. /\ u \in [Var -> Number] /\ Held(u[a]) /\ u[a].sign # 0
        /\ \A k \in Var : k \notin {a, "tmp_sub"} => u[k] = p[k]
        /\ Magnitude(u[a]) = Magnitude(p[b]) - Magnitude(p[c])
             <=> ~Inside(Magnitude(p[b]), Magnitude(p[c]), p[c].used)
    <3>1. Magnitude(p[c]) < Magnitude(p[b])
      BY <1>4, <1>10
    <3> QED BY <1>3, <1>4, <2>2, <2>4, <3>1, SubFromIs
  <2>6. /\ Only(t, u, a) /\ Held(t[a])
        /\ Is(t[a], 1 * (v - w)) <=> Magnitude(u[a]) = v - w
    BY <2>3, <2>5, SignValue
  <2>7. 1 * (v - w) = v - w
    OBVIOUS
  <2>8. Leaves(t, s, a)
    BY <1>5, <2>5, <2>6 DEF Only, Leaves
  <2>9. ~(v < w)
    BY <1>10
  <2>10. Inside(v, w, p[c].used) <=> BorrowEndsInside(s, b, c)
    BY <1>7, <1>10, <2>9
  <2>11. Is(t[a], v - w) <=> ~BorrowEndsInside(s, b, c)
    BY <1>4, <2>5, <2>6, <2>7, <2>10
  <2> QED BY <1>1, <2>6, <2>8, <2>11
<1> QED BY <1>8, <1>9, <1>10

\* zsub_unsigned, of the integers zadd and zsub give it too.
LEMMA ZSubUnsignedIs ==
  ASSUME NEW s \in [Var -> Number], NEW a \in Var, NEW b \in Var, NEW c \in Var,
         a # "tmp_sub", b # "tmp_sub", c # "tmp_sub", Held(s[b]), Held(s[c]),
         NEW t, t = ZSubUnsigned(s, a, b, c)
  PROVE  /\ Leaves(t, s, a) /\ Held(t[a])
         /\ Is(t[a], AbsOf(Value(s[b])) - AbsOf(Value(s[c]))) <=> ~BorrowEndsInside(s, b, c)
<1>1. PICK v \in Nat, w \in Nat : v = AbsOf(Value(s[b])) /\ w = AbsOf(Value(s[c]))
  BY AbsIs
<1>2. CASE s[b].sign = 0
  <2>1. PICK u : u = ZAbs(s, a, c)
    OBVIOUS
  <2>2. Only(u, s, a) /\ Is(u[a], w) /\ Held(u[a])
    BY <1>1, <2>1, ZAbsIs
  <2>3. u \in [Var -> Number] /\ u[a].used \in Nat
    BY <2>2 DEF Only, Number
  <2>4. t = Negated(u, a)
    BY <1>2, <2>1 DEF ZSubUnsigned
  <2>5. v = 0
    BY <1>1, <1>2, AbsIs
  <2>6. ~BorrowEndsInside(s, b, c)
    BY <1>2 DEF BorrowEndsInside
  <2>7. 0 - w = -w
    OBVIOUS
  <2>8. CASE u[a].sign # 0
    <3>1. u[a].used <= Room
      BY <2>2, <2>8, HeldIs, MostIs
    <3>2. Only(t, u, a) /\ Is(t[a], -w) /\ Held(t[a])
      <4>1. w \in Int
        OBVIOUS
      <4>2. Only(t, u, a) /\ (Is(t[a], -w) <=> Is(u[a], w)) /\ (Held(u[a]) => Held(t[a]))
        BY ONLY <2>3, <2>4, <3>1, <4>1, a \in Var, NegatedValue
      <4> QED BY <2>2, <4>2
    <3>3. Leaves(t, s, a)
      BY <2>2, <3>2 DEF Only, Leaves
    <3> QED BY <1>1, <2>5, <2>6, <2>7, <3>2, <3>3
  <2>9. CASE u[a].sign = 0
    <3>1. PICK r, q : r \in Number /\ r = u[a] /\ q = t[a]
      BY <2>3
    <3>2. Only(t, u, a) /\ q = [r EXCEPT !.sign = -r.sign] /\ -r.sign \in {-1, 0, 1}
      BY <2>3, <2>4, <3>1, NegatedIs
    <3>3. -r.sign = 0
      <4>1. \A k \in Int : 0 - k = -k
        OBVIOUS
      <4>2. 0 - r.sign = 0 /\ r.sign \in Int
        BY <2>9, <3>1
      <4> QED BY <4>1, <4>2
    <3>4. q \in Number /\ q.sign = 0 /\ Value(q) = 0 /\ Legal(q)
      BY <3>1, <3>2, <3>3, SignedIs
    <3>5. w = 0
      BY <2>2, <2>9 DEF Is, Value
    <3>6. Leaves(t, s, a)
      BY <2>2, <3>2 DEF Only, Leaves
    <3>7. Held(q) /\ Is(q, 0 - w)
      BY <3>4, <3>5 DEF Held, Is
    <3> QED BY <1>1, <2>5, <2>6, <3>1, <3>6, <3>7
  <2> QED BY <2>8, <2>9
<1>3. CASE s[b].sign # 0 /\ s[c].sign = 0
  <2>1. t = ZAbs(s, a, b)
    BY <1>3 DEF ZSubUnsigned
  <2>2. Only(t, s, a) /\ Is(t[a], v) /\ Held(t[a])
    BY <1>1, <2>1, ZAbsIs
  <2>3. w = 0 /\ v - w = v
    BY <1>1, <1>3, AbsIs
  <2>4. ~BorrowEndsInside(s, b, c)
    BY <1>3 DEF BorrowEndsInside
  <2> QED BY <1>1, <2>2, <2>3, <2>4, OnlyLeaves
<1>4. CASE s[b].sign # 0 /\ s[c].sign # 0
  <2>1. v = Magnitude(s[b]) /\ w = Magnitude(s[c])
    BY <1>1, <1>4, AbsIs
  <2> QED BY <1>1, <1>4, <2>1, SubtractIs
<1> QED BY <1>2, <1>3, <1>4

\* In place, of magnitudes that were compared.
LEMMA AssignedIs ==
  ASSUME NEW s \in [Var -> Number], NEW x \in Var, NEW y \in Var, x # y,
         x # "tmp_sub", y # "tmp_sub", Held(s[x]), Held(s[y]), s[x].sign = 1, s[y].sign = 1,
         Value(s[y]) < Value(s[x]), NEW p, p = Compared(s, x, y),
         NEW t, t = ZSubImpl(p, x, y, p[y].used)
  PROVE  /\ Leaves(t, s, x) /\ Held(t[x])
         /\ Is(t[x], Value(s[x]) - Value(s[y])) <=> ~BorrowEndsInside(s, x, y)
<1>1. PICK v \in Nat, w \in Nat : /\ v = Magnitude(s[x]) /\ w = Magnitude(s[y]) /\ v > 0 /\ w > 0
                                  /\ v = Value(s[x]) /\ w = Value(s[y]) /\ w < v
  BY HeldIs
<1>2. /\ p \in [Var -> Number] /\ \A k \in Var : k \notin {x, y} => p[k] = s[k]
      /\ Trimmed(p[x], s[x]) /\ Trimmed(p[y], s[y])
  BY ComparedIs
<1>3. /\ Held(p[x]) /\ Held(p[y]) /\ p[x].sign = 1 /\ p[y].sign = 1
      /\ Magnitude(p[x]) = v /\ Magnitude(p[y]) = w
  BY <1>1, <1>2 DEF Trimmed
<1>4. \A k \in Var : Held(s[k]) => Held(p[k]) /\ Value(p[k]) = Value(s[k])
  BY <1>2 DEF Trimmed
<1>5. /\ p[y].used <= p[x].used
      /\ p[x].used > p[y].used => p[x].chars[p[x].used - 1] # 0
  <2>1. s[x].sign # 0 /\ s[y].sign # 0 /\ Magnitude(s[y]) < Magnitude(s[x])
    BY <1>1
  <2> QED BY <2>1, ComparedOrder
<1>6. PICK n \in Nat : n = p[y].used /\ n >= 1 /\ Figures(p[y].chars, n) /\ w = Lowest(p[y].chars, n)
  BY <1>3, HeldIs
<1>7. /\ Only(t, p, x) /\ Held(t[x]) /\ t[x].sign = p[x].sign
      /\ Magnitude(t[x]) = Magnitude(p[x]) - Lowest(p[y].chars, n)
           <=> ~Inside(Magnitude(p[x]), Lowest(p[y].chars, n), n)
  <2>1. /\ Held(p[x]) /\ p[x].sign # 0 /\ n <= p[x].used
        /\ p[x].used > n => p[x].chars[p[x].used - 1] # 0
        /\ Lowest(p[y].chars, n) < Magnitude(p[x]) /\ t = ZSubImpl(p, x, y, n)
    BY <1>1, <1>3, <1>5, <1>6
  <2> QED BY <1>2, <1>6, <2>1, ZSubImplIs
<1>8. Magnitude(t[x]) = v - w <=> ~Inside(v, w, n)
  BY <1>3, <1>6, <1>7
<1>9. Value(t[x]) = Magnitude(t[x]) /\ Legal(t[x])
  BY <1>3, <1>7, HeldIs
<1>10. BorrowEndsInside(s, x, y) <=> Inside(v, w, n)
  <2>1. ~(v < w)
    BY <1>1
  <2>2. BorrowEndsInside(s, x, y)
           <=> /\ s[x].sign # 0 /\ s[y].sign # 0
               /\ \/ w < v /\ Inside(v, w, p[y].used)
                  \/ v < w /\ Inside(w, v, p[x].used)
    BY <1>1, InsideIs
  <2> QED BY <1>1, <1>6, <2>1, <2>2
<1>11. Leaves(t, s, x)
  BY <1>4, <1>7 DEF Only, Leaves
<1> QED BY <1>1, <1>7, <1>8, <1>9, <1>10, <1>11 DEF Is

------------------------------------------------------------------------------
(* zadd_impl, and what calls it.                                             *)

LEMMA ZAddImplStores ==
  ASSUME NEW s \in [Var -> Number], NEW a \in Var, NEW b \in Var, NEW c \in Var, NEW n \in Nat,
         NEW r, r = s[a], NEW x, x = s[b].chars, NEW y, y = s[c].chars,
         NEW last \in Nat, last = SumUsed(r.chars, x, y, n), NEW t, t = ZAddImpl(s, a, b, c, n)
  PROVE  /\ Only(t, s, a) /\ t[a].sign = r.sign /\ t[a].alloced = r.alloced
         /\ t[a].chars = SumChars(r.chars, x, y, n) /\ t[a].used = Largest(r.used, last)
<1>1. r \in Number /\ r.chars \in [Index -> Character] /\ r.used \in Nat
  BY DEF Number
<1>2. PICK d : d = r.chars
  OBVIOUS
<1>3. PICK f : f = SumChars(d, x, y, n)
  OBVIOUS
<1>4. f \in [Index -> Character]
  BY ONLY <1>1, <1>2, <1>3, SumType
<1>5. PICK u \in Nat : u = Largest(r.used, last)
  BY <1>1 DEF Largest
<1>6. PICK q : q = [r EXCEPT !.chars = f, !.used = u]
  OBVIOUS
<1>7. q \in Number /\ q.sign = r.sign /\ q.alloced = r.alloced /\ q.chars = f /\ q.used = u
  BY <1>1, <1>4, <1>6 DEF Number
<1>8. PICK e, carry, end :
        /\ e = AddChars(d, x, y, n) /\ carry = (Carries(x, y)[n] = 1)
        /\ end = IF carry THEN CarryStops(e, n) + 1 ELSE n
  OBVIOUS
<1>9. end = last
  BY <1>2, <1>8 DEF SumUsed
<1>10. f = IF carry THEN Carried(e, n) ELSE e
  BY <1>3, <1>8 DEF SumChars
<1>11. t = [s EXCEPT ![a].chars = IF carry THEN Carried(e, n) ELSE e,
                     ![a].used  = Largest(@, end)]
  BY <1>2, <1>8 DEF ZAddImpl
<1>12. t = [s EXCEPT ![a] = q]
  BY <1>1, <1>5, <1>6, <1>9, <1>10, <1>11
<1>13. t[a] = q
  BY <1>12
<1> QED BY <1>2, <1>3, <1>5, <1>7, <1>12, <1>13 DEF Only

\* What is above n characters, of another integer.
LEMMA UpperAgrees ==
  ASSUME NEW u, NEW f, NEW g, NEW from, NEW n, Upper(u, f, from, n),
         \A i \in from .. n - 1 : g[i] = f[i]
  PROVE  Upper(u, g, from, n)
BY DEF Upper

\* What zadd_impl is called with: n characters of b and c, and characters of a above
\* them that make total with these, or a character more if there is one for the carry.
Summed(s, a, b, c, n, size, u, total) ==
  /\ n <= size /\ size < Room /\ size >= 1
  /\ Figures(s[b].chars, n) /\ Figures(s[c].chars, n)
  /\ \A i \in n .. size - 1 : s[a].chars[i] \in Digit
  /\ Upper(u, s[a].chars, n, size)
  /\ s[a].chars[size] = 0 \/ s[a].chars[size] \notin Digit
  /\ total > 0 /\ total = Lowest(s[b].chars, n) + Lowest(s[c].chars, n) + Place(n) * u
  /\ size + 1 <= s[a].alloced /\ s[a].used <= size /\ (s[a].used = size \/ n = size)

LEMMA SummedIs ==
  ASSUME NEW s \in [Var -> Number], NEW a \in Var, NEW b \in Var, NEW c \in Var,
         NEW n \in Nat, NEW size \in Nat, NEW u \in Nat, NEW total \in Nat,
         Summed(s, a, b, c, n, size, u, total),
         NEW t, t = SetSign(ZAddImpl(s, a, b, c, n), a, 1)
  PROVE  /\ Only(t, s, a) /\ t[a].used <= size + 1
         /\ Is(t[a], total) <=> ~(total >= Place(size) /\ s[a].chars[size] \notin Digit)
<1>1. PICK r, x, y : r \in Number /\ r = s[a] /\ x = s[b].chars /\ y = s[c].chars
  OBVIOUS
<1>2. /\ n <= size /\ size < Room /\ size >= 1
      /\ Figures(x, n) /\ Figures(y, n) /\ \A i \in n .. size - 1 : r.chars[i] \in Digit
      /\ Upper(u, r.chars, n, size) /\ (r.chars[size] = 0 \/ r.chars[size] \notin Digit)
      /\ total > 0 /\ total = Lowest(x, n) + Lowest(y, n) + Place(n) * u
      /\ size + 1 <= r.alloced /\ r.used <= size /\ (r.used = size \/ n = size)
  BY <1>1 DEF Summed
<1>3. PICK d, f, last : d = r.chars /\ f = SumChars(d, x, y, n) /\ last = SumUsed(d, x, y, n)
  OBVIOUS
<1>4. PICK p \in Nat : p = Place(size)
  BY Places
<1>5. /\ total < p =>
           /\ last \in n .. size /\ Figures(f, size) /\ Lowest(f, size) = total
           /\ \A i \in Index : i >= size => f[i] = d[i]
      /\ total >= p => last = size + 1
      /\ total >= p /\ d[size] = 0 =>
           /\ Figures(f, size + 1) /\ Lowest(f, size + 1) = total
           /\ \A i \in Index : i > size => f[i] = d[i]
      /\ total >= p /\ d[size] \notin Digit => f[size] \notin Digit
  <2>1. /\ \A i \in n .. size - 1 : d[i] \in Digit
        /\ Upper(u, d, n, size) /\ d[size] # Base - 1
    <3>1. 0 # Base - 1 /\ Base - 1 \in Digit
      BY Bases
    <3> QED BY <1>2, <1>3, <3>1
  <2>2. /\ n \in Nat /\ size \in Nat /\ n <= size /\ size < Room /\ Figures(x, n) /\ Figures(y, n)
        /\ u \in Nat /\ total \in Nat /\ total = Lowest(x, n) + Lowest(y, n) + Place(n) * u
        /\ f = SumChars(d, x, y, n) /\ last = SumUsed(d, x, y, n)
    BY <1>2, <1>3
  <2> QED BY ONLY <1>4, <2>1, <2>2, SumCharsExact
<1>6. last \in Nat
  BY <1>2, <1>4, <1>5
<1>7. PICK w : w = ZAddImpl(s, a, b, c, n)
  OBVIOUS
<1>8. /\ Only(w, s, a) /\ w[a].alloced = r.alloced
      /\ w[a].chars = f /\ w[a].used = Largest(r.used, last)
  <2>1. last = SumUsed(r.chars, x, y, n) /\ f = SumChars(r.chars, x, y, n)
    BY <1>3
  <2>2. r = s[a] /\ x = s[b].chars /\ y = s[c].chars /\ s \in [Var -> Number] /\ a \in Var /\ b \in Var
        /\ c \in Var /\ n \in Nat
    BY <1>1
  <2> QED BY ONLY <1>6, <1>7, <2>1, <2>2, ZAddImplStores
<1>9. PICK g : g = w[a]
  OBVIOUS
<1>10. w \in [Var -> Number] /\ g \in Number /\ g.alloced = r.alloced /\ g.chars = f
  BY <1>8, <1>9 DEF Only
<1>11. t = SetSign(w, a, 1)
  BY <1>7
<1>12. Only(t, w, a) /\ t[a] = [g EXCEPT !.sign = 1]
  <2>1. t = [w EXCEPT ![a] = [g EXCEPT !.sign = 1]]
    BY <1>9, <1>11 DEF SetSign
  <2>2. [g EXCEPT !.sign = 1] \in Number
    BY <1>10 DEF Number
  <2> QED BY <1>10, <2>1, <2>2 DEF Only
<1>13. PICK q : q = t[a]
  OBVIOUS
<1>14. /\ q \in Number /\ q.sign = 1 /\ q.used = g.used /\ q.alloced = r.alloced /\ q.chars = f
  BY <1>10, <1>12, <1>13 DEF Number
<1>15. r.used \in Nat /\ r.alloced \in Nat
  BY <1>1 DEF Number
<1>16. Only(t, s, a)
  BY <1>8, <1>12 DEF Only
<1>17. Value(q) = 1 * Lowest(f, q.used)
  BY <1>14 DEF Value, Magnitude
<1>18. ASSUME q.used >= 1, q.used <= size + 1, Figures(f, q.used), Lowest(f, q.used) = total
       PROVE  Is(q, total)
  <2>1. PICK k \in Nat : k = q.used
    BY <1>14 DEF Number
  <2>2. k \in 1 .. q.alloced
    BY <1>2, <1>14, <1>15, <1>18, <2>1
  <2>3. \E i \in 0 .. k - 1 : f[i] # 0
    <3>1. k <= Room
      BY <1>2, <1>18, <2>1, MostIs
    <3>2. Figures(f, k) /\ Lowest(f, k) # 0
      BY <1>2, <1>18, <2>1
    <3> QED BY <3>1, <3>2, LowestZero
  <2>4. Legal(q)
    BY <1>14, <1>18, <2>1, <2>2, <2>3 DEF Legal, Figures
  <2> QED BY <1>17, <1>18, <2>4 DEF Is
<1>19. CASE total < p
  <2>1. q.used = size
    BY <1>2, <1>5, <1>6, <1>8, <1>9, <1>14, <1>15, <1>19 DEF Largest
  <2>2. Is(q, total)
    BY <1>2, <1>5, <1>18, <1>19, <2>1
  <2>3. ~(total >= p)
    BY <1>19
  <2> QED BY <1>1, <1>4, <1>13, <1>16, <2>1, <2>2, <2>3
<1>20. CASE total >= p
  <2>1. q.used = size + 1
    BY <1>2, <1>5, <1>6, <1>8, <1>9, <1>14, <1>15, <1>20 DEF Largest
  <2>2. CASE d[size] = 0
    <3>1. Is(q, total)
      BY <1>2, <1>5, <1>18, <1>20, <2>1, <2>2
    <3>2. d[size] \in Digit
      BY <2>2, Bases
    <3> QED BY <1>1, <1>3, <1>13, <1>16, <2>1, <3>1, <3>2
  <2>3. CASE d[size] \notin Digit
    <3>1. f[size] \notin Digit
      BY <1>5, <1>20, <2>3
    <3>2. size \in 0 .. q.used - 1
      BY <2>1
    <3>3. ~Legal(q)
      BY <1>14, <3>1, <3>2 DEF Legal
    <3> QED BY <1>1, <1>3, <1>4, <1>13, <1>16, <1>20, <2>1, <2>3, <3>3 DEF Is
  <2> QED BY <1>2, <1>3, <2>2, <2>3
<1> QED BY <1>4, <1>19, <1>20

\* A character above size characters, and it is zero.
LEMMA RoomIs ==
  ASSUME NEW s \in [Var -> Number], NEW a \in Var, NEW size \in Nat, size >= 1, size <= MaxUsed,
         NEW t, t = RoomForCarry(s, a, size)
  PROVE  /\ Only(t, s, a) /\ size + 1 <= t[a].alloced /\ t[a].chars[size] = 0
         /\ t[a].sign = s[a].sign /\ t[a].used = s[a].used
         /\ Held(s[a]) /\ (s[a].sign # 0 => s[a].used <= size) => Copy(t[a], s[a])
<1>1. PICK r \in Number : r = s[a]
  OBVIOUS
<1>2. size + 1 \in 0 .. MostChars
  BY MostIs
<1>3. PICK k : k = size + 1 /\ k \in 0 .. MostChars
  BY <1>2
<1>4. PICK e : e = Ensure(r, k)
  OBVIOUS
<1>5. /\ e \in Number /\ e.sign = r.sign /\ e.used = r.used
      /\ e.alloced >= k /\ e.alloced >= r.alloced
      /\ \A i \in Index : i < r.alloced => e.chars[i] = r.chars[i]
  BY ONLY <1>1, <1>3, <1>4, EnsureIs
<1>6. size \in Index
  BY MostIs DEF Index
<1>7. PICK f : f = [e.chars EXCEPT ![size] = 0]
  OBVIOUS
<1>8. f \in [Index -> Character] /\ f[size] = 0 /\ \A i \in Index : i # size => f[i] = e.chars[i]
  <2>1. e.chars \in [Index -> Character] /\ 0 \in Character
    BY <1>5, Bases DEF Number, Character
  <2> QED BY <1>6, <1>7, <2>1
<1>9. PICK q : q = [e EXCEPT !.chars = f]
  OBVIOUS
<1>10. q \in Number /\ q.sign = r.sign /\ q.used = r.used /\ q.alloced = e.alloced /\ q.chars = f
  BY <1>5, <1>8, <1>9 DEF Number
<1>11. t = [s EXCEPT ![a] = q]
  BY <1>1, <1>3, <1>4, <1>7, <1>9 DEF RoomForCarry
<1>12. t[a] = q
  BY <1>11
<1>13. Only(t, s, a)
  BY <1>10, <1>11 DEF Only
<1>14. size + 1 <= q.alloced
  BY <1>3, <1>5, <1>10
<1>15. ASSUME Held(r), r.sign # 0 => r.used <= size PROVE Copy(q, r)
  <2> SUFFICES ASSUME r.sign # 0
               PROVE  r.used <= q.alloced /\ \A i \in 0 .. r.used - 1 : q.chars[i] = r.chars[i]
    BY <1>10 DEF Copy
  <2>1. r.used \in Nat /\ r.alloced \in Nat /\ e.alloced \in Nat /\ r.used <= r.alloced
    BY <1>5, <1>15 DEF Held, Number
  <2>2. r.used <= q.alloced
    BY <1>5, <1>10, <2>1
  <2>3. \A i \in 0 .. r.used - 1 : i \in Index /\ i < r.alloced /\ i # size
    BY <1>15, <2>1, MostIs DEF Index
  <2>4. \A i \in 0 .. r.used - 1 : q.chars[i] = r.chars[i]
    BY <1>5, <1>8, <1>10, <2>3
  <2> QED BY <2>2, <2>4
<1> QED BY <1>1, <1>8, <1>10, <1>12, <1>13, <1>14, <1>15

\* Zeros above a magnitude.
LEMMA ExtendedIs ==
  ASSUME NEW f, NEW g, NEW from \in Nat, NEW n \in Nat, from <= n, n <= Room, Figures(f, from),
         \A i \in 0 .. from - 1 : g[i] = f[i], \A i \in from .. n - 1 : g[i] = 0
  PROVE  Figures(g, n) /\ Lowest(g, n) = Lowest(f, from)
<1>1. Figures(g, n)
  <2> SUFFICES ASSUME NEW i \in 0 .. n - 1 PROVE g[i] \in Digit
    BY DEF Figures
  <2>1. CASE i < from
    <3>1. i \in 0 .. from - 1
      BY <2>1
    <3> QED BY <3>1 DEF Figures
  <2>2. CASE ~(i < from)
    <3>1. i \in from .. n - 1
      BY <2>2
    <3> QED BY <3>1, Bases
  <2> QED BY <2>1, <2>2
<1>2. Lowest(g, from) = Lowest(f, from)
  <2>1. from <= Room
    BY MostIs
  <2> QED BY <2>1, LowestAgrees
<1>3. PICK u \in Nat : /\ Upper(u, g, from, n) /\ Lowest(g, from) \in Nat
                       /\ Lowest(g, n) = Place(from) * u + Lowest(g, from)
  BY <1>1, LowestSplit
<1>4. u = 0
  BY <1>3 DEF Upper
<1>5. PICK p \in Nat, l \in Nat : p = Place(from) /\ l = Lowest(g, from)
  BY <1>3, Places
<1>6. Lowest(g, n) = p * 0 + l
  BY <1>3, <1>4, <1>5
<1> QED BY <1>1, <1>2, <1>5, <1>6

\* a += b, where there is room for the carry.
LEMMA AddIntoIs ==
  ASSUME NEW s \in [Var -> Number], NEW a \in Var, NEW b \in Var, Held(s[a]), Held(s[b]),
         s[a].sign # 0, s[b].sign # 0, NEW size \in Nat, size = Largest(s[a].used, s[b].used),
         size + 1 <= s[a].alloced, s[a].chars[size] = 0,
         NEW t, t = SetSign(AddInto(s, a, b), a, 1)
  PROVE  /\ Only(t, s, a) /\ t[a].used <= size + 1
         /\ Is(t[a], Magnitude(s[a]) + Magnitude(s[b]))
<1>1. PICK r \in Number, q \in Number : r = s[a] /\ q = s[b] /\ Held(r) /\ Held(q)
  OBVIOUS
<1>2. PICK m \in Nat, n \in Nat : m = r.used /\ n = q.used
  BY DEF Number
<1>3. /\ m >= 1 /\ n >= 1 /\ m < Room /\ n < Room /\ m <= Room /\ n <= Room
      /\ Figures(r.chars, m) /\ Figures(q.chars, n)
      /\ Magnitude(r) = Lowest(r.chars, m) /\ Magnitude(q) = Lowest(q.chars, n)
  BY <1>1, <1>2, HeldIs, MostIs
<1>4. PICK v \in Nat, w \in Nat : v = Magnitude(r) /\ w = Magnitude(q) /\ v > 0 /\ w > 0
  BY <1>1, HeldIs
<1>5. size = Largest(m, n) /\ size >= 1 /\ size < Room
  BY <1>1, <1>2, <1>3 DEF Largest
<1>6. PICK total \in Nat : total = v + w /\ total > 0
  BY <1>4
<1>7. CASE m < n
  <2>1. size = n
    BY <1>5, <1>7 DEF Largest
  <2>2. PICK f : f = MemZero(r.chars, m, n - m)
    OBVIOUS
  <2>3. /\ f \in [Index -> Character]
        /\ \A i \in Index : f[i] = IF i \in m .. m + Chunks(n - m) - 1 THEN 0 ELSE r.chars[i]
    BY <2>2, Bases DEF MemZero, Number, Character
  <2>4. Chunks(n - m) \in Nat /\ n - m <= Chunks(n - m)
    <3>1. n - m \in Nat
      BY <1>7
    <3> QED BY <3>1, ChunksIs
  <2>5. \A i \in 0 .. m - 1 : f[i] = r.chars[i]
    <3>1. \A i \in 0 .. m - 1 : i \in Index /\ ~(i \in m .. m + Chunks(n - m) - 1)
      BY <1>3, MostIs, <2>4 DEF Index
    <3> QED BY <2>3, <3>1
  <2>6. \A i \in m .. n - 1 : f[i] = 0
    <3>1. \A i \in m .. n - 1 : i \in Index /\ i \in m .. m + Chunks(n - m) - 1
      BY <1>3, MostIs, <2>4 DEF Index
    <3> QED BY <2>3, <3>1
  <2>7. f[n] = 0
    <3>1. n \in Index
      BY <1>3, MostIs DEF Index
    <3>2. r.chars[n] = 0
      BY <1>1, <2>1
    <3> QED BY <2>3, <3>1, <3>2
  <2>8. Figures(f, n) /\ Lowest(f, n) = v
    <3>1. Figures(f, n) /\ Lowest(f, n) = Lowest(r.chars, m)
      BY <1>3, <1>7, <2>5, <2>6, ExtendedIs
    <3> QED BY <1>3, <1>4, <3>1
  <2>9. PICK e : e = [r EXCEPT !.chars = f]
    OBVIOUS
  <2>10. e \in Number /\ e.chars = f /\ e.used = m /\ e.alloced = r.alloced
    BY <1>2, <2>3, <2>9 DEF Number
  <2>11. PICK z : z = [s EXCEPT ![a] = e]
    OBVIOUS
  <2>12. a # b
    BY <1>1, <1>2, <1>7
  <2>13. z \in [Var -> Number] /\ z[a] = e /\ z[b] = q /\ Only(z, s, a)
    BY <1>1, <2>10, <2>11, <2>12 DEF Only
  <2>14. AddInto(s, a, b) = ZAddImpl(z, a, a, b, n)
    <3>1. z = [s EXCEPT ![a].chars = MemZero(@, s[a].used, s[b].used - s[a].used)]
      BY <1>1, <1>2, <2>2, <2>9, <2>11
    <3>2. s[a].used = m /\ s[b].used = n
      BY <1>1, <1>2
    <3> QED BY <1>7, <3>1, <3>2 DEF AddInto
  <2>15. PICK u \in Nat : Upper(u, f, n, size) /\ u = 0
    <3>1. PICK u \in Nat : Upper(u, f, n, size)
      <4>1. /\ \A i \in n .. size - 1 : f[i] \in Digit
            /\ n \in Nat /\ size \in Nat /\ n <= size /\ size <= Room
        BY <1>3, <2>1
      <4> QED BY ONLY <4>1, UpperExists
    <3>2. u = 0
      BY <2>1, <3>1 DEF Upper
    <3> QED BY <3>1, <3>2
  <2>16. total = Lowest(f, n) + Lowest(q.chars, n) + Place(n) * u
    <3>1. PICK p \in Nat : p = Place(n)
      BY Places
    <3>2. v + w + p * 0 = total
      BY <1>6, <3>1
    <3> QED BY <1>3, <1>4, <2>8, <2>15, <3>1, <3>2
  <2>17. t = SetSign(ZAddImpl(z, a, a, b, n), a, 1)
    BY <2>14
  <2>18. /\ Only(t, z, a) /\ t[a].used <= size + 1
         /\ Is(t[a], total) <=> ~(total >= Place(size) /\ f[size] \notin Digit)
    <3>1. /\ Figures(e.chars, n) /\ Figures(q.chars, n)
          /\ \A i \in n .. size - 1 : e.chars[i] \in Digit
          /\ Upper(u, e.chars, n, size) /\ (e.chars[size] = 0 \/ e.chars[size] \notin Digit)
          /\ size + 1 <= e.alloced /\ e.used <= size /\ (e.used = size \/ n = size)
          /\ total = Lowest(e.chars, n) + Lowest(q.chars, n) + Place(n) * u
          /\ n <= size /\ size >= 1 /\ size < Room /\ total > 0
      BY <1>1, <1>3, <1>5, <1>6, <1>7, <2>1, <2>7, <2>8, <2>10, <2>15, <2>16
    <3>2. Summed(z, a, a, b, n, size, u, total)
      BY ONLY <2>13, <3>1 DEF Summed
    <3>3. /\ Only(t, z, a) /\ t[a].used <= size + 1
          /\ Is(t[a], total) <=> ~(total >= Place(size) /\ z[a].chars[size] \notin Digit)
      BY <2>13, <2>17, <3>2, SummedIs
    <3> QED BY <2>10, <2>13, <3>3
  <2>19. f[size] \in Digit
    BY <2>1, <2>7, Bases
  <2>20. Only(t, s, a)
    BY <2>13, <2>18 DEF Only
  <2> QED BY <1>1, <1>4, <1>6, <2>1, <2>18, <2>19, <2>20
<1>8. CASE ~(m < n)
  <2>1. size = m
    BY <1>5, <1>8 DEF Largest
  <2>2. PICK u \in Nat : Upper(u, r.chars, n, m) /\ Lowest(r.chars, n) \in Nat
                         /\ Lowest(r.chars, m) = Place(n) * u + Lowest(r.chars, n)
    BY <1>3, <1>8, LowestSplit
  <2>3. PICK l \in Nat, h \in Nat : /\ l = Lowest(r.chars, n) /\ h = Place(n) * u /\ v = h + l
    <3>1. Place(n) * u \in Nat
      BY Places
    <3> QED BY <1>3, <1>4, <2>2, <3>1
  <2>4. AddInto(s, a, b) = ZAddImpl(s, a, a, b, n)
    <3>1. s[a].used = m /\ s[b].used = n
      BY <1>1, <1>2
    <3>2. Smallest(m, n) = n
      BY <1>8 DEF Smallest
    <3> QED BY <1>8, <3>1, <3>2 DEF AddInto
  <2>5. t = SetSign(ZAddImpl(s, a, a, b, n), a, 1)
    BY <2>4
  <2>6. total = Lowest(r.chars, n) + Lowest(q.chars, n) + Place(n) * u
    BY <1>3, <1>4, <1>6, <2>3
  <2>7. \A i \in n .. m - 1 : r.chars[i] \in Digit
    <3>1. \A i \in n .. m - 1 : i \in 0 .. m - 1
      OBVIOUS
    <3> QED BY <1>3, <3>1 DEF Figures
  <2>8. /\ Only(t, s, a) /\ t[a].used <= m + 1
        /\ Is(t[a], total) <=> ~(total >= Place(m) /\ r.chars[m] \notin Digit)
    <3>1. /\ Figures(s[a].chars, n) /\ Figures(s[b].chars, n)
          /\ \A i \in n .. m - 1 : s[a].chars[i] \in Digit
          /\ Upper(u, s[a].chars, n, m) /\ (s[a].chars[m] = 0 \/ s[a].chars[m] \notin Digit)
          /\ m + 1 <= s[a].alloced /\ s[a].used <= m /\ (s[a].used = m \/ n = m)
          /\ total > 0 /\ total = Lowest(s[a].chars, n) + Lowest(s[b].chars, n) + Place(n) * u
          /\ n <= m /\ m >= 1 /\ m < Room
      BY <1>1, <1>2, <1>3, <1>6, <1>8, <2>1, <2>2, <2>6, <2>7 DEF Figures
    <3>2. Summed(s, a, a, b, n, m, u, total)
      BY ONLY <3>1 DEF Summed
    <3>3. /\ Only(t, s, a) /\ t[a].used <= m + 1
          /\ Is(t[a], total) <=> ~(total >= Place(m) /\ s[a].chars[m] \notin Digit)
      BY <2>5, <3>2, SummedIs
    <3> QED BY <1>1, <3>3
  <2>9. r.chars[m] \in Digit
    BY <1>1, <2>1, Bases
  <2> QED BY <1>1, <1>4, <1>6, <2>1, <2>8, <2>9
<1> QED BY <1>7, <1>8

\* a gets the sum of two others; the copy may put a character that is no digit on the
\* one for the carry.
LEMMA AddToIs ==
  ASSUME NEW s \in [Var -> Number], NEW a \in Var, NEW long \in Var, NEW short \in Var,
         a # long, a # short, Held(s[long]), Held(s[short]), s[long].sign # 0, s[short].sign # 0,
         NEW size \in Nat, size = s[long].used, NEW n \in Nat, n = s[short].used, n <= size,
         size + 1 <= s[a].alloced, s[a].chars[size] = 0, s[long].chars[size] \notin Digit,
         NEW t, t = SetSign(AddTo(s, a, long, short, size), a, 1),
         NEW total, total = Magnitude(s[long]) + Magnitude(s[short])
  PROVE  /\ Only(t, s, a) /\ t[a].used <= size + 1
         /\ Is(t[a], total) <=> ~(Copied(size - n) > size - n /\ total >= Place(size))
<1>1. PICK r \in Number, x \in Number, y \in Number :
        /\ r = s[a] /\ x = s[long] /\ y = s[short] /\ Held(x) /\ Held(y)
        /\ x.sign # 0 /\ y.sign # 0 /\ size = x.used /\ n = y.used
        /\ size + 1 <= r.alloced /\ r.chars[size] = 0 /\ x.chars[size] \notin Digit
  OBVIOUS
<1>2. /\ size >= 1 /\ n >= 1 /\ size < Room /\ size <= Room /\ n <= Room
      /\ Figures(x.chars, size) /\ Figures(y.chars, n)
      /\ Magnitude(x) = Lowest(x.chars, size) /\ Magnitude(y) = Lowest(y.chars, n)
  BY <1>1, HeldIs, MostIs
<1>3. PICK v \in Nat, w \in Nat : v = Magnitude(x) /\ w = Magnitude(y) /\ v > 0 /\ w > 0
  BY <1>1, HeldIs
<1>4. total = v + w /\ total \in Nat /\ total > 0
  BY <1>1, <1>3
<1>5. PICK h \in Nat : h = size - n
  OBVIOUS
<1>6. PICK k \in Nat : k = Copied(h) /\ h <= k
  BY ChunksIs
<1>7. PICK f : f = MemCpy(r.chars, n, x.chars, n, h)
  OBVIOUS
<1>8. /\ f \in [Index -> Character]
      /\ \A i \in Index : f[i] = IF i \in n .. n + k - 1 THEN x.chars[i] ELSE r.chars[i]
  <2>1. PICK d \in [Index -> Character], c \in [Index -> Character] : d = r.chars /\ c = x.chars
    BY DEF Number
  <2>2. \A i \in Index : n + i - n = i
    BY IndexIs
  <2>3. /\ f \in [Index -> Character]
        /\ \A i \in Index : f[i] = IF i \in n .. n + Copied(h) - 1 THEN c[i] ELSE d[i]
    BY <1>7, <2>1, <2>2 DEF MemCpy
  <2> QED BY <1>6, <2>1, <2>3
<1>9. \A i \in n .. size - 1 : f[i] = x.chars[i] /\ x.chars[i] \in Digit
  <2>1. \A i \in n .. size - 1 : i \in Index /\ i \in n .. n + k - 1 /\ i \in 0 .. size - 1
    BY <1>2, <1>5, <1>6, MostIs DEF Index
  <2> QED BY <1>2, <1>8, <2>1 DEF Figures
<1>10. f[size] = IF k > h THEN x.chars[size] ELSE 0
  <2>1. size \in Index
    BY <1>2, MostIs DEF Index
  <2>2. size \in n .. n + k - 1 <=> k > h
    BY <1>5, <1>6
  <2> QED BY <1>1, <1>8, <2>1, <2>2
<1>11. PICK q : q = [r EXCEPT !.chars = f, !.used = size]
  OBVIOUS
<1>12. q \in Number /\ q.chars = f /\ q.used = size /\ q.alloced = r.alloced
  BY <1>8, <1>11 DEF Number
<1>13. PICK z : z = [s EXCEPT ![a] = q]
  OBVIOUS
<1>14. z \in [Var -> Number] /\ z[a] = q /\ z[long] = x /\ z[short] = y /\ Only(z, s, a)
  BY <1>1, <1>12, <1>13 DEF Only
<1>15. AddTo(s, a, long, short, size) = ZAddImpl(z, a, long, short, n)
  <2>1. z = [s EXCEPT ![a].chars = MemCpy(@, n, s[long].chars, n, size - n), ![a].used  = size]
    BY <1>1, <1>5, <1>7, <1>11, <1>13
  <2> QED BY <1>1, <2>1 DEF AddTo
<1>16. PICK u \in Nat : /\ Upper(u, x.chars, n, size) /\ Lowest(x.chars, n) \in Nat
                        /\ Lowest(x.chars, size) = Place(n) * u + Lowest(x.chars, n)
  BY <1>2, LowestSplit
<1>17. Upper(u, f, n, size)
  BY <1>9, <1>16, UpperAgrees
<1>18. total = Lowest(x.chars, n) + Lowest(y.chars, n) + Place(n) * u
  <2>1. PICK l \in Nat, p \in Nat : l = Lowest(x.chars, n) /\ p = Place(n) * u
    BY <1>16, Places
  <2> QED BY <1>2, <1>3, <1>4, <1>16, <2>1
<1>19. Summed(z, a, long, short, n, size, u, total)
  <2>1. /\ n <= size /\ size < Room /\ size >= 1 /\ Figures(x.chars, n) /\ Figures(y.chars, n)
        /\ \A i \in n .. size - 1 : q.chars[i] \in Digit
        /\ Upper(u, q.chars, n, size) /\ (q.chars[size] = 0 \/ q.chars[size] \notin Digit)
        /\ total > 0 /\ total = Lowest(x.chars, n) + Lowest(y.chars, n) + Place(n) * u
        /\ size + 1 <= q.alloced /\ q.used <= size /\ (q.used = size \/ n = size)
    <3>1. Figures(x.chars, n)
      BY <1>2 DEF Figures
    <3> QED BY <1>1, <1>2, <1>4, <1>9, <1>10, <1>12, <1>17, <1>18, <3>1
  <2> QED BY ONLY <1>14, <2>1 DEF Summed
<1>20. t = SetSign(ZAddImpl(z, a, long, short, n), a, 1)
  BY <1>15
<1>21. /\ Only(t, z, a) /\ t[a].used <= size + 1
       /\ Is(t[a], total) <=> ~(total >= Place(size) /\ z[a].chars[size] \notin Digit)
  BY <1>4, <1>14, <1>19, <1>20, SummedIs
<1>22. z[a].chars[size] \notin Digit <=> k > h
  BY <1>1, <1>10, <1>12, <1>14, Bases
<1>23. Only(t, s, a)
  BY <1>14, <1>21 DEF Only
<1> QED BY <1>5, <1>6, <1>21, <1>22, <1>23

\* What a routine is given besides: the characters above a magnitude are left over or
\* are not in the block.
Clean(r) == Held(r) /\ (r.sign # 0 => \A i \in Index : i >= r.used => r.chars[i] \notin Digit)

LEMMA CleanTop ==
  ASSUME NEW r, Clean(r), r.sign # 0
  PROVE  Held(r) /\ r.chars[r.used] \notin Digit
<1>1. Held(r)
  BY DEF Clean
<1>2. r.used \in Nat /\ r.used < Room
  BY <1>1, HeldIs
<1>3. r.used \in Index /\ r.used >= r.used
  BY <1>2, MostIs DEF Index
<1> QED BY <1>1, <1>3 DEF Clean

\* The sum of two magnitudes that are not zero.
LEMMA AddIs ==
  ASSUME NEW s \in [Var -> Number], NEW a \in Var, NEW b \in Var, NEW c \in Var,
         Clean(s[b]), Clean(s[c]), s[b].sign # 0, s[c].sign # 0,
         NEW t, t = ZAddUnsigned(s, a, b, c)
  PROVE  /\ Only(t, s, a) /\ t[a].used <= Room
         /\ Is(t[a], Magnitude(s[b]) + Magnitude(s[c])) <=> ~CarryIsStale(s, a, b, c)
<1>1. PICK x \in Number, y \in Number :
        x = s[b] /\ y = s[c] /\ Held(x) /\ Held(y) /\ x.sign # 0 /\ y.sign # 0
  BY DEF Clean
<1>2. PICK m \in Nat, n \in Nat : /\ m = x.used /\ n = y.used /\ m >= 1 /\ n >= 1
                                  /\ m <= MaxUsed /\ n <= MaxUsed
  BY <1>1, HeldIs
<1>3. PICK size \in Nat : size = Largest(m, n) /\ size >= 1 /\ size <= MaxUsed /\ m <= size /\ n <= size
  BY <1>2 DEF Largest
<1>4. size + 1 <= Room
  BY <1>3, MostIs
<1>5. PICK p : p = RoomForCarry(s, a, size)
  OBVIOUS
<1>6. /\ Only(p, s, a) /\ size + 1 <= p[a].alloced /\ p[a].chars[size] = 0
      /\ Held(s[a]) /\ (s[a].sign # 0 => s[a].used <= size) => Copy(p[a], s[a])
  BY <1>3, <1>5, RoomIs
<1>7. p \in [Var -> Number]
  BY <1>6 DEF Only
<1>8. PICK v \in Nat, w \in Nat : v = Magnitude(x) /\ w = Magnitude(y) /\ v > 0 /\ w > 0
  BY <1>1, HeldIs
<1>9. PICK total \in Nat : total = v + w /\ total = w + v
  OBVIOUS
<1>10. Largest(s[b].used, s[c].used) = size
  BY <1>1, <1>2, <1>3
<1>11. t = SetSign(CASE a = b -> AddInto(p, a, c)
                      [] a # b /\ a = c -> AddInto(p, a, b)
                      [] OTHER -> IF s[b].used > s[c].used THEN AddTo(p, a, b, c, size)
                                                           ELSE AddTo(p, a, c, b, size),
                   a, 1)
  BY <1>1, <1>5, <1>10 DEF ZAddUnsigned
<1>12. CASE a = b
  <2>1. t = SetSign(AddInto(p, a, c), a, 1)
    BY <1>11, <1>12
  <2>2. /\ Held(p[a]) /\ p[a].sign # 0 /\ p[a].used = m /\ Magnitude(p[a]) = v
    <3>1. Copy(p[a], x)
      BY <1>1, <1>2, <1>3, <1>6, <1>12
    <3> QED BY <1>1, <1>2, <1>8, <3>1, CopyHeld
  <2>3. /\ Held(p[c]) /\ p[c].sign # 0 /\ p[c].used = n /\ Magnitude(p[c]) = w
    <3>1. CASE c = a
      <4>1. x = y
        BY <1>1, <1>12, <3>1
      <4> QED BY <1>2, <1>8, <2>2, <3>1, <4>1
    <3>2. CASE c # a
      BY <1>1, <1>2, <1>6, <1>8, <3>2 DEF Only
    <3> QED BY <3>1, <3>2
  <2>4. size = Largest(p[a].used, p[c].used)
    BY <1>3, <2>2, <2>3
  <2>5. /\ Only(t, p, a) /\ t[a].used <= size + 1
        /\ Is(t[a], Magnitude(p[a]) + Magnitude(p[c]))
    BY <1>6, <1>7, <2>1, <2>2, <2>3, <2>4, AddIntoIs
  <2>6. Only(t, s, a) /\ t[a].used <= Room
    <3>1. Only(t, s, a)
      BY <1>6, <2>5 DEF Only
    <3>2. t[a].used \in Nat
      BY <3>1 DEF Only, Number
    <3> QED BY <1>4, <2>5, <3>1, <3>2, MostIs
  <2>7. ~CarryIsStale(s, a, b, c)
    BY <1>12 DEF CarryIsStale
  <2> QED BY <1>1, <1>8, <2>2, <2>3, <2>5, <2>6, <2>7
<1>13. CASE a # b /\ a = c
  <2>1. t = SetSign(AddInto(p, a, b), a, 1)
    BY <1>11, <1>13
  <2>2. /\ Held(p[a]) /\ p[a].sign # 0 /\ p[a].used = n /\ Magnitude(p[a]) = w
    <3>1. Copy(p[a], y)
      BY <1>1, <1>2, <1>3, <1>6, <1>13
    <3> QED BY <1>1, <1>2, <1>8, <3>1, CopyHeld
  <2>3. /\ Held(p[b]) /\ p[b].sign # 0 /\ p[b].used = m /\ Magnitude(p[b]) = v
    BY <1>1, <1>2, <1>6, <1>8, <1>13 DEF Only
  <2>4. size = Largest(p[a].used, p[b].used)
    <3>1. Largest(m, n) = Largest(n, m)
      BY DEF Largest
    <3> QED BY <1>3, <2>2, <2>3, <3>1
  <2>5. /\ Only(t, p, a) /\ t[a].used <= size + 1
        /\ Is(t[a], Magnitude(p[a]) + Magnitude(p[b]))
    BY <1>6, <1>7, <2>1, <2>2, <2>3, <2>4, AddIntoIs
  <2>6. Only(t, s, a) /\ t[a].used <= Room
    <3>1. Only(t, s, a)
      BY <1>6, <2>5 DEF Only
    <3>2. t[a].used \in Nat
      BY <3>1 DEF Only, Number
    <3> QED BY <1>4, <2>5, <3>1, <3>2, MostIs
  <2>7. ~CarryIsStale(s, a, b, c)
    BY <1>13 DEF CarryIsStale
  <2> QED BY <1>1, <1>8, <1>9, <2>2, <2>3, <2>5, <2>6, <2>7
<1>14. CASE a # b /\ a # c
  <2>1. p[b] = x /\ p[c] = y
    BY <1>1, <1>6, <1>14 DEF Only
  <2>2. x.chars[m] \notin Digit /\ y.chars[n] \notin Digit
    BY <1>1, <1>2, CleanTop
  <2>3. ASSUME Only(t, p, a), t[a].used <= size + 1 PROVE Only(t, s, a) /\ t[a].used <= Room
    <3>1. Only(t, s, a)
      BY <1>6, <2>3 DEF Only
    <3>2. t[a].used \in Nat
      BY <3>1 DEF Only, Number
    <3> QED BY <1>4, <2>3, <3>1, <3>2, MostIs
  <2>4. Power(Base, size) = Place(size)
    BY Places
  <2>5. PICK l \in Nat : l = Smallest(m, n)
    BY DEF Smallest
  <2>6. CarryIsStale(s, a, b, c) <=> Copied(size - l) > size - l /\ total >= Place(size)
    <3>1. /\ Largest(s[b].used, s[c].used) = size /\ Smallest(s[b].used, s[c].used) = l
          /\ Magnitude(s[b]) + Magnitude(s[c]) = total
      BY <1>1, <1>2, <1>3, <1>8, <1>9, <2>5
    <3>2. a \notin {b, c} /\ s[b].sign # 0 /\ s[c].sign # 0
      BY <1>1, <1>14
    <3> QED BY ONLY <2>4, <3>1, <3>2 DEF CarryIsStale
  <2>7. CASE m > n
    <3>1. size = m /\ l = n
      BY <1>3, <2>5, <2>7 DEF Largest, Smallest
    <3>2. t = SetSign(AddTo(p, a, b, c, size), a, 1)
      BY <1>1, <1>2, <1>11, <1>14, <2>7
    <3>3. total = Magnitude(p[b]) + Magnitude(p[c])
      BY <1>8, <1>9, <2>1
    <3>4. /\ a # b /\ a # c /\ Held(p[b]) /\ Held(p[c]) /\ p[b].sign # 0 /\ p[c].sign # 0
          /\ size = p[b].used /\ l = p[c].used /\ l <= size
          /\ p[b].chars[size] \notin Digit
      BY <1>1, <1>2, <1>14, <2>1, <2>2, <2>7, <3>1
    <3>5. /\ Only(t, p, a) /\ t[a].used <= size + 1
          /\ Is(t[a], total) <=> ~(Copied(size - l) > size - l /\ total >= Place(size))
      BY <1>6, <1>7, <3>2, <3>3, <3>4, AddToIs
    <3> QED BY <1>1, <1>8, <1>9, <2>3, <2>6, <3>5
  <2>8. CASE ~(m > n)
    <3>1. size = n /\ l = m
      BY <1>3, <2>5, <2>8 DEF Largest, Smallest
    <3>2. t = SetSign(AddTo(p, a, c, b, size), a, 1)
      BY <1>1, <1>2, <1>11, <1>14, <2>8
    <3>3. total = Magnitude(p[c]) + Magnitude(p[b])
      BY <1>8, <1>9, <2>1
    <3>4. /\ a # b /\ a # c /\ Held(p[b]) /\ Held(p[c]) /\ p[b].sign # 0 /\ p[c].sign # 0
          /\ size = p[c].used /\ l = p[b].used /\ l <= size
          /\ p[c].chars[size] \notin Digit
      BY <1>1, <1>2, <1>14, <2>1, <2>2, <2>8, <3>1
    <3>5. /\ Only(t, p, a) /\ t[a].used <= size + 1
          /\ Is(t[a], total) <=> ~(Copied(size - l) > size - l /\ total >= Place(size))
      BY <1>6, <1>7, <3>2, <3>3, <3>4, AddToIs
    <3> QED BY <1>1, <1>8, <1>9, <2>3, <2>6, <3>5
  <2> QED BY <2>7, <2>8
<1> QED BY <1>12, <1>13, <1>14

\* zadd_unsigned, of the integers zadd and zsub give it too.
LEMMA ZAddUnsignedIs ==
  ASSUME NEW s \in [Var -> Number], NEW a \in Var, NEW b \in Var, NEW c \in Var,
         Clean(s[b]), Clean(s[c]), NEW t, t = ZAddUnsigned(s, a, b, c)
  PROVE  /\ Only(t, s, a) /\ t[a].used \in Nat /\ (t[a].used <= Room \/ t[a].sign = 0)
         /\ Is(t[a], AbsOf(Value(s[b])) + AbsOf(Value(s[c]))) <=> ~CarryIsStale(s, a, b, c)
<1>1. Held(s[b]) /\ Held(s[c])
  BY DEF Clean
<1>2. PICK v \in Nat, w \in Nat : v = AbsOf(Value(s[b])) /\ w = AbsOf(Value(s[c]))
  BY <1>1, AbsIs
<1>3. \A r : Held(r) => r.used \in Nat /\ (r.used <= Room \/ r.sign = 0)
  BY HeldIs, MostIs
<1>4. CASE s[b].sign = 0
  <2>1. t = ZAbs(s, a, c)
    BY <1>4 DEF ZAddUnsigned
  <2>2. Only(t, s, a) /\ Is(t[a], w) /\ Held(t[a])
    BY <1>1, <1>2, <2>1, ZAbsIs
  <2>3. v = 0 /\ v + w = w
    BY <1>1, <1>2, <1>4, AbsIs
  <2>4. ~CarryIsStale(s, a, b, c)
    BY <1>4 DEF CarryIsStale
  <2> QED BY <1>2, <1>3, <2>2, <2>3, <2>4
<1>5. CASE s[b].sign # 0 /\ s[c].sign = 0
  <2>1. t = ZAbs(s, a, b)
    BY <1>5 DEF ZAddUnsigned
  <2>2. Only(t, s, a) /\ Is(t[a], v) /\ Held(t[a])
    BY <1>1, <1>2, <2>1, ZAbsIs
  <2>3. w = 0 /\ v + w = v
    BY <1>1, <1>2, <1>5, AbsIs
  <2>4. ~CarryIsStale(s, a, b, c)
    BY <1>5 DEF CarryIsStale
  <2> QED BY <1>2, <1>3, <2>2, <2>3, <2>4
<1>6. CASE s[b].sign # 0 /\ s[c].sign # 0
  <2>1. v = Magnitude(s[b]) /\ w = Magnitude(s[c])
    BY <1>1, <1>2, <1>6, AbsIs
  <2>2. /\ Only(t, s, a) /\ t[a].used <= Room
        /\ Is(t[a], Magnitude(s[b]) + Magnitude(s[c])) <=> ~CarryIsStale(s, a, b, c)
    BY <1>6, AddIs
  <2>3. t[a].used \in Nat
    BY <2>2 DEF Only, Number
  <2> QED BY <1>2, <2>1, <2>2, <2>3
<1> QED BY <1>4, <1>5, <1>6

\* In place it is exact.
LEMMA ZAddUnsignedAssignIs ==
  ASSUME NEW s \in [Var -> Number], NEW a \in Var, NEW b \in Var, Held(s[a]), Held(s[b]),
         s[a].sign >= 0, NEW t, t = ZAddUnsignedAssign(s, a, b)
  PROVE  Only(t, s, a) /\ Is(t[a], AbsOf(Value(s[a])) + AbsOf(Value(s[b])))
<1>1. PICK x \in Number, y \in Number : x = s[a] /\ y = s[b] /\ Held(x) /\ Held(y) /\ x.sign >= 0
  OBVIOUS
<1>2. PICK v \in Nat, w \in Nat : v = AbsOf(Value(x)) /\ w = AbsOf(Value(y))
  BY <1>1, AbsIs
<1>3. CASE x.sign = 0
  <2>1. t = ZAbs(s, a, b)
    BY <1>1, <1>3 DEF ZAddUnsignedAssign
  <2>2. Only(t, s, a) /\ Is(t[a], w)
    BY <1>1, <1>2, <2>1, ZAbsIs
  <2>3. v = 0 /\ v + w = w
    BY <1>1, <1>2, <1>3, AbsIs
  <2> QED BY <1>1, <1>2, <2>2, <2>3
<1>4. CASE x.sign # 0 /\ y.sign = 0
  <2>1. t = s
    BY <1>1, <1>4 DEF ZAddUnsignedAssign
  <2>2. w = 0 /\ v + w = v
    BY <1>1, <1>2, <1>4, AbsIs
  <2>3. Is(x, v)
    <3>1. PICK m \in Nat : m = Magnitude(x) /\ Value(x) = x.sign * m /\ v = m /\ Legal(x)
      BY <1>1, <1>2, <1>4, HeldIs, AbsIs
    <3>2. x.sign = 1
      BY <1>1, <1>4, HeldIs
    <3> QED BY <3>1, <3>2 DEF Is
  <2> QED BY <1>1, <1>2, <2>1, <2>2, <2>3 DEF Only
<1>5. CASE x.sign # 0 /\ y.sign # 0
  <2>1. PICK m \in Nat, n \in Nat : /\ m = x.used /\ n = y.used /\ m >= 1 /\ n >= 1
                                    /\ m <= MaxUsed /\ n <= MaxUsed
    BY <1>1, <1>5, HeldIs
  <2>2. PICK size \in Nat : size = Largest(m, n) /\ size >= 1 /\ size <= MaxUsed /\ m <= size
    BY <2>1 DEF Largest
  <2>3. PICK p : p = RoomForCarry(s, a, size)
    OBVIOUS
  <2>4. /\ Only(p, s, a) /\ size + 1 <= p[a].alloced /\ p[a].chars[size] = 0
        /\ Held(s[a]) /\ (s[a].sign # 0 => s[a].used <= size) => Copy(p[a], s[a])
    BY <2>2, <2>3, RoomIs
  <2>5. p \in [Var -> Number]
    BY <2>4 DEF Only
  <2>6. v = Magnitude(x) /\ w = Magnitude(y)
    BY <1>1, <1>2, <1>5, AbsIs
  <2>7. /\ Held(p[a]) /\ p[a].sign # 0 /\ p[a].used = m /\ Magnitude(p[a]) = v
    <3>1. Copy(p[a], x)
      BY <1>1, <2>1, <2>2, <2>4
    <3> QED BY <1>1, <1>5, <2>1, <2>6, <3>1, CopyHeld
  <2>8. /\ Held(p[b]) /\ p[b].sign # 0 /\ p[b].used = n /\ Magnitude(p[b]) = w
    <3>1. CASE b = a
      <4>1. x = y
        BY <1>1, <3>1
      <4> QED BY <2>1, <2>6, <2>7, <3>1, <4>1
    <3>2. CASE b # a
      BY <1>1, <1>5, <2>1, <2>4, <2>6, <3>2 DEF Only
    <3> QED BY <3>1, <3>2
  <2>9. size = Largest(p[a].used, p[b].used)
    BY <2>2, <2>7, <2>8
  <2>10. t = SetSign(AddInto(p, a, b), a, 1)
    <3>1. Largest(s[a].used, s[b].used) = size
      BY <1>1, <2>1, <2>2
    <3> QED BY <1>1, <1>5, <2>3, <3>1 DEF ZAddUnsignedAssign
  <2>11. /\ Only(t, p, a) /\ Is(t[a], Magnitude(p[a]) + Magnitude(p[b]))
    BY <2>2, <2>4, <2>5, <2>7, <2>8, <2>9, <2>10, AddIntoIs
  <2>12. Only(t, s, a)
    BY <2>4, <2>11 DEF Only
  <2> QED BY <1>1, <1>2, <2>7, <2>8, <2>11, <2>12
<1> QED BY <1>3, <1>4, <1>5

------------------------------------------------------------------------------
(* zadd, zsub, and what is saved and loaded.                                 *)

\* A value by its sign.
LEMMA SignedAbs ==
  ASSUME NEW r, Held(r)
  PROVE  /\ r.sign \in {-1, 0, 1} /\ AbsOf(Value(r)) \in Nat
         /\ r.sign = 0 => Value(r) = 0
         /\ r.sign = 1 => Value(r) = AbsOf(Value(r))
         /\ r.sign = -1 => Value(r) = -AbsOf(Value(r))
<1>1. r.sign \in {-1, 0, 1} /\ AbsOf(Value(r)) \in Nat /\ (r.sign = 0 => Value(r) = 0)
  BY HeldIs, AbsIs
<1>2. ASSUME r.sign # 0
      PROVE  \E m \in Nat : Value(r) = r.sign * m /\ AbsOf(Value(r)) = m
  BY <1>2, HeldIs, AbsIs
<1> QED BY <1>1, <1>2

\* It is not exact, where the magnitudes are subtracted and where they are added.
WrongSum(s, a, b, c, subtracts, adds) ==
  \/ subtracts /\ BorrowEndsInside(s, b, c)
  \/ adds /\ CarryIsStale(s, a, b, c)

\* Both signs are set.
LEMMA SumOfSigned ==
  ASSUME NEW s \in [Var -> Number], NEW a \in Var, NEW b \in Var, NEW c \in Var,
         a # "tmp_sub", b # "tmp_sub", c # "tmp_sub", Clean(s[b]), Clean(s[c]),
         s[b].sign # 0, s[c].sign # 0,
         NEW v \in Nat, v = AbsOf(Value(s[b])), NEW w \in Nat, w = AbsOf(Value(s[c]))
  PROVE  /\ Is(ZAddUnsigned(s, a, b, c)[a], v + w) <=> ~CarryIsStale(s, a, b, c)
         /\ Is(Negated(ZAddUnsigned(s, a, b, c), a)[a], -(v + w)) <=> ~CarryIsStale(s, a, b, c)
         /\ Is(ZSubUnsigned(s, a, b, c)[a], v - w) <=> ~BorrowEndsInside(s, b, c)
         /\ Is(ZSubUnsigned(s, a, c, b)[a], w - v) <=> ~BorrowEndsInside(s, b, c)
<1>1. Held(s[b]) /\ Held(s[c])
  BY DEF Clean
<1>2. PICK t, u, p, q : /\ t = ZAddUnsigned(s, a, b, c) /\ u = Negated(t, a)
                        /\ p = ZSubUnsigned(s, a, b, c) /\ q = ZSubUnsigned(s, a, c, b)
  OBVIOUS
<1>3. v = Magnitude(s[b]) /\ w = Magnitude(s[c])
  BY <1>1, AbsIs
<1>4. Only(t, s, a) /\ t[a].used <= Room /\ (Is(t[a], v + w) <=> ~CarryIsStale(s, a, b, c))
  BY <1>2, <1>3, AddIs
<1>5. Is(u[a], -(v + w)) <=> Is(t[a], v + w)
  <2>1. t \in [Var -> Number] /\ v + w \in Int
    BY <1>4 DEF Only
  <2> QED BY <1>2, <1>4, <2>1, NegatedValue
<1>6. Is(p[a], v - w) <=> ~BorrowEndsInside(s, b, c)
  BY <1>1, <1>2, <1>3, SubtractIs
<1>7. Is(q[a], w - v) <=> ~BorrowEndsInside(s, c, b)
  BY <1>1, <1>2, <1>3, SubtractIs
<1>8. BorrowEndsInside(s, c, b) <=> BorrowEndsInside(s, b, c)
  BY <1>1, InsideSymmetric
<1> QED BY <1>2, <1>4, <1>5, <1>6, <1>7, <1>8

LEMMA ZAddIs ==
  ASSUME NEW s \in [Var -> Number], NEW a \in Var, NEW b \in Var, NEW c \in Var,
         a # "tmp_sub", b # "tmp_sub", c # "tmp_sub", Clean(s[b]), Clean(s[c]),
         NEW t, t = ZAdd(s, a, b, c)
  PROVE  Is(t[a], Value(s[b]) + Value(s[c]))
           <=> ~WrongSum(s, a, b, c, s[b].sign * s[c].sign < 0, s[b].sign * s[c].sign > 0)
<1>1. PICK x, y : x = s[b] /\ y = s[c] /\ Held(x) /\ Held(y)
  BY DEF Clean
<1>2. PICK v \in Nat, w \in Nat : v = AbsOf(Value(x)) /\ w = AbsOf(Value(y))
  BY <1>1, SignedAbs
<1>3. /\ x.sign \in {-1, 0, 1} /\ y.sign \in {-1, 0, 1}
      /\ x.sign = 0 => Value(x) = 0
      /\ x.sign = 1 => Value(x) = v
      /\ x.sign = -1 => Value(x) = -v
      /\ y.sign = 0 => Value(y) = 0
      /\ y.sign = 1 => Value(y) = w
      /\ y.sign = -1 => Value(y) = -w
  BY <1>1, <1>2, SignedAbs
<1>4. PICK wrong \in BOOLEAN : wrong = WrongSum(s, a, b, c, x.sign * y.sign < 0, x.sign * y.sign > 0)
  BY DEF WrongSum
<1>5. \A z, r : Copy(z, r) /\ Held(r) => Is(z, Value(r))
  BY CopyHeld, HeldIs DEF Is
<1>6. CASE x.sign = 0
  <2>1. t = SetUnlessSame(s, a, c)
    BY <1>1, <1>6 DEF ZAdd
  <2>2. Is(t[a], Value(y))
    BY <1>1, <1>5, <2>1, UnlessSameIs
  <2>3. Value(x) + Value(y) = Value(y)
    BY <1>3, <1>6
  <2>4. ~wrong
    <3>1. x.sign * y.sign = 0
      BY <1>3, <1>6
    <3> QED BY <1>1, <1>4, <3>1 DEF WrongSum
  <2> QED BY <1>1, <1>4, <2>2, <2>3, <2>4
<1>7. CASE x.sign # 0 /\ y.sign = 0
  <2>1. t = SetUnlessSame(s, a, b)
    BY <1>1, <1>7 DEF ZAdd
  <2>2. Is(t[a], Value(x))
    BY <1>1, <1>5, <2>1, UnlessSameIs
  <2>3. Value(x) + Value(y) = Value(x)
    BY <1>3, <1>7
  <2>4. ~wrong
    <3>1. x.sign * y.sign = 0
      BY <1>3, <1>7
    <3> QED BY <1>1, <1>4, <3>1 DEF WrongSum
  <2> QED BY <1>1, <1>4, <2>2, <2>3, <2>4
<1>8. ASSUME x.sign # 0, y.sign # 0
      PROVE  /\ Is(ZAddUnsigned(s, a, b, c)[a], v + w) <=> ~CarryIsStale(s, a, b, c)
             /\ Is(Negated(ZAddUnsigned(s, a, b, c), a)[a], -(v + w)) <=> ~CarryIsStale(s, a, b, c)
             /\ Is(ZSubUnsigned(s, a, b, c)[a], v - w) <=> ~BorrowEndsInside(s, b, c)
             /\ Is(ZSubUnsigned(s, a, c, b)[a], w - v) <=> ~BorrowEndsInside(s, b, c)
  BY <1>1, <1>2, <1>8, SumOfSigned
<1>9. CASE x.sign = 1 /\ y.sign = 1
  <2>1. t = ZAddUnsigned(s, a, b, c)
    BY <1>1, <1>9 DEF ZAdd
  <2>2. wrong <=> CarryIsStale(s, a, b, c)
    <3>1. x.sign * y.sign = 1
      BY <1>9
    <3> QED BY <1>1, <1>4, <3>1 DEF WrongSum
  <2>3. Value(x) + Value(y) = v + w
    BY <1>3, <1>9
  <2> QED BY <1>1, <1>4, <1>8, <1>9, <2>1, <2>2, <2>3
<1>10. CASE x.sign = -1 /\ y.sign = -1
  <2>1. t = Negated(ZAddUnsigned(s, a, b, c), a)
    BY <1>1, <1>10 DEF ZAdd
  <2>2. wrong <=> CarryIsStale(s, a, b, c)
    <3>1. x.sign * y.sign = 1
      BY <1>10
    <3> QED BY <1>1, <1>4, <3>1 DEF WrongSum
  <2>3. Value(x) + Value(y) = -(v + w)
    BY <1>3, <1>10
  <2> QED BY <1>1, <1>4, <1>8, <1>10, <2>1, <2>2, <2>3
<1>11. CASE x.sign = 1 /\ y.sign = -1
  <2>1. t = ZSubUnsigned(s, a, b, c)
    BY <1>1, <1>11 DEF ZAdd
  <2>2. wrong <=> BorrowEndsInside(s, b, c)
    <3>1. x.sign * y.sign = -1
      BY <1>11
    <3> QED BY <1>1, <1>4, <3>1 DEF WrongSum
  <2>3. Value(x) + Value(y) = v - w
    BY <1>3, <1>11
  <2> QED BY <1>1, <1>4, <1>8, <1>11, <2>1, <2>2, <2>3
<1>12. CASE x.sign = -1 /\ y.sign = 1
  <2>1. t = ZSubUnsigned(s, a, c, b)
    BY <1>1, <1>12 DEF ZAdd
  <2>2. wrong <=> BorrowEndsInside(s, b, c)
    <3>1. x.sign * y.sign = -1
      BY <1>12
    <3> QED BY <1>1, <1>4, <3>1 DEF WrongSum
  <2>3. Value(x) + Value(y) = w - v
    BY <1>3, <1>12
  <2> QED BY <1>1, <1>4, <1>8, <1>12, <2>1, <2>2, <2>3
<1> QED BY <1>3, <1>6, <1>7, <1>9, <1>10, <1>11, <1>12

LEMMA ZSubIs ==
  ASSUME NEW s \in [Var -> Number], NEW a \in Var, NEW b \in Var, NEW c \in Var,
         a # "tmp_sub", b # "tmp_sub", c # "tmp_sub", Clean(s[b]), Clean(s[c]),
         NEW t, t = ZSub(s, a, b, c)
  PROVE  Is(t[a], Value(s[b]) - Value(s[c]))
           <=> ~WrongSum(s, a, b, c, s[b].sign * s[c].sign > 0, s[b].sign * s[c].sign < 0)
<1>1. PICK x, y : x = s[b] /\ y = s[c] /\ Held(x) /\ Held(y)
  BY DEF Clean
<1>2. PICK v \in Nat, w \in Nat : v = AbsOf(Value(x)) /\ w = AbsOf(Value(y))
  BY <1>1, SignedAbs
<1>3. /\ x.sign \in {-1, 0, 1} /\ y.sign \in {-1, 0, 1}
      /\ x.sign = 0 => Value(x) = 0
      /\ x.sign = 1 => Value(x) = v
      /\ x.sign = -1 => Value(x) = -v
      /\ y.sign = 0 => Value(y) = 0
      /\ y.sign = 1 => Value(y) = w
      /\ y.sign = -1 => Value(y) = -w
  BY <1>1, <1>2, SignedAbs
<1>4. PICK wrong \in BOOLEAN : wrong = WrongSum(s, a, b, c, x.sign * y.sign > 0, x.sign * y.sign < 0)
  BY DEF WrongSum
<1>5. \A z, r : Copy(z, r) /\ Held(r) => Is(z, Value(r))
  BY CopyHeld, HeldIs DEF Is
<1>6. CASE x.sign = 0
  <2>1. t = ZNeg(s, a, c)
    BY <1>1, <1>6 DEF ZSub
  <2>2. Is(t[a], -Value(y))
    BY <1>1, <2>1, ZNegIs
  <2>3. Value(x) - Value(y) = -Value(y)
    BY <1>3, <1>6
  <2>4. ~wrong
    <3>1. x.sign * y.sign = 0
      BY <1>3, <1>6
    <3> QED BY <1>1, <1>4, <3>1 DEF WrongSum
  <2> QED BY <1>1, <1>4, <2>2, <2>3, <2>4
<1>7. CASE x.sign # 0 /\ y.sign = 0
  <2>1. t = SetUnlessSame(s, a, b)
    BY <1>1, <1>7 DEF ZSub
  <2>2. Is(t[a], Value(x))
    BY <1>1, <1>5, <2>1, UnlessSameIs
  <2>3. Value(x) - Value(y) = Value(x)
    BY <1>3, <1>7
  <2>4. ~wrong
    <3>1. x.sign * y.sign = 0
      BY <1>3, <1>7
    <3> QED BY <1>1, <1>4, <3>1 DEF WrongSum
  <2> QED BY <1>1, <1>4, <2>2, <2>3, <2>4
<1>8. ASSUME x.sign # 0, y.sign # 0
      PROVE  /\ Is(ZAddUnsigned(s, a, b, c)[a], v + w) <=> ~CarryIsStale(s, a, b, c)
             /\ Is(Negated(ZAddUnsigned(s, a, b, c), a)[a], -(v + w)) <=> ~CarryIsStale(s, a, b, c)
             /\ Is(ZSubUnsigned(s, a, b, c)[a], v - w) <=> ~BorrowEndsInside(s, b, c)
             /\ Is(ZSubUnsigned(s, a, c, b)[a], w - v) <=> ~BorrowEndsInside(s, b, c)
  BY <1>1, <1>2, <1>8, SumOfSigned
<1>9. CASE x.sign = 1 /\ y.sign = 1
  <2>1. t = ZSubUnsigned(s, a, b, c)
    BY <1>1, <1>9 DEF ZSub
  <2>2. wrong <=> BorrowEndsInside(s, b, c)
    <3>1. x.sign * y.sign = 1
      BY <1>9
    <3> QED BY <1>1, <1>4, <3>1 DEF WrongSum
  <2>3. Value(x) - Value(y) = v - w
    BY <1>3, <1>9
  <2> QED BY <1>1, <1>4, <1>8, <1>9, <2>1, <2>2, <2>3
<1>10. CASE x.sign = -1 /\ y.sign = -1
  <2>1. t = ZSubUnsigned(s, a, c, b)
    BY <1>1, <1>10 DEF ZSub
  <2>2. wrong <=> BorrowEndsInside(s, b, c)
    <3>1. x.sign * y.sign = 1
      BY <1>10
    <3> QED BY <1>1, <1>4, <3>1 DEF WrongSum
  <2>3. Value(x) - Value(y) = w - v
    BY <1>3, <1>10
  <2> QED BY <1>1, <1>4, <1>8, <1>10, <2>1, <2>2, <2>3
<1>11. CASE x.sign = 1 /\ y.sign = -1
  <2>1. t = ZAddUnsigned(s, a, b, c)
    BY <1>1, <1>11 DEF ZSub
  <2>2. wrong <=> CarryIsStale(s, a, b, c)
    <3>1. x.sign * y.sign = -1
      BY <1>11
    <3> QED BY <1>1, <1>4, <3>1 DEF WrongSum
  <2>3. Value(x) - Value(y) = v + w
    BY <1>3, <1>11
  <2> QED BY <1>1, <1>4, <1>8, <1>11, <2>1, <2>2, <2>3
<1>12. CASE x.sign = -1 /\ y.sign = 1
  <2>1. t = Negated(ZAddUnsigned(s, a, b, c), a)
    BY <1>1, <1>12 DEF ZSub
  <2>2. wrong <=> CarryIsStale(s, a, b, c)
    <3>1. x.sign * y.sign = -1
      BY <1>12
    <3> QED BY <1>1, <1>4, <3>1 DEF WrongSum
  <2>3. Value(x) - Value(y) = -(v + w)
    BY <1>3, <1>12
  <2> QED BY <1>1, <1>4, <1>8, <1>12, <2>1, <2>2, <2>3
<1> QED BY <1>3, <1>6, <1>7, <1>9, <1>10, <1>11, <1>12

\* zload makes a copy of what zsave saved, which keeps its value.
LEMMA ZLoadIs ==
  ASSUME NEW s \in [Var -> Number], NEW a \in Var, NEW b \in Var, Held(s[b]),
         NEW t, t = ZLoad(ZSave(s, b), a, Saved(s[b]))
  PROVE  Is(t[a], Value(s[b])) /\ Copy(t[a], s[b])
<1>1. PICK q \in Number : q = s[b] /\ Held(q)
  OBVIOUS
<1>2. PICK p : p = Padded(q)
  OBVIOUS
<1>3. p \in Number /\ (q.sign # 0 => \A i \in 0 .. q.used - 1 : p.chars[i] = q.chars[i])
  <2>1. CASE q.sign = 0
    <3>1. p = q
      BY <1>2, <2>1 DEF Padded
    <3> QED BY <2>1, <3>1
  <2>2. CASE q.sign # 0
    <3>1. PICK f : f = [i \in Index |-> IF i \in q.used .. q.used + Fluff - 2 THEN 0 ELSE q.chars[i]]
      OBVIOUS
    <3>2. f \in [Index -> Character]
      BY <3>1, Bases DEF Number, Character
    <3>3. p = [q EXCEPT !.chars = f]
      BY <1>2, <2>2, <3>1 DEF Padded
    <3>4. p \in Number /\ p.chars = f
      BY <3>2, <3>3 DEF Number
    <3>5. q.used \in Nat /\ q.used < Room
      BY <1>1, <2>2, HeldIs
    <3>6. \A i \in 0 .. q.used - 1 : i \in Index /\ ~(i \in q.used .. q.used + Fluff - 2)
      BY <3>5, MostIs DEF Index
    <3>7. \A i \in 0 .. q.used - 1 : f[i] = q.chars[i]
      BY <3>1, <3>6
    <3> QED BY <3>4, <3>7
  <2> QED BY <2>1, <2>2
<1>4. PICK z : z = ZSave(s, b)
  OBVIOUS
<1>5. z \in [Var -> Number]
  <2>1. z = [s EXCEPT ![b] = p]
    BY <1>1, <1>2, <1>4 DEF ZSave
  <2> QED BY <1>3, <2>1
<1>6. PICK buf : buf = Saved(q)
  OBVIOUS
<1>7. buf.sign = q.sign /\ buf.used = q.used
  BY <1>6 DEF Saved
<1>8. PICK r : r = [z[a] EXCEPT !.sign = q.sign, !.used = q.used]
  OBVIOUS
<1>9. r \in Number /\ r.sign = q.sign /\ r.used = q.used
  <2>1. q.sign \in {-1, 0, 1} /\ q.used \in Nat
    BY DEF Number
  <2> QED BY <1>5, <1>8, <2>1 DEF Number
<1>10. t = ZLoad(z, a, buf)
  BY <1>1, <1>4, <1>6
<1>11. Copy(t[a], q)
  <2>1. CASE q.sign = 0
    <3>1. t = [z EXCEPT ![a] = r]
      BY <1>7, <1>8, <1>10, <2>1 DEF ZLoad
    <3>2. t[a] = r
      BY <1>5, <3>1
    <3> QED BY <1>9, <2>1, <3>2 DEF Copy
  <2>2. CASE q.sign # 0
    <3>1. q.used \in Nat /\ q.used < Room /\ q.used <= MaxUsed /\ q.used \in 0 .. MostChars
      BY <1>1, <2>2, HeldIs, MostIs
    <3>2. PICK d : d = NewBuffer(q)
      OBVIOUS
    <3>3. d \in [Index -> Character]
      BY <3>2 DEF NewBuffer, Character
    <3>4. PICK c \in [Index -> Character] : c = p.chars
      BY <1>3 DEF Number
    <3>5. PICK f : f = MemCpy(d, 0, c, 0, q.used)
      OBVIOUS
    <3>6. buf.chars = f
      BY <1>2, <1>6, <2>2, <3>2, <3>4, <3>5 DEF Saved
    <3>7. \A i \in Index : 0 + i - 0 = i
      BY IndexIs
    <3>8. /\ f \in [Index -> Character]
          /\ \A i \in Index : f[i] = IF i \in 0 .. 0 + Copied(q.used) - 1 THEN c[i] ELSE d[i]
      BY <3>3, <3>5, <3>7 DEF MemCpy
    <3>9. PICK e : e = Ensure(r, q.used)
      OBVIOUS
    <3>10. e \in Number /\ e.sign = q.sign /\ e.used = q.used /\ e.alloced >= q.used
      BY ONLY <1>9, <3>1, <3>9, EnsureIs
    <3>11. PICK h \in [Index -> Character] : h = e.chars
      BY <3>10 DEF Number
    <3>12. PICK g : g = MemCpy(h, 0, f, 0, q.used)
      OBVIOUS
    <3>13. /\ g \in [Index -> Character]
           /\ \A i \in Index : g[i] = IF i \in 0 .. 0 + Copied(q.used) - 1 THEN f[i] ELSE h[i]
      BY <3>7, <3>8, <3>12 DEF MemCpy
    <3>14. PICK w : w = [e EXCEPT !.chars = g]
      OBVIOUS
    <3>15. /\ w \in Number /\ w.sign = q.sign /\ w.used = q.used /\ w.alloced >= q.used
           /\ w.chars = g
      BY <3>10, <3>13, <3>14 DEF Number
    <3>16. t = [z EXCEPT ![a] = w]
      BY <1>7, <1>8, <1>10, <2>2, <3>6, <3>9, <3>11, <3>12, <3>14 DEF ZLoad
    <3>17. t[a] = w
      BY <1>5, <3>16
    <3>18. \A i \in 0 .. q.used - 1 : g[i] = q.chars[i]
      <4>1. Copied(q.used) \in Nat /\ q.used <= Copied(q.used)
        BY <3>1, ChunksIs
      <4>2. \A i \in 0 .. q.used - 1 : i \in Index /\ i \in 0 .. 0 + Copied(q.used) - 1
        BY <3>1, <4>1, MostIs DEF Index
      <4>3. \A i \in 0 .. q.used - 1 : c[i] = q.chars[i]
        BY <1>3, <2>2, <3>4
      <4> QED BY <3>8, <3>13, <4>2, <4>3
    <3>19. w.used <= w.alloced
      BY <3>1, <3>15 DEF Number
    <3> QED BY <3>15, <3>17, <3>18, <3>19 DEF Copy
  <2> QED BY <2>1, <2>2
<1> QED BY <1>1, <1>11, CopyHeld, HeldIs DEF Is

------------------------------------------------------------------------------
(* The integers before a call.                                               *)

\* The characters of a number make up what is below a place.
LEMMA DigitsMake ==
  ASSUME NEW v \in Nat, NEW f, NEW n \in Nat, n <= Room,
         \A i \in 0 .. n - 1 : f[i] = (v \div Power(Base, i)) % Base
  PROVE  Figures(f, n) /\ Lowest(f, n) = v % Place(n)
<1>1. PICK b \in Nat : b = Base /\ b >= 2
  BY Bases
<1>2. \A i \in Nat : /\ Power(Base, i) = Place(i) /\ Place(i) \in Nat /\ Place(i) > 0
                     /\ Place(i + 1) = b * Place(i)
  BY <1>1, Places
<1>3. Figures(f, n)
  <2> SUFFICES ASSUME NEW i \in 0 .. n - 1 PROVE f[i] \in Digit
    BY DEF Figures
  <2>1. PICK p \in Nat : p = Place(i) /\ p > 0 /\ f[i] = (v \div p) % Base
    BY <1>2
  <2>2. v \div p \in Int
    BY <2>1, Quotient
  <2> QED BY <2>1, <2>2, BaseRemainder
<1> DEFINE Z == {k \in Nat : k <= n => Lowest(f, k) = v % Place(k)}
<1>4. 0 \in Z
  <2>1. v % 1 = 0
    OBVIOUS
  <2> QED BY <2>1, Places, LowestPlaces
<1>5. ASSUME NEW k \in Nat, k \in Z PROVE k + 1 \in Z
  <2> SUFFICES ASSUME k + 1 <= n PROVE Lowest(f, k + 1) = v % Place(k + 1)
    OBVIOUS
  <2>1. k <= n /\ k \in 0 .. n - 1 /\ k \in 0 .. Room - 1
    BY MostIs
  <2>2. PICK p \in Nat : p = Place(k) /\ p > 0 /\ Place(k + 1) = b * p
    BY <1>2
  <2>3. Lowest(f, k) = v % p
    BY <1>5, <2>1, <2>2
  <2>4. f[k] = (v \div p) % b
    BY <1>1, <1>2, <2>1, <2>2
  <2>5. Lowest(f, k + 1) = Lowest(f, k) + f[k] * p
    BY <2>1, <2>2, LowestPlaces
  <2>6. PICK m \in Nat : m = v % (p * b)
    <3>1. p * b \in Nat /\ p * b > 0
      BY <1>1, <2>2
    <3> QED BY <3>1, Quotient
  <2>7. v \in Nat /\ p \in Nat /\ p > 0 /\ b \in Nat /\ b > 0
    BY <1>1, <2>2
  <2>8. m \div p = (v \div p) % b /\ m % p = v % p
    <3>1. (v % (p * b)) \div p = (v \div p) % b
      BY ONLY <2>7, QuotientOfRemainder
    <3>2. (v % (p * b)) % p = v % p
      BY ONLY <2>7, RemainderOfRemainder
    <3> QED BY ONLY <2>6, <3>1, <3>2
  <2>9. PICK g \in Nat, l \in Nat : g = m \div p /\ l = m % p /\ m = p * g + l
    BY ONLY m \in Nat, <2>7, Quotient
  <2>10. Lowest(f, k + 1) = l + g * p
    BY <2>3, <2>4, <2>5, <2>8, <2>9
  <2>11. p * b = b * p
    OBVIOUS
  <2> QED BY <2>2, <2>6, <2>9, <2>10, <2>11
<1> HIDE DEF Z
<1>6. \A k \in Nat : k \in Z
  <2>1. Z \in SUBSET Nat
    BY DEF Z
  <2> QED BY <1>4, <1>5, <2>1, Inductive
<1> QED BY <1>3, <1>6 DEF Z

LEMMA FilledIs ==
  ASSUME NEW sign \in {-1, 0, 1}, NEW used \in Nat, NEW size \in Nat, NEW digits,
         sign # 0 => \A i \in 0 .. used - 1 : digits[i] \in Digit,
         NEW r, r = Filled(sign, used, size, digits)
  PROVE  /\ r \in Number /\ r.sign = sign /\ r.used = used /\ r.alloced = size
         /\ \A i \in Index : i >= used => r.chars[i] \notin Digit
         /\ sign # 0 /\ used <= size => \A i \in Index : i < used => r.chars[i] = digits[i]
<1>1. PICK f : f = [i \in Index |-> IF i \notin Block(size) THEN Foreign
                                    ELSE IF i < used /\ sign # 0 THEN digits[i] ELSE Stale]
  OBVIOUS
<1>2. r = [sign |-> sign, used |-> used, alloced |-> size, chars |-> f]
  BY <1>1 DEF Filled
<1>3. f \in [Index -> Character]
  <2> SUFFICES ASSUME NEW i \in Index PROVE f[i] \in Character
    BY <1>1
  <2>1. i \in Nat
    BY IndexIs
  <2>2. i < used /\ sign # 0 => digits[i] \in Digit
    BY <2>1
  <2> QED BY <1>1, <2>2 DEF Character
<1>4. r \in Number /\ r.sign = sign /\ r.used = used /\ r.alloced = size /\ r.chars = f
  BY <1>2, <1>3 DEF Number
<1>5. \A i \in Index : i >= used => f[i] \notin Digit
  <2> SUFFICES ASSUME NEW i \in Index, i >= used PROVE f[i] \notin Digit
    OBVIOUS
  <2>1. ~(i < used)
    BY IndexIs
  <2> QED BY <1>1, <2>1, MarkersAssumption
<1>6. sign # 0 /\ used <= size => \A i \in Index : i < used => f[i] = digits[i]
  <2> SUFFICES ASSUME sign # 0, used <= size, NEW i \in Index, i < used PROVE f[i] = digits[i]
    OBVIOUS
  <2>1. i \in Block(size)
    <3>1. i \in Nat /\ size # 0 /\ i \in 0 .. size + Fluff - 1
      BY IndexIs, MostIs
    <3> QED BY <3>1 DEF Block
  <2> QED BY <1>1, <2>1
<1> QED BY <1>4, <1>5, <1>6

LEMMA SizesAre == \A size \in Sizes \cup {0} : size \in Nat
<1>1. \A n \in 1 .. MaxUsed : RoundedUp[n] \in Nat
  <2>1. \A n \in 1 .. MaxUsed : n \in 1 .. 2 * Room
    BY MostIs
  <2> QED BY <2>1, RoundedUpIs
<1> QED BY <1>1 DEF Sizes

LEMMA ZeroClean ==
  ASSUME NEW used \in Nat, NEW size \in Nat, NEW r, r = Filled(0, used, size, <<>>)
  PROVE  Clean(r)
<1>1. r \in Number /\ r.sign = 0
  <2>1. 0 \in {-1, 0, 1}
    OBVIOUS
  <2>2. 0 # 0 => \A i \in 0 .. used - 1 : <<>>[i] \in Digit
    OBVIOUS
  <2> QED BY <2>1, <2>2, FilledIs
<1> QED BY <1>1 DEF Clean, Held

LEMMA NonzeroClean ==
  ASSUME NEW r \in Nonzeros
  PROVE  Clean(r)
<1>1. PICK q \in Magnitudes \X (1 .. MaxUsed) : \E sign \in {-1, 1} : \E size :
        /\ size \in Sizes \cup {RoundedUp[q[2]]}
        /\ r = Filled(sign, q[2], size, Digits(q[1]))
        /\ q[2] >= Chars(q[1]) \/ q[2] = Chars(q[1])
        /\ size >= q[2] \/ size = RoundedUp[q[2]]
  BY DEF Nonzeros
<1>2. PICK v \in Magnitudes, w \in 1 .. MaxUsed : v = q[1] /\ w = q[2]
  OBVIOUS
<1>3. PICK sign, size :
        /\ sign \in {-1, 1}
        /\ size \in Sizes \cup {RoundedUp[w]} /\ r = Filled(sign, w, size, Digits(v))
        /\ w >= Chars(v) \/ w = Chars(v)
        /\ size >= w \/ size = RoundedUp[w]
  BY <1>1, <1>2
<1>4. w \in Nat /\ w >= 1 /\ w <= MaxUsed /\ w \in 1 .. 2 * Room /\ w <= Room
  BY MostIs
<1>5. v \in Nat /\ v > 0 /\ v < Power(Base, MaxUsed)
  <2>1. v \in 1 .. Power(Base, MaxUsed) - 1
    BY CallsAssumption
  <2>2. Power(Base, MaxUsed) \in Nat
    BY MostIs, Places
  <2> QED BY <2>1, <2>2
<1>6. size \in Nat /\ size >= w
  <2>1. RoundedUp[w] \in Nat /\ RoundedUp[w] >= w
    BY <1>4, RoundedUpIs
  <2> QED BY <1>3, <2>1, SizesAre
<1>7. v < Place(w)
  <2> DEFINE S == {n \in 1 .. MaxUsed : v < Power(Base, n)}
  <2>1. MaxUsed \in S
    BY <1>5, MostIs
  <2>2. S \in SUBSET Nat /\ S # {}
    BY <2>1
  <2>3. PICK c : c = Min(S) /\ c \in S
    <3> HIDE DEF S
    <3> QED BY <2>2, MinIs
  <2>4. c = Chars(v)
    BY <2>3, Zenon DEF Chars
  <2>5. c \in Nat /\ v < Place(c) /\ w >= c
    <3>1. c \in 1 .. MaxUsed /\ v < Power(Base, c)
      BY <2>3
    <3>2. c \in Nat
      BY <3>1
    <3> QED BY <1>3, <1>4, <2>4, <3>1, <3>2, Places
  <2>6. PICK p \in Nat, g \in Nat : p = Place(c) /\ g = Place(w)
    BY <1>4, <2>5, Places
  <2>7. p <= g
    BY <1>4, <2>5, <2>6, PlaceMonotone
  <2> QED BY <1>5, <2>5, <2>6, <2>7
<1>8. PICK f : f = Digits(v)
  OBVIOUS
<1>9. \A i \in 0 .. w - 1 : f[i] = (v \div Power(Base, i)) % Base
  <2>1. \A i \in 0 .. w - 1 : i \in 0 .. MaxUsed - 1
    BY <1>4, MostIs
  <2> QED BY <1>8, <2>1 DEF Digits
<1>10. Figures(f, w) /\ Lowest(f, w) = v % Place(w)
  BY <1>4, <1>5, <1>9, DigitsMake
<1>11. Lowest(f, w) # 0
  <2>1. PICK p \in Nat : p = Place(w) /\ p > 0 /\ v < p
    BY <1>4, <1>7, Places
  <2>2. v % p = v
    BY <1>5, <2>1, QuotientIs
  <2> QED BY <1>5, <1>10, <2>1, <2>2
<1>12. \E i \in 0 .. w - 1 : f[i] # 0
  BY <1>4, <1>10, <1>11, LowestZero
<1>13. /\ r \in Number /\ r.sign = sign /\ r.used = w /\ r.alloced = size
       /\ \A i \in Index : i >= w => r.chars[i] \notin Digit
       /\ \A i \in Index : i < w => r.chars[i] = f[i]
  <2>1. /\ sign \in {-1, 0, 1} /\ sign # 0
        /\ sign # 0 => \A i \in 0 .. w - 1 : f[i] \in Digit
        /\ r = Filled(sign, w, size, f)
    BY <1>3, <1>8, <1>10 DEF Figures
  <2> QED BY <1>4, <1>6, <2>1, FilledIs
<1>14. \A i \in 0 .. w - 1 : i \in Index /\ i < w
  BY <1>4, MostIs DEF Index
<1>15. Figures(r.chars, w) /\ \E i \in 0 .. w - 1 : r.chars[i] # 0
  BY <1>10, <1>12, <1>13, <1>14 DEF Figures
<1>16. Held(r)
  <2>1. w \in 1 .. size
    BY <1>4, <1>6
  <2> QED BY <1>4, <1>13, <1>15, <2>1 DEF Held
<1> QED BY <1>13, <1>16 DEF Clean

------------------------------------------------------------------------------
(* Every call of a routine that assigns, adds or subtracts.                  *)

\* A step of SumsExact: the call k took the integers from s to t.
Exact(k, s, t) ==
  k.routine \in Sums =>
    (Is(t[k.p[1]], Sum(k, s)) <=> ~(WrongDifference(k, s) \/ StaleSum(k, s)))

Ready(s)  == s \in [Var -> Number] /\ Clean(s["b"]) /\ Clean(s["c"])
Before    == call = NoCall => Ready(num)

\* What the call a routine made is, when it is known by its fields.
LEMMA SumIs ==
  ASSUME NEW k, NEW s
  PROVE  /\ k.routine \in {"zset", "zload"} => Sum(k, s) = Value(s[k.p[2]])
         /\ k.routine = "zneg" => Sum(k, s) = -Value(s[k.p[2]])
         /\ k.routine = "zabs" => Sum(k, s) = AbsOf(Value(s[k.p[2]]))
         /\ k.routine \in {"zsetu", "zseti"} => Sum(k, s) = k.n
         /\ k.routine = "zadd" => Sum(k, s) = Value(s[k.p[2]]) + Value(s[k.p[3]])
         /\ k.routine = "zsub" => Sum(k, s) = Value(s[k.p[2]]) - Value(s[k.p[3]])
         /\ k.routine = "zadd_unsigned" =>
              Sum(k, s) = AbsOf(Value(s[k.p[2]])) + AbsOf(Value(s[k.p[3]]))
         /\ k.routine = "zsub_unsigned" =>
              Sum(k, s) = AbsOf(Value(s[k.p[2]])) - AbsOf(Value(s[k.p[3]]))
         /\ k.routine = "zadd_unsigned_assign" =>
              Sum(k, s) = AbsOf(Value(s[k.p[1]])) + AbsOf(Value(s[k.p[2]]))
         /\ k.routine \in {"zsub_nonnegative_assign", "zsub_positive_assign"} =>
              Sum(k, s) = Value(s[k.p[1]]) - Value(s[k.p[2]])
BY DEF Sum

\* What does not subtract or add magnitudes is to be exact.
LEMMA PlainExact ==
  ASSUME NEW k, NEW s, NEW t, Is(t[k.p[1]], Sum(k, s)),
         k.routine \in {"zset", "zload", "zneg", "zabs", "zsetu", "zseti",
                        "zadd_unsigned_assign"}
  PROVE  Exact(k, s, t)
BY DEF Exact, WrongDifference, StaleSum, Subtracts, Adds

LEMMA DifferenceExact ==
  ASSUME NEW k, NEW s, NEW t,
         k.routine \in {"zsub_nonnegative_assign", "zsub_positive_assign"},
         Is(t[k.p[1]], Value(s[k.p[1]]) - Value(s[k.p[2]]))
           <=> ~BorrowEndsInside(s, k.p[1], k.p[2])
  PROVE  Exact(k, s, t)
BY SumIs DEF Exact, WrongDifference, StaleSum, Subtracts, Adds

LEMMA WrongSumExact ==
  ASSUME NEW k, NEW s, NEW t,
         k.routine \in {"zadd", "zsub", "zadd_unsigned", "zsub_unsigned"},
         Is(t[k.p[1]], Sum(k, s))
           <=> ~WrongSum(s, k.p[1], k.p[2], k.p[3], Subtracts(k, s), Adds(k, s))
  PROVE  Exact(k, s, t)
BY DEF Exact, WrongDifference, StaleSum, WrongSum

LEMMA TriplesAre ==
  /\ \A p \in Triples : p[1] \in {"a", "b", "c"} /\ p[2] \in {"b", "c"} /\ p[3] \in {"b", "c"}
  /\ \A p \in Pairs : p[1] \in {"a", "b"} /\ p[2] = "b"
BY DEF Triples, Pairs

LEMMA ReadyIs ==
  ASSUME NEW s, Ready(s)
  PROVE  /\ s \in [Var -> Number] /\ {"a", "b", "c"} \subseteq Var
         /\ \A v \in {"b", "c"} : Clean(s[v]) /\ Held(s[v])
         /\ \A v \in {"a", "b", "c"} : v \in Var /\ v # "tmp_sub"
BY DEF Ready, Clean, Var

\* A number that is one of two parameters.
LEMMA PairExact ==
  ASSUME NEW s, Ready(s), NEW p \in Pairs, NEW k, k.p = p, NEW t,
         \/ k.routine = "zset" /\ t = ZSet(s, p[1], p[2])
         \/ k.routine = "zneg" /\ t = ZNeg(s, p[1], p[2])
         \/ k.routine = "zabs" /\ t = ZAbs(s, p[1], p[2])
         \/ k.routine = "zload" /\ t = ZLoad(ZSave(s, p[2]), p[1], Saved(s[p[2]]))
  PROVE  Exact(k, s, t)
<1>1. PICK a, b : a = p[1] /\ b = p[2] /\ a \in Var /\ b \in Var /\ Held(s[b])
  BY TriplesAre, ReadyIs
<1>2. s \in [Var -> Number]
  BY ReadyIs
<1>3. CASE k.routine = "zset" /\ t = ZSet(s, p[1], p[2])
  <2>1. t = ZSet(s, a, b)
    BY <1>1, <1>3
  <2>2. Copy(t[a], s[b])
    BY ONLY <1>1, <1>2, <2>1, ZSetIs
  <2>3. Held(t[a]) /\ Value(t[a]) = Value(s[b])
    BY <1>1, <2>2, CopyHeld
  <2>4. Is(t[a], Value(s[b]))
    BY <2>3, HeldIs DEF Is
  <2> QED BY <1>1, <1>3, <2>4, SumIs, PlainExact
<1>4. CASE k.routine = "zneg" /\ t = ZNeg(s, p[1], p[2])
  <2>1. t = ZNeg(s, a, b)
    BY <1>1, <1>4
  <2>2. Is(t[a], -Value(s[b]))
    BY ONLY <1>1, <1>2, <2>1, ZNegIs
  <2> QED BY <1>1, <1>4, <2>2, SumIs, PlainExact
<1>5. CASE k.routine = "zabs" /\ t = ZAbs(s, p[1], p[2])
  <2>1. t = ZAbs(s, a, b)
    BY <1>1, <1>5
  <2>2. Is(t[a], AbsOf(Value(s[b])))
    BY ONLY <1>1, <1>2, <2>1, ZAbsIs
  <2> QED BY <1>1, <1>5, <2>2, SumIs, PlainExact
<1>6. CASE k.routine = "zload" /\ t = ZLoad(ZSave(s, p[2]), p[1], Saved(s[p[2]]))
  <2>1. t = ZLoad(ZSave(s, b), a, Saved(s[b]))
    BY <1>1, <1>6
  <2>2. Is(t[a], Value(s[b]))
    BY ONLY <1>1, <1>2, <2>1, ZLoadIs
  <2> QED BY <1>1, <1>6, <2>2, SumIs, PlainExact
<1> QED BY <1>3, <1>4, <1>5, <1>6

\* A number of the machine.
LEMMA MachineExact ==
  ASSUME NEW s, Ready(s), NEW n, NEW k, k.p = <<"b">>, k.n = n, NEW t,
         \/ n \in Digit /\ k.routine = "zsetu" /\ t = ZSetU(s, "b", n)
         \/ n \in Int64 /\ k.routine = "zseti" /\ t = ZSetI(s, "b", n)
  PROVE  Exact(k, s, t)
<1>1. PICK b \in Var : b = "b"
  BY DEF Var
<1>2. s \in [Var -> Number] /\ k.p[1] = b
  BY <1>1, ReadyIs
<1>3. Is(t[b], n)
  <2>1. CASE n \in Digit /\ t = ZSetU(s, "b", n)
    BY ONLY <1>1, <1>2, <2>1, ZSetUIs
  <2>2. CASE n \in Int64 /\ t = ZSetI(s, "b", n)
    BY ONLY <1>1, <1>2, <2>2, ZSetIIs
  <2> QED BY <2>1, <2>2
<1> QED BY <1>2, <1>3, SumIs, PlainExact

\* A sum or a difference of two parameters.
LEMMA TripleExact ==
  ASSUME NEW s, Ready(s), NEW p \in Triples, NEW k, k.p = p, NEW t,
         \/ k.routine = "zadd" /\ t = ZAdd(s, p[1], p[2], p[3])
         \/ k.routine = "zsub" /\ t = ZSub(s, p[1], p[2], p[3])
         \/ k.routine = "zadd_unsigned" /\ t = ZAddUnsigned(s, p[1], p[2], p[3])
         \/ k.routine = "zsub_unsigned" /\ t = ZSubUnsigned(s, p[1], p[2], p[3])
  PROVE  Exact(k, s, t)
<1>1. PICK a, b, c : a = p[1] /\ b = p[2] /\ c = p[3] /\ a \in Var /\ b \in Var /\ c \in Var
  BY TriplesAre, ReadyIs
<1>2. /\ a # "tmp_sub" /\ b # "tmp_sub" /\ c # "tmp_sub"
      /\ Clean(s[b]) /\ Clean(s[c]) /\ Held(s[b]) /\ Held(s[c])
  BY <1>1, TriplesAre, ReadyIs
<1>3. s \in [Var -> Number] /\ k.p[1] = a /\ k.p[2] = b /\ k.p[3] = c
  BY <1>1, ReadyIs
<1>4. CASE k.routine = "zadd" /\ t = ZAdd(s, p[1], p[2], p[3])
  <2>1. t = ZAdd(s, a, b, c)
    BY <1>1, <1>4
  <2>2. Is(t[a], Value(s[b]) + Value(s[c]))
          <=> ~WrongSum(s, a, b, c, s[b].sign * s[c].sign < 0, s[b].sign * s[c].sign > 0)
    BY ONLY <1>1, <1>2, <1>3, <2>1, ZAddIs
  <2>3. /\ Subtracts(k, s) <=> s[b].sign * s[c].sign < 0
        /\ Adds(k, s) <=> s[b].sign * s[c].sign > 0
    BY <1>3, <1>4 DEF Subtracts, Adds
  <2>4. Is(t[a], Sum(k, s)) <=> ~WrongSum(s, a, b, c, Subtracts(k, s), Adds(k, s))
    BY <1>3, <1>4, <2>2, <2>3, SumIs DEF WrongSum
  <2> QED BY <1>3, <1>4, <2>4, WrongSumExact
<1>5. CASE k.routine = "zsub" /\ t = ZSub(s, p[1], p[2], p[3])
  <2>1. t = ZSub(s, a, b, c)
    BY <1>1, <1>5
  <2>2. Is(t[a], Value(s[b]) - Value(s[c]))
          <=> ~WrongSum(s, a, b, c, s[b].sign * s[c].sign > 0, s[b].sign * s[c].sign < 0)
    BY ONLY <1>1, <1>2, <1>3, <2>1, ZSubIs
  <2>3. /\ Subtracts(k, s) <=> s[b].sign * s[c].sign > 0
        /\ Adds(k, s) <=> s[b].sign * s[c].sign < 0
    BY <1>3, <1>5 DEF Subtracts, Adds
  <2>4. Is(t[a], Sum(k, s)) <=> ~WrongSum(s, a, b, c, Subtracts(k, s), Adds(k, s))
    BY <1>3, <1>5, <2>2, <2>3, SumIs DEF WrongSum
  <2> QED BY <1>3, <1>5, <2>4, WrongSumExact
<1>6. CASE k.routine = "zadd_unsigned" /\ t = ZAddUnsigned(s, p[1], p[2], p[3])
  <2>1. t = ZAddUnsigned(s, a, b, c)
    BY <1>1, <1>6
  <2>2. Is(t[a], AbsOf(Value(s[b])) + AbsOf(Value(s[c]))) <=> ~CarryIsStale(s, a, b, c)
    BY ONLY <1>1, <1>2, <1>3, <2>1, ZAddUnsignedIs
  <2>3. ~Subtracts(k, s) /\ Adds(k, s)
    BY <1>3, <1>6 DEF Subtracts, Adds
  <2>4. Is(t[a], Sum(k, s)) <=> ~WrongSum(s, a, b, c, Subtracts(k, s), Adds(k, s))
    BY <1>3, <1>6, <2>2, <2>3, SumIs DEF WrongSum
  <2> QED BY <1>3, <1>6, <2>4, WrongSumExact
<1>7. CASE k.routine = "zsub_unsigned" /\ t = ZSubUnsigned(s, p[1], p[2], p[3])
  <2>1. t = ZSubUnsigned(s, a, b, c)
    BY <1>1, <1>7
  <2>2. Is(t[a], AbsOf(Value(s[b])) - AbsOf(Value(s[c]))) <=> ~BorrowEndsInside(s, b, c)
    BY ONLY <1>1, <1>2, <1>3, <2>1, ZSubUnsignedIs
  <2>3. Subtracts(k, s) /\ ~Adds(k, s)
    BY <1>3, <1>7 DEF Subtracts, Adds
  <2>4. Is(t[a], Sum(k, s)) <=> ~WrongSum(s, a, b, c, Subtracts(k, s), Adds(k, s))
    BY <1>3, <1>7, <2>2, <2>3, SumIs DEF WrongSum
  <2> QED BY <1>3, <1>7, <2>4, WrongSumExact
<1> QED BY <1>4, <1>5, <1>6, <1>7

\* What zmul and zgcd subtract in place, the order known.
LEMMA InPlaceExact ==
  ASSUME NEW s, Ready(s), NEW k, k.p = <<"b", "c">>, NEW t,
         s["b"].sign >= 0, s["c"].sign >= 0,
         \/ k.routine = "zadd_unsigned_assign" /\ t = ZAddUnsignedAssign(s, "b", "c")
         \/ /\ k.routine = "zsub_nonnegative_assign" /\ t = ZSubNonnegativeAssign(s, "b", "c")
            /\ Value(s["b"]) >= Value(s["c"])
         \/ /\ k.routine = "zsub_positive_assign"
            /\ t = ZSubPositiveAssign(Compared(s, "b", "c"), "b", "c")
            /\ s["b"].sign = 1 /\ s["c"].sign = 1 /\ ZCmpMag(s, "b", "c") = 1
  PROVE  Exact(k, s, t)
<1>1. PICK b \in Var, c \in Var : b = "b" /\ c = "c"
  BY DEF Var
<1>2. /\ s \in [Var -> Number] /\ Held(s[b]) /\ Held(s[c]) /\ b # c
      /\ b # "tmp_sub" /\ c # "tmp_sub"
  BY <1>1, ReadyIs
<1>3. k.p[1] = b /\ k.p[2] = c /\ s[b].sign \in {0, 1} /\ s[c].sign \in {0, 1}
  <2>1. s[b].sign \in {-1, 0, 1} /\ s[c].sign \in {-1, 0, 1}
    BY <1>2, HeldIs
  <2> QED BY <1>1, <2>1
<1>4. PICK v, w : v = Value(s[b]) /\ w = Value(s[c])
  OBVIOUS
<1>5. v \in Nat /\ w \in Nat /\ AbsOf(v) = v /\ AbsOf(w) = w
  <2>1. /\ AbsOf(v) \in Nat /\ AbsOf(w) \in Nat
        /\ s[b].sign = 0 => v = 0
        /\ s[b].sign = 1 => v = AbsOf(v)
        /\ s[c].sign = 0 => w = 0
        /\ s[c].sign = 1 => w = AbsOf(w)
    BY <1>2, <1>4, SignedAbs
  <2> QED BY <1>3, <2>1 DEF AbsOf
<1>6. PICK p : p = Compared(s, b, c)
  OBVIOUS
<1>7. PICK f : f = ZCmpMag(s, b, c) /\ f = Sign(v - w)
  BY <1>2, <1>4, <1>5, ZCmpMagIs
<1>8. ASSUME s[b].sign = 1, s[c].sign = 1, w < v, t = ZSubImpl(p, b, c, p[c].used)
      PROVE  Is(t[b], v - w) <=> ~BorrowEndsInside(s, b, c)
  BY <1>2, <1>4, <1>6, <1>8, AssignedIs
<1>9. CASE k.routine = "zadd_unsigned_assign" /\ t = ZAddUnsignedAssign(s, "b", "c")
  <2>1. t = ZAddUnsignedAssign(s, b, c) /\ s[b].sign >= 0
    BY <1>1, <1>9
  <2>2. Is(t[b], AbsOf(Value(s[b])) + AbsOf(Value(s[c])))
    BY ONLY <1>1, <1>2, <2>1, ZAddUnsignedAssignIs
  <2>3. Is(t[k.p[1]], Sum(k, s))
    BY <1>3, <1>9, <2>2, SumIs
  <2> QED BY <1>9, <2>3, PlainExact
<1>10. CASE /\ k.routine = "zsub_nonnegative_assign" /\ t = ZSubNonnegativeAssign(s, "b", "c")
            /\ Value(s["b"]) >= Value(s["c"])
  <2>1. t = ZSubNonnegativeAssign(s, b, c) /\ w <= v
    BY <1>1, <1>4, <1>5, <1>10
  <2>2. CASE s[c].sign = 0
    <3>1. t = ZAbs(s, b, b)
      BY <2>1, <2>2 DEF ZSubNonnegativeAssign
    <3>2. Is(t[b], AbsOf(Value(s[b])))
      BY ONLY <1>1, <1>2, <3>1, ZAbsIs
    <3>3. w = 0 /\ v - w = v
      BY <1>2, <1>4, <1>5, <2>2, HeldIs
    <3>4. ~BorrowEndsInside(s, b, c)
      BY <2>2 DEF BorrowEndsInside
    <3>5. Is(t[b], v - w)
      BY <1>4, <1>5, <3>2, <3>3
    <3> QED BY <1>3, <1>4, <1>10, <3>4, <3>5, DifferenceExact
  <2>3. CASE s[c].sign = 1
    <3>1. w > 0 /\ v > 0 /\ v # 0 /\ s[b].sign = 1
      <4>1. AbsOf(w) > 0
        BY <1>2, <1>4, <2>3, AbsIs
      <4>2. s[b].sign = 0 => v = 0
        BY <1>2, <1>4, HeldIs
      <4> QED BY <1>3, <1>5, <2>1, <4>1, <4>2
    <3>2. CASE v = w
      <4>1. f = 0
        BY <1>5, <1>7, <3>2 DEF Sign
      <4>2. t = SetSign(p, b, 0)
        <5>1. s[c].sign # 0 /\ ZCmpMag(s, b, c) = 0
          BY <1>7, <2>3, <4>1
        <5> QED BY ONLY <1>6, <2>1, <5>1 DEF ZSubNonnegativeAssign
      <4>3. p \in [Var -> Number]
        BY <1>2, <1>6, ComparedIs
      <4>4. Is(t[b], 0)
        BY <4>2, <4>3, ZeroSigned
      <4>5. ~BorrowEndsInside(s, b, c)
        <5>1. Magnitude(s[b]) = v /\ Magnitude(s[c]) = w
          <6>1. s[b].sign # 0 /\ s[c].sign # 0
            BY <2>3, <3>1
          <6> QED BY <1>2, <1>4, <1>5, <6>1, AbsIs
        <5>2. BorrowEndsInside(s, b, c) => \/ w < v /\ Inside(v, w, p[c].used)
                                           \/ v < w /\ Inside(w, v, p[b].used)
          BY <1>2, <1>6, <5>1, InsideIs
        <5> QED BY <1>5, <3>2, <5>2
      <4>6. Is(t[b], v - w)
        BY <1>5, <3>2, <4>4
      <4> QED BY <1>3, <1>4, <1>10, <4>5, <4>6, DifferenceExact
    <3>3. CASE v # w
      <4>1. w < v
        BY <1>5, <2>1, <3>3
      <4>2. f # 0
        BY <1>5, <1>7, <4>1 DEF Sign
      <4>3. t = ZSubImpl(p, b, c, p[c].used)
        <5>1. s[c].sign # 0 /\ ZCmpMag(s, b, c) # 0
          BY <1>7, <2>3, <4>2
        <5> QED BY ONLY <1>6, <2>1, <5>1 DEF ZSubNonnegativeAssign
      <4>4. Is(t[b], v - w) <=> ~BorrowEndsInside(s, b, c)
        BY <1>8, <2>3, <3>1, <4>1, <4>3
      <4> QED BY <1>3, <1>4, <1>10, <4>4, DifferenceExact
    <3> QED BY <3>2, <3>3
  <2> QED BY <1>3, <2>2, <2>3
<1>11. CASE /\ k.routine = "zsub_positive_assign"
            /\ t = ZSubPositiveAssign(Compared(s, "b", "c"), "b", "c")
            /\ s["b"].sign = 1 /\ s["c"].sign = 1 /\ ZCmpMag(s, "b", "c") = 1
  <2>1. s[b].sign = 1 /\ s[c].sign = 1 /\ f = 1 /\ t = ZSubImpl(p, b, c, p[c].used)
    BY <1>1, <1>6, <1>7, <1>11 DEF ZSubPositiveAssign
  <2>2. w < v
    BY <1>5, <1>7, <2>1 DEF Sign
  <2>3. Is(t[b], v - w) <=> ~BorrowEndsInside(s, b, c)
    BY <1>8, <2>1, <2>2
  <2> QED BY <1>3, <1>4, <1>11, <2>3, DifferenceExact
<1> QED BY <1>9, <1>10, <1>11

LEMMA GivenClean ==
  ASSUME NEW v, NEW r \in Given(v)
  PROVE  Clean(r) /\ r \in Number
<1> SUFFICES Clean(r)
  BY DEF Clean, Held
<1>1. r = Cleared \/ r \in Zeros \/ r \in Nonzeros
  BY DEF Given
<1>2. CASE r = Cleared
  BY <1>2, ZeroClean DEF Cleared
<1>3. CASE r \in Zeros
  <2>1. PICK used \in {0, MaxUsed}, size \in Sizes \cup {0} : r = Filled(0, used, size, <<>>)
    BY <1>3 DEF Zeros
  <2>2. used \in Nat /\ size \in Nat
    BY <2>1, MostIs, SizesAre
  <2> QED BY <2>1, <2>2, ZeroClean
<1>4. CASE r \in Nonzeros
  BY <1>4, NonzeroClean
<1> QED BY <1>1, <1>2, <1>3, <1>4

LEMMA ResultsAre ==
  ASSUME NEW r \in Results
  PROVE  r \in Number
<1>1. MaxUsed \in Nat /\ RoundedUp[MaxUsed] \in Nat
  BY MostIs, RoundedUpIs
<1>2. CASE r = Filled(0, MaxUsed, 0, <<>>)
  BY <1>1, <1>2, FilledIs
<1>3. CASE r = Filled(0, 0, 1, <<>>)
  BY <1>3, FilledIs
<1>4. CASE r = Filled(-1, MaxUsed, RoundedUp[MaxUsed], [i \in 0 .. MaxUsed - 1 |-> Base - 1])
  <2>1. PICK digits : digits = [i \in 0 .. MaxUsed - 1 |-> Base - 1]
    OBVIOUS
  <2>2. \A i \in 0 .. MaxUsed - 1 : digits[i] \in Digit
    <3>1. Base - 1 \in Digit
      BY Bases DEF Digit
    <3> QED BY <2>1, <3>1
  <2>3. -1 \in {-1, 0, 1} /\ r = Filled(-1, MaxUsed, RoundedUp[MaxUsed], digits)
    BY <1>4, <2>1
  <2> QED BY ONLY <1>1, <2>2, <2>3, FilledIs
<1> QED BY <1>2, <1>3, <1>4 DEF Results

LEMMA InitReady == Init => Before
<1> SUFFICES ASSUME Init PROVE Ready(num)
  BY DEF Before
<1>1. PICK a \in Results, b \in Given("b"), c \in Given("c") :
        num = [v \in Var |-> CASE v = "a" -> a [] v = "b" -> b [] v = "c" -> c
                               [] OTHER -> Cleared]
  BY DEF Init
<1>2. a \in Number /\ b \in Number /\ c \in Number /\ Clean(b) /\ Clean(c)
  BY ResultsAre, GivenClean
<1>3. Cleared \in Number
  BY FilledIs DEF Cleared
<1>4. num["b"] = b /\ num["c"] = c
  BY <1>1 DEF Var
<1>5. num \in [Var -> Number]
  BY <1>1, <1>2, <1>3
<1> QED BY <1>2, <1>4, <1>5 DEF Ready

\* A step is one call of a routine of its name, with the parameters of its name.
LEMMA CallIs ==
  ASSUME NEW routine, NEW p, NEW n, NEW s, NEW returned, Calls(routine, p, n, s, returned)
  PROVE  /\ call = NoCall /\ num' = s
         /\ call'.routine = routine /\ call'.p = p /\ call'.n = n
BY DEF Calls

------------------------------------------------------------------------------
(* Bits: those of a magnitude are those of its characters.                   *)

LEMMA TwoRaised ==
  \A i \in Nat : Power(2, i) = Raised(2, i) /\ Raised(2, i) \in Nat /\ Raised(2, i) > 0
BY PowerIsRaised, RaisedPositive

LEMMA PlaceIsRaised == \A k \in Nat : Bits * k \in Nat /\ Place(k) = Raised(2, Bits * k)
<1>0. PICK b \in Nat : b = Bits
  BY DigitsAssumption
<1> DEFINE Z == {k \in Nat : Place(k) = Raised(2, b * k)}
<1>1. 0 \in Z
  BY Places, RaisedSteps, b * 0 = 0
<1>2. ASSUME NEW k \in Nat, k \in Z PROVE k + 1 \in Z
  <2>1. b * (k + 1) = b + b * k /\ b * k \in Nat
    OBVIOUS
  <2>2. Place(k + 1) = Base * Place(k)
    BY Places
  <2>3. Base = Raised(2, b)
    BY <1>0, TwoRaised DEF Base
  <2>4. Raised(2, b + b * k) = Raised(2, b) * Raised(2, b * k)
    BY <2>1, RaisedSum
  <2> QED BY <1>2, <2>1, <2>2, <2>3, <2>4
<1>3. \A n \in Nat : n \in Z
  <2> HIDE DEF Z
  <2>1. Z \in SUBSET Nat
    BY DEF Z
  <2> QED BY <1>1, <1>2, <2>1, Inductive
<1> QED BY <1>0, <1>3

\* A bit of the k-th character.
LEMMA CharBit ==
  ASSUME NEW f, NEW n \in Nat, n <= Room, Figures(f, n), NEW k \in 0 .. n - 1,
         NEW j \in 0 .. Bits - 1, NEW v, v = Lowest(f, n)
  PROVE  /\ Bits * k + j \in Nat
         /\ (v \div Power(2, Bits * k + j)) % 2 = (f[k] \div Power(2, j)) % 2
<1>1. PICK b \in Nat : b = Bits /\ j \in Nat /\ j < b /\ Base = Raised(2, b)
  BY DigitsAssumption, TwoRaised DEF Base
<1>2. k \in Nat /\ k + 1 \in Nat /\ k <= n /\ k + 1 <= n /\ k \in 0 .. Room - 1 /\ v \in Nat
  BY LowestType, DigitsAssumption
<1>3. PICK p \in Nat, base \in Nat, m \in Nat :
        p = Place(k) /\ p > 0 /\ base = Base /\ base > 0 /\ m = b * k /\ p = Raised(2, m)
  BY <1>1, <1>2, Places, Bases, PlaceIsRaised
<1>4. f[k] \in Nat /\ f[k] < base /\ Lowest(f, k) \in Nat /\ Lowest(f, k) < p
  <2>1. Figures(f, k)
    BY <1>2 DEF Figures
  <2>2. f[k] \in Digit
    BY DEF Figures
  <2> k \in Nat /\ k <= Room
    BY <1>2, DigitsAssumption
  <2>3. Lowest(f, k) \in Nat /\ Lowest(f, k) < Place(k)
    BY ONLY <2>1, k \in Nat, k <= Room, LowestType
  <2> QED BY <1>3, <2>2, <2>3, DigitType
<1>5. PICK x \in Nat : x = f[k] /\ x < base
  BY <1>4
<1>6. (v \div p) % base = x
  <2>1. v % Place(k + 1) = Lowest(f, k + 1)
    BY <1>2, LowestSplit
  <2>2. Place(k + 1) = p * base
    <3>1. Place(k + 1) = base * p
      BY <1>2, <1>3, Places
    <3> QED BY <3>1
  <2>3. PICK l \in Nat : l = Lowest(f, k) /\ l < p /\ Lowest(f, k + 1) = l + x * p
    BY <1>2, <1>3, <1>4, <1>5, LowestPlaces
  <2>4. (v % (p * base)) \div p = (v \div p) % base
    BY <1>2, <1>3, Divisions
  <2>5. (p * x + l) \div p = x
    <3>1. p * x + l \in Nat
      BY <1>3
    <3>2. p > 0 /\ l < p
      BY <1>3, <2>3
    <3> QED BY ONLY <3>1, <3>2, p \in Nat, x \in Nat, l \in Nat, QuotientIs
  <2>6. l + x * p = p * x + l
    BY <1>3
  <2> QED BY <2>1, <2>2, <2>3, <2>4, <2>5, <2>6
<1>7. (v \div Raised(2, m + j)) % 2 = (x \div Raised(2, j)) % 2
  BY <1>1, <1>2, <1>3, <1>6, BitOfDigit
<1> QED BY <1>1, <1>3, <1>5, <1>7, TwoRaised, m + j \in Nat

LEMMA NoBitAbove ==
  ASSUME NEW v \in Nat, NEW n \in Nat, v < Place(n), NEW i \in Nat, i >= Bits * n
  PROVE  (v \div Power(2, i)) % 2 = 0
<1>1. PICK m \in Nat : m = Bits * n /\ Place(n) = Raised(2, m)
  BY PlaceIsRaised
<1>2. Raised(2, m) <= Raised(2, i)
  BY <1>1, RaisedMonotone
<1>3. PICK p \in Nat : p = Power(2, i) /\ p > 0 /\ v < p
  BY <1>1, <1>2, TwoRaised
<1>4. v \div p = 0
  BY <1>3, QuotientIs, p * 0 + v = v
<1> QED BY <1>3, <1>4

LEMMA SomeBit ==
  ASSUME NEW d \in Digit, d # 0
  PROVE  \E j \in 0 .. Bits - 1 : (d \div Power(2, j)) % 2 = 1
<1>1. PICK b \in Nat : b = Bits /\ Base = Raised(2, b)
  BY DigitsAssumption, TwoRaised DEF Base
<1>2. d \in Nat /\ d < Raised(2, b)
  BY <1>1, DigitType
<1>3. PICK j \in 0 .. b - 1 : ~((d \div Raised(2, j)) % 2 # 1)
  BY <1>2, NoBits
<1> QED BY <1>1, <1>3, TwoRaised

\* m are the ones of a number that has the n characters f of b bits.
OnesOf(m, f, n, b) ==
  /\ \A k \in 0 .. n - 1, j \in 0 .. b - 1 : b * k + j \in m <=> j \in OnesIn(f[k], b)
  /\ \A i \in m : i \in Nat /\ \E k \in 0 .. n - 1, j \in 0 .. b - 1 : i = b * k + j

\* The ones of a number are those of its characters.
LEMMA OnesOfChars ==
  ASSUME NEW f, NEW n \in Nat, n <= Room, Figures(f, n), NEW v, v = Lowest(f, n),
         NEW w \in Nat, Bits * n <= w
  PROVE  OnesOf(OnesIn(v, w), f, n, Bits)
<1>0. PICK m, b : m = OnesIn(v, w) /\ b = Bits
  OBVIOUS
<1>1. b \in Nat /\ b >= 1 /\ b * n <= w
  BY <1>0, DigitsAssumption
<1>2. v \in Nat /\ v < Place(n)
  BY LowestType
<1>5. m = {i \in 0 .. w - 1 : (v \div Power(2, i)) % 2 = 1}
  BY <1>0 DEF OnesIn
<1>6. ASSUME NEW k \in 0 .. n - 1, NEW j \in 0 .. b - 1
      PROVE  b * k + j \in m <=> j \in OnesIn(f[k], b)
  <2>1. b * k + j \in Nat /\ (v \div Power(2, b * k + j)) % 2 = (f[k] \div Power(2, j)) % 2
    <3>1. /\ j \in 0 .. Bits - 1 /\ k \in 0 .. n - 1 /\ n \in Nat /\ n <= Room
          /\ Figures(f, n) /\ v = Lowest(f, n)
      BY <1>0
    <3>2. Bits * k + j \in Nat /\ (v \div Power(2, Bits * k + j)) % 2 = (f[k] \div Power(2, j)) % 2
      BY ONLY <3>1, CharBit
    <3> QED BY <1>0, <3>2
  <2>2. b * k + j \in 0 .. w - 1
    <3>1. PICK x \in Nat : n = k + 1 + x
      BY n - k - 1 \in Nat, n = k + 1 + (n - k - 1)
    <3>2. b * n = b * k + b + b * x /\ b * x \in Nat
      BY <1>1, <3>1
    <3> QED BY <1>1, <2>1, <3>2
  <2> QED BY <1>5, <2>1, <2>2 DEF OnesIn
<1>7. ASSUME NEW i \in m
      PROVE  i \in Nat /\ \E k \in 0 .. n - 1, j \in 0 .. b - 1 : i = b * k + j
  <2>1. i \in Nat /\ (v \div Power(2, i)) % 2 = 1
    BY <1>5
  <2>2. i < b * n
    <3>1. ~(i >= b * n)
      BY <1>0, <1>2, <2>1, NoBitAbove
    <3> QED BY <1>1, <2>1, <3>1, b * n \in Nat
  <2>3. PICK k \in Nat, j \in Nat : k = i \div b /\ j = i % b /\ j < b /\ i = b * k + j
    BY <1>1, <2>1, Quotient
  <2>4. k < n
    BY <1>1, <2>1, <2>2, <2>3, QuotientMonotone
  <2>5. k \in 0 .. n - 1 /\ j \in 0 .. b - 1
    BY <1>1, <2>3, <2>4
  <2> QED BY <2>1, <2>3, <2>5
<1>8. OnesOf(m, f, n, b)
  BY <1>6, <1>7 DEF OnesOf
<1> QED BY <1>0, <1>8

\* An operand has no more bits than Width.
LEMMA WidthIs ==
  /\ Width \in Nat /\ Bits * (MaxUsed + 1) + MaxBits = Width
  /\ \A n \in Nat : n <= MaxUsed => Bits * n \in Nat /\ Bits * n <= Width
<1>1. PICK b \in Nat, m \in Nat, x \in Nat : b = Bits /\ m = MaxUsed /\ x = MaxBits
  BY DigitsAssumption, CallsAssumption
<1>2. b * (m + 1) \in Nat
  BY <1>1
<1>3. ASSUME NEW n \in Nat, n <= m PROVE b * n \in Nat /\ b * n <= b * (m + 1)
  <2>1. PICK y \in Nat : m + 1 = n + y
    BY <1>1, <1>3, m + 1 - n \in Nat, m + 1 = n + (m + 1 - n)
  <2>2. b * (n + y) = b * n + b * y /\ b * n \in Nat /\ b * y \in Nat
    BY <1>1
  <2> QED BY <2>1, <2>2
<1> QED BY <1>1, <1>2, <1>3 DEF Width

\* The ones of an integer.
LEMMA OnesAre ==
  ASSUME NEW r, Held(r), r.sign # 0
  PROVE  OnesOf(Ones(Value(r)), r.chars, r.used, Bits)
<1>1. PICK n, v, f :
        /\ n \in Nat /\ v \in Nat
        /\ n = r.used /\ n <= MaxUsed /\ n <= Room /\ f = r.chars /\ Figures(f, n)
        /\ v = Lowest(f, n) /\ v = Magnitude(r)
  BY HeldIs, MostIs
<1>2. AbsOf(Value(r)) = v
  BY <1>1, AbsIs
<1>3. Width \in Nat /\ Bits * n <= Width
  BY <1>1, WidthIs
<1>4. OnesOf(OnesIn(v, Width), f, n, Bits)
  BY ONLY <1>1, <1>3, OnesOfChars
<1> QED BY <1>1, <1>2, <1>4 DEF Ones

------------------------------------------------------------------------------
(* What routines answer.                                                     *)

LEMMA NoBitOfZero == \A i \in Nat : (0 \div Power(2, i)) % 2 = 0
<1> SUFFICES ASSUME NEW i \in Nat PROVE (0 \div Power(2, i)) % 2 = 0
  OBVIOUS
<1>1. PICK p \in Nat : p = Power(2, i) /\ p > 0
  BY TwoRaised
<1>2. 0 \div p = 0
  BY <1>1, QuotientIs, p * 0 + 0 = 0
<1> QED BY <1>1, <1>2

\* The ones of a character are some of the numbers below its width.
LEMMA CharOnes ==
  ASSUME NEW d \in Digit, d # 0
  PROVE  /\ OnesIn(d, Bits) \in SUBSET (0 .. Bits - 1) /\ OnesIn(d, Bits) # {}
         /\ OnesIn(d, Bits) \in SUBSET Nat
BY SomeBit, DigitsAssumption DEF OnesIn

LEMMA ZLsbIs ==
  ASSUME NEW s \in [Var -> Number], NEW a \in Var, Held(s[a])
  PROVE  \A e \in Builds : (ZLsb(s, a, e) = IF Value(s[a]) = 0 THEN SizeMax
                                            ELSE Min(Ones(Value(s[a]))))
                            <=> ~(e = "C" /\ s[a].sign # 0)
<1>1. PICK r \in Number : r = s[a] /\ Held(r)
  OBVIOUS
<1>2. CASE r.sign = 0
  BY <1>1, <1>2, HeldIs DEF ZLsb
<1>3. CASE r.sign # 0
  <2>1. PICK n, f :
          /\ n \in Nat
          /\ n = r.used /\ n < Room /\ f = r.chars /\ Figures(f, n)
          /\ \E k \in 0 .. n - 1 : f[k] # 0
    BY <1>1, <1>3, HeldIs DEF Held
  <2>2. Value(r) # 0
    <3>1. AbsOf(Value(r)) > 0
      BY <1>1, <1>3, AbsIs
    <3> QED BY <3>1 DEF AbsOf
  <2> DEFINE S == {k \in Index : f[k] # 0}
  <2>3. S \in SUBSET Nat /\ S # {}
    BY <2>1, MostIs DEF Index
  <2>4. PICK i \in Nat : i = Min(S) /\ i \in S /\ \A k \in S : i <= k
    <3> HIDE DEF S
    <3> QED BY <2>3, MinIs
  <2>5. i \in 0 .. n - 1
    <3>1. PICK k \in 0 .. n - 1 : f[k] # 0
      BY <2>1
    <3>2. k \in S
      BY <2>1, <3>1, MostIs DEF Index
    <3> QED BY <2>1, <2>4, <3>1, <3>2
  <2>6. f[i] \in Digit /\ f[i] # 0
    BY <2>1, <2>4, <2>5 DEF Figures
  <2>7. PICK b, T :
          /\ b \in Nat
          /\ b = Bits /\ b >= 1 /\ T = OnesIn(f[i], b)
          /\ T \in SUBSET (0 .. b - 1) /\ T \in SUBSET Nat /\ T # {}
    BY <2>6, CharOnes, DigitsAssumption
  <2>8. PICK j \in 0 .. b - 1 : j = Min(T) /\ j \in T /\ \A k \in T : j <= k
    BY <2>7, MinIs
  <2>9. PICK m : m = Ones(Value(r))
    OBVIOUS
  <2>10. OnesOf(m, f, n, b)
    BY <1>1, <1>3, <2>1, <2>7, <2>9, OnesAre
  <2>11. b * i + j \in m /\ b * i + j \in Nat
    BY <2>5, <2>7, <2>8, <2>10 DEF OnesOf
  <2>12. \A k \in m : b * i + j <= k
    <3> SUFFICES ASSUME NEW k \in m PROVE b * i + j <= k
      OBVIOUS
    <3>1. PICK x \in 0 .. n - 1, y \in 0 .. b - 1 : k = b * x + y
      BY <2>10 DEF OnesOf
    <3>2. y \in OnesIn(f[x], b)
      BY <2>10, <3>1 DEF OnesOf
    <3>3. f[x] # 0
      <4>1. (f[x] \div Power(2, y)) % 2 = 1 /\ y \in Nat
        BY <3>1, <3>2 DEF OnesIn
      <4> QED BY <4>1, NoBitOfZero
    <3>4. i <= x
      <4>1. x \in S
        BY <2>1, <3>3, MostIs DEF Index
      <4> QED BY <2>4, <4>1
    <3>5. x \in Nat /\ y \in Nat /\ j \in Nat /\ j < b
      BY <2>7
    <3>6. CASE i = x
      <4>1. j <= y
        BY <2>7, <2>8, <3>2, <3>6
      <4>2. b * i = b * x /\ b * i \in Nat
        BY <2>7, <3>6
      <4> QED BY <3>1, <3>5, <4>1, <4>2
    <3>7. CASE i # x
      <4>1. i < x
        BY <3>4, <3>5, <3>7
      <4>2. b * i + j < b * x + y
        BY <2>7, <3>5, <4>1, BitOrder
      <4>3. b * x + y \in Nat
        BY <2>7, <3>5
      <4> QED BY <2>11, <3>1, <4>2, <4>3
    <3> QED BY <3>6, <3>7
  <2>13. Min(m) = b * i + j
    <3>1. m \in SUBSET Nat /\ m # {}
      BY <2>10, <2>11 DEF OnesOf
    <3>2. Min(m) \in m /\ Min(m) \in Nat /\ Min(m) <= b * i + j
      BY <2>11, <3>1, MinIs
    <3> QED BY <2>11, <2>12, <3>2
  <2>14. ZLsb(s, a, "builtin") = i * b + j
    BY <1>1, <1>3, <2>1, <2>4, <2>7, <2>8 DEF ZLsb, AddCtz
  <2>15. i * b = b * i /\ i * b \in Nat
    BY <2>7
  <2>16. ZLsb(s, a, "C") # i * b + j
    <3> DEFINE C == (0 .. b) \ T
    <3>1. b \in C /\ C \in SUBSET Nat
      BY <2>7
    <3> HIDE DEF C
    <3>2. PICK y \in Nat : y = Min(C) /\ y # j
      <4>1. Min(C) \in C
        BY <3>1, MinIs
      <4> QED BY <2>8, <3>1, <4>1 DEF C
    <3>3. ZLsb(s, a, "C") = i * b + y
      BY <1>1, <1>3, <2>1, <2>4, <2>7, <3>2 DEF C, ZLsb, AddCtz
    <3> QED BY ONLY <2>8, <2>15, <3>2, <3>3
  <2> QED BY <1>1, <1>3, <2>2, <2>9, <2>13, <2>14, <2>15, <2>16 DEF Builds
<1> QED BY <1>2, <1>3

LEMMA TrimIs ==
  ASSUME NEW r, Held(r), r.sign # 0, NEW q, q = Trim(r)
  PROVE  Trimmed(q, r) /\ q.used \in Nat /\ q.used >= 1 /\ q.chars[q.used - 1] # 0
<1>1. 0 \in Nat /\ q = TrimTo(r, 0)
  BY DEF Trim
<1>2. Trimmed(q, r) /\ (q.used > 0 => q.chars[q.used - 1] # 0)
  BY <1>1, TrimToIs
<1>3. Held(q) /\ q.sign # 0
  BY <1>2 DEF Trimmed
<1> QED BY <1>2, <1>3, HeldIs

LEMMA ZBitsIs ==
  ASSUME NEW s \in [Var -> Number], NEW a \in Var, Held(s[a])
  PROVE  ZBits(s, a) = IF Value(s[a]) = 0 THEN 1 ELSE Max(Ones(Value(s[a]))) + 1
<1>1. PICK r \in Number : r = s[a] /\ Held(r)
  OBVIOUS
<1>2. CASE r.sign = 0
  <2>1. Trim(r).sign = 0
    BY <1>1, <1>2 DEF Trim, TrimTo, Number
  <2> QED BY <1>1, <1>2, <2>1, HeldIs DEF ZBits
<1>3. CASE r.sign # 0
  <2>1. PICK q : /\ q = Trim(r) /\ Trimmed(q, r) /\ q.used \in Nat /\ q.used >= 1
                 /\ q.chars[q.used - 1] # 0
    BY <1>1, <1>3, TrimIs
  <2>2. Held(q) /\ q.sign # 0 /\ Value(q) = Value(r)
    BY <1>3, <2>1 DEF Trimmed
  <2>3. PICK n, f : n \in Nat /\ n = q.used /\ n >= 1 /\ f = q.chars /\ Figures(f, n) /\ f[n - 1] # 0
    BY <2>1, <2>2, HeldIs
  <2>top. PICK i \in Nat : i = n - 1 /\ f[i] # 0 /\ i \in 0 .. n - 1
    BY <2>3
  <2>4. Value(r) # 0
    <3>1. AbsOf(Value(q)) > 0
      BY <2>2, AbsIs
    <3> QED BY <2>2, <3>1 DEF AbsOf
  <2>5. f[i] \in Digit /\ f[i] # 0
    BY <2>3, <2>top DEF Figures
  <2>6. PICK b, T :
          /\ b \in Nat
          /\ b = Bits /\ b >= 1 /\ T = OnesIn(f[i], b)
          /\ T \in SUBSET (0 .. b - 1) /\ T # {}
    BY <2>5, CharOnes, DigitsAssumption
  <2>7. PICK j \in 0 .. b - 1 : j = Max(T) /\ j \in T /\ \A k \in T : k <= j
    <3>1. b - 1 \in Nat
      BY <2>6
    <3> QED BY <2>6, <3>1, MaxIs
  <2>8. PICK m : m = Ones(Value(q))
    OBVIOUS
  <2>9. OnesOf(m, f, n, b)
    BY <2>2, <2>3, <2>6, <2>8, OnesAre
  <2>10. b * i + j \in m /\ b * i + j \in Nat
    BY <2>3, <2>6, <2>7, <2>9, <2>top DEF OnesOf
  <2>11. \A k \in m : k <= b * i + j
    <3> SUFFICES ASSUME NEW k \in m PROVE k <= b * i + j
      OBVIOUS
    <3>1. PICK x \in 0 .. n - 1, y \in 0 .. b - 1 : k = b * x + y
      BY <2>9 DEF OnesOf
    <3>2. y \in OnesIn(f[x], b)
      BY <2>9, <3>1 DEF OnesOf
    <3>3. x \in Nat /\ y \in Nat /\ i \in Nat /\ j \in Nat /\ y < b /\ x <= i
      BY <2>3, <2>6, <2>top, <3>1
    <3>4. CASE i = x
      <4>1. y <= j
        BY <2>6, <2>7, <3>2, <3>4
      <4>2. b * i = b * x /\ b * i \in Nat
        BY <2>6, <3>4
      <4> QED BY <3>1, <3>3, <4>1, <4>2
    <3>5. CASE i # x
      <4>1. x < i
        BY <3>3, <3>5
      <4>2. b * x + y < b * i + j
        BY <2>6, <3>3, <4>1, BitOrder
      <4>3. b * x + y \in Nat
        BY <2>6, <3>3
      <4> QED BY <2>10, <3>1, <4>2, <4>3
    <3> QED BY <3>4, <3>5
  <2>12. Max(m) = b * i + j
    <3>1. PICK e \in Nat : e = b * i + j /\ e \in m /\ \A k \in m : k <= e
      BY <2>10, <2>11
    <3>2. m \in SUBSET (0 .. e) /\ m # {}
      BY <2>9, <3>1 DEF OnesOf
    <3>3. Max(m) \in m /\ e <= Max(m)
      BY <3>1, <3>2, MaxIs
    <3>4. Max(m) <= e /\ Max(m) \in Nat
      BY <2>9, <3>1, <3>3 DEF OnesOf
    <3> QED BY <3>1, <3>3, <3>4
  <2>13. ZBits(s, a) = i * b + j + 1
    BY <1>1, <2>1, <2>2, <2>3, <2>6, <2>7, <2>top DEF ZBits
  <2>14. i * b = b * i
    BY <2>3, <2>6, <2>top
  <2> QED BY <1>1, <2>2, <2>4, <2>8, <2>12, <2>13, <2>14
<1> QED BY <1>2, <1>3

LEMMA ZBTestIs ==
  ASSUME NEW s \in [Var -> Number], NEW a \in Var, Held(s[a]), NEW bit \in Shift
  PROVE  ZBTest(s, a, bit) = IF bit \in Ones(Value(s[a])) THEN 1 ELSE 0
<1>1. PICK r \in Number : r = s[a] /\ Held(r)
  OBVIOUS
<1>2. PICK b \in Nat : b = Bits /\ b >= 1
  BY DigitsAssumption
<1>3. PICK k \in Nat, j \in Nat : /\ k = bit \div b /\ j = bit % b /\ j < b /\ bit = b * k + j
                                  /\ j \in 0 .. b - 1
  <2>1. bit \in Nat
    BY CallsAssumption DEF Shift
  <2>2. /\ bit \div b \in Nat /\ bit % b \in Nat /\ bit % b < b
        /\ bit = b * (bit \div b) + (bit % b)
    BY <1>2, <2>1, Quotient
  <2> QED BY <1>2, <2>2
<1>4. ZBTest(s, a, bit) = IF r.sign = 0 \/ k >= r.used THEN 0
                          ELSE (r.chars[k] \div Power(2, j)) % 2
  BY <1>1, <1>2, <1>3 DEF ZBTest
<1>5. CASE r.sign = 0
  <2>1. AbsOf(Value(r)) = 0
    BY <1>1, <1>5, AbsIs
  <2>2. bit \notin Ones(Value(r))
    BY <1>2, <2>1, NoBitOfZero, CallsAssumption DEF Ones, OnesIn, Shift
  <2> QED BY <1>1, <1>4, <1>5, <2>2
<1>6. CASE r.sign # 0
  <2>1. PICK n, f : n \in Nat /\ n = r.used /\ f = r.chars /\ Figures(f, n)
    BY <1>1, <1>6, HeldIs
  <2>2. PICK m : m = Ones(Value(r)) /\ OnesOf(m, f, n, b)
    BY <1>1, <1>2, <1>6, <2>1, OnesAre
  <2>3. CASE k < n
    <3>1. bit \in m <=> j \in OnesIn(f[k], b)
      <4>1. k \in 0 .. n - 1
        BY <2>1, <2>3
      <4> QED BY <1>3, <2>2, <4>1 DEF OnesOf
    <3>2. PICK d \in Nat : d = (f[k] \div Power(2, j)) % 2 /\ (d = 0 \/ d = 1)
      <4>1. f[k] \in Nat
        BY <2>1, <2>3, DigitType, k \in 0 .. n - 1 DEF Figures
      <4>2. PICK p \in Nat : p = Power(2, j) /\ p > 0
        BY <1>3, TwoRaised
      <4>3. f[k] \div p \in Nat
        BY <4>1, <4>2, Quotient
      <4> QED BY <4>2, <4>3
    <3>3. j \in OnesIn(f[k], b) <=> d = 1
      BY <1>3, <3>2 DEF OnesIn
    <3>4. ZBTest(s, a, bit) = d
      BY <1>4, <1>6, <2>1, <2>3, <3>2
    <3> QED BY <1>1, <2>2, <3>1, <3>2, <3>3, <3>4
  <2>4. CASE ~(k < n)
    <3>1. bit \notin m
      <4> SUFFICES ASSUME bit \in m PROVE FALSE
        OBVIOUS
      <4>1. PICK x \in 0 .. n - 1, y \in 0 .. b - 1 : bit = b * x + y
        BY <2>2 DEF OnesOf
      <4>2. x \in Nat /\ y \in Nat /\ y < b /\ x < k
        BY <1>2, <1>3, <2>1, <2>4
      <4>3. b * x + y < b * k + j
        BY <1>2, <1>3, <4>2, BitOrder
      <4>4. b * x + y \in Nat
        BY <1>2, <4>2
      <4> QED BY <1>3, <4>1, <4>3, <4>4
    <3>2. ZBTest(s, a, bit) = 0
      BY <1>4, <2>1, <2>4
    <3> QED BY <1>1, <2>2, <3>1, <3>2
  <2> QED BY <2>3, <2>4
<1> QED BY <1>5, <1>6

\* zcmp goes by the signs, or by the magnitudes.
LEMMA ZCmpIs ==
  ASSUME NEW s \in [Var -> Number], NEW a \in Var, NEW b \in Var, Held(s[a]), Held(s[b])
  PROVE  ZCmp(s, a, b) = Sign(Value(s[a]) - Value(s[b]))
<1>1. PICK v \in Nat, w \in Nat, p \in {-1, 0, 1}, q \in {-1, 0, 1} :
        /\ v = AbsOf(Value(s[a])) /\ w = AbsOf(Value(s[b])) /\ p = s[a].sign /\ q = s[b].sign
        /\ p # 0 => v > 0
        /\ q # 0 => w > 0
  BY AbsIs, HeldIs
<1>2. /\ p = 0 => Value(s[a]) = 0
      /\ p = 1 => Value(s[a]) = v
      /\ p = -1 => Value(s[a]) = -v
      /\ q = 0 => Value(s[b]) = 0
      /\ q = 1 => Value(s[b]) = w
      /\ q = -1 => Value(s[b]) = -w
  BY <1>1, SignedAbs
<1>3. PICK x \in Int, y \in Int : x = Value(s[a]) /\ y = Value(s[b])
  BY HeldIs
<1>4. CASE p # q
  <2>1. ZCmp(s, a, b) = Sign(p - q)
    BY <1>1, <1>4 DEF ZCmp
  <2> QED BY <1>1, <1>2, <1>3, <1>4, <2>1 DEF Sign
<1>5. CASE p = q
  <2>1. PICK c \in Int : c = ZCmpMag(s, a, b) /\ c = Sign(v - w)
    BY <1>1, ZCmpMagIs DEF Sign
  <2>2. ZCmp(s, a, b) = p * c
    BY <1>1, <1>5, <2>1 DEF ZCmp
  <2>3. CASE p = 0
    <3>1. p * c = 0
      BY <2>1, <2>3
    <3> QED BY <1>2, <1>3, <1>5, <2>2, <2>3, <3>1 DEF Sign
  <2>4. CASE p = 1
    <3>1. p * c = c
      BY <2>1, <2>4
    <3> QED BY <1>2, <1>3, <1>5, <2>1, <2>2, <2>4, <3>1
  <2>5. CASE p = -1
    <3>1. p * c = -c
      BY <2>1, <2>5
    <3> QED BY <1>2, <1>3, <1>5, <2>1, <2>2, <2>5, <3>1 DEF Sign
  <2> QED BY <2>3, <2>4, <2>5
<1> QED BY <1>4, <1>5

\* A magnitude against a number of the machine.
LEMMA AgainstCharIs ==
  ASSUME NEW r, Held(r), r.sign # 0, NEW n \in Digit
  PROVE  AgainstChar(Trim(r), n) = Sign(AbsOf(Value(r)) - n)
<1>1. PICK q : Trimmed(q, r) /\ q = Trim(r) /\ q.used \in Nat /\ q.used >= 1 /\ q.chars[q.used - 1] # 0
  BY TrimIs
<1>2. PICK k, f :
          /\ k \in Nat
          /\ q.used = k + 1 /\ k < Room /\ f = q.chars /\ Figures(f, k + 1)
          /\ f[k] # 0
  <2>1. PICK k \in Nat : q.used = k + 1 /\ k = q.used - 1
    BY <1>1
  <2>2. Held(q) /\ q.sign # 0
    BY <1>1 DEF Trimmed
  <2>3. q.used < Room /\ Figures(q.chars, q.used)
    BY <2>2, HeldIs
  <2>4. k < Room
    BY <2>1, <2>3, MostIs
  <2> QED BY <1>1, <2>1, <2>3, <2>4
<1>magnitude. PICK v \in Nat : v = Lowest(f, k + 1) /\ v = Magnitude(q)
  <2>1. Held(q) /\ q.sign # 0
    BY <1>1 DEF Trimmed
  <2> QED BY <1>2, <2>1, HeldIs
<1>3. AbsOf(Value(r)) = v
  <2>1. Magnitude(q) = Magnitude(r)
    BY <1>1 DEF Trimmed
  <2> QED BY <1>magnitude, <2>1, AbsIs
<1>4. n \in Nat /\ n < Base
  BY DigitType
<1>5. CASE k = 0
  <2>1. f[0] \in Nat
    BY <1>2, <1>5, DigitType, 0 \in 0 .. (k + 1) - 1 DEF Figures
  <2>2. v = f[0]
    <3>1. 0 \in 0 .. Room - 1
      BY MostIs
    <3>2. Lowest(f, 0 + 1) = Lowest(f, 0) + f[0] * Place(0) /\ Lowest(f, 0) = 0 /\ Place(0) = 1
      BY <3>1, LowestPlaces, Places
    <3> QED BY <1>2, <1>magnitude, <1>5, <2>1, <3>2
  <2> QED BY <1>1, <1>2, <1>3, <1>5, <2>2 DEF AgainstChar
<1>6. CASE k # 0
  <2>1. v >= Place(k)
    BY <1>2, <1>magnitude, LowestTop
  <2>2. Place(k) >= Base
    <3>1. PICK j \in Nat : k = j + 1
      BY <1>2, <1>6, k - 1 \in Nat, k = (k - 1) + 1
    <3>2. PICK p \in Nat, b \in Nat : p = Place(j) /\ p >= 1 /\ b = Base
      BY Places, Bases
    <3>3. b * p >= b
      BY <3>2
    <3> QED BY <3>1, <3>2, <3>3, Places
  <2>3. v > n
    BY <1>2, <1>4, <2>1, <2>2, Bases, Places
  <2>4. AgainstChar(q, n) = 1
    BY <1>2, <1>6 DEF AgainstChar
  <2> QED BY <1>1, <1>3, <1>4, <2>3, <2>4 DEF Sign
<1> QED BY <1>5, <1>6

LEMMA ZCmpUIs ==
  ASSUME NEW s \in [Var -> Number], NEW a \in Var, Held(s[a]), NEW n \in Digit
  PROVE  ZCmpU(s, a, n) = Sign(Value(s[a]) - n)
<1>1. PICK v \in Nat, p \in {-1, 0, 1} :
        /\ v = AbsOf(Value(s[a])) /\ p = s[a].sign
        /\ p # 0 => v > 0
  BY AbsIs, HeldIs
<1>2. /\ p = 0 => Value(s[a]) = 0
      /\ p = 1 => Value(s[a]) = v
      /\ p = -1 => Value(s[a]) = -v
  BY <1>1, SignedAbs
<1>3. PICK x \in Int : x = Value(s[a])
  BY HeldIs
<1>4. n \in Nat
  BY DigitType
<1>5. CASE n = 0
  <2>1. ZCmpU(s, a, n) = p
    BY <1>1, <1>5 DEF ZCmpU
  <2> QED BY <1>1, <1>2, <1>3, <1>5, <2>1 DEF Sign
<1>6. CASE n # 0 /\ p <= 0
  <2>1. ZCmpU(s, a, n) = -1
    BY <1>1, <1>6 DEF ZCmpU
  <2>2. x - n < 0
    BY <1>1, <1>2, <1>3, <1>4, <1>6
  <2> QED BY <1>3, <2>1, <2>2 DEF Sign
<1>7. CASE n # 0 /\ p = 1
  <2>1. ZCmpU(s, a, n) = AgainstChar(Trim(s[a]), n)
    <3>1. ~(s[a].sign <= 0) /\ n # 0
      BY <1>1, <1>7
    <3> QED BY <3>1 DEF ZCmpU
  <2>2. AgainstChar(Trim(s[a]), n) = Sign(v - n)
    <3>1. Held(s[a]) /\ s[a].sign # 0 /\ n \in Digit
      BY <1>1, <1>7
    <3>2. AgainstChar(Trim(s[a]), n) = Sign(AbsOf(Value(s[a])) - n)
      BY ONLY <3>1, AgainstCharIs
    <3> QED BY <1>1, <3>2
  <2> QED BY <1>2, <1>7, <2>1, <2>2
<1> QED BY <1>1, <1>5, <1>6, <1>7

LEMMA ZCmpIIs ==
  ASSUME NEW s \in [Var -> Number], NEW a \in Var, Held(s[a]), NEW n \in Int64
  PROVE  ZCmpI(s, a, n) = Sign(Value(s[a]) - n)
<1>1. PICK v \in Nat, p \in {-1, 0, 1} :
        /\ v = AbsOf(Value(s[a])) /\ p = s[a].sign
        /\ p # 0 => v > 0
  BY AbsIs, HeldIs
<1>2. /\ p = 0 => Value(s[a]) = 0
      /\ p = 1 => Value(s[a]) = v
      /\ p = -1 => Value(s[a]) = -v
  BY <1>1, SignedAbs
<1>3. PICK x \in Int : x = Value(s[a])
  BY HeldIs
<1>4. n \in Int /\ (n >= 0 => n \in Digit) /\ (n < 0 => (-n) % Base = -n /\ -n \in Digit)
  <2>1. PICK b \in Nat, h \in Nat : b = Base /\ b >= 2 /\ h = b \div 2 /\ h < b
    BY Bases
  <2>2. n \in -h .. h - 1
    BY <2>1 DEF Int64
  <2>3. n < 0 => (-n) % b = -n
    <3> SUFFICES ASSUME n < 0 PROVE (-n) % b = -n
      OBVIOUS
    <3>1. PICK g \in Nat : g = -n /\ g < b
      BY <2>1, <2>2
    <3>2. g % b = g
      BY <2>1, <3>1, QuotientIs, b * 0 + g = g
    <3> QED BY <3>1, <3>2
  <2> QED BY <2>1, <2>2, <2>3 DEF Digit
<1>5. CASE n = 0
  <2>1. ZCmpI(s, a, n) = p
    BY <1>1, <1>5 DEF ZCmpI
  <2> QED BY <1>1, <1>2, <1>3, <1>5, <2>1 DEF Sign
<1>6. CASE n # 0 /\ p = 0
  <2>1. ZCmpI(s, a, n) = -Sign(n)
    BY <1>1, <1>6 DEF ZCmpI
  <2> QED BY <1>2, <1>4, <1>6, <2>1 DEF Sign
<1>7. CASE n < 0 /\ p = 1
  <2>1. s[a].sign > 0 /\ ~(s[a].sign < 0) /\ s[a].sign # 0 /\ n # 0 /\ n < 0 /\ ~(n > 0)
    BY <1>1, <1>4, <1>7
  <2>2. ZCmpI(s, a, n) = 1
    BY <2>1 DEF ZCmpI
  <2> QED BY <1>1, <1>2, <1>3, <1>4, <1>7, <2>2 DEF Sign
<1>8. CASE n < 0 /\ p = -1
  <2>1. ~(s[a].sign > 0) /\ s[a].sign < 0 /\ s[a].sign # 0 /\ n # 0 /\ n < 0 /\ ~(n > 0)
    BY <1>1, <1>4, <1>8
  <2>2. ZCmpI(s, a, n) = -AgainstChar(Trim(s[a]), (-n) % Base)
    BY <2>1 DEF ZCmpI
  <2>3. PICK g \in Nat : g = -n /\ g \in Digit /\ (-n) % Base = g
    BY <1>4, <1>8
  <2>4. AgainstChar(Trim(s[a]), g) = Sign(v - g)
    <3>1. Held(s[a]) /\ s[a].sign # 0 /\ g \in Digit
      BY <1>1, <1>8, <2>3
    <3>2. AgainstChar(Trim(s[a]), g) = Sign(AbsOf(Value(s[a])) - g)
      BY ONLY <3>1, AgainstCharIs
    <3> QED BY <1>1, <3>2
  <2> QED BY <1>1, <1>2, <1>4, <1>8, <2>2, <2>3, <2>4 DEF Sign
<1>9. CASE n > 0 /\ p = -1
  <2>1. ~(s[a].sign > 0) /\ s[a].sign < 0 /\ s[a].sign # 0 /\ n # 0 /\ ~(n < 0) /\ n > 0
    BY <1>1, <1>4, <1>9
  <2>2. ZCmpI(s, a, n) = -1
    BY <2>1 DEF ZCmpI
  <2> QED BY <1>1, <1>2, <1>3, <1>4, <1>9, <2>2 DEF Sign
<1>10. CASE n > 0 /\ p = 1
  <2>1. s[a].sign > 0 /\ ~(s[a].sign < 0) /\ s[a].sign # 0 /\ n # 0 /\ ~(n < 0) /\ n > 0
    BY <1>1, <1>4, <1>10
  <2>2. ZCmpI(s, a, n) = AgainstChar(Trim(s[a]), n)
    BY <2>1 DEF ZCmpI
  <2>3. AgainstChar(Trim(s[a]), n) = Sign(v - n)
    <3>1. Held(s[a]) /\ s[a].sign # 0 /\ n \in Digit
      BY <1>1, <1>4, <1>10
    <3>2. AgainstChar(Trim(s[a]), n) = Sign(AbsOf(Value(s[a])) - n)
      BY ONLY <3>1, AgainstCharIs
    <3> QED BY <1>1, <3>2
  <2> QED BY <1>2, <1>10, <2>2, <2>3
<1> QED BY <1>1, <1>4, <1>5, <1>6, <1>7, <1>8, <1>9, <1>10

\* zsave fills the client's buffer, but for the rest of a group, and no more.
LEMMA ZSaveIs ==
  ASSUME NEW r, Held(r), NEW held, held = {i \in Index : Saved(r).chars[i] # Foreign}
  PROVE  /\ SavedSize(r) \in Nat /\ held = 0 .. SavedSize(r) - 1
         /\ r.sign # 0 => Cardinality(held) \in r.used .. r.used + Fluff - 1
         /\ r.sign = 0 => held = {}
<1>1. CASE r.sign = 0
  <2>1. SavedSize(r) = 0 /\ Saved(r).chars = NewBuffer(r)
    BY <1>1 DEF SavedSize, Saved
  <2>2. \A i \in Index : ~(i < 0)
    BY MostIs DEF Index
  <2>3. \A i \in Index : Saved(r).chars[i] = Foreign
    BY <2>1, <2>2 DEF NewBuffer
  <2>4. held = {}
    BY <2>3
  <2> QED BY <1>1, <2>1, <2>4
<1>2. CASE r.sign # 0
  <2>1. PICK n \in Nat, size \in Nat, g \in Nat :
          /\ n = r.used /\ n >= 1 /\ n <= MaxUsed /\ size = Chunks(n) /\ g = Fluff /\ g >= 1
    BY <1>2, HeldIs, ChunksIs, MostIs
  <2>2. PICK copied \in Nat : /\ copied = Copied(n) /\ n <= copied /\ copied <= size /\ n <= size
                              /\ size <= n + g - 1 /\ copied <= n + g - 1 /\ size < Room
    <3>1. size <= n + Group - 1 /\ Group = g /\ n <= size
      BY <2>1, ChunksIs DEF Fluff
    <3>2. Copied(n) \in Nat /\ n <= Copied(n) /\ (Copied(n) = n \/ Copied(n) = size)
      BY <2>1, ChunksIs DEF Copied
    <3>3. n + g - 1 < Room
      <4>1. n \in 1 .. 2 * Room /\ MostChars \in 1 .. 2 * Room /\ n <= MostChars
        BY <2>1, MostIs
      <4>2. RoundedUp[MostChars] \in Nat /\ RoundedUp[MostChars] >= MostChars
        BY <4>1, RoundedUpIs
      <4> QED BY <2>1, <4>1, <4>2, MostIs
    <3> QED BY <2>1, <3>1, <3>2, <3>3, MostIs
  <2>3. SavedSize(r) = size
    BY <1>2, <2>1 DEF SavedSize
  <2>4. PICK d : d = NewBuffer(r)
    OBVIOUS
  <2>buffer. \A i \in Index : d[i] = IF i < size THEN Stale ELSE Foreign
    BY <2>3, <2>4 DEF NewBuffer
  <2>5. PICK c : c = Padded(r).chars /\ \A i \in Index : i < copied => c[i] \in Digit
    <3>1. PICK f : f = [i \in Index |-> IF i \in r.used .. r.used + Fluff - 2 THEN 0 ELSE r.chars[i]]
      OBVIOUS
    <3>2. Padded(r) = [r EXCEPT !.chars = f]
      BY <1>2, <3>1 DEF Padded
    <3>3. Padded(r).chars = f
      BY <3>2 DEF Held, Number
    <3>4. Figures(r.chars, n)
      BY <1>2, <2>1, HeldIs
    <3>5. ASSUME NEW i \in Index, i < copied PROVE f[i] \in Digit
      <4>1. i \in Nat
        BY DEF Index
      <4>2. CASE i < n
        <5>1. i \in 0 .. n - 1 /\ ~(i \in r.used .. r.used + Fluff - 2)
          BY <2>1, <4>1, <4>2
        <5>2. f[i] = r.chars[i]
          BY <3>1, <5>1
        <5> QED BY <3>4, <5>1, <5>2 DEF Figures
      <4>3. CASE ~(i < n)
        <5>1. i \in r.used .. r.used + Fluff - 2
          BY <2>1, <2>2, <3>5, <4>1, <4>3
        <5>2. f[i] = 0
          BY <3>1, <5>1
        <5> QED BY <5>2, Bases
      <4> QED BY <4>2, <4>3
    <3> QED BY <3>3, <3>5
  <2>6. \A i \in Index : Saved(r).chars[i] = IF i < copied THEN c[i] ELSE d[i]
    <3>1. \A i \in Index : 0 + i - 0 = i /\ (i \in 0 .. 0 + copied - 1 <=> i < copied)
      BY DEF Index
    <3>2. Saved(r).chars = MemCpy(d, 0, c, 0, n)
      BY <1>2, <2>1, <2>4, <2>5 DEF Saved
    <3>3. \A i \in Index : Saved(r).chars[i] = IF i \in 0 .. 0 + copied - 1 THEN c[0 + i - 0] ELSE d[i]
      BY <2>2, <3>2 DEF MemCpy
    <3> QED BY <3>1, <3>3
  <2>7. \A i \in Index : Saved(r).chars[i] # Foreign <=> i < size
    <3> SUFFICES ASSUME NEW i \in Index PROVE Saved(r).chars[i] # Foreign <=> i < size
      OBVIOUS
    <3>1. i \in Nat
      BY DEF Index
    <3>2. CASE i < copied
      <4>1. Saved(r).chars[i] \in Digit
        BY <2>5, <2>6, <3>2
      <4> QED BY <2>2, <3>1, <3>2, <4>1, MarkersAssumption
    <3>3. CASE ~(i < copied)
      <4>1. Saved(r).chars[i] = IF i < size THEN Stale ELSE Foreign
        BY <2>buffer, <2>6, <3>3
      <4> QED BY <4>1, MarkersAssumption
    <3> QED BY <3>2, <3>3
  <2>8. held = 0 .. size - 1
    <3>1. \A i \in held : i \in 0 .. size - 1
      BY <2>7 DEF Index
    <3>2. \A i \in 0 .. size - 1 : i \in Index /\ i < size
      BY <2>2, MostIs DEF Index
    <3>3. \A i \in 0 .. size - 1 : i \in held
      BY <2>7, <3>2
    <3> QED BY <3>1, <3>3
  <2>9. Cardinality(0 .. size - 1) = size
    <3>1. 0 \in Int /\ size - 1 \in Int /\ ~(0 > size - 1)
      BY <2>1, <2>2
    <3>2. Cardinality(0 .. size - 1) = (size - 1) - 0 + 1
      BY <3>1, FS_Interval
    <3> QED BY <3>2
  <2>10. Cardinality(held) \in n .. n + g - 1
    <3>1. size \in n .. n + g - 1
      BY <2>1, <2>2
    <3>2. Cardinality(held) = size
      BY <2>8, <2>9
    <3> QED BY <3>1, <3>2
  <2> QED BY <1>2, <2>1, <2>3, <2>8, <2>10
<1> QED BY <1>1, <1>2

\* A step of AnswersRight: k is the call that was made of the integers s.
Right(k, s) ==
  /\ k.routine \in Answered => (k.returned = Answer(k, s) <=> ~CountsOnes(k, s))
  /\ k.routine = "zload" =>
       LET r    == s[k.p[2]]
           held == {i \in Index : k.returned.chars[i] # Foreign}
       IN /\ held = 0 .. k.returned.read - 1
          /\ r.sign # 0 => Cardinality(held) \in r.used .. r.used + Fluff - 1
          /\ r.sign = 0 => held = {}

LEMMA LoadRight ==
  ASSUME NEW s, Ready(s), NEW p \in Pairs, NEW k, k.p = p, k.routine = "zload",
         NEW t, t = ZLoad(ZSave(s, p[2]), p[1], Saved(s[p[2]])),
         k.returned = [chars |-> Saved(s[p[2]]).chars, read |-> SavedSize(t[p[1]])]
  PROVE  Right(k, s)
<1>1. PICK a, b : a = p[1] /\ b = p[2] /\ a \in Var /\ b \in Var /\ Held(s[b])
  BY TriplesAre, ReadyIs
<1>2. s \in [Var -> Number]
  BY ReadyIs
<1>3. Copy(t[a], s[b])
  <2>1. t = ZLoad(ZSave(s, b), a, Saved(s[b]))
    BY <1>1
  <2> QED BY ONLY <1>1, <1>2, <2>1, ZLoadIs
<1>4. SavedSize(t[a]) = SavedSize(s[b])
  BY <1>3 DEF Copy, SavedSize
<1>5. PICK r : r = s[b] /\ Held(r)
  BY <1>1
<1>6. /\ k.returned.chars = Saved(r).chars /\ k.returned.read = SavedSize(r) /\ s[k.p[2]] = r
  BY <1>1, <1>4, <1>5
<1>7. PICK held : held = {i \in Index : Saved(r).chars[i] # Foreign}
  OBVIOUS
<1>8. /\ held = 0 .. SavedSize(r) - 1
      /\ r.sign # 0 => Cardinality(held) \in r.used .. r.used + Fluff - 1
      /\ r.sign = 0 => held = {}
  BY ONLY <1>5, <1>7, ZSaveIs
<1>9. k.routine \notin Answered
  BY DEF Answered
<1> QED BY <1>6, <1>7, <1>8, <1>9 DEF Right

LEMMA AnswerIs ==
  ASSUME NEW k, NEW s, NEW x, x = Value(s["b"]), NEW y, y = Value(s["c"])
  PROVE  /\ k.routine = "zcmpmag" => Answer(k, s) = Sign(AbsOf(x) - AbsOf(y))
         /\ k.routine = "zcmp" => Answer(k, s) = Sign(x - y)
         /\ k.routine \in {"zcmpu", "zcmpi"} => Answer(k, s) = Sign(x - k.n)
         /\ k.routine = "zbits" => Answer(k, s) = IF x = 0 THEN 1 ELSE Max(Ones(x)) + 1
         /\ k.routine = "zlsb" => Answer(k, s) = IF x = 0 THEN SizeMax ELSE Min(Ones(x))
         /\ k.routine = "zbtest" => Answer(k, s) = IF k.n \in Ones(x) THEN 1 ELSE 0
BY DEF Answer

LEMMA AnswerRight ==
  ASSUME NEW s, Ready(s), NEW n, NEW k, k.n = n,
         \/ k.routine = "zcmpmag" /\ k.returned = ZCmpMag(s, "b", "c")
         \/ k.routine = "zcmp" /\ k.returned = ZCmp(s, "b", "c")
         \/ n \in Digit /\ k.routine = "zcmpu" /\ k.returned = ZCmpU(s, "b", n)
         \/ n \in Int64 /\ k.routine = "zcmpi" /\ k.returned = ZCmpI(s, "b", n)
         \/ k.routine = "zbits" /\ k.returned = ZBits(s, "b")
         \/ n \in Builds /\ k.routine = "zlsb" /\ k.returned = ZLsb(s, "b", n)
         \/ n \in Shift /\ k.routine = "zbtest" /\ k.returned = ZBTest(s, "b", n)
  PROVE  Right(k, s)
<1>1. PICK b \in Var, c \in Var : b = "b" /\ c = "c" /\ s \in [Var -> Number] /\ Held(s[b]) /\ Held(s[c])
  BY ReadyIs
<1>2. PICK x, y : x = Value(s[b]) /\ y = Value(s[c])
  OBVIOUS
<1>3. k.returned = Answer(k, s) <=> ~CountsOnes(k, s)
  <2> USE DEF CountsOnes
  <2>1. CASE k.routine = "zcmpmag" /\ k.returned = ZCmpMag(s, "b", "c")
    <3>1. ZCmpMag(s, b, c) = Sign(AbsOf(x) - AbsOf(y))
      BY <1>1, <1>2, ZCmpMagIs
    <3> QED BY <1>1, <1>2, <2>1, <3>1, AnswerIs
  <2>2. CASE k.routine = "zcmp" /\ k.returned = ZCmp(s, "b", "c")
    <3>1. ZCmp(s, b, c) = Sign(x - y)
      BY <1>1, <1>2, ZCmpIs
    <3> QED BY <1>1, <1>2, <2>2, <3>1, AnswerIs
  <2>3. CASE n \in Digit /\ k.routine = "zcmpu" /\ k.returned = ZCmpU(s, "b", n)
    <3>1. ZCmpU(s, b, n) = Sign(x - n)
      BY <1>1, <1>2, <2>3, ZCmpUIs
    <3> QED BY <1>1, <1>2, <2>3, <3>1, AnswerIs
  <2>4. CASE n \in Int64 /\ k.routine = "zcmpi" /\ k.returned = ZCmpI(s, "b", n)
    <3>1. ZCmpI(s, b, n) = Sign(x - n)
      BY <1>1, <1>2, <2>4, ZCmpIIs
    <3> QED BY <1>1, <1>2, <2>4, <3>1, AnswerIs
  <2>5. CASE k.routine = "zbits" /\ k.returned = ZBits(s, "b")
    <3>1. ZBits(s, b) = IF x = 0 THEN 1 ELSE Max(Ones(x)) + 1
      BY <1>1, <1>2, ZBitsIs
    <3> QED BY <1>1, <1>2, <2>5, <3>1, AnswerIs
  <2>6. CASE n \in Builds /\ k.routine = "zlsb" /\ k.returned = ZLsb(s, "b", n)
    <3>1. (ZLsb(s, b, n) = IF x = 0 THEN SizeMax ELSE Min(Ones(x)))
            <=> ~(n = "C" /\ s[b].sign # 0)
      BY <1>1, <1>2, <2>6, ZLsbIs
    <3> QED BY <1>1, <1>2, <2>6, <3>1, AnswerIs
  <2>7. CASE n \in Shift /\ k.routine = "zbtest" /\ k.returned = ZBTest(s, "b", n)
    <3>1. ZBTest(s, b, n) = IF n \in Ones(x) THEN 1 ELSE 0
      BY <1>1, <1>2, <2>7, ZBTestIs
    <3> QED BY <1>1, <1>2, <2>7, <3>1, AnswerIs
  <2> QED BY <2>1, <2>2, <2>3, <2>4, <2>5, <2>6, <2>7
<1> QED BY <1>3 DEF Right

------------------------------------------------------------------------------
(* Sets of bits: which number has them.                                      *)

LEMMA WeightsSteps ==
  ASSUME NEW S, NEW top \in Nat
  PROVE  /\ Weights(S, top)[0] = 0
         /\ \A k \in 0 .. top - 1 :
              Weights(S, top)[k + 1] = Weights(S, top)[k] + (IF k \in S THEN Power(2, k) ELSE 0)
<1> DEFINE Row(f) == f = [k \in 0 .. top |-> IF k = 0 THEN 0 ELSE f[k - 1] + (IF k - 1 \in S THEN Power(2, k - 1) ELSE 0)]
           w == [k \in 0 .. top - 1 |-> IF k \in S THEN Power(2, k) ELSE 0]
<1>1. \E f : Row(f)
  <2>1. PICK f : f = [k \in 0 .. top |-> IF k = 0 THEN 0 ELSE f[k - 1] + w[k - 1]]
    BY RunningSums
  <2>2. \A k \in 0 .. top : k # 0 => w[k - 1] = IF k - 1 \in S THEN Power(2, k - 1) ELSE 0
    OBVIOUS
  <2> HIDE DEF w
  <2> QED BY <2>1, <2>2
<1>2. PICK f : f = (CHOOSE q : Row(q))
  OBVIOUS
<1>3. Row(f)
  <2> HIDE DEF Row
  <2>1. Row(CHOOSE q : Row(q))
    BY <1>1, Zenon
  <2> QED BY <1>2, <2>1
<1>4. Weights(S, top) = f
  BY <1>2, Zenon DEF Weights
<1> QED BY <1>3, <1>4

LEMMA WeightsBits ==
  ASSUME NEW S, NEW top \in Nat
  PROVE  BitsAre(Weights(S, top)[top], S, top)
<1> DEFINE Z == {k \in Nat : k <= top => BitsAre(Weights(S, top)[k], S, k)}
<1>1. 0 \in Z
  <2>1. Weights(S, top)[0] = 0 /\ Raised(2, 0) = 1
    BY WeightsSteps, RaisedSteps
  <2> QED BY <2>1 DEF BitsAre
<1>2. ASSUME NEW k \in Nat, k \in Z PROVE k + 1 \in Z
  <2> SUFFICES ASSUME k + 1 <= top PROVE BitsAre(Weights(S, top)[k + 1], S, k + 1)
    OBVIOUS
  <2>1. PICK v : v = Weights(S, top)[k] /\ BitsAre(v, S, k)
    BY <1>2
  <2>2. PICK c \in {0, 1} : c = 1 <=> k \in S
    <3>1. CASE k \in S
      BY <3>1
    <3>2. CASE k \notin S
      BY <3>2
    <3> QED BY <3>1, <3>2
  <2>3. k \in 0 .. top - 1
    OBVIOUS
  <2>4. PICK p \in Nat : p = Power(2, k) /\ p = Raised(2, k)
    BY TwoRaised
  <2>5. Weights(S, top)[k + 1] = v + c * Raised(2, k)
    BY <2>1, <2>2, <2>3, <2>4, WeightsSteps
  <2>6. PICK w : w = v + c * Raised(2, k)
    OBVIOUS
  <2>7. BitsAre(w, S, k + 1)
    BY ONLY <2>1, <2>2, <2>6, k \in Nat, BitAbove
  <2> QED BY <2>5, <2>6, <2>7
<1>3. top \in Z
  <2>1. Z \in SUBSET Nat
    OBVIOUS
  <2> HIDE DEF Z
  <2> QED BY <1>1, <1>2, <2>1, Inductive
<1> QED BY <1>3

LEMMA OnesInIs ==
  ASSUME NEW v \in Nat, NEW n \in Nat, v < Raised(2, n)
  PROVE  BitsAre(v, OnesIn(v, n), n) /\ OnesIn(v, n) \in SUBSET (0 .. n - 1)
<1>1. ASSUME NEW i \in 0 .. n - 1 PROVE (v \div Raised(2, i)) % 2 = 1 <=> i \in OnesIn(v, n)
  BY TwoRaised DEF OnesIn
<1> QED BY <1>1 DEF BitsAre, OnesIn

LEMMA BitsAreOnes ==
  ASSUME NEW v, NEW n \in Nat, NEW S \in SUBSET (0 .. n - 1), BitsAre(v, S, n)
  PROVE  OnesIn(v, n) = S
<1>1. ASSUME NEW i \in 0 .. n - 1 PROVE i \in OnesIn(v, n) <=> i \in S
  BY TwoRaised DEF OnesIn, BitsAre
<1>2. OnesIn(v, n) \in SUBSET (0 .. n - 1)
  BY DEF OnesIn
<1> QED BY <1>1, <1>2

\* The number with the bits S, and no other, is FromOnes(S).
LEMMA FromOnesIs ==
  ASSUME NEW n \in Nat, NEW S \in SUBSET (0 .. n - 1)
  PROVE  BitsAre(FromOnes(S), S, n)
<1>1. PICK top \in Nat : top = (IF S = {} THEN 0 ELSE Max(S) + 1) /\ top <= n
                         /\ \A i \in S : i < top
  <2>1. CASE S = {}
    BY <2>1
  <2>2. CASE S # {}
    <3>1. Max(S) \in S /\ \A k \in S : k <= Max(S)
      <4>1. S \in SUBSET (0 .. n)
        OBVIOUS
      <4> QED BY <2>2, <4>1, MaxIs
    <3>2. Max(S) \in Nat /\ Max(S) + 1 <= n
      <4>1. PICK x : x = Max(S)
        OBVIOUS
      <4>2. x \in 0 .. n - 1
        BY <3>1, <4>1
      <4> QED BY <4>1, <4>2
    <3>3. \A i \in S : i < Max(S) + 1
      BY <3>1, <3>2
    <3> QED BY <2>2, <3>2, <3>3
  <2> QED BY <2>1, <2>2
<1>2. FromOnes(S) = Weights(S, top)[top]
  BY <1>1 DEF FromOnes
<1>3. PICK v : v = FromOnes(S) /\ BitsAre(v, S, top)
  BY <1>2, WeightsBits
<1>4. v \in Nat /\ v < Raised(2, top)
  BY <1>3 DEF BitsAre
<1>5. \A i \in Nat : i >= top => v < Raised(2, i)
  <2> TAKE i \in Nat
  <2>1. i >= top => Raised(2, top) <= Raised(2, i)
    BY RaisedMonotone
  <2> QED BY <1>4, <2>1, TwoRaised
<1>6. ASSUME NEW i \in 0 .. n - 1 PROVE (v \div Raised(2, i)) % 2 = 1 <=> i \in S
  <2>1. CASE i < top
    BY <1>3, <2>1 DEF BitsAre
  <2>2. CASE i >= top
    <3>1. i \notin S
      BY <1>1, <2>2
    <3>2. PICK p \in Nat : p = Raised(2, i) /\ p > 0 /\ v < p
      BY <1>5, <2>2, TwoRaised
    <3>3. v \div p = 0
      BY <1>4, <3>2, QuotientIs, p * 0 + v = v
    <3> QED BY <3>1, <3>2, <3>3
  <2> QED BY <2>1, <2>2
<1> QED BY <1>1, <1>3, <1>4, <1>5, <1>6 DEF BitsAre

\* What has the ones of a number is that number.
LEMMA OnesMake ==
  ASSUME NEW v \in Nat, NEW n \in Nat, v < Raised(2, n), NEW S, S = OnesIn(v, n)
  PROVE  FromOnes(S) = v
<1>1. S \in SUBSET (0 .. n - 1) /\ BitsAre(v, S, n)
  BY OnesInIs
<1> QED BY <1>1, FromOnesIs, SameBits

------------------------------------------------------------------------------
(* Bitwise operations on characters.                                         *)

LEMMA OnesUnique ==
  ASSUME NEW S, NEW T, NEW f, NEW n \in Nat, NEW b \in Nat, OnesOf(S, f, n, b), OnesOf(T, f, n, b)
  PROVE  S = T
<1>1. ASSUME NEW i \in S PROVE i \in T
  <2>1. PICK k \in 0 .. n - 1, j \in 0 .. b - 1 : i = b * k + j
    BY <1>1 DEF OnesOf
  <2>2. b * k + j \in S <=> b * k + j \in T
    BY DEF OnesOf
  <2> QED BY <2>1, <2>2
<1>2. ASSUME NEW i \in T PROVE i \in S
  <2>1. PICK k \in 0 .. n - 1, j \in 0 .. b - 1 : i = b * k + j
    BY <1>2 DEF OnesOf
  <2>2. b * k + j \in S <=> b * k + j \in T
    BY DEF OnesOf
  <2> QED BY <2>1, <2>2
<1> QED BY <1>1, <1>2

\* A number is known by its ones in n characters.
LEMMA CharsMake ==
  ASSUME NEW f, NEW n \in Nat, n <= Room, Figures(f, n), NEW T, OnesOf(T, f, n, Bits)
  PROVE  FromOnes(T) = Lowest(f, n)
<1>1. PICK v : v = Lowest(f, n) /\ v \in Nat /\ v < Place(n)
  BY LowestType
<1>2. PICK w \in Nat : w = Bits * n /\ Place(n) = Raised(2, w)
  BY PlaceIsRaised
<1>3. OnesOf(OnesIn(v, w), f, n, Bits)
  <2>1. Bits * n <= w
    BY <1>2
  <2> QED BY ONLY <1>1, <1>2, <2>1, n \in Nat, n <= Room, Figures(f, n), w \in Nat, OnesOfChars
<1>4. T = OnesIn(v, w)
  <2>1. Bits \in Nat
    BY DigitsAssumption
  <2> QED BY ONLY <1>3, <2>1, n \in Nat, OnesOf(T, f, n, Bits), OnesUnique
<1>5. FromOnes(T) = v
  BY <1>1, <1>2, <1>4, OnesMake
<1> QED BY <1>1, <1>5

LEMMA BaseIsRaised ==
  /\ Bits \in Nat /\ Bits >= 1 /\ Base = Raised(2, Bits) /\ Base \in Nat /\ Base > 0
  /\ \A x \in Digit : x \in Nat /\ x < Raised(2, Bits)
BY DigitsAssumption, TwoRaised, Bases, DigitType DEF Base

\* The digit with some ones.
LEMMA DigitFrom ==
  ASSUME NEW S \in SUBSET (0 .. Bits - 1)
  PROVE  FromOnes(S) \in Digit /\ OnesIn(FromOnes(S), Bits) = S
<1>1. PICK b \in Nat : b = Bits /\ Base = Raised(2, b)
  BY BaseIsRaised
<1>2. S \in SUBSET (0 .. b - 1)
  BY <1>1
<1>3. PICK v : v = FromOnes(S) /\ BitsAre(v, S, b)
  BY <1>2, FromOnesIs
<1>4. OnesIn(v, b) = S
  BY ONLY <1>2, <1>3, b \in Nat, BitsAreOnes
<1>5. v \in Nat /\ v < Base
  BY <1>1, <1>3 DEF BitsAre
<1>6. v \in Digit
  BY <1>5, BaseIsRaised DEF Digit
<1> QED BY <1>1, <1>3, <1>4, <1>6

\* The ones a bitwise operation leaves in a character, from those of two.
Bitwise(f, x, y) ==
  CASE f = "and" -> x \cap y
    [] f = "or"  -> x \cup y
    [] f = "xor" -> (x \cup y) \ (x \cap y)
Works(g, f) ==
  \A x, y \in Digit : Digitwise(g, x, y) \in Digit
                      /\ OnesIn(Digitwise(g, x, y), Bits) = Bitwise(f, OnesIn(x, Bits), OnesIn(y, Bits))

LEMMA OperationsWork == Works(AndDigit, "and") /\ Works(OrDigit, "or") /\ Works(XorDigit, "xor")
<1> DEFINE Made(d, S) == d \in Digit /\ OnesIn(d, Bits) = S
<1> SUFFICES ASSUME NEW x \in Digit, NEW y \in Digit
             PROVE  /\ Made(Digitwise(AndDigit, x, y), Bitwise("and", OnesIn(x, Bits), OnesIn(y, Bits)))
                    /\ Made(Digitwise(OrDigit, x, y), Bitwise("or", OnesIn(x, Bits), OnesIn(y, Bits)))
                    /\ Made(Digitwise(XorDigit, x, y), Bitwise("xor", OnesIn(x, Bits), OnesIn(y, Bits)))
  BY DEF Works
<1>1. PICK S, T : S = OnesIn(x, Bits) /\ T = OnesIn(y, Bits)
  OBVIOUS
<1>2. S \in SUBSET (0 .. Bits - 1) /\ T \in SUBSET (0 .. Bits - 1)
  BY <1>1 DEF OnesIn
<1>3. \A g : Digitwise(g, x, y) = g[x, y]
  BY DEF Digitwise
<1>4. /\ AndDigit[x, y] = FromOnes(S \cap T) /\ OrDigit[x, y] = FromOnes(S \cup T)
      /\ XorDigit[x, y] = FromOnes((S \cup T) \ (S \cap T))
  <2>0. PICK q : q = <<x, y>>
    OBVIOUS
  <2>1. q \in Digit \X Digit /\ q[1] = x /\ q[2] = y
    BY <2>0
  <2>2. AndDigit[q] = FromOnes(S \cap T)
    BY <1>1, <2>1 DEF AndDigit
  <2>3. OrDigit[q] = FromOnes(S \cup T)
    BY <1>1, <2>1 DEF OrDigit
  <2>4. XorDigit[q] = FromOnes((S \cup T) \ (S \cap T))
    BY <1>1, <2>1 DEF XorDigit
  <2>5. \A g : g[x, y] = g[q]
    BY <2>0, Zenon
  <2> QED BY <2>2, <2>3, <2>4, <2>5, Zenon
<1>5. /\ S \cap T \in SUBSET (0 .. Bits - 1) /\ S \cup T \in SUBSET (0 .. Bits - 1)
      /\ (S \cup T) \ (S \cap T) \in SUBSET (0 .. Bits - 1)
  BY <1>2
<1>6. PICK u, v, w : u = S \cap T /\ v = S \cup T /\ w = (S \cup T) \ (S \cap T)
  OBVIOUS
<1>7. /\ FromOnes(u) \in Digit /\ OnesIn(FromOnes(u), Bits) = u
      /\ FromOnes(v) \in Digit /\ OnesIn(FromOnes(v), Bits) = v
      /\ FromOnes(w) \in Digit /\ OnesIn(FromOnes(w), Bits) = w
  BY <1>5, <1>6, DigitFrom
<1>8. /\ Bitwise("and", S, T) = u /\ Bitwise("or", S, T) = v /\ Bitwise("xor", S, T) = w
  BY <1>6 DEF Bitwise
<1> QED BY <1>1, <1>3, <1>4, <1>6, <1>7, <1>8

\* A character with all its ones, with those below the p-th, with one or all but it.
LEMMA Masks ==
  ASSUME NEW p \in 0 .. Bits - 1
  PROVE  /\ Power(2, p) \in Digit /\ OnesIn(Power(2, p), Bits) = {p}
         /\ Base - 1 - Power(2, p) \in Digit
         /\ OnesIn(Base - 1 - Power(2, p), Bits) = (0 .. Bits - 1) \ {p}
         /\ Power(2, p) - 1 \in Digit /\ OnesIn(Power(2, p) - 1, Bits) = 0 .. p - 1
         /\ Base - 1 \in Digit /\ OnesIn(Base - 1, Bits) = 0 .. Bits - 1
<1>1. PICK b \in Nat : b = Bits /\ Base = Raised(2, b) /\ p \in Nat /\ p < b /\ Base \in Nat
  BY BaseIsRaised
<1>2. ASSUME NEW x, NEW S \in SUBSET (0 .. b - 1), BitsAre(x, S, b)
      PROVE  x \in Digit /\ OnesIn(x, Bits) = S
  <2>1. OnesIn(x, b) = S
    BY ONLY <1>2, b \in Nat, BitsAreOnes
  <2>2. x \in Nat /\ x < Base
    BY <1>1, <1>2 DEF BitsAre
  <2>3. x \in Digit
    BY <1>1, <2>2 DEF Digit
  <2> QED BY <1>1, <2>1, <2>3
<1>3. Power(2, p) = Raised(2, p)
  BY <1>1, TwoRaised
<1>4. /\ BitsAre(Base - 1, 0 .. b - 1, b) /\ BitsAre(Power(2, p) - 1, 0 .. p - 1, b)
      /\ BitsAre(Power(2, p), {p}, b) /\ BitsAre(Base - 1 - Power(2, p), (0 .. b - 1) \ {p}, b)
  BY <1>1, <1>3, BitMasks
<1>5. /\ 0 .. p - 1 \in SUBSET (0 .. b - 1) /\ {p} \in SUBSET (0 .. b - 1)
      /\ 0 .. b - 1 \in SUBSET (0 .. b - 1) /\ (0 .. b - 1) \ {p} \in SUBSET (0 .. b - 1)
  BY <1>1
<1> QED BY <1>1, <1>2, <1>4, <1>5

------------------------------------------------------------------------------
(* What is stored as a result.                                               *)

Shaped(r) ==
  r = [sign |-> r.sign, used |-> r.used, alloced |-> r.alloced, chars |-> r.chars]

LEMMA NumberShaped ==
  ASSUME NEW r \in Number
  PROVE  Shaped(r) /\ r.used \in Nat /\ r.alloced \in Nat
BY DEF Number, Shaped

LEMMA PlaceOrder ==
  \A j, k \in Nat : j <= k => Place(j) <= Place(k) /\ Place(j) \in Nat /\ Place(k) \in Nat /\ Place(j) > 0
<1> SUFFICES ASSUME NEW j \in Nat, NEW k \in Nat, j <= k
             PROVE  Place(j) <= Place(k) /\ Place(j) \in Nat /\ Place(k) \in Nat /\ Place(j) > 0
  OBVIOUS
<1>1. Place(j) \in Nat /\ Place(k) \in Nat /\ Place(j) > 0
  BY Places
<1>2. CASE j = k
  BY <1>1, <1>2
<1>3. CASE j < k
  BY <1>1, <1>3, PlaceMonotone
<1> QED BY <1>1, <1>2, <1>3

LEMMA ZeroIs ==
  ASSUME NEW q, q.sign = 0
  PROVE  Is(q, 0)
BY DEF Is, Legal, Value

\* A magnitude that is not zero, with a sign.
LEMMA MadeIs ==
  ASSUME NEW q, NEW sign \in {-1, 1}, q.sign = sign, NEW n \in Nat, q.used = n,
         q.alloced \in Nat, n <= q.alloced, n <= Room, Figures(q.chars, n),
         NEW v, v = Lowest(q.chars, n), v > 0
  PROVE  Is(q, sign * v)
<1>1. v \in Nat
  BY LowestType
<1>2. n >= 1
  <2>1. n # 0
    BY LowestPlaces
  <2> QED BY <2>1
<1>3. \E i \in 0 .. n - 1 : q.chars[i] # 0
  <2>1. v # 0
    BY <1>1
  <2> QED BY <2>1, LowestZero
<1>4. Legal(q)
  BY <1>2, <1>3 DEF Legal, Figures
<1>5. Value(q) = sign * v
  BY DEF Value, Magnitude
<1> QED BY <1>4, <1>5 DEF Is

\* A magnitude that is trimmed, with a sign if something is left.
LEMMA TrimmedSigned ==
  ASSUME NEW r, Shaped(r), NEW n \in Nat, r.used = n, n <= Room, Figures(r.chars, n),
         NEW size \in Nat, r.alloced = size,
         NEW sign \in {-1, 0, 1}, NEW v, v = Lowest(r.chars, n), NEW q, q = TrimAndSign(r, sign)
  PROVE  /\ v \in Nat /\ Value(q) = sign * v
         /\ sign = 0 \/ v < Place(size) => Legal(q)
         /\ sign # 0 /\ v >= Place(size) => ~Legal(q)
<1>1. PICK f : f = r.chars
  OBVIOUS
<1>2. v \in Nat /\ v < Place(n)
  BY LowestType
<1>3. CASE n = 0
  <2>1. Trim(r) = r
    BY <1>3 DEF Trim, TrimTo
  <2>2. q.sign = 0
    BY <1>3, <2>1 DEF TrimAndSign, Shaped
  <2>3. v = 0
    BY <1>3, LowestPlaces
  <2>4. Place(size) > 0 /\ Place(size) \in Nat
    BY Places
  <2> QED BY <2>2, <2>3, <2>4, ZeroIs DEF Is
<1>4. CASE n # 0
  <2> DEFINE S == {0} \cup {i + 1 : i \in {k \in 0 .. n - 1 : f[k] # 0}}
  <2>1. S \in SUBSET (0 .. n) /\ S # {}
    OBVIOUS
  <2>2. PICK u \in Nat : u = Max(S) /\ u \in S /\ u <= n /\ \A k \in S : k <= u
    <3>1. Max(S) \in S /\ \A k \in S : k <= Max(S)
      <4> HIDE DEF S
      <4> QED BY <2>1, MaxIs
    <3>2. PICK u : u = Max(S)
      OBVIOUS
    <3>3. u \in 0 .. n
      BY <2>1, <3>1, <3>2
    <3> HIDE DEF S
    <3> QED BY <3>1, <3>2, <3>3
  <2>3. Trim(r) = [r EXCEPT !.used = u]
    <3>1. ~(n <= 0)
      BY <1>4
    <3> QED BY <1>1, <2>2, <3>1 DEF Trim, TrimTo
  <2>4. /\ q.sign = (IF u = 0 THEN 0 ELSE sign) /\ q.used = u /\ q.alloced = size /\ q.chars = f
    BY <1>1, <2>3 DEF TrimAndSign, Shaped
  <2>5. \A i \in u .. n - 1 : f[i] = 0
    <3> SUFFICES ASSUME NEW i \in u .. n - 1, f[i] # 0 PROVE FALSE
      OBVIOUS
    <3>1. i + 1 \in S
      OBVIOUS
    <3>2. i + 1 <= u
      <4> HIDE DEF S
      <4> QED BY <2>2, <3>1
    <3> QED BY <3>2
  <2>6. Lowest(f, u) = v
    <3>1. PICK x \in Nat : Upper(x, f, u, n) /\ Lowest(f, n) = Place(u) * x + Lowest(f, u)
                           /\ Lowest(f, u) \in Nat
      BY <1>1, <2>2, LowestSplit
    <3>2. x = 0
      BY <2>5, <3>1 DEF Upper
    <3>3. Place(u) \in Nat
      BY <2>2, Places
    <3> QED BY <1>1, <3>1, <3>2, <3>3
  <2>7. Value(q) = sign * v
    <3>1. CASE u = 0
      <4>1. v = 0
        BY <2>6, <3>1, LowestPlaces
      <4> QED BY <2>4, <3>1, <4>1 DEF Value
    <3>2. CASE u # 0
      <4>1. q.sign = sign /\ Lowest(q.chars, q.used) = v
        BY <2>4, <2>6, <3>2
      <4>2. 0 * v = 0
        BY <1>2
      <4> QED BY <4>1, <4>2 DEF Value, Magnitude
    <3> QED BY <3>1, <3>2
  <2>8. CASE u = 0 \/ sign = 0
    <3>1. Legal(q)
      BY <2>4, <2>8 DEF Legal
    <3>2. u = 0 => v = 0
      BY <2>6, LowestPlaces
    <3>3. Place(size) > 0 /\ Place(size) \in Nat
      BY Places
    <3> QED BY <1>2, <2>7, <2>8, <3>1, <3>2, <3>3
  <2>9. CASE u # 0 /\ sign # 0
    <3>0. PICK t \in 0 .. n - 1 : u = t + 1 /\ f[t] # 0
      BY <2>2, <2>9
    <3> HIDE DEF S
    <3>1. t \in Nat /\ u = t + 1 /\ t < Room /\ f[t] # 0 /\ t \in 0 .. n - 1
      BY <3>0, MostIs
    <3>2. Figures(f, t + 1)
      BY <1>1, <2>2, <3>1 DEF Figures
    <3>3. v >= Place(t) /\ v < Place(u)
      <4>1. Lowest(f, t + 1) >= Place(t)
        BY <3>1, <3>2, LowestTop
      <4>2. t + 1 \in Nat /\ t + 1 <= Room
        BY <2>2, <3>1, MostIs
      <4>3. Lowest(f, t + 1) < Place(t + 1)
        BY <3>2, <4>2, LowestType
      <4> QED BY <2>6, <3>1, <4>1, <4>3
    <3>4. Legal(q) <=> u <= size
      <4>1. q.sign \in {-1, 0, 1} /\ q.sign # 0
        BY <2>4, <2>9
      <4>2. \A i \in 0 .. u - 1 : f[i] \in Digit
        BY <3>1, <3>2 DEF Figures
      <4>3. \E i \in 0 .. u - 1 : f[i] # 0
        BY <3>1
      <4>4. u \in 1 .. size <=> u <= size
        BY <2>2, <2>9
      <4> QED BY <2>4, <4>1, <4>2, <4>3, <4>4 DEF Legal
    <3>5. u <= size => v < Place(size)
      BY <1>2, <2>2, <3>3, PlaceOrder
    <3>6. ~(u <= size) => v >= Place(size)
      <4>1. ~(u <= size) => size <= t
        BY <2>2, <3>1
      <4> QED BY <1>2, <3>1, <3>3, <4>1, PlaceOrder
    <3>7. Place(size) \in Nat
      BY Places
    <3> QED BY <1>2, <2>7, <2>9, <3>4, <3>5, <3>6, <3>7
  <2> QED BY <2>8, <2>9
<1> QED BY <1>3, <1>4

LEMMA TrimmedIs ==
  ASSUME NEW r, Shaped(r), NEW n \in Nat, r.used = n, n <= Room, Figures(r.chars, n),
         r.alloced \in Nat, n <= r.alloced,
         NEW sign \in {-1, 0, 1}, NEW v, v = Lowest(r.chars, n), NEW q, q = TrimAndSign(r, sign)
  PROVE  Is(q, sign * v)
<1>1. PICK size \in Nat : size = r.alloced /\ r.alloced = size /\ n <= size
  OBVIOUS
<1>2. /\ v \in Nat /\ Value(q) = sign * v
      /\ sign = 0 \/ v < Place(size) => Legal(q)
  BY <1>1, TrimmedSigned
<1>3. v < Place(n)
  BY LowestType
<1>4. v < Place(size)
  BY <1>1, <1>2, <1>3, PlaceOrder
<1> QED BY <1>2, <1>4 DEF Is

\* The characters f are those of g from the c-th on.
Above(f, g, c, n) ==
  /\ c \in Nat /\ n \in Nat /\ c + n <= Room /\ Figures(g, c + n)
  /\ \A i \in 0 .. n - 1 : g[c + i] = f[i]

LEMMA LowestApart ==
  ASSUME NEW f, NEW g, NEW c, NEW n, Above(f, g, c, n)
  PROVE  /\ Figures(f, n) /\ Figures(g, c)
         /\ Lowest(g, c + n) = Place(c) * Lowest(f, n) + Lowest(g, c)
<1> USE c \in Nat /\ n \in Nat /\ c + n <= Room /\ Figures(g, c + n) DEF Above
<1> USE \A i \in 0 .. n - 1 : g[c + i] = f[i] DEF Above
<1> HIDE DEF Above
<1>1. Figures(f, n) /\ Figures(g, c)
  <2>1. ASSUME NEW i \in 0 .. n - 1 PROVE f[i] \in Digit
    <3>1. c + i \in 0 .. (c + n) - 1
      OBVIOUS
    <3> QED BY <3>1 DEF Figures
  <2>2. ASSUME NEW i \in 0 .. c - 1 PROVE g[i] \in Digit
    <3>1. i \in 0 .. (c + n) - 1
      OBVIOUS
    <3> QED BY <3>1 DEF Figures
  <2> QED BY <2>1, <2>2 DEF Figures
<1>2. PICK p \in Nat : p = Place(c)
  BY Places
<1>room. Room \in Nat /\ c <= Room /\ n <= Room
  BY MostIs
<1>3. PICK l \in Nat : l = Lowest(g, c)
  BY <1>1, <1>room, LowestType
<1> DEFINE Z == {m \in Nat : m <= n => Lowest(g, c + m) = p * Lowest(f, m) + l}
<1>4. 0 \in Z
  <2>1. Lowest(f, 0) = 0 /\ c + 0 = c
    BY LowestPlaces
  <2> QED BY <1>3, <2>1
<1>5. ASSUME NEW m \in Nat, m \in Z PROVE m + 1 \in Z
  <2> SUFFICES ASSUME m + 1 <= n PROVE Lowest(g, c + (m + 1)) = p * Lowest(f, m + 1) + l
    OBVIOUS
  <2>1. PICK x \in Nat, y \in Nat, q \in Nat : x = Lowest(f, m) /\ y = f[m] /\ q = Place(m)
    <3>1. m <= n /\ m <= Room /\ Figures(f, m) /\ m \in 0 .. n - 1
      BY <1>1, <1>room DEF Figures
    <3>2. Lowest(f, m) \in Nat
      BY <3>1, LowestType
    <3>3. f[m] \in Nat
      BY <1>1, <3>1, DigitType DEF Figures
    <3> QED BY <3>2, <3>3, Places
  <2>2. Lowest(g, c + m) = p * x + l
    BY <1>5, <2>1
  <2>3. Lowest(f, m + 1) = x + y * q
    <3>1. m \in 0 .. Room - 1
      BY <1>room
    <3> QED BY <2>1, <3>1, LowestPlaces
  <2>4. Lowest(g, c + (m + 1)) = Lowest(g, c + m) + y * Place(c + m)
    <3>1. c + m \in 0 .. Room - 1 /\ c + (m + 1) = (c + m) + 1 /\ m \in 0 .. n - 1
      BY <1>room
    <3>2. g[c + m] = y
      BY <2>1, <3>1
    <3> QED BY <3>1, <3>2, LowestPlaces
  <2>5. Place(c + m) = p * q
    BY <1>2, <2>1, PlaceSum
  <2>6. (p * x + l) + y * (p * q) = p * (x + y * q) + l
    OBVIOUS
  <2> QED BY <2>2, <2>3, <2>4, <2>5, <2>6
<1>6. n \in Z
  <2>1. Z \in SUBSET Nat
    OBVIOUS
  <2> HIDE DEF Z
  <2> QED BY <1>4, <1>5, <2>1, Inductive
<1> QED BY <1>1, <1>2, <1>3, <1>6

------------------------------------------------------------------------------
(* Bitwise operations on magnitudes.                                         *)

\* Where a one is, and where there is none.
LEMMA OneAt ==
  ASSUME NEW S, NEW f, NEW n \in Nat, OnesOf(S, f, n, Bits), NEW k \in Nat, NEW j \in 0 .. Bits - 1
  PROVE  /\ k < n => (Bits * k + j \in S <=> j \in OnesIn(f[k], Bits))
         /\ k >= n => Bits * k + j \notin S
<1>0. Bits \in Nat /\ Bits >= 1 /\ j \in Nat /\ j < Bits
  BY DigitsAssumption
<1>1. ASSUME k < n PROVE Bits * k + j \in S <=> j \in OnesIn(f[k], Bits)
  <2>1. k \in 0 .. n - 1
    BY <1>1
  <2> QED BY <2>1 DEF OnesOf
<1>2. ASSUME k >= n, Bits * k + j \in S PROVE FALSE
  <2>1. PICK l \in 0 .. n - 1, i \in 0 .. Bits - 1 : Bits * k + j = Bits * l + i
    BY <1>2 DEF OnesOf
  <2>2. Bits * l + i < Bits * n
    <3>1. l \in Nat /\ i \in Nat /\ i < Bits /\ l < n
      BY <1>0
    <3> QED BY <1>0, <3>1, BitSpan
  <2>3. ~(Bits * k + j < Bits * n)
    BY <1>0, <1>2, BitSpan
  <2> QED BY <2>1, <2>2, <2>3
<1> QED BY <1>1, <1>2

\* The characters z of an operation on x and y in place: those from reached to the end of
\* the shorter one are w, those above it the longer one's.
Merging(X, x, nx, Y, y, ny, n, m, reached, W, w, g, f, z) ==
  /\ nx \in Nat /\ OnesOf(X, x, nx, Bits) /\ Figures(x, nx)
  /\ ny \in Nat /\ OnesOf(Y, y, ny, Bits) /\ Figures(y, ny)
  /\ n \in Nat /\ n = Smallest(nx, ny) /\ m \in Nat /\ m = Largest(nx, ny)
  /\ reached \in Nat /\ reached <= n
  /\ reached < n => \E nw \in Nat : n <= nw /\ OnesOf(W, w, nw, Bits) /\ Figures(w, nw)
  /\ f \in {"or", "xor"} /\ Works(g, f)
  /\ \A k \in 0 .. reached - 1 : z[k] = Digitwise(g, x[k], y[k])
  /\ \A k \in reached .. n - 1 : z[k] = w[k]
  /\ \A k \in n .. m - 1 : z[k] = IF k < nx THEN x[k] ELSE y[k]

LEMMA MergedOnes ==
  ASSUME NEW X, NEW x, NEW nx, NEW Y, NEW y, NEW ny, NEW n, NEW m, NEW reached, NEW W, NEW w,
         NEW g, NEW f, NEW z, Merging(X, x, nx, Y, y, ny, n, m, reached, W, w, g, f, z),
         NEW skip, skip = Bits * reached .. Bits * n - 1,
         NEW T, T = (Bitwise(f, X, Y) \ skip) \cup (skip \cap W)
  PROVE  Figures(z, m) /\ OnesOf(T, z, m, Bits)
<1> USE DEF Merging
<1>0. /\ Bits \in Nat /\ Bits >= 1 /\ n <= nx /\ n <= ny /\ nx <= m /\ ny <= m /\ n <= m
      /\ m = nx \/ m = ny
      /\ n = nx \/ n = ny
  BY DigitsAssumption DEF Smallest, Largest
<1>1. ASSUME NEW k \in 0 .. m - 1 PROVE z[k] \in Digit
  <2>1. CASE k < reached
    <3>1. k \in 0 .. nx - 1 /\ k \in 0 .. ny - 1 /\ k \in 0 .. reached - 1
      BY <1>0, <2>1
    <3>2. x[k] \in Digit /\ y[k] \in Digit
      BY <3>1 DEF Figures
    <3> QED BY <3>1, <3>2 DEF Works
  <2>2. CASE reached <= k /\ k < n
    <3>1. PICK nw \in Nat : n <= nw /\ Figures(w, nw)
      BY <2>2
    <3>2. k \in 0 .. nw - 1 /\ k \in reached .. n - 1
      BY <2>2, <3>1
    <3> QED BY <3>1, <3>2 DEF Figures
  <2>3. CASE n <= k
    <3>1. k \in n .. m - 1
      BY <2>3
    <3>2. CASE k < nx
      <4>1. k \in 0 .. nx - 1
        BY <3>2
      <4> QED BY <3>1, <3>2, <4>1 DEF Figures
    <3>3. CASE ~(k < nx)
      <4>1. k \in 0 .. ny - 1
        BY <1>0, <3>3
      <4> QED BY <3>1, <3>3, <4>1 DEF Figures
    <3> QED BY <3>2, <3>3
  <2> QED BY <2>1, <2>2, <2>3
<1>2. ASSUME NEW k \in 0 .. m - 1, NEW j \in 0 .. Bits - 1
      PROVE  Bits * k + j \in T <=> j \in OnesIn(z[k], Bits)
  <2>0. k \in Nat /\ j \in Nat /\ j < Bits
    BY <1>0
  <2>1. PICK i \in Nat : i = Bits * k + j
    BY <1>0, <2>0
  <2>2. i \in skip <=> reached <= k /\ k < n
    <3>1. Bits * n \in Nat /\ (i < Bits * n <=> k < n)
      BY <1>0, <2>0, <2>1, BitSpan
    <3>2. Bits * reached \in Nat /\ (i < Bits * reached <=> k < reached)
      BY <1>0, <2>0, <2>1, BitSpan
    <3> QED BY <2>0, <2>1, <3>1, <3>2
  <2>3. /\ k < nx => (i \in X <=> j \in OnesIn(x[k], Bits))
        /\ k >= nx => i \notin X
    BY <2>0, <2>1, OneAt
  <2>4. /\ k < ny => (i \in Y <=> j \in OnesIn(y[k], Bits))
        /\ k >= ny => i \notin Y
    BY <2>0, <2>1, OneAt
  <2>5. CASE k < reached
    <3>1. k \in 0 .. nx - 1 /\ k \in 0 .. ny - 1 /\ k \in 0 .. reached - 1 /\ k < nx /\ k < ny
      BY <1>0, <2>5
    <3>2. x[k] \in Digit /\ y[k] \in Digit
      BY <3>1 DEF Figures
    <3>3. OnesIn(z[k], Bits) = Bitwise(f, OnesIn(x[k], Bits), OnesIn(y[k], Bits))
      BY <3>1, <3>2 DEF Works
    <3>4. i \notin skip
      BY <2>0, <2>2, <2>5
    <3>5. i \in T <=> i \in Bitwise(f, X, Y)
      BY <3>4
    <3>6. i \in Bitwise(f, X, Y) <=> j \in Bitwise(f, OnesIn(x[k], Bits), OnesIn(y[k], Bits))
      BY <2>3, <2>4, <3>1 DEF Bitwise
    <3> QED BY <2>1, <3>3, <3>5, <3>6
  <2>6. CASE reached <= k /\ k < n
    <3>1. PICK nw \in Nat : n <= nw /\ OnesOf(W, w, nw, Bits)
      BY <2>6
    <3>2. k < nw /\ k \in reached .. n - 1
      BY <2>0, <2>6, <3>1
    <3>3. i \in W <=> j \in OnesIn(w[k], Bits)
      BY <2>0, <2>1, <3>1, <3>2, OneAt
    <3>4. i \in T <=> i \in W
      BY <2>2, <2>6
    <3> QED BY <2>1, <3>2, <3>3, <3>4
  <2>7. CASE n <= k
    <3>1. k \in n .. m - 1 /\ ~(k < n)
      BY <2>0, <2>7
    <3>2. i \in T <=> i \in Bitwise(f, X, Y)
      BY <2>2, <3>1
    <3>3. CASE k < nx
      <4>1. k >= ny
        BY <1>0, <2>0, <2>7, <3>3
      <4>2. i \in Bitwise(f, X, Y) <=> i \in X
        BY <2>4, <4>1 DEF Bitwise
      <4>3. z[k] = x[k]
        BY <3>1, <3>3
      <4> QED BY <2>1, <2>3, <3>2, <3>3, <4>2, <4>3
    <3>4. CASE ~(k < nx)
      <4>1. k >= nx /\ k < ny
        BY <1>0, <2>0, <3>1, <3>4
      <4>2. i \in Bitwise(f, X, Y) <=> i \in Y
        BY <2>3, <4>1 DEF Bitwise
      <4>3. z[k] = y[k]
        BY <3>1, <3>4
      <4> QED BY <2>1, <2>4, <3>2, <4>1, <4>2, <4>3
    <3> QED BY <3>3, <3>4
  <2> QED BY <2>0, <2>5, <2>6, <2>7
<1>3. ASSUME NEW i \in T PROVE i \in Nat /\ \E k \in 0 .. m - 1, j \in 0 .. Bits - 1 : i = Bits * k + j
  <2>1. CASE i \in X
    <3>1. PICK k \in 0 .. nx - 1, j \in 0 .. Bits - 1 : i = Bits * k + j /\ i \in Nat
      BY <2>1 DEF OnesOf
    <3>2. k \in 0 .. m - 1
      BY <1>0
    <3> QED BY <3>1, <3>2
  <2>2. CASE i \in Y
    <3>1. PICK k \in 0 .. ny - 1, j \in 0 .. Bits - 1 : i = Bits * k + j /\ i \in Nat
      BY <2>2 DEF OnesOf
    <3>2. k \in 0 .. m - 1
      BY <1>0
    <3> QED BY <3>1, <3>2
  <2>3. CASE i \in skip /\ i \in W
    <3>1. i < Bits * n /\ i \in Nat /\ reached < n
      <4>1. Bits * n \in Nat /\ Bits * reached \in Nat
        BY <1>0
      <4>2. i \in Nat /\ i < Bits * n /\ Bits * reached <= i
        BY <2>3, <4>1
      <4>3. Bits * reached + 0 < Bits * n
        BY <4>1, <4>2
      <4>4. 0 \in Nat /\ 0 < Bits
        BY <1>0
      <4>5. reached < n
        BY <1>0, <4>3, <4>4, BitSpan
      <4> QED BY <4>2, <4>5
    <3>2. PICK nw \in Nat : OnesOf(W, w, nw, Bits)
      BY <3>1
    <3>3. PICK k \in 0 .. nw - 1, j \in 0 .. Bits - 1 : i = Bits * k + j
      BY <2>3, <3>2 DEF OnesOf
    <3>4. k \in Nat /\ j \in Nat /\ j < Bits
      BY <1>0
    <3>5. k < n
      BY <1>0, <3>1, <3>3, <3>4, BitSpan
    <3>6. k \in 0 .. m - 1
      BY <1>0, <3>4, <3>5
    <3> QED BY <3>1, <3>3, <3>6
  <2>4. i \in X \/ i \in Y \/ (i \in skip /\ i \in W)
    BY <1>3 DEF Bitwise
  <2> QED BY <2>1, <2>2, <2>3, <2>4
<1> QED BY <1>1, <1>2, <1>3 DEF Figures, OnesOf

\* The value of an integer, its sign and its ones.
LEMMA ValueIs ==
  ASSUME NEW r, Held(r)
  PROVE  /\ r.sign = 0 => Value(r) = 0 /\ Ones(Value(r)) = {}
         /\ r.sign # 0 <=> Value(r) # 0
         /\ r.sign < 0 <=> Value(r) < 0
         /\ r.sign > 0 <=> Value(r) > 0
<1>1. /\ r.sign \in {-1, 0, 1} /\ AbsOf(Value(r)) \in Nat
      /\ r.sign = 0 => Value(r) = 0
      /\ r.sign = 1 => Value(r) = AbsOf(Value(r))
      /\ r.sign = -1 => Value(r) = -AbsOf(Value(r))
      /\ r.sign # 0 => AbsOf(Value(r)) > 0
  BY SignedAbs, AbsIs
<1>2. AbsOf(0) = 0
  BY DEF AbsOf
<1>3. Ones(0) = {}
  <2>1. \A i \in 0 .. Width - 1 : i \in Nat
    BY WidthIs
  <2>2. \A i \in 0 .. Width - 1 : (0 \div Power(2, i)) % 2 # 1
    BY <2>1, NoBitOfZero
  <2> QED BY <1>2, <2>2 DEF Ones, OnesIn
<1> QED BY <1>1, <1>3

LEMMA FromNone == FromOnes({}) = 0
<1>1. {} \in SUBSET (0 .. 0 - 1) /\ 0 \in Nat
  OBVIOUS
<1>2. BitsAre(FromOnes({}), {}, 0)
  BY ONLY <1>1, FromOnesIs
<1>3. Raised(2, 0) = 1
  BY RaisedSteps
<1>4. PICK v : v = FromOnes({}) /\ v \in Nat /\ v < 1
  BY <1>2, <1>3 DEF BitsAre
<1> QED BY <1>4

\* Loops that work on one character at a time.
LEMMA LoopsAre ==
  ASSUME NEW f, NEW d, NEW x, NEW y, NEW n \in Nat, n <= Room
  PROVE  /\ Reached(n) \in Nat /\ Reached(n) <= n
         /\ \A k \in 0 .. n - 1 : ZMem2Op(f, d, x, y, n)[k] = Digitwise(f, x[k], y[k])
         /\ \A k \in 0 .. Reached(n) - 1 : ZMem2OpPrecise(f, d, x, y, n)[k] = Digitwise(f, x[k], y[k])
         /\ \A k \in 0 .. Room - 1 : k >= Reached(n) => ZMem2OpPrecise(f, d, x, y, n)[k] = d[k]
<1>0. PICK room \in Nat : room = Room /\ n <= room /\ Index = 0 .. room - 1
  BY MostIs DEF Index
<1>1. PICK r \in Nat : r = Reached(n) /\ r <= n
  <2>1. PICK g \in Nat : g = Group
    BY DigitsAssumption
  <2>2. n > g => n - g \in Nat /\ n - g <= n
    BY <2>1
  <2> QED BY <2>1, <2>2 DEF Reached
<1>2. PICK c \in Nat : c = Chunks(n) /\ n <= c
  BY ChunksIs
<1>3. ASSUME NEW k \in 0 .. n - 1 PROVE ZMem2Op(f, d, x, y, n)[k] = Digitwise(f, x[k], y[k])
  <2>1. k \in Index /\ k < c
    BY <1>0, <1>2
  <2> QED BY <1>2, <2>1 DEF ZMem2Op
<1>4. ASSUME NEW k \in 0 .. r - 1 PROVE ZMem2OpPrecise(f, d, x, y, n)[k] = Digitwise(f, x[k], y[k])
  <2>1. k \in Index /\ k < r
    BY <1>0, <1>1
  <2> QED BY <1>1, <2>1 DEF ZMem2OpPrecise
<1>5. ASSUME NEW k \in 0 .. room - 1, k >= r PROVE ZMem2OpPrecise(f, d, x, y, n)[k] = d[k]
  <2>1. k \in Index /\ ~(k < r)
    BY <1>0, <1>1, <1>5
  <2> QED BY <1>1, <2>1 DEF ZMem2OpPrecise
<1> QED BY <1>0, <1>1, <1>3, <1>4, <1>5

LEMMA ZAndIs ==
  ASSUME NEW s \in [Var -> Number], NEW a \in Var, NEW b \in Var, NEW c \in Var,
         Held(s[b]), Held(s[c]),
         NEW v, v = Value(s[b]), NEW w, w = Value(s[c]), NEW t, t = ZAnd(s, a, b, c)
  PROVE  Is(t[a], (IF v < 0 /\ w < 0 THEN -1 ELSE 1) * FromOnes(Ones(v) \cap Ones(w)))
<1>1. CASE s[b].sign = 0 \/ s[c].sign = 0
  <2>1. t = SetSign(s, a, 0)
    BY <1>1 DEF ZAnd
  <2>2. t[a].sign = 0
    BY <2>1 DEF SetSign, Number
  <2>3. Ones(v) \cap Ones(w) = {}
    BY <1>1, ValueIs
  <2>4. (IF v < 0 /\ w < 0 THEN -1 ELSE 1) * 0 = 0
    OBVIOUS
  <2> QED BY <2>2, <2>3, <2>4, FromNone, ZeroIs
<1>2. CASE ~(s[b].sign = 0 \/ s[c].sign = 0)
  <2>1. PICK nx \in Nat, ny \in Nat, x \in {s[b].chars}, y \in {s[c].chars} :
          /\ nx = s[b].used /\ ny = s[c].used /\ x = s[b].chars /\ y = s[c].chars
          /\ nx < Room /\ ny < Room /\ nx <= MaxUsed /\ ny <= MaxUsed
          /\ Figures(x, nx) /\ Figures(y, ny)
    BY <1>2, HeldIs
  <2>2. OnesOf(Ones(v), x, nx, Bits) /\ OnesOf(Ones(w), y, ny, Bits)
    BY <1>2, <2>1, OnesAre
  <2>3. PICK n \in Nat : n = Smallest(nx, ny) /\ n <= nx /\ n <= ny /\ n <= Room /\ n <= MostChars
                         /\ (n = nx \/ n = ny)
    BY <2>1, MostIs DEF Smallest
  <2>record. PICK q : q = [s[a] EXCEPT !.used = n]
    OBVIOUS
  <2>4. q \in Number /\ q.used = n /\ q.alloced = s[a].alloced
    BY <2>record DEF Number
  <2>5. PICK e : e = IF a \in {b, c} THEN q ELSE Ensure(q, n)
    OBVIOUS
  <2>6. e \in Number /\ e.used = n /\ n <= e.alloced
    <3>1. CASE a \in {b, c}
      <4>1. s[b].used <= s[b].alloced /\ s[c].used <= s[c].alloced
        BY <1>2 DEF Held
      <4>2. s[a].alloced \in Nat
        BY DEF Number
      <4> QED BY <2>1, <2>3, <2>4, <2>5, <3>1, <4>1, <4>2
    <3>2. CASE a \notin {b, c}
      <4>1. e = Ensure(q, n) /\ n \in 0 .. MostChars
        BY <2>3, <2>5, <3>2, MostIs
      <4>2. e \in Number /\ e.used = q.used /\ e.alloced >= n
        BY <2>4, <4>1, EnsureIs
      <4> QED BY <2>4, <4>2 DEF Number
    <3> QED BY <3>1, <3>2
  <2>7. PICK z : z = ZMem2Op(AndDigit, e.chars, x, y, n)
    OBVIOUS
  <2>8. PICK r : r = [e EXCEPT !.chars = z]
    OBVIOUS
  <2>9. Shaped(r) /\ r.used = n /\ r.chars = z /\ r.alloced \in Nat /\ n <= r.alloced
    BY <2>6, <2>8 DEF Number, Shaped
  <2>10. PICK sign \in {-1, 1} : sign = IF s[b].sign > 0 \/ s[c].sign > 0 THEN 1 ELSE -1
    OBVIOUS
  <2>11. t[a] = TrimAndSign(r, sign)
    <3>1. t = [s EXCEPT ![a] = TrimAndSign(r, sign)]
      BY <1>2, <2>1, <2>3, <2>record, <2>5, <2>7, <2>8, <2>10 DEF ZAnd
    <3> QED BY <3>1
  <2>12. \A k \in 0 .. n - 1 : z[k] = Digitwise(AndDigit, x[k], y[k])
    BY <2>3, <2>7, LoopsAre
  <2>13. ASSUME NEW k \in 0 .. n - 1
         PROVE  z[k] \in Digit /\ OnesIn(z[k], Bits) = OnesIn(x[k], Bits) \cap OnesIn(y[k], Bits)
    <3>1. k \in 0 .. nx - 1 /\ k \in 0 .. ny - 1
      BY <2>3
    <3>2. x[k] \in Digit /\ y[k] \in Digit
      BY <2>1, <3>1 DEF Figures
    <3> QED BY <2>12, <3>2, OperationsWork DEF Works, Bitwise
  <2>14. Figures(z, n)
    BY <2>13 DEF Figures
  <2>15. PICK T : T = Ones(v) \cap Ones(w)
    OBVIOUS
  <2>16. OnesOf(T, z, n, Bits)
    <3>1. ASSUME NEW k \in 0 .. n - 1, NEW j \in 0 .. Bits - 1
          PROVE  Bits * k + j \in T <=> j \in OnesIn(z[k], Bits)
      <4>1. k \in 0 .. nx - 1 /\ k \in 0 .. ny - 1
        BY <2>3
      <4>2. /\ Bits * k + j \in Ones(v) <=> j \in OnesIn(x[k], Bits)
            /\ Bits * k + j \in Ones(w) <=> j \in OnesIn(y[k], Bits)
        BY <2>2, <4>1 DEF OnesOf
      <4> QED BY <2>13, <2>15, <4>2
    <3>2. ASSUME NEW i \in T PROVE i \in Nat /\ \E k \in 0 .. n - 1, j \in 0 .. Bits - 1 : i = Bits * k + j
      <4>1. i \in Ones(v) /\ i \in Ones(w)
        BY <2>15
      <4>2. i \in Nat /\ (\E k \in 0 .. nx - 1, j \in 0 .. Bits - 1 : i = Bits * k + j)
                      /\ (\E k \in 0 .. ny - 1, j \in 0 .. Bits - 1 : i = Bits * k + j)
        BY <2>2, <4>1 DEF OnesOf
      <4> QED BY <2>3, <4>2
    <3> QED BY <3>1, <3>2 DEF OnesOf
  <2>17. PICK p : p = Lowest(z, n) /\ p = FromOnes(T)
    BY <2>3, <2>14, <2>16, CharsMake
  <2>18. Is(t[a], sign * p)
    <3>1. PICK q2 : q2 = TrimAndSign(r, sign)
      OBVIOUS
    <3>2. /\ n \in Nat /\ n <= Room /\ Figures(r.chars, n) /\ sign \in {-1, 0, 1}
          /\ p = Lowest(r.chars, n)
      BY <2>3, <2>9, <2>14, <2>17
    <3>3. Is(q2, sign * p)
      BY ONLY <2>9, <3>1, <3>2, TrimmedIs
    <3> QED BY <2>11, <3>1, <3>3
  <2>19. sign = IF v < 0 /\ w < 0 THEN -1 ELSE 1
    <3>1. s[b].sign \in {-1, 0, 1} /\ s[c].sign \in {-1, 0, 1}
      BY HeldIs
    <3> QED BY <1>2, <2>10, <3>1, ValueIs
  <2> QED BY <2>15, <2>17, <2>18, <2>19
<1> QED BY <1>1, <1>2

\* T is what zor or zxor, which is f, is to make of the magnitudes.
Merges(g, f, s, a, b, c, n, skip, T) ==
  /\ s \in [Var -> Number] /\ a \in Var /\ b \in Var /\ c \in Var
  /\ Held(s[b]) /\ Held(s[c]) /\ s[b].sign # 0 /\ s[c].sign # 0
  /\ f \in {"or", "xor"} /\ Works(g, f)
  /\ n = Smallest(s[b].used, s[c].used)
  /\ skip = IF a \in {b, c} THEN Bits * Reached(n) .. Bits * n - 1 ELSE {}
  /\ T = (Bitwise(f, Ones(Value(s[b])), Ones(Value(s[c]))) \ skip) \cup (skip \cap Ones(Value(s[a])))

\* What zor and zxor share, on magnitudes: in place a part is left as it was.
LEMMA MergedIs ==
  ASSUME NEW g, NEW f, NEW s, NEW a, NEW b, NEW c, NEW n, NEW skip, NEW T,
         Merges(g, f, s, a, b, c, n, skip, T), NEW t, t = Merged(g, s, a, b, c)
  PROVE  /\ Shaped(t[a]) /\ t[a].used \in Nat /\ t[a].used <= Room
         /\ t[a].alloced \in Nat /\ t[a].used <= t[a].alloced
         /\ Figures(t[a].chars, t[a].used) /\ Lowest(t[a].chars, t[a].used) = FromOnes(T)
         /\ \A sign : SetSign(t, a, sign)[a] = [t[a] EXCEPT !.sign = sign]
<1> USE DEF Merges
<1>1. PICK nx \in Nat, ny \in Nat, x \in {s[b].chars}, y \in {s[c].chars} :
        /\ nx = s[b].used /\ ny = s[c].used /\ x = s[b].chars /\ y = s[c].chars
        /\ nx < Room /\ ny < Room /\ nx <= MaxUsed /\ ny <= MaxUsed
        /\ Figures(x, nx) /\ Figures(y, ny)
  BY HeldIs
<1>2. nx <= s[b].alloced /\ ny <= s[c].alloced /\ s[b].alloced \in Nat /\ s[c].alloced \in Nat
  BY <1>1 DEF Held, Number
<1>3. PICK m : m = Largest(nx, ny)
  OBVIOUS
<1>4. /\ n \in Nat /\ m \in Nat /\ n <= nx /\ n <= ny /\ nx <= m /\ ny <= m /\ n <= m /\ n <= Room
      /\ m <= Room /\ m <= MaxUsed /\ m \in 0 .. MostChars /\ n = Smallest(nx, ny)
      /\ m = nx \/ m = ny
  BY <1>1, <1>3, MostIs DEF Smallest, Largest
<1>5. PICK e : e = Ensure(s[a], m)
  OBVIOUS
<1>6. /\ e \in Number /\ e.alloced >= m
      /\ \A i \in Index : i < s[a].alloced => e.chars[i] = s[a].chars[i]
  BY <1>4, <1>5, EnsureIs
<1>changed. PICK p : p = [s EXCEPT ![a] = e]
  OBVIOUS
<1>7. p[a] = e /\ \A q \in Var : q # a => p[q] = s[q]
  BY <1>changed
<1>index. \A k \in 0 .. m - 1 : k \in Index
  BY <1>4, MostIs DEF Index
<1>8. /\ \A k \in 0 .. nx - 1 : p[b].chars[k] = x[k]
      /\ \A k \in 0 .. ny - 1 : p[c].chars[k] = y[k]
  <2>1. ASSUME NEW k \in 0 .. nx - 1 PROVE p[b].chars[k] = x[k]
    <3>1. k \in Index
      BY <1>4, <1>index
    <3>2. k < s[b].alloced
      BY <1>2
    <3> QED BY <1>1, <1>6, <1>7, <3>1, <3>2
  <2>2. ASSUME NEW k \in 0 .. ny - 1 PROVE p[c].chars[k] = y[k]
    <3>1. k \in Index
      BY <1>4, <1>index
    <3>2. k < s[c].alloced
      BY <1>2
    <3> QED BY <1>1, <1>6, <1>7, <3>1, <3>2
  <2> QED BY <2>1, <2>2
<1>9. PICK long : long = IF nx = m THEN b ELSE c
  OBVIOUS
<1>10. PICK both : both = IF a \in {b, c} THEN ZMem2OpPrecise(g, p[a].chars, p[b].chars, p[c].chars, n)
                          ELSE ZMem2Op(g, p[a].chars, p[b].chars, p[c].chars, n)
  OBVIOUS
<1>11. PICK z : z = IF a = long THEN both ELSE MemCpy(both, n, p[long].chars, n, m - n)
  OBVIOUS
<1>12. PICK r : r = [e EXCEPT !.chars = z, !.used = m]
  OBVIOUS
<1>13. Shaped(r) /\ r.used = m /\ r.alloced \in Nat /\ m <= r.alloced /\ r.chars = z
  BY <1>4, <1>6, <1>12 DEF Number, Shaped
<1>14. t = [p EXCEPT ![a] = r]
  BY <1>1, <1>3, <1>5, <1>changed, <1>9, <1>10, <1>11, <1>12 DEF Merged
<1>15. /\ t[a] = r /\ \A sign : SetSign(t, a, sign)[a] = [r EXCEPT !.sign = sign]
  BY <1>changed, <1>14 DEF SetSign
<1>16. PICK reached \in Nat : reached = (IF a \in {b, c} THEN Reached(n) ELSE n) /\ reached <= n
  <2>1. Reached(n) \in Nat /\ Reached(n) <= n
    BY <1>4, LoopsAre
  <2> QED BY <1>4, <2>1
<1>17. /\ \A k \in 0 .. reached - 1 : both[k] = Digitwise(g, p[b].chars[k], p[c].chars[k])
       /\ a \in {b, c} => \A k \in 0 .. Room - 1 : k >= reached => both[k] = p[a].chars[k]
  <2>1. CASE a \in {b, c}
    <3>1. both = ZMem2OpPrecise(g, p[a].chars, p[b].chars, p[c].chars, n) /\ reached = Reached(n)
      BY <1>10, <1>16, <2>1
    <3> QED BY <1>4, <3>1, LoopsAre
  <2>2. CASE a \notin {b, c}
    <3>1. both = ZMem2Op(g, p[a].chars, p[b].chars, p[c].chars, n) /\ reached = n
      BY <1>10, <1>16, <2>2
    <3> QED BY <1>4, <2>2, <3>1, LoopsAre
  <2> QED BY <2>1, <2>2
<1>18. \A k \in 0 .. n - 1 : z[k] = both[k]
  <2> SUFFICES ASSUME NEW k \in 0 .. n - 1 PROVE z[k] = both[k]
    OBVIOUS
  <2>1. k \in Index /\ k \notin n .. n + Copied(m - n) - 1
    BY <1>4, <1>index
  <2> QED BY <1>11, <2>1 DEF MemCpy
<1>19. \A k \in n .. m - 1 : z[k] = IF k < nx THEN x[k] ELSE y[k]
  <2> SUFFICES ASSUME NEW k \in n .. m - 1 PROVE z[k] = IF k < nx THEN x[k] ELSE y[k]
    OBVIOUS
  <2>0. k \in 0 .. m - 1 /\ k \in Index /\ k \in Nat
    BY <1>4, <1>index
  <2>1. p[long].chars[k] = IF k < nx THEN x[k] ELSE y[k]
    <3>1. CASE nx = m
      <4>1. k \in 0 .. nx - 1 /\ k < nx
        BY <2>0, <3>1
      <4> QED BY <1>8, <1>9, <3>1, <4>1
    <3>2. CASE nx # m
      <4>1. n = nx /\ m = ny
        BY <1>1, <1>4, <3>2 DEF Smallest
      <4>2. ~(k < nx) /\ k \in 0 .. ny - 1
        BY <2>0, <4>1
      <4> QED BY <1>8, <1>9, <3>2, <4>2
    <3> QED BY <3>1, <3>2
  <2>2. CASE a = long
    <3>1. a \in {b, c}
      BY <1>9, <2>2
    <3>2. k \in 0 .. Room - 1 /\ k >= reached
      BY <1>4, <1>16, <2>0, MostIs
    <3>3. z[k] = p[a].chars[k]
      BY <1>11, <1>17, <2>2, <3>1, <3>2
    <3> QED BY <2>1, <2>2, <3>3
  <2>3. CASE a # long
    <3>1. PICK copied \in Nat : copied = Copied(m - n) /\ m - n <= copied
      <4>1. m - n \in Nat
        BY <1>4
      <4> QED BY <4>1, ChunksIs
    <3>2. k \in n .. n + copied - 1 /\ n + k - n = k
      BY <1>4, <2>0, <3>1
    <3>3. z[k] = p[long].chars[k]
      BY <1>11, <2>0, <2>3, <3>1, <3>2 DEF MemCpy
    <3> QED BY <2>1, <3>3
  <2> QED BY <2>2, <2>3
<1>20. PICK X, Y, W, w : /\ X = Ones(Value(s[b])) /\ Y = Ones(Value(s[c])) /\ W = Ones(Value(s[a]))
                         /\ w = s[a].chars
  OBVIOUS
<1>21. OnesOf(X, x, nx, Bits) /\ OnesOf(Y, y, ny, Bits)
  BY <1>1, <1>20, OnesAre
<1>22. a \in {b, c} => \E nw \in Nat : n <= nw /\ OnesOf(W, w, nw, Bits) /\ Figures(w, nw)
                                       /\ \A k \in 0 .. nw - 1 : p[a].chars[k] = w[k]
  BY <1>1, <1>4, <1>8, <1>20, <1>21
<1>23. reached < n => \E nw \in Nat : n <= nw /\ OnesOf(W, w, nw, Bits) /\ Figures(w, nw)
  BY <1>16, <1>22
<1>24. \A k \in 0 .. reached - 1 : z[k] = Digitwise(g, x[k], y[k])
  <2> SUFFICES ASSUME NEW k \in 0 .. reached - 1 PROVE z[k] = Digitwise(g, x[k], y[k])
    OBVIOUS
  <2>1. k \in 0 .. n - 1 /\ k \in 0 .. nx - 1 /\ k \in 0 .. ny - 1
    BY <1>4, <1>16
  <2> QED BY <1>8, <1>17, <1>18, <2>1
<1>25. \A k \in reached .. n - 1 : z[k] = w[k]
  <2> SUFFICES ASSUME NEW k \in reached .. n - 1 PROVE z[k] = w[k]
    OBVIOUS
  <2>1. a \in {b, c}
    BY <1>16
  <2>2. PICK nw \in Nat : n <= nw /\ \A i \in 0 .. nw - 1 : p[a].chars[i] = w[i]
    BY <1>22, <2>1
  <2>3. k \in 0 .. n - 1 /\ k \in 0 .. nw - 1 /\ k \in 0 .. Room - 1 /\ k >= reached
    BY <1>4, <2>2, MostIs
  <2> QED BY <1>17, <1>18, <2>1, <2>2, <2>3
<1>26. PICK gone : gone = Bits * reached .. Bits * n - 1
  OBVIOUS
<1>27. gone = skip
  <2>1. CASE a \in {b, c}
    BY <1>16, <1>26, <2>1
  <2>2. CASE a \notin {b, c}
    <3>1. Bits * n \in Nat
      BY <1>4, DigitsAssumption
    <3>2. gone = {}
      BY <1>16, <1>26, <2>2, <3>1
    <3> QED BY <2>2, <3>2
  <2> QED BY <2>1, <2>2
<1>28. T = (Bitwise(f, X, Y) \ gone) \cup (gone \cap W)
  BY <1>20, <1>27
<1>29. Figures(z, m) /\ OnesOf(T, z, m, Bits)
  <2>1. Merging(X, x, nx, Y, y, ny, n, m, reached, W, w, g, f, z)
    BY <1>1, <1>3, <1>4, <1>16, <1>19, <1>21, <1>23, <1>24, <1>25 DEF Merging
  <2> QED BY ONLY <1>26, <1>28, <2>1, MergedOnes
<1>30. FromOnes(T) = Lowest(z, m)
  BY <1>4, <1>29, CharsMake
<1> QED BY <1>4, <1>13, <1>15, <1>29, <1>30

LEMMA OnesBack ==
  ASSUME NEW r, Held(r)
  PROVE  /\ FromOnes(Ones(Value(r))) = AbsOf(Value(r))
         /\ Ones(Value(r)) \in SUBSET (0 .. Width - 1)
         /\ r.sign # 0 => Ones(Value(r)) # {}
<1>1. CASE r.sign = 0
  <2>1. AbsOf(0) = 0
    BY DEF AbsOf
  <2> QED BY <1>1, <2>1, ValueIs, FromNone
<1>2. CASE r.sign # 0
  <2>1. PICK n, v, f :
          /\ n \in Nat /\ v \in Nat /\ n = r.used /\ n <= Room /\ f = r.chars /\ Figures(f, n)
          /\ v = Lowest(f, n) /\ v = Magnitude(r) /\ v > 0
    BY <1>2, HeldIs, MostIs
  <2>2. AbsOf(Value(r)) = v
    BY <1>2, <2>1, AbsIs
  <2>3. FromOnes(Ones(Value(r))) = v
    BY <1>2, <2>1, OnesAre, CharsMake
  <2>4. Ones(Value(r)) # {}
    BY <2>1, <2>3, FromNone
  <2> QED BY <2>2, <2>3, <2>4 DEF Ones, OnesIn
<1> QED BY <1>1, <1>2

LEMMA SomeOne ==
  ASSUME NEW n \in Nat, NEW T \in SUBSET (0 .. n - 1), T # {}
  PROVE  FromOnes(T) \in Nat /\ FromOnes(T) > 0
<1>1. PICK v : v = FromOnes(T) /\ BitsAre(v, T, n)
  BY FromOnesIs
<1>2. PICK i \in T : TRUE
  OBVIOUS
<1>3. i \in 0 .. n - 1 /\ i \in Nat
  OBVIOUS
<1>4. (v \div Power(2, i)) % 2 = 1
  <2>1. (v \div Raised(2, i)) % 2 = 1
    BY <1>1, <1>3 DEF BitsAre
  <2> QED BY <1>3, <2>1, TwoRaised
<1>5. v # 0
  BY <1>3, <1>4, NoBitOfZero
<1>6. v \in Nat
  BY <1>1 DEF BitsAre
<1> QED BY <1>1, <1>5, <1>6

\* The bits zor and zxor do not reach.
Skips(s, a, b, c) ==
  IF a \in {b, c} /\ s[b].sign # 0 /\ s[c].sign # 0
  THEN Bits * Reached(Smallest(s[b].used, s[c].used)) .. Bits * Smallest(s[b].used, s[c].used) - 1
  ELSE {}
Mixed(f, s, a, b, c) ==
  (Bitwise(f, Ones(Value(s[b])), Ones(Value(s[c]))) \ Skips(s, a, b, c))
     \cup (Skips(s, a, b, c) \cap Ones(Value(s[a])))

\* With zero, zor and zxor are assignments.
LEMMA MixedWithZero ==
  ASSUME NEW s \in [Var -> Number], NEW a \in Var, NEW b \in Var, NEW c \in Var,
         Held(s[b]), Held(s[c]), NEW f \in {"or", "xor"}, NEW sign \in {-1, 1}, NEW t,
         \/ /\ s[b].sign = 0 /\ t = SetUnlessSame(s, a, c)
            /\ sign = IF Value(s[c]) < 0 THEN -1 ELSE 1
         \/ /\ s[c].sign = 0 /\ t = SetUnlessSame(s, a, b)
            /\ sign = IF Value(s[b]) < 0 THEN -1 ELSE 1
  PROVE  Is(t[a], sign * FromOnes(Mixed(f, s, a, b, c)))
<1>1. PICK d \in {b, c} : /\ t = SetUnlessSame(s, a, d) /\ sign = IF Value(s[d]) < 0 THEN -1 ELSE 1
                          /\ Mixed(f, s, a, b, c) = Ones(Value(s[d]))
  <2>1. s[b].sign = 0 => Ones(Value(s[b])) = {}
    BY ValueIs
  <2>2. s[c].sign = 0 => Ones(Value(s[c])) = {}
    BY ValueIs
  <2>3. s[b].sign = 0 \/ s[c].sign = 0 => Skips(s, a, b, c) = {}
    BY DEF Skips
  <2>4. CASE s[b].sign = 0 /\ t = SetUnlessSame(s, a, c) /\ sign = IF Value(s[c]) < 0 THEN -1 ELSE 1
    <3>1. Mixed(f, s, a, b, c) = Ones(Value(s[c]))
      BY <2>1, <2>3, <2>4 DEF Mixed, Bitwise
    <3> QED BY <2>4, <3>1
  <2>5. CASE s[c].sign = 0 /\ t = SetUnlessSame(s, a, b) /\ sign = IF Value(s[b]) < 0 THEN -1 ELSE 1
    <3>1. Mixed(f, s, a, b, c) = Ones(Value(s[b]))
      BY <2>2, <2>3, <2>5 DEF Mixed, Bitwise
    <3> QED BY <2>5, <3>1
  <2> QED BY <2>4, <2>5
<1>2. d \in Var /\ Held(s[d])
  OBVIOUS
<1>3. Copy(t[a], s[d])
  BY <1>1, <1>2, UnlessSameIs
<1>4. Held(t[a]) /\ Value(t[a]) = Value(s[d])
  BY ONLY <1>2, <1>3, CopyHeld
<1>5. Legal(t[a])
  BY <1>4, HeldIs
<1>6. PICK v \in Int : v = Value(s[d])
  BY <1>2, HeldIs
<1>7. FromOnes(Mixed(f, s, a, b, c)) = AbsOf(v)
  BY <1>1, <1>2, <1>6, OnesBack
<1>8. sign * AbsOf(v) = v
  BY <1>1, <1>6 DEF AbsOf
<1> QED BY <1>4, <1>5, <1>6, <1>7, <1>8 DEF Is

LEMMA ZOrIs ==
  ASSUME NEW s \in [Var -> Number], NEW a \in Var, NEW b \in Var, NEW c \in Var,
         Held(s[b]), Held(s[c]),
         NEW v, v = Value(s[b]), NEW w, w = Value(s[c]), NEW t, t = ZOr(s, a, b, c)
  PROVE  Is(t[a], (IF v < 0 \/ w < 0 THEN -1 ELSE 1) * FromOnes(Mixed("or", s, a, b, c)))
<1>1. PICK sign \in {-1, 1} : sign = IF v < 0 \/ w < 0 THEN -1 ELSE 1
  OBVIOUS
<1>2. CASE s[b].sign = 0
  <2>1. t = SetUnlessSame(s, a, c)
    BY <1>2 DEF ZOr
  <2>2. sign = IF w < 0 THEN -1 ELSE 1
    BY <1>1, <1>2, ValueIs
  <2>3. "or" \in {"or", "xor"}
    OBVIOUS
  <2> QED BY <1>1, <1>2, <2>1, <2>2, <2>3, MixedWithZero
<1>3. CASE s[b].sign # 0 /\ s[c].sign = 0
  <2>1. t = SetUnlessSame(s, a, b)
    BY <1>3 DEF ZOr
  <2>2. sign = IF v < 0 THEN -1 ELSE 1
    BY <1>1, <1>3, ValueIs
  <2>3. "or" \in {"or", "xor"}
    OBVIOUS
  <2> QED BY <1>1, <1>3, <2>1, <2>2, <2>3, MixedWithZero
<1>4. CASE s[b].sign # 0 /\ s[c].sign # 0
  <2>1. PICK m : m = Merged(OrDigit, s, a, b, c)
    OBVIOUS
  <2>2. t = SetSign(m, a, sign)
    <3>1. sign = IF s[b].sign > 0 /\ s[c].sign > 0 THEN 1 ELSE -1
      <4>1. s[b].sign \in {-1, 0, 1} /\ s[c].sign \in {-1, 0, 1}
        BY HeldIs
      <4> QED BY <1>1, <1>4, <4>1, ValueIs
    <3> QED BY <1>4, <2>1, <3>1 DEF ZOr
  <2>3. PICK n, skip, T :
          /\ n = Smallest(s[b].used, s[c].used)
          /\ skip = IF a \in {b, c} THEN Bits * Reached(n) .. Bits * n - 1 ELSE {}
          /\ T = (Bitwise("or", Ones(v), Ones(w)) \ skip) \cup (skip \cap Ones(Value(s[a])))
    OBVIOUS
  <2>4. T = Mixed("or", s, a, b, c)
    BY <1>4, <2>3 DEF Mixed, Skips
  <2>5. PICK r, p : r = m[a] /\ p = FromOnes(T)
    OBVIOUS
  <2>6. /\ Shaped(r) /\ r.used \in Nat /\ r.used <= Room
        /\ r.alloced \in Nat /\ r.used <= r.alloced
        /\ Figures(r.chars, r.used) /\ Lowest(r.chars, r.used) = p
        /\ \A x : SetSign(m, a, x)[a] = [r EXCEPT !.sign = x]
    <3>1. Merges(OrDigit, "or", s, a, b, c, n, skip, T)
      BY <1>4, <2>3, OperationsWork DEF Merges
    <3>2. /\ Shaped(m[a]) /\ m[a].used \in Nat /\ m[a].used <= Room
          /\ m[a].alloced \in Nat /\ m[a].used <= m[a].alloced
          /\ Figures(m[a].chars, m[a].used) /\ Lowest(m[a].chars, m[a].used) = FromOnes(T)
          /\ \A x : SetSign(m, a, x)[a] = [m[a] EXCEPT !.sign = x]
      BY ONLY <2>1, <3>1, MergedIs
    <3> QED BY <2>5, <3>2
  <2>7. p > 0
    <3>1. Ones(v) \in SUBSET (0 .. Width - 1) /\ Ones(w) \in SUBSET (0 .. Width - 1)
          /\ Ones(v) # {} /\ Ones(w) # {}
      BY <1>4, OnesBack
    <3>2. Bitwise("or", Ones(v), Ones(w)) = Ones(v) \cup Ones(w)
      BY DEF Bitwise
    <3>3. T \in SUBSET (0 .. Width - 1)
      <4>1. Ones(Value(s[a])) \in SUBSET (0 .. Width - 1)
        BY DEF Ones, OnesIn
      <4> QED BY <2>3, <3>1, <3>2, <4>1
    <3>4. T # {}
      <4>1. CASE a \notin {b, c}
        <5>1. Ones(v) \subseteq T
          BY <2>3, <3>2, <4>1
        <5> QED BY <3>1, <5>1
      <4>2. CASE a \in {b, c}
        <5>1. Ones(Value(s[a])) \subseteq T /\ Ones(Value(s[a])) # {}
          BY <2>3, <3>1, <3>2, <4>2
        <5> QED BY <5>1
      <4> QED BY <4>1, <4>2
    <3>5. Width \in Nat
      BY WidthIs
    <3> QED BY <2>5, <3>3, <3>4, <3>5, SomeOne
  <2>8. PICK q : q = [r EXCEPT !.sign = sign]
    OBVIOUS
  <2>9. t[a] = q
    BY <2>2, <2>6, <2>8
  <2>10. PICK k \in Nat : k = r.used
    BY <2>6
  <2>11. /\ q.sign = sign /\ q.used = k /\ q.alloced \in Nat /\ k <= q.alloced
         /\ k <= Room /\ Figures(q.chars, k) /\ p = Lowest(q.chars, k)
    BY <2>6, <2>8, <2>10 DEF Shaped
  <2>12. Is(q, sign * p)
    BY ONLY <2>7, <2>11, k \in Nat, sign \in {-1, 1}, MadeIs
  <2> QED BY <1>1, <2>4, <2>5, <2>9, <2>12
<1> QED BY <1>2, <1>3, <1>4

LEMMA ZXorIs ==
  ASSUME NEW s \in [Var -> Number], NEW a \in Var, NEW b \in Var, NEW c \in Var,
         Held(s[b]), Held(s[c]),
         NEW v, v = Value(s[b]), NEW w, w = Value(s[c]), NEW t, t = ZXor(s, a, b, c)
  PROVE  Is(t[a], (IF (v < 0) # (w < 0) THEN -1 ELSE 1) * FromOnes(Mixed("xor", s, a, b, c)))
<1>1. PICK sign \in {-1, 1} : sign = IF (v < 0) # (w < 0) THEN -1 ELSE 1
  OBVIOUS
<1>2. CASE s[b].sign = 0
  <2>1. t = SetUnlessSame(s, a, c)
    BY <1>2 DEF ZXor
  <2>2. sign = IF w < 0 THEN -1 ELSE 1
    BY <1>1, <1>2, ValueIs
  <2>3. "xor" \in {"or", "xor"}
    OBVIOUS
  <2> QED BY <1>1, <1>2, <2>1, <2>2, <2>3, MixedWithZero
<1>3. CASE s[b].sign # 0 /\ s[c].sign = 0
  <2>1. t = SetUnlessSame(s, a, b)
    BY <1>3 DEF ZXor
  <2>2. sign = IF v < 0 THEN -1 ELSE 1
    BY <1>1, <1>3, ValueIs
  <2>3. "xor" \in {"or", "xor"}
    OBVIOUS
  <2> QED BY <1>1, <1>3, <2>1, <2>2, <2>3, MixedWithZero
<1>4. CASE s[b].sign # 0 /\ s[c].sign # 0
  <2>1. PICK m : m = Merged(XorDigit, s, a, b, c)
    OBVIOUS
  <2>3. PICK n, skip, T :
          /\ n = Smallest(s[b].used, s[c].used)
          /\ skip = IF a \in {b, c} THEN Bits * Reached(n) .. Bits * n - 1 ELSE {}
          /\ T = (Bitwise("xor", Ones(v), Ones(w)) \ skip) \cup (skip \cap Ones(Value(s[a])))
    OBVIOUS
  <2>4. T = Mixed("xor", s, a, b, c)
    BY <1>4, <2>3 DEF Mixed, Skips
  <2>5. PICK r, p : r = m[a] /\ p = FromOnes(T)
    OBVIOUS
  <2>6. /\ Shaped(r) /\ r.used \in Nat /\ r.used <= Room
        /\ r.alloced \in Nat /\ r.used <= r.alloced
        /\ Figures(r.chars, r.used) /\ Lowest(r.chars, r.used) = p
    <3>1. Merges(XorDigit, "xor", s, a, b, c, n, skip, T)
      BY <1>4, <2>3, OperationsWork DEF Merges
    <3>2. /\ Shaped(m[a]) /\ m[a].used \in Nat /\ m[a].used <= Room
          /\ m[a].alloced \in Nat /\ m[a].used <= m[a].alloced
          /\ Figures(m[a].chars, m[a].used) /\ Lowest(m[a].chars, m[a].used) = FromOnes(T)
      BY ONLY <2>1, <3>1, MergedIs
    <3> QED BY <2>5, <3>2
  <2>7. PICK q : q = TrimAndSign(r, sign)
    OBVIOUS
  <2>8. t[a] = q
    <3>1. sign = IF s[b].sign # s[c].sign THEN -1 ELSE 1
      <4>1. s[b].sign \in {-1, 0, 1} /\ s[c].sign \in {-1, 0, 1}
        BY HeldIs
      <4>2. (v < 0 <=> s[b].sign = -1) /\ (w < 0 <=> s[c].sign = -1)
        BY <1>4, <4>1, ValueIs
      <4> QED BY <1>1, <1>4, <4>1, <4>2
    <3>2. t = [s EXCEPT ![a] = q]
      BY <1>4, <2>1, <2>5, <2>7, <3>1 DEF ZXor
    <3> QED BY <3>2
  <2>9. PICK k \in Nat : k = r.used
    BY <2>6
  <2>10. /\ Shaped(r) /\ r.used = k /\ r.alloced \in Nat /\ k <= r.alloced /\ sign \in {-1, 0, 1}
         /\ k <= Room /\ Figures(r.chars, k) /\ p = Lowest(r.chars, k)
    BY <2>6, <2>9
  <2>11. Is(q, sign * p)
    BY ONLY <2>7, <2>10, k \in Nat, TrimmedIs
  <2> QED BY <1>1, <2>4, <2>5, <2>8, <2>11
<1> QED BY <1>2, <1>3, <1>4

------------------------------------------------------------------------------
(* znot.                                                                     *)

\* What is no one of v, below the highest.
Noughts(v) == (0 .. Max(Ones(v))) \ Ones(v)

\* The top character, and how many bits of it znot keeps.
LEMMA TopBits ==
  ASSUME NEW r, Held(r), r.sign # 0, NEW n \in Nat, n = r.used, n >= 1, r.chars[n - 1] # 0,
         NEW d, d = r.chars[n - 1], NEW m, m = Max(OnesIn(d, Bits))
  PROVE  /\ d \in Digit /\ m \in 0 .. Bits - 1 /\ OnesIn(d, Bits) \in SUBSET (0 .. m)
         /\ \A z : z = (n - 1) * Bits + m + 1 => /\ z \in Nat
                                                 /\ m + 1 = Bits => z % Bits = 0
                                                 /\ m + 1 # Bits => z % Bits = m + 1
<1>0. PICK b \in Nat : b = Bits /\ b >= 1
  BY DigitsAssumption
<1>1. d \in Digit
  <2>1. Figures(r.chars, n) /\ n - 1 \in 0 .. n - 1
    BY HeldIs
  <2> QED BY <2>1 DEF Figures
<1>2. PICK S : S = OnesIn(d, Bits) /\ S \in SUBSET (0 .. b - 1) /\ S # {}
  BY <1>0, <1>1, CharOnes
<1>3. m \in S /\ \A k \in S : k <= m
  <2>1. S \in SUBSET (0 .. b)
    BY <1>2
  <2> QED BY <1>2, <2>1, MaxIs
<1>4. m \in 0 .. b - 1 /\ S \in SUBSET (0 .. m)
  BY <1>2, <1>3
<1>5. ASSUME NEW z, z = (n - 1) * Bits + m + 1
      PROVE  /\ z \in Nat
             /\ m + 1 = b => z % b = 0
             /\ m + 1 # b => z % b = m + 1
  <2>1. PICK k \in Nat : k = n - 1 /\ b * k \in Nat /\ z = b * k + (m + 1) /\ z \in Nat
    BY <1>0, <1>4, <1>5
  <2>2. CASE m + 1 = b
    <3>1. PICK l \in Nat : l = k + 1
      OBVIOUS
    <3>2. z = b * l + 0
      BY <2>1, <2>2, <3>1
    <3> QED BY <1>0, <2>1, <2>2, <3>2, QuotientIs
  <2>3. CASE m + 1 # b
    <3>1. PICK j \in Nat : j = m + 1 /\ j < b
      BY <1>4, <2>3
    <3>2. z = b * k + j
      BY <2>1, <3>1
    <3>3. b > 0 /\ z \in Nat
      BY <1>0, <2>1
    <3>4. z % b = j
      BY ONLY <3>1, <3>2, <3>3, b \in Nat, k \in Nat, j \in Nat, QuotientIs
    <3> QED BY ONLY <2>1, <2>3, <3>1, <3>4
  <2>5. m + 1 = b => z % b = 0
    BY <2>2
  <2>6. m + 1 # b => z % b = m + 1
    BY <2>3
  <2> QED BY <2>1, <2>5, <2>6
<1> QED BY <1>0, <1>1, <1>2, <1>4, <1>5

LEMMA ZNotIs ==
  ASSUME NEW s \in [Var -> Number], NEW a \in Var, NEW b \in Var, Held(s[b]),
         NEW v, v = Value(s[b]), NEW t, t = ZNot(s, a, b)
  PROVE  /\ s[b].sign = 0 => Is(t[a], 0)
         /\ s[b].sign # 0 => /\ FromOnes(Noughts(v)) \in Nat
                             /\ Is(t[a], -s[b].sign * FromOnes(Noughts(v)))
                                  <=> FromOnes(Noughts(v)) < Place(s[a].alloced)
<1>1. ASSUME s[b].sign = 0 PROVE Is(t[a], 0)
  <2>1. t = SetSign(s, a, 0)
    BY <1>1 DEF ZNot
  <2>2. t[a].sign = 0
    BY <2>1 DEF SetSign, Number
  <2> QED BY <2>2, ZeroIs
<1>2. ASSUME s[b].sign # 0
      PROVE  /\ FromOnes(Noughts(v)) \in Nat
             /\ Is(t[a], -s[b].sign * FromOnes(Noughts(v)))
                  <=> FromOnes(Noughts(v)) < Place(s[a].alloced)
  <2>1. PICK r : r = Trim(s[b])
    OBVIOUS
  <2>2. Trimmed(r, s[b]) /\ r.used \in Nat /\ r.used >= 1 /\ r.chars[r.used - 1] # 0
    BY <1>2, <2>1, TrimIs
  <2>3. Held(r) /\ r.sign = s[b].sign /\ r.sign # 0 /\ Value(r) = v /\ r.alloced = s[b].alloced
    BY <1>2, <2>2 DEF Trimmed
  <2>4. PICK n \in Nat, x \in {r.chars} : /\ n = r.used /\ n >= 1 /\ n <= MaxUsed /\ n < Room /\ x = r.chars
                            /\ Figures(x, n) /\ x[n - 1] # 0
    BY <2>2, <2>3, HeldIs
  <2>5. PICK d, m : d = x[n - 1] /\ m = Max(OnesIn(d, Bits))
    OBVIOUS
  <2>6. /\ d \in Digit /\ m \in 0 .. Bits - 1 /\ OnesIn(d, Bits) \in SUBSET (0 .. m)
        /\ \A z : z = (n - 1) * Bits + m + 1 => /\ z \in Nat
                                                /\ m + 1 = Bits => z % Bits = 0
                                                /\ m + 1 # Bits => z % Bits = m + 1
    BY ONLY <2>3, <2>4, <2>5, n \in Nat, TopBits
  <2>7. PICK z \in Nat : z = ZBits(s, b) /\ z = (n - 1) * Bits + m + 1
    <3>1. ZBits(s, b) = (n - 1) * Bits + m + 1
      BY <2>1, <2>3, <2>4, <2>5 DEF ZBits
    <3> QED BY <2>6, <3>1
  <2>8. Max(Ones(v)) = z - 1
    <3>1. v # 0
      BY <1>2, ValueIs
    <3>2. z = Max(Ones(v)) + 1
      BY <2>7, <3>1, ZBitsIs
    <3>3. Ones(v) # {} /\ Ones(v) \in SUBSET (0 .. Width - 1)
      BY <1>2, OnesBack
    <3>4. Max(Ones(v)) \in Ones(v)
      <4>1. Width \in Nat /\ Ones(v) \in SUBSET (0 .. Width)
        BY <3>3, WidthIs
      <4> QED BY <3>3, <4>1, MaxIs
    <3>5. PICK i \in Int : i = Max(Ones(v))
      BY <3>3, <3>4, WidthIs
    <3> QED BY <3>2, <3>5
  <2>9. PICK p : p = [s EXCEPT ![b] = r]
    OBVIOUS
  <2>10. p = Counted(s, b) /\ p[b] = r
    BY <1>2, <2>1, <2>9 DEF Counted
  <2>11. PICK q : q = p[a]
    OBVIOUS
  <2>12. q \in Number /\ q.alloced = s[a].alloced
    <3>1. r \in Number
      BY <2>3 DEF Held
    <3> QED BY <2>3, <2>9, <2>11, <3>1
  <2>13. PICK f : f = ZMemNot(q.chars, x, n)
    OBVIOUS
  <2>14. PICK y : y = IF z % Bits = 0 THEN f
                      ELSE [f EXCEPT ![n - 1] = Digitwise(AndDigit, f[n - 1], Power(2, z % Bits) - 1)]
    OBVIOUS
  <2>15. PICK sign \in {-1, 1} : sign = -s[b].sign
    <3>1. s[b].sign \in {-1, 0, 1}
      BY HeldIs
    <3> QED BY <1>2, <3>1
  <2>16. PICK e : e = [q EXCEPT !.chars = y, !.used = n, !.sign = sign]
    OBVIOUS
  <2>17. PICK size \in Nat : size = s[a].alloced
    BY DEF Number
  <2>18. Shaped(e) /\ e.used = n /\ e.alloced = size /\ e.chars = y /\ e.sign = sign
    BY <2>12, <2>16, <2>17 DEF Number, Shaped
  <2>19. t[a] = TrimAndSign(e, sign)
    <3>1. t = [p EXCEPT ![a] = TrimAndZero(e)]
      <4>1. ZNot(s, a, b) = [p EXCEPT ![a] = TrimAndZero([@ EXCEPT !.chars = y, !.used = n, !.sign = -s[b].sign])]
        BY <1>2, <2>4, <2>7, <2>10, <2>11, <2>13, <2>14 DEF ZNot
      <4> QED BY <2>11, <2>15, <2>16, <4>1
    <3>2. TrimAndZero(e) = TrimAndSign(e, sign)
      BY <2>18 DEF TrimAndZero
    <3> QED BY <2>9, <3>1, <3>2
  <2>20. PICK full : full = 0 .. Bits - 1
    OBVIOUS
  <2>21. ASSUME NEW k \in 0 .. n - 1
         PROVE  f[k] \in Digit /\ OnesIn(f[k], Bits) = full \ OnesIn(x[k], Bits) /\ k \in Index
    <3>1. k \in Index /\ k < Chunks(n)
      <4>1. n <= Chunks(n) /\ Chunks(n) \in Nat
        BY ChunksIs
      <4> QED BY <2>4, <4>1, MostIs DEF Index
    <3>2. f[k] = Digitwise(XorDigit, x[k], Base - 1)
      BY <2>13, <3>1 DEF ZMemNot
    <3>3. x[k] \in Digit
      BY <2>4 DEF Figures
    <3>4. Base - 1 \in Digit /\ OnesIn(Base - 1, Bits) = full
      <4>1. 0 \in 0 .. Bits - 1
        BY DigitsAssumption
      <4> QED BY <2>20, <4>1, Masks
    <3>5. OnesIn(f[k], Bits) = (OnesIn(x[k], Bits) \cup full) \ (OnesIn(x[k], Bits) \cap full)
      BY <3>2, <3>3, <3>4, OperationsWork DEF Works, Bitwise
    <3>6. OnesIn(x[k], Bits) \subseteq full
      BY <2>20 DEF OnesIn
    <3>7. f[k] \in Digit
      BY <3>2, <3>3, <3>4, OperationsWork DEF Works
    <3> QED BY <3>1, <3>5, <3>6, <3>7
  <2>22. PICK top \in Nat : top = n - 1 /\ n = top + 1 /\ top \in 0 .. n - 1
    BY <2>4
  <2>23. \A k \in 0 .. n - 1 : k # top => y[k] = f[k]
    BY <2>14, <2>22
  <2>24. y[top] \in Digit /\ OnesIn(y[top], Bits) = (0 .. m) \ OnesIn(d, Bits)
    <3>0. f[top] \in Digit /\ OnesIn(f[top], Bits) = full \ OnesIn(d, Bits) /\ top \in Index
      BY <2>5, <2>21, <2>22
    <3>1. CASE m + 1 = Bits
      <4>1. y = f
        BY <2>6, <2>7, <2>14, <3>1
      <4>2. full = 0 .. m
        BY <2>6, <2>20, <3>1, m = Bits - 1
      <4> QED BY <3>0, <4>1, <4>2
    <3>2. CASE m + 1 # Bits
      <4>1. PICK j \in Nat : j = m + 1 /\ z % Bits = j /\ j \in 0 .. Bits - 1 /\ j # 0 /\ 0 .. j - 1 = 0 .. m
        <5>1. Bits \in Nat
          BY DigitsAssumption
        <5> QED BY <2>6, <2>7, <3>2, <5>1
      <4>2. Power(2, j) - 1 \in Digit /\ OnesIn(Power(2, j) - 1, Bits) = 0 .. j - 1
        BY <4>1, Masks
      <4>3. y = [f EXCEPT ![top] = Digitwise(AndDigit, f[top], Power(2, j) - 1)]
        BY <2>14, <2>22, <4>1
      <4>4. y[top] = Digitwise(AndDigit, f[top], Power(2, j) - 1)
        <5>1. f = [i \in Index |-> IF i < Chunks(n) THEN Digitwise(XorDigit, x[i], Base - 1) ELSE q.chars[i]]
          BY <2>13 DEF ZMemNot
        <5> QED BY <3>0, <4>3, <5>1
      <4>5. y[top] \in Digit /\ OnesIn(y[top], Bits) = OnesIn(f[top], Bits) \cap (0 .. m)
        <5>1. PICK h : h = Power(2, j) - 1 /\ h \in Digit /\ OnesIn(h, Bits) = 0 .. m
          BY <4>1, <4>2
        <5>2. y[top] = Digitwise(AndDigit, f[top], h)
          BY <4>4, <5>1
        <5>3. PICK g : g = f[top] /\ g \in Digit /\ y[top] = Digitwise(AndDigit, g, h)
          BY <3>0, <5>2
        <5>4. y[top] \in Digit /\ OnesIn(y[top], Bits) = Bitwise("and", OnesIn(g, Bits), OnesIn(h, Bits))
          BY ONLY <5>3, <5>1, OperationsWork DEF Works
        <5>5. OnesIn(y[top], Bits) = OnesIn(g, Bits) \cap OnesIn(h, Bits)
          BY <5>4 DEF Bitwise
        <5> QED BY <5>1, <5>3, <5>4, <5>5
      <4>6. (full \ OnesIn(d, Bits)) \cap (0 .. m) = (0 .. m) \ OnesIn(d, Bits)
        <5>1. 0 .. m \subseteq full
          <6>1. m \in Nat /\ Bits \in Nat /\ m <= Bits - 1
            BY <2>6, DigitsAssumption
          <6> QED BY <2>20, <6>1
        <5> QED BY <5>1
      <4> QED BY <3>0, <4>5, <4>6
    <3> QED BY <3>1, <3>2
  <2>25. Figures(y, n)
    BY <2>21, <2>22, <2>23, <2>24 DEF Figures
  <2>26. PICK b2 \in Nat : b2 = Bits /\ b2 >= 1 /\ b2 * top \in Nat /\ z - 1 = b2 * top + m
    <3>1. PICK b2 \in Nat : b2 = Bits /\ b2 >= 1
      BY DigitsAssumption
    <3>2. z - 1 = b2 * top + m
      BY <2>6, <2>7, <2>22, <3>1
    <3> QED BY <3>1, <3>2
  <2>27. PICK T : T = Noughts(v) /\ T = (0 .. b2 * top + m) \ Ones(v)
    BY <2>8, <2>26 DEF Noughts
  <2>28. OnesOf(Ones(v), x, n, Bits)
    BY <2>3, <2>4, OnesAre
  <2>29. ASSUME NEW k \in 0 .. n - 1, NEW j \in 0 .. Bits - 1
         PROVE  Bits * k + j \in T <=> j \in OnesIn(y[k], Bits)
    <3>1. PICK i \in Nat : i = Bits * k + j
      BY <2>26
    <3>2. i \in Ones(v) <=> j \in OnesIn(x[k], Bits)
      BY <2>28, <3>1 DEF OnesOf
    <3>3. CASE k = top
      <4>1. i <= b2 * top + m <=> j <= m
        BY <2>6, <2>26, <3>1, <3>3
      <4>2. i \in T <=> j \in 0 .. m /\ j \notin OnesIn(d, Bits)
        BY <2>5, <2>6, <2>22, <2>26, <2>27, <3>2, <3>3, <4>1
      <4> QED BY <2>24, <3>1, <3>3, <4>2
    <3>4. CASE k # top
      <4>1. i <= b2 * top + m
        <5>1. k < top /\ k \in Nat /\ j \in Nat /\ j < b2 /\ m \in Nat
          BY <2>6, <2>22, <2>26, <3>4
        <5>2. b2 * k + j < b2 * top + m
          BY <5>1, BitOrder
        <5> QED BY <2>26, <3>1, <5>1, <5>2
      <4>2. i \in T <=> j \notin OnesIn(x[k], Bits)
        BY <2>6, <2>26, <2>27, <3>2, <4>1
      <4>3. y[k] = f[k]
        BY <2>23, <3>4
      <4> QED BY <2>20, <2>21, <3>1, <4>2, <4>3
    <3> QED BY <3>3, <3>4
  <2>30. ASSUME NEW i \in T PROVE i \in Nat /\ \E k \in 0 .. n - 1, j \in 0 .. Bits - 1 : i = Bits * k + j
    <3>1. i \in Nat /\ i <= b2 * top + m
      BY <2>6, <2>26, <2>27
    <3>2. i < b2 * n
      <4>1. b2 * n = b2 * top + b2
        BY <2>22
      <4> QED BY <2>6, <2>26, <3>1, <4>1
    <3>3. PICK k \in Nat, j \in Nat : k = i \div b2 /\ j = i % b2 /\ j < b2 /\ i = b2 * k + j
      BY <2>26, <3>1, Quotient
    <3>4. k < n
      BY <2>26, <3>1, <3>2, <3>3, QuotientMonotone
    <3>5. k \in 0 .. n - 1 /\ j \in 0 .. Bits - 1
      BY <2>26, <3>3, <3>4
    <3> QED BY <2>26, <3>1, <3>3, <3>5
  <2>31. OnesOf(T, y, n, Bits)
    BY <2>29, <2>30 DEF OnesOf
  <2>32. PICK w : w = Lowest(y, n) /\ w = FromOnes(T)
    <3>1. n <= Room
      BY <2>4, MostIs
    <3> QED BY <2>25, <2>31, <3>1, CharsMake
  <2>33. PICK g : g = TrimAndSign(e, sign)
    OBVIOUS
  <2>34. /\ n \in Nat /\ n <= Room /\ Figures(e.chars, n) /\ size \in Nat /\ sign \in {-1, 0, 1}
         /\ w = Lowest(e.chars, n) /\ sign # 0
    BY <2>4, <2>18, <2>25, <2>32, MostIs
  <2>35. /\ w \in Nat /\ Value(g) = sign * w
         /\ sign = 0 \/ w < Place(size) => Legal(g)
         /\ sign # 0 /\ w >= Place(size) => ~Legal(g)
    BY ONLY <2>18, <2>33, <2>34, TrimmedSigned
  <2>36. Is(g, sign * w) <=> w < Place(size)
    <3>1. Place(size) \in Nat
      BY Places
    <3>2. w < Place(size) \/ w >= Place(size)
      BY <2>35, <3>1
    <3>3. w < Place(size) => ~(w >= Place(size))
      BY <2>35, <3>1
    <3> QED BY <2>34, <2>35, <3>2, <3>3 DEF Is
  <2>37. t[a] = g /\ FromOnes(Noughts(v)) = w /\ -s[b].sign = sign /\ s[a].alloced = size
    BY <2>15, <2>17, <2>19, <2>27, <2>32, <2>33
  <2>38. FromOnes(Noughts(v)) \in Nat
    BY ONLY <2>35, <2>37
  <2>39. Is(t[a], -s[b].sign * FromOnes(Noughts(v))) <=> FromOnes(Noughts(v)) < Place(s[a].alloced)
    <3>1. s[b].sign \in {-1, 0, 1}
      BY HeldIs
    <3>2. sign * w = -s[b].sign * w
      BY ONLY <2>35, <2>37, <3>1
    <3> QED BY ONLY <2>36, <2>37, <3>2
  <2> QED BY ONLY <2>38, <2>39
<1> QED BY <1>1, <1>2

------------------------------------------------------------------------------
(* zbset.                                                                    *)

\* An integer that is extended with zeros to have a character at c.
LEMMA ReachIs ==
  ASSUME NEW u, Held(u), NEW c \in Nat, c + 1 <= MostChars, NEW e, e = Extended(u, c)
  PROVE  /\ e \in Number /\ e.sign = IF Value(u) < 0 THEN -1 ELSE 1
         /\ e.used \in Nat /\ c < e.used /\ e.used <= e.alloced /\ e.used <= Room
         /\ e.used <= MaxUsed \/ e.used = c + 1
         /\ Figures(e.chars, e.used) /\ Lowest(e.chars, e.used) = AbsOf(Value(u))
         /\ u.sign # 0 /\ c < u.used => e = u
<1>0. /\ u \in Number /\ u.sign \in {-1, 0, 1} /\ Room \in Nat /\ MostChars \in Nat /\ MostChars < Room
      /\ MaxUsed \in Nat
  BY HeldIs, MostIs DEF Held
<1>1. PICK z : z = IF u.sign = 0 THEN [u EXCEPT !.used = 0, !.sign = 1] ELSE u
  OBVIOUS
<1>2. z \in Number
  BY <1>0, <1>1 DEF Number
<1>3. z.sign = IF Value(u) < 0 THEN -1 ELSE 1
  <2>1. u.sign < 0 <=> Value(u) < 0
    BY ValueIs
  <2> QED BY <1>0, <1>1, <2>1 DEF Number
<1>4. PICK used \in Nat : /\ used = z.used /\ used <= MaxUsed /\ used <= z.alloced
                          /\ Figures(z.chars, used) /\ Lowest(z.chars, used) = AbsOf(Value(u))
  <2>1. CASE u.sign = 0
    <3>1. z.used = 0 /\ z.alloced \in Nat
      BY <1>0, <1>1, <2>1 DEF Number
    <3>2. Lowest(z.chars, 0) = 0 /\ AbsOf(Value(u)) = 0 /\ Figures(z.chars, 0)
      BY <2>1, AbsIs, LowestPlaces DEF Figures
    <3> QED BY <1>0, <3>1, <3>2
  <2>2. CASE u.sign # 0
    <3>1. z = u /\ u.used \in Nat /\ u.used <= MaxUsed /\ u.used <= u.alloced
      BY <1>1, <2>2 DEF Held, Number
    <3>2. Figures(u.chars, u.used) /\ Lowest(u.chars, u.used) = AbsOf(Value(u))
      BY <2>2, HeldIs, AbsIs
    <3> QED BY <3>1, <3>2
  <2> QED BY <2>1, <2>2
<1>5. CASE c < used
  <2>1. e = z
    BY <1>1, <1>4, <1>5 DEF Extended
  <2>2. used <= Room
    BY <1>4, MostIs
  <2>3. u.sign # 0 => e = u
    BY <1>1, <2>1
  <2> QED BY <1>2, <1>3, <1>4, <1>5, <2>1, <2>2, <2>3
<1>6. CASE ~(c < used)
  <2>1. PICK fit : fit = Ensure(z, c + 1)
    OBVIOUS
  <2>2. /\ fit \in Number /\ fit.sign = z.sign /\ fit.used = used
        /\ fit.alloced >= c + 1
        /\ \A i \in Index : i < z.alloced => fit.chars[i] = z.chars[i]
    <3>1. c + 1 \in 0 .. MostChars
      BY <1>0
    <3> QED BY <1>2, <1>4, <2>1, <3>1, EnsureIs
  <2>3. PICK f : f = MemZero(fit.chars, used, c + 1 - used)
    OBVIOUS
  <2>4. e = [fit EXCEPT !.chars = f, !.used = c + 1]
    BY <1>1, <1>4, <1>6, <2>1, <2>2, <2>3 DEF Extended
  <2>5. PICK k \in Nat : k = c + 1 - used /\ k <= Chunks(k) /\ Chunks(k) \in Nat
    <3>1. c + 1 - used \in Nat
      BY <1>4, <1>6
    <3> QED BY <3>1, ChunksIs
  <2>6. \A i \in Index : f[i] = IF i \in used .. used + Chunks(k) - 1 THEN 0 ELSE fit.chars[i]
    BY <2>3, <2>5 DEF MemZero
  <2>7. f \in [Index -> Character]
    <3>1. fit.chars \in [Index -> Character] /\ 0 \in Character
      BY <2>2, Bases DEF Number, Character
    <3>2. f = [i \in Index |-> IF i \in used .. used + Chunks(k) - 1 THEN 0 ELSE fit.chars[i]]
      BY <2>3, <2>5 DEF MemZero
    <3> QED BY <3>1, <3>2
  <2>8. \A i \in 0 .. used - 1 : f[i] = z.chars[i]
    <3>1. ASSUME NEW i \in 0 .. used - 1 PROVE f[i] = z.chars[i]
      <4>1. i \in Index /\ i < z.alloced
        <5>1. z.alloced \in Nat
          BY <1>2 DEF Number
        <5> QED BY <1>0, <1>4, <1>6, <5>1 DEF Index
      <4> QED BY <1>4, <2>2, <2>6, <4>1
    <3> QED BY <3>1
  <2>9. \A i \in used .. c + 1 - 1 : f[i] = 0
    <3>1. ASSUME NEW i \in used .. c + 1 - 1 PROVE f[i] = 0
      <4>1. i \in Index /\ i \in used .. used + Chunks(k) - 1
        BY <1>0, <1>4, <2>5 DEF Index
      <4> QED BY <2>6, <4>1
    <3> QED BY <3>1
  <2>10. Figures(f, c + 1) /\ Lowest(f, c + 1) = Lowest(z.chars, used)
    <3>1. PICK n \in Nat : n = c + 1 /\ used <= n /\ n <= Room
      BY <1>0, <1>4, <1>6
    <3>2. \A i \in used .. n - 1 : f[i] = 0
      BY <2>9, <3>1
    <3>3. Figures(z.chars, used)
      BY <1>4
    <3>4. Figures(f, n) /\ Lowest(f, n) = Lowest(z.chars, used)
      BY ONLY <3>1, <3>2, <3>3, <2>8, used \in Nat, n \in Nat, ExtendedIs
    <3> QED BY <3>1, <3>4
  <2>11. e \in Number /\ e.sign = z.sign /\ e.used = c + 1 /\ e.alloced = fit.alloced /\ e.chars = f
    <3>1. c + 1 \in Nat
      OBVIOUS
    <3>2. /\ fit = [sign |-> fit.sign, used |-> fit.used, alloced |-> fit.alloced, chars |-> fit.chars]
          /\ fit.sign \in {-1, 0, 1} /\ fit.alloced \in Nat
      BY <2>2 DEF Number
    <3>3. e = [sign |-> fit.sign, used |-> c + 1, alloced |-> fit.alloced, chars |-> f]
      BY ONLY <2>4, <3>2
    <3> QED BY <2>2, <2>7, <3>1, <3>2, <3>3 DEF Number
  <2>12. c < u.used /\ u.sign # 0 => FALSE
    BY <1>1, <1>4, <1>6
  <2>13. e.alloced \in Nat
    BY <2>11 DEF Number
  <2> QED BY <1>0, <1>3, <1>4, <2>2, <2>10, <2>11, <2>12, <2>13
<1> QED BY <1>5, <1>6

\* A change of one bit of a character is a change of one bit of the number.
LEMMA BitChanged ==
  ASSUME NEW b \in Nat, NEW n \in Nat, NEW x, NEW y, NEW S, OnesOf(S, x, n, b),
         NEW c \in 0 .. n - 1, NEW p \in 0 .. b - 1, NEW bit, bit = b * c + p,
         \A k \in 0 .. n - 1 : k # c => y[k] = x[k],
         \A j \in 0 .. b - 1 : j # p => (j \in OnesIn(y[c], b) <=> j \in OnesIn(x[c], b)),
         NEW T, bit \in T <=> p \in OnesIn(y[c], b), \A i : i # bit => (i \in T <=> i \in S)
  PROVE  OnesOf(T, y, n, b)
<1>1. bit \in Nat
  BY BitSpan
<1>2. ASSUME NEW k \in 0 .. n - 1, NEW j \in 0 .. b - 1
      PROVE  b * k + j \in T <=> j \in OnesIn(y[k], b)
  <2>1. PICK i : i = b * k + j
    OBVIOUS
  <2>2. i \in S <=> j \in OnesIn(x[k], b)
    BY <2>1 DEF OnesOf
  <2>3. CASE k = c /\ j = p
    BY <2>1, <2>3
  <2>4. CASE ~(k = c /\ j = p)
    <3>1. i # bit
      <4>1. k \in Nat /\ c \in Nat /\ j \in Nat /\ p \in Nat /\ j < b /\ p < b
        OBVIOUS
      <4>2. CASE k = c
        <5>1. j # p
          BY <2>4, <4>2
        <5> QED BY <2>1, <4>1, <4>2, <5>1
      <4>3. CASE k < c
        <5>1. b * k + j < b * c + p
          BY ONLY <4>1, <4>3, b \in Nat, BitOrder
        <5> QED BY <1>1, <2>1, <5>1
      <4>4. CASE c < k
        <5>1. b * c + p < b * k + j
          BY ONLY <4>1, <4>4, b \in Nat, BitOrder
        <5> QED BY <1>1, <2>1, <5>1
      <4> QED BY <4>1, <4>2, <4>3, <4>4
    <3>2. i \in T <=> i \in S
      BY <3>1
    <3>3. j \in OnesIn(y[k], b) <=> j \in OnesIn(x[k], b)
      BY <2>4
    <3> QED BY <2>1, <2>2, <3>2, <3>3
  <2> QED BY <2>3, <2>4
<1>3. ASSUME NEW i \in T
      PROVE  i \in Nat /\ \E k \in 0 .. n - 1, j \in 0 .. b - 1 : i = b * k + j
  <2>1. CASE i = bit
    BY <1>1, <2>1
  <2>2. CASE i # bit
    <3>1. i \in S
      BY <2>2
    <3> QED BY <3>1 DEF OnesOf
  <2> QED BY <2>1, <2>2
<1> QED BY <1>2, <1>3 DEF OnesOf

\* What OnBit makes of the bits of an integer.
Turned(f, S, bit) ==
  CASE f = "or"  -> S \cup {bit}
    [] f = "xor" -> (S \ {bit}) \cup ({bit} \ S)
    [] f = "and" -> S \ {bit}

Turns(g, f, mask, p) ==
  /\ Works(g, f) /\ mask \in Digit /\ f \in {"or", "xor", "and"}
  /\ OnesIn(mask, Bits) = IF f = "and" THEN (0 .. Bits - 1) \ {p} ELSE {p}

LEMMA OnBitIs ==
  ASSUME NEW r \in Number, NEW n \in Nat, n = r.used, n <= Room, Figures(r.chars, n),
         NEW S, OnesOf(S, r.chars, n, Bits),
         NEW bit \in Nat, bit \div Bits < n, NEW p, p = bit % Bits,
         NEW g, NEW f, NEW mask, Turns(g, f, mask, p), NEW q, q = OnBit(g, r, bit, mask)
  PROVE  /\ Shaped(q) /\ q.sign = r.sign /\ q.used = n /\ q.alloced = r.alloced
         /\ Figures(q.chars, n) /\ OnesOf(Turned(f, S, bit), q.chars, n, Bits)
<1>1. PICK b \in Nat : b = Bits /\ b > 0
  BY DigitsAssumption
<1>2. PICK c \in Nat : c = bit \div Bits /\ p \in Nat /\ p < b /\ bit = b * c + p /\ c \in 0 .. n - 1
  BY <1>1, Quotient
<1>3. PICK x : x = r.chars /\ x \in [Index -> Character]
  BY DEF Number
<1>4. c \in Index
  BY <1>2, MostIs DEF Index
<1>5. PICK d : d = x[c] /\ d \in Digit
  BY <1>2, <1>3 DEF Figures
<1>6. PICK e : e = Digitwise(g, d, mask)
  OBVIOUS
<1>7. e \in Digit /\ OnesIn(e, Bits) = Bitwise(f, OnesIn(d, Bits), OnesIn(mask, Bits))
  BY <1>5, <1>6 DEF Turns, Works
<1>8. PICK y : y = [x EXCEPT ![c] = e]
  OBVIOUS
<1>9. y[c] = e /\ \A k \in 0 .. n - 1 : k # c => y[k] = x[k]
  BY <1>3, <1>4, <1>8
<1>10. q = [r EXCEPT !.chars = y]
  <2>1. q = [r EXCEPT !.chars[c] = Digitwise(g, r.chars[c], mask)]
    BY <1>2 DEF OnBit
  <2>2. Digitwise(g, r.chars[c], mask) = e
    BY <1>3, <1>5, <1>6
  <2>3. q = [r EXCEPT !.chars = [r.chars EXCEPT ![c] = e]]
    BY <2>1, <2>2
  <2> QED BY <1>3, <1>8, <2>3
<1>11. Shaped(q) /\ q.sign = r.sign /\ q.used = n /\ q.alloced = r.alloced /\ q.chars = y
  BY <1>10 DEF Number, Shaped
<1>12. Figures(y, n)
  BY <1>3, <1>7, <1>9 DEF Figures
<1>13. PICK T : T = Turned(f, S, bit)
  OBVIOUS
<1>14. p \in 0 .. b - 1
  BY <1>1, <1>2
<1>15. p \in OnesIn(d, b) <=> bit \in S
  BY <1>1, <1>2, <1>3, <1>5, <1>14 DEF OnesOf
<1>16. PICK M : M = OnesIn(mask, Bits) /\ M = IF f = "and" THEN (0 .. b - 1) \ {p} ELSE {p}
  BY <1>1 DEF Turns
<1>17. /\ bit \in T <=> p \in OnesIn(e, b)
       /\ \A j \in 0 .. b - 1 : j # p => (j \in OnesIn(e, b) <=> j \in OnesIn(d, b))
       /\ \A i : i # bit => (i \in T <=> i \in S)
  <2>1. CASE f = "or"
    BY <1>1, <1>7, <1>13, <1>14, <1>15, <1>16, <2>1 DEF Bitwise, Turned
  <2>2. CASE f = "xor"
    BY <1>1, <1>7, <1>13, <1>14, <1>15, <1>16, <2>2 DEF Bitwise, Turned
  <2>3. CASE f = "and"
    BY <1>1, <1>7, <1>13, <1>14, <1>15, <1>16, <2>3 DEF Bitwise, Turned
  <2> QED BY <2>1, <2>2, <2>3 DEF Turns
<1>18. OnesOf(S, x, n, b) /\ c \in 0 .. n - 1
  BY <1>1, <1>2, <1>3
<1>19. OnesOf(T, y, n, b)
  <2>1. /\ \A k \in 0 .. n - 1 : k # c => y[k] = x[k]
        /\ \A j \in 0 .. b - 1 : j # p => (j \in OnesIn(y[c], b) <=> j \in OnesIn(x[c], b))
        /\ bit \in T <=> p \in OnesIn(y[c], b)
        /\ \A i : i # bit => (i \in T <=> i \in S)
    BY <1>5, <1>9, <1>17
  <2>2. bit = b * c + p /\ p \in 0 .. b - 1
    BY <1>2, <1>14
  <2> QED BY ONLY <1>18, <2>1, <2>2, b \in Nat, n \in Nat, BitChanged
<1> QED BY <1>1, <1>11, <1>12, <1>13, <1>19

\* The bits zbset leaves: of v, with the n-th set, cleared or flipped.
Touched(action, v, n) ==
  CASE action = SetBit   -> (Ones(v) \ {n}) \cup {n}
    [] action = ClearBit -> Ones(v) \ {n}
    [] action = FlipBit  -> (Ones(v) \ {n}) \cup ({n} \ Ones(v))

\* Where the client's shifts and bits end.
LEMMA ShiftIs ==
  ASSUME NEW n \in Shift, NEW c, c = n \div Bits
  PROVE  /\ n \in Nat /\ n <= MaxBits /\ c \in Nat /\ Bits * c <= n
         /\ c + MaxUsed + 1 <= MostChars /\ c + 1 <= MostChars
         /\ n % Bits \in 0 .. Bits - 1 /\ n = Bits * c + (n % Bits)
<1>1. PICK b \in Nat : b = Bits /\ b > 0
  BY DigitsAssumption
<1>2. n \in Nat /\ n <= MaxBits /\ MaxBits \in Nat
  BY CallsAssumption DEF Shift
<1>3. PICK d \in Nat, r \in Nat : d = MaxBits \div b /\ r = MaxBits % b /\ r < b /\ MaxBits = b * d + r
  BY <1>1, <1>2, Quotient
<1>4. c \in Nat /\ n % b \in Nat /\ n % b < b /\ n = b * c + (n % b)
  BY <1>1, <1>2, Quotient
<1>5. b * c <= n
  <2>1. b * c \in Nat
    BY <1>4
  <2> QED BY <1>2, <1>4, <2>1
<1>6. c <= d
  <2>1. SUFFICES ASSUME d < c PROVE FALSE
    BY <1>3, <1>4
  <2>2. b * d + r < b * c + (n % b)
    BY ONLY <1>3, <1>4, <2>1, b \in Nat, d \in Nat, r \in Nat, BitOrder
  <2> QED BY <1>2, <1>3, <1>4, <2>2
<1>7. MostChars = MaxUsed + d + 1 /\ MaxUsed \in Nat
  BY <1>1, <1>3, MostIs DEF MostChars
<1> QED BY <1>1, <1>2, <1>4, <1>5, <1>6, <1>7

\* The bits of an integer zbset is about to change.
LEMMA ReachOnes ==
  ASSUME NEW u, Held(u), NEW n \in Shift, NEW c, c = n \div Bits, NEW e, e = Extended(u, c)
  PROVE  OnesOf(Ones(Value(u)), e.chars, e.used, Bits)
<1>1. PICK b \in Nat : b = Bits /\ b > 0
  BY DigitsAssumption
<1>2. /\ c \in Nat /\ b * c <= MaxBits /\ c + 1 <= MostChars /\ MaxBits \in Nat
  <2>1. n \in Nat /\ n <= MaxBits /\ c \in Nat /\ b * c <= n /\ c + 1 <= MostChars
    BY <1>1, ShiftIs
  <2> QED BY <1>1, <2>1, CallsAssumption
<1>3. PICK m \in Nat, f \in {e.chars} : /\ m = e.used /\ f = e.chars /\ m <= Room /\ (m <= MaxUsed \/ m = c + 1)
                          /\ Figures(f, m) /\ Lowest(f, m) = AbsOf(Value(u))
  BY <1>2, ReachIs
<1>4. b * m <= Width
  <2>1. CASE m <= MaxUsed
    BY <1>1, <2>1, WidthIs
  <2>2. CASE m = c + 1
    <3>1. PICK k \in Nat : k = MaxUsed
      BY MostIs
    <3>2. b * m = b * c + b /\ b * (k + 1) = b * k + b /\ b * k \in Nat /\ b * c \in Nat
      BY <1>2, <2>2
    <3>3. Width = b * (k + 1) + MaxBits
      BY <1>1, <3>1, WidthIs
    <3> QED BY <1>2, <3>2, <3>3
  <2> QED BY <1>3, <2>1, <2>2
<1>5. PICK w \in Nat, v \in {AbsOf(Value(u))} : w = Width /\ v = AbsOf(Value(u)) /\ Ones(Value(u)) = OnesIn(v, w)
  BY WidthIs DEF Ones
<1>6. Bits * m <= w /\ v = Lowest(f, m) /\ Figures(f, m) /\ m <= Room
  BY <1>1, <1>3, <1>4, <1>5
<1>7. OnesOf(OnesIn(v, w), f, m, Bits)
  BY ONLY <1>6, m \in Nat, w \in Nat, OnesOfChars
<1> QED BY <1>3, <1>5, <1>7

\* OnBit on an integer that reaches the bit.
LEMMA TurnIs ==
  ASSUME NEW u, Held(u), NEW n \in Shift, NEW e, e = Extended(u, n \div Bits),
         NEW g, NEW f, NEW mask, Turns(g, f, mask, n % Bits), NEW q, q = OnBit(g, e, n, mask),
         NEW T, T = Turned(f, Ones(Value(u)), n)
  PROVE  /\ Shaped(q) /\ q.sign = (IF Value(u) < 0 THEN -1 ELSE 1)
         /\ q.used \in Nat /\ q.used <= Room /\ q.alloced \in Nat /\ q.used <= q.alloced
         /\ Figures(q.chars, q.used) /\ FromOnes(T) = Lowest(q.chars, q.used)
<1>1. n \in Nat /\ n \div Bits \in Nat /\ n \div Bits + 1 <= MostChars
  BY ShiftIs
<1>2. PICK m \in Nat : /\ m = e.used /\ n \div Bits < m /\ m <= e.alloced /\ m <= Room /\ Figures(e.chars, m)
                       /\ e \in Number /\ e.sign = (IF Value(u) < 0 THEN -1 ELSE 1)
  BY <1>1, ReachIs
<1>3. PICK S : S = Ones(Value(u)) /\ OnesOf(S, e.chars, m, Bits)
  BY <1>2, ReachOnes
<1>4. PICK p : p = n % Bits /\ Turns(g, f, mask, p)
  OBVIOUS
<1>5. /\ Shaped(q) /\ q.sign = e.sign /\ q.used = m /\ q.alloced = e.alloced
      /\ Figures(q.chars, m) /\ OnesOf(Turned(f, S, n), q.chars, m, Bits)
  BY ONLY <1>1, <1>2, <1>3, <1>4, q = OnBit(g, e, n, mask), m \in Nat, OnBitIs
<1>6. FromOnes(T) = Lowest(q.chars, m)
  <2>1. OnesOf(T, q.chars, m, Bits)
    BY <1>3, <1>5
  <2> QED BY ONLY <2>1, <1>2, <1>5, m \in Nat, CharsMake
<1>7. e.alloced \in Nat
  BY <1>2 DEF Number
<1> QED BY <1>2, <1>5, <1>6, <1>7

LEMMA TurnsAre ==
  ASSUME NEW n \in Shift
  PROVE  /\ Turns(OrDigit, "or", Bit(n), n % Bits) /\ Turns(XorDigit, "xor", Bit(n), n % Bits)
         /\ Turns(AndDigit, "and", Others(n), n % Bits)
<1>1. PICK p \in 0 .. Bits - 1 : p = n % Bits
  BY ShiftIs
<1>2. /\ Power(2, p) \in Digit /\ OnesIn(Power(2, p), Bits) = {p}
      /\ Base - 1 - Power(2, p) \in Digit
      /\ OnesIn(Base - 1 - Power(2, p), Bits) = (0 .. Bits - 1) \ {p}
  BY Masks
<1>3. Bit(n) = Power(2, p) /\ Others(n) = Base - 1 - Power(2, p)
  BY <1>1 DEF Bit, Others
<1> QED BY <1>1, <1>2, <1>3, OperationsWork DEF Turns

\* What the three routines, and the work in line, make of an integer.
BitResult(u, n, action) ==
  CASE action = SetBit   -> ZBSetLLSet(u, n)
    [] action = FlipBit  -> ZBSetLLFlip(u, n)
    [] action = ClearBit -> ZBSetLLClear(u, n)

LEMMA BitSetIs ==
  ASSUME NEW u, Held(u), NEW n \in Shift, NEW sign, sign = IF Value(u) < 0 THEN -1 ELSE 1
  PROVE  Is(ZBSetLLSet(u, n), sign * FromOnes(Touched(SetBit, Value(u), n)))
<1>1. PICK q : q = ZBSetLLSet(u, n)
  OBVIOUS
<1>2. PICK e : e = Extended(u, n \div Bits)
  OBVIOUS
<1>3. q = OnBit(OrDigit, e, n, Bit(n))
  BY <1>1, <1>2 DEF ZBSetLLSet
<1>4. PICK T : T = Turned("or", Ones(Value(u)), n)
  OBVIOUS
<1>5. Turns(OrDigit, "or", Bit(n), n % Bits)
  BY TurnsAre
<1>6. /\ Shaped(q) /\ q.sign = sign
      /\ q.used \in Nat /\ q.used <= Room /\ q.alloced \in Nat /\ q.used <= q.alloced
      /\ Figures(q.chars, q.used) /\ FromOnes(T) = Lowest(q.chars, q.used)
  BY <1>2, <1>3, <1>4, <1>5, TurnIs
<1>7. T = Ones(Value(u)) \cup {n}
  BY <1>4 DEF Turned
<1>8. T = Touched(SetBit, Value(u), n)
  BY <1>7 DEF Touched, SetBit, ClearBit, FlipBit
<1>9. FromOnes(T) > 0
  <2>1. Width \in Nat /\ n \in Nat /\ n <= MaxBits /\ MaxBits \in Nat
    BY WidthIs, ShiftIs, CallsAssumption
  <2>2. PICK w \in Nat : w = Width + n + 1
    BY <2>1
  <2>3. T \in SUBSET (0 .. w - 1)
    <3>1. Ones(Value(u)) \in SUBSET (0 .. Width - 1)
      BY OnesBack
    <3> QED BY <1>7, <2>1, <2>2, <3>1
  <2> QED BY <1>7, <2>3, SomeOne
<1>10. PICK v : v = FromOnes(T)
  OBVIOUS
<1>11. PICK m \in Nat : m = q.used /\ m <= q.alloced /\ m <= Room /\ Figures(q.chars, m) /\ v = Lowest(q.chars, m)
  BY <1>6, <1>10
<1>12. sign \in {-1, 1} /\ q.sign = sign /\ q.alloced \in Nat /\ v > 0
  BY <1>6, <1>9, <1>10
<1>13. Is(q, sign * v)
  BY ONLY <1>11, <1>12, m \in Nat, MadeIs
<1> QED BY <1>1, <1>8, <1>10, <1>13

\* Where OnBit may leave no bit at all.
LEMMA BitTrimmedIs ==
  ASSUME NEW u, Held(u), NEW n \in Shift, NEW e, e = Extended(u, n \div Bits),
         NEW g, NEW f, NEW mask, Turns(g, f, mask, n % Bits),
         NEW sign, sign = IF Value(u) < 0 THEN -1 ELSE 1
  PROVE  Is(TrimAndZero(OnBit(g, e, n, mask)), sign * FromOnes(Turned(f, Ones(Value(u)), n)))
<1>1. PICK q, T : q = OnBit(g, e, n, mask) /\ T = Turned(f, Ones(Value(u)), n)
  OBVIOUS
<1>2. /\ Shaped(q) /\ q.sign = sign
      /\ q.used \in Nat /\ q.used <= Room /\ q.alloced \in Nat /\ q.used <= q.alloced
      /\ Figures(q.chars, q.used) /\ FromOnes(T) = Lowest(q.chars, q.used)
  BY <1>1, TurnIs
<1>3. PICK m \in Nat : /\ m = q.used /\ m <= q.alloced /\ m <= Room
                          /\ Figures(q.chars, m) /\ FromOnes(T) = Lowest(q.chars, m)
  BY <1>2
<1>4. PICK r : r = TrimAndSign(q, sign) /\ r = TrimAndZero(q)
  BY <1>2 DEF TrimAndZero
<1>5. sign \in {-1, 0, 1} /\ Shaped(q) /\ q.alloced \in Nat
  BY <1>2
<1>6. PICK v : v = FromOnes(T) /\ v = Lowest(q.chars, m)
  BY <1>3
<1>7. Is(r, sign * v)
  BY ONLY <1>3, <1>4, <1>5, <1>6, m \in Nat, TrimmedIs
<1> QED BY <1>1, <1>4, <1>6, <1>7

\* A bit that is no one already is nothing to clear.
LEMMA NothingToClear ==
  ASSUME NEW u, Held(u), NEW n \in Shift, u.sign = 0 \/ n \div Bits >= u.used
  PROVE  n \notin Ones(Value(u))
<1>1. CASE u.sign = 0
  BY <1>1, ValueIs
<1>2. CASE u.sign # 0
  <2>1. OnesOf(Ones(Value(u)), u.chars, u.used, Bits) /\ u.used \in Nat
    BY <1>2, OnesAre, HeldIs
  <2>2. PICK k \in Nat : k = n \div Bits /\ k >= u.used
    BY <1>2, ShiftIs
  <2>3. PICK j \in 0 .. Bits - 1 : j = n % Bits /\ n = Bits * k + j
    BY <2>2, ShiftIs
  <2>4. Bits * k + j \notin Ones(Value(u))
    BY <2>1, <2>2, OneAt
  <2> QED BY <2>3, <2>4
<1> QED BY <1>1, <1>2

\* An integer whose bit is no one is what remains when it is cleared.
LEMMA ClearedIs ==
  ASSUME NEW u, Held(u), NEW n \in Shift, u.sign = 0 \/ n \div Bits >= u.used,
         NEW sign, sign = IF Value(u) < 0 THEN -1 ELSE 1
  PROVE  Is(u, sign * FromOnes(Touched(ClearBit, Value(u), n)))
<1>1. Touched(ClearBit, Value(u), n) = Ones(Value(u))
  <2>1. n \notin Ones(Value(u))
    BY NothingToClear
  <2> QED BY <2>1 DEF Touched, SetBit, ClearBit, FlipBit
<1>2. FromOnes(Ones(Value(u))) = AbsOf(Value(u))
  BY OnesBack
<1>3. PICK v \in Int : v = Value(u) /\ Legal(u)
  BY HeldIs
<1>4. sign * AbsOf(v) = v
  BY <1>3 DEF AbsOf
<1> QED BY <1>1, <1>2, <1>3, <1>4 DEF Is

LEMMA BitResultIs ==
  ASSUME NEW u, Held(u), NEW n \in Shift, NEW action \in {SetBit, ClearBit, FlipBit},
         NEW sign, sign = IF Value(u) < 0 THEN -1 ELSE 1
  PROVE  Is(BitResult(u, n, action), sign * FromOnes(Touched(action, Value(u), n)))
<1>1. CASE action = SetBit
  <2>1. BitResult(u, n, action) = ZBSetLLSet(u, n)
    BY <1>1 DEF BitResult, SetBit, FlipBit, ClearBit
  <2> QED BY <1>1, <2>1, BitSetIs
<1>2. CASE action = FlipBit
  <2>1. BitResult(u, n, action) = TrimAndZero(OnBit(XorDigit, Extended(u, n \div Bits), n, Bit(n)))
    BY <1>2 DEF BitResult, ZBSetLLFlip, SetBit, FlipBit, ClearBit
  <2>2. Is(BitResult(u, n, action), sign * FromOnes(Turned("xor", Ones(Value(u)), n)))
    BY <2>1, TurnsAre, BitTrimmedIs
  <2>3. Touched(action, Value(u), n) = Turned("xor", Ones(Value(u)), n)
    BY <1>2 DEF Touched, Turned, SetBit, FlipBit, ClearBit
  <2> QED BY <2>2, <2>3
<1>3. CASE action = ClearBit
  <2>0. BitResult(u, n, action) = ZBSetLLClear(u, n)
    BY <1>3 DEF BitResult, SetBit, FlipBit, ClearBit
  <2>1. CASE n \div Bits >= u.used
    <3>1. BitResult(u, n, action) = u
      BY <2>0, <2>1 DEF ZBSetLLClear
    <3> QED BY <1>3, <2>1, <3>1, ClearedIs
  <2>2. CASE ~(n \div Bits >= u.used)
    <3>1. BitResult(u, n, action) = TrimAndZero(OnBit(AndDigit, u, n, Others(n)))
      BY <2>0, <2>2 DEF ZBSetLLClear
    <3>2. CASE u.sign = 0
      <4>1. PICK q : q = OnBit(AndDigit, u, n, Others(n))
        OBVIOUS
      <4>2. Shaped(q) /\ q.sign = 0
        BY <3>2, <4>1 DEF OnBit, Held, Number, Shaped
      <4>3. PICK r : r = TrimAndZero(q) /\ r.sign = 0
        BY <4>2 DEF TrimAndZero, TrimAndSign, Trim, TrimTo, Shaped
      <4>4. Is(r, 0)
        BY <4>3, ZeroIs
      <4>5. Value(u) = 0 /\ Ones(Value(u)) = {}
        BY <3>2, ValueIs
      <4>6. Touched(action, Value(u), n) = {}
        BY <1>3, <4>5 DEF Touched, SetBit, FlipBit, ClearBit
      <4>7. sign * FromOnes({}) = 0
        BY <4>5, FromNone
      <4> QED BY <3>1, <4>1, <4>3, <4>4, <4>6, <4>7
    <3>3. CASE u.sign # 0
      <4>1. n \div Bits \in Nat /\ n \div Bits + 1 <= MostChars /\ u.used \in Nat
        BY ShiftIs, HeldIs
      <4>2. n \div Bits < u.used
        BY <2>2, <4>1
      <4>3. Extended(u, n \div Bits) = u
        BY <3>3, <4>1, <4>2, ReachIs
      <4>4. Is(BitResult(u, n, action), sign * FromOnes(Turned("and", Ones(Value(u)), n)))
        BY <3>1, <4>3, TurnsAre, BitTrimmedIs
      <4>5. Touched(action, Value(u), n) = Turned("and", Ones(Value(u)), n)
        BY <1>3 DEF Touched, Turned, SetBit, FlipBit, ClearBit
      <4> QED BY <4>4, <4>5
    <3> QED BY <3>2, <3>3
  <2> QED BY <2>1, <2>2
<1> QED BY <1>1, <1>2, <1>3

LEMMA ZBSetIs ==
  ASSUME NEW s \in [Var -> Number], NEW a \in Var, NEW b \in Var, Held(s[b]), NEW n \in Shift,
         NEW action \in {SetBit, ClearBit, FlipBit}, NEW constant \in BOOLEAN,
         NEW v, v = Value(s[b]), NEW t, t = ZBSet(s, a, b, n, action, constant)
  PROVE  Is(t[a], (IF v < 0 THEN -1 ELSE 1) * FromOnes(Touched(action, v, n)))
<1>1. PICK q : q = SetUnlessSame(s, a, b)
  OBVIOUS
<1>2. Only(q, s, a) /\ Copy(q[a], s[b])
  BY <1>1, UnlessSameIs
<1>3. PICK u : u = q[a] /\ Held(u) /\ Value(u) = v
  BY <1>2, CopyHeld
<1>4. PICK sign : sign = IF v < 0 THEN -1 ELSE 1
  OBVIOUS
<1>5. Is(BitResult(u, n, action), sign * FromOnes(Touched(action, v, n)))
  BY <1>3, <1>4, BitResultIs
<1>6. PICK outside \in BOOLEAN : outside = (u.sign = 0 \/ n \div Bits >= u.used)
  OBVIOUS
<1>7. q \in [Var -> Number]
  BY <1>2 DEF Only
<1>8. CASE constant /\ ~outside
  <2>1. t[a] = BSetInLine(u, n, action)
    BY <1>1, <1>3, <1>6, <1>7, <1>8 DEF ZBSet
  <2>2. n \div Bits \in Nat /\ n \div Bits + 1 <= MostChars /\ u.used \in Nat
    BY <1>3, ShiftIs, HeldIs
  <2>3. u.sign # 0 /\ n \div Bits < u.used
    <3>1. ~(u.sign = 0 \/ n \div Bits >= u.used)
      BY <1>6, <1>8
    <3> QED BY <2>2, <3>1
  <2>4. Extended(u, n \div Bits) = u
    BY <1>3, <2>2, <2>3, ReachIs
  <2>5. BitResult(u, n, action) = BSetInLine(u, n, action)
    BY <1>6, <1>8, <2>4 DEF BitResult, BSetInLine, ZBSetLLSet, ZBSetLLFlip, ZBSetLLClear
  <2> QED BY <1>4, <1>5, <2>1, <2>5
<1>9. CASE constant /\ outside /\ action = ClearBit
  <2>1. t[a] = u
    BY <1>1, <1>3, <1>6, <1>9 DEF ZBSet
  <2>2. Is(u, sign * FromOnes(Touched(ClearBit, v, n)))
    BY <1>3, <1>4, <1>6, <1>9, ClearedIs
  <2> QED BY <1>4, <1>9, <2>1, <2>2
<1>10. CASE ~(constant /\ ~outside) /\ ~(constant /\ outside /\ action = ClearBit)
  <2>1. t = [q EXCEPT ![a] = BitResult(u, n, action)]
    BY <1>1, <1>3, <1>6, <1>10 DEF ZBSet, BitResult
  <2> QED BY <1>4, <1>5, <1>7, <2>1
<1> QED BY <1>8, <1>9, <1>10

------------------------------------------------------------------------------
(* zlsh.                                                                     *)

\* A power of two is whole characters and some bits.
LEMMA TwoPlaces ==
  ASSUME NEW n \in Nat, NEW c, c = n \div Bits, NEW j, j = n % Bits
  PROVE  /\ c \in Nat /\ j \in 0 .. Bits - 1
         /\ Power(2, n) = Place(c) * Power(2, j) /\ Power(2, n) \in Nat /\ Power(2, n) > 0
         /\ j = 0 => Power(2, n) = Place(c)
<1>1. PICK b \in Nat : b = Bits /\ b > 0
  BY DigitsAssumption
<1>2. c \in Nat /\ j \in Nat /\ j < b /\ n = b * c + j
  BY <1>1, Quotient
<1>3. PICK m \in Nat : m = b * c /\ n = m + j
  BY <1>1, <1>2
<1>4. Raised(2, m + j) = Raised(2, m) * Raised(2, j)
  BY <1>2, RaisedSum
<1>5. Place(c) = Raised(2, m)
  BY <1>1, <1>2, <1>3, PlaceIsRaised
<1>6. Power(2, n) = Raised(2, n) /\ Power(2, j) = Raised(2, j) /\ Raised(2, n) \in Nat /\ Raised(2, n) > 0
  BY <1>2, TwoRaised
<1>7. j = 0 => n = m
  BY <1>3
<1> QED BY <1>1, <1>2, <1>3, <1>4, <1>5, <1>6, <1>7

\* The two parts a shift by j bits makes of a character.
LEMMA Parts ==
  ASSUME NEW j \in 0 .. Bits - 1, NEW p, p = Power(2, j), NEW q, q = Power(2, Bits - j)
  PROVE  p \in Nat /\ p > 0 /\ q \in Nat /\ q > 0 /\ p * q = Base /\ q * p = Base
<1>1. PICK k \in Nat, l \in Nat : k = j /\ l = Bits - j /\ k + l = Bits
  BY DigitsAssumption
<1>2. p = Raised(2, k) /\ q = Raised(2, l) /\ p \in Nat /\ q \in Nat /\ p > 0 /\ q > 0
  BY <1>1, TwoRaised
<1>3. Raised(2, k + l) = Raised(2, k) * Raised(2, l)
  BY RaisedSum
<1>4. p * q = Base
  BY <1>1, <1>2, <1>3, BaseIsRaised
<1>5. q * p = p * q
  BY <1>2
<1> QED BY <1>2, <1>4, <1>5

LEMMA CharUp ==
  ASSUME NEW x \in Digit, NEW p \in Nat, NEW q \in Nat, p > 0, q > 0, q * p = Base,
         NEW c \in Nat, c < p
  PROVE  /\ x \div q \in Nat /\ x \div q < p
         /\ ((x * p) % Base) + c \in Digit
         /\ Moved(x, p, q, c, Base)
<1>1. Base \in Nat /\ x \in Nat /\ x < Base
  BY Bases, DigitType
<1>2. /\ x \div q \in Nat /\ x \div q < p
      /\ ((x * p) % Base) + c \in 0 .. Base - 1
      /\ Moved(x, p, q, c, Base)
  BY <1>1, MovedUp
<1> QED BY <1>2 DEF Digit

\* A number is shifted character by character, from the first that is not zero.
RaisedBy(up, x, from, n, p, q) ==
  /\ \A i \in 0 .. from - 1 : x[i] = 0 /\ up[i] = 0
  /\ up[from] = (x[from] * p) % Base
  /\ \A i \in from + 1 .. n - 1 : up[i] = ((x[i] * p) % Base) + (x[i - 1] \div q)

LEMMA RaisedByIs ==
  ASSUME NEW x, NEW up, NEW from \in Nat, NEW n \in Nat, from < n, n <= Room, Figures(x, n),
         NEW p \in Nat, NEW q \in Nat, p > 0, q > 0, q * p = Base, RaisedBy(up, x, from, n, p, q),
         NEW top, top = x[n - 1] \div q
  PROVE  /\ Figures(up, n) /\ top \in Digit
         /\ Lowest(up, n) + top * Place(n) = p * Lowest(x, n)
<1> DEFINE C(k) == IF k <= from THEN 0 ELSE x[k - 1] \div q
<1>0. Room \in Nat
  BY MostIs
<1>1. \A i \in 0 .. n - 1 : x[i] \in Digit
  BY DEF Figures
<1>2. \A k \in Nat : k <= n => C(k) \in Nat /\ C(k) < p
  <2>1. ASSUME NEW k \in Nat, k <= n PROVE C(k) \in Nat /\ C(k) < p
    <3>1. CASE k <= from
      BY <3>1
    <3>2. CASE ~(k <= from)
      <4>1. PICK d \in Digit : d = x[k - 1]
        BY <1>1, <2>1, <3>2
      <4>2. 0 \in Nat /\ 0 < p
        OBVIOUS
      <4>3. d \div q \in Nat /\ d \div q < p
        BY <4>2, CharUp
      <4> QED BY <3>2, <4>1, <4>3
    <3> QED BY <3>1, <3>2
  <2> QED BY <2>1
<1>3. \A i \in 0 .. n - 1 : i >= from =>
        up[i] = ((x[i] * p) % Base) + C(i) /\ C(i + 1) = x[i] \div q
  <2>1. ASSUME NEW i \in 0 .. n - 1, i >= from
        PROVE  up[i] = ((x[i] * p) % Base) + C(i) /\ C(i + 1) = x[i] \div q
    <3>1. C(i + 1) = x[i] \div q
      BY <2>1
    <3>2. CASE i = from
      <4>1. C(i) = 0 /\ up[i] = (x[i] * p) % Base
        BY <3>2 DEF RaisedBy
      <4>2. (x[i] * p) % Base \in Int
        <5>1. x[i] * p \in Nat
          BY <1>1, DigitType
        <5> QED BY <5>1, BaseRemainder, DigitType
      <4> QED BY <3>1, <4>1, <4>2
    <3>3. CASE i # from
      BY <2>1, <3>1, <3>3 DEF RaisedBy
    <3> QED BY <3>2, <3>3
  <2> QED BY <2>1
<1>4. Figures(up, n)
  <2>1. ASSUME NEW i \in 0 .. n - 1 PROVE up[i] \in Digit
    <3>1. CASE i < from
      BY <3>1, Bases DEF RaisedBy
    <3>2. CASE ~(i < from)
      <4>1. PICK d \in Digit, c \in Nat : d = x[i] /\ c = C(i) /\ c < p
        BY <1>1, <1>2
      <4>2. ((d * p) % Base) + c \in Digit
        BY <4>1, CharUp
      <4> QED BY <1>3, <3>2, <4>1, <4>2
    <3> QED BY <3>1, <3>2
  <2> QED BY <2>1 DEF Figures
<1> DEFINE Z == {k \in Nat : k <= n => Lowest(up, k) + C(k) * Place(k) = p * Lowest(x, k)}
<1>5. 0 \in Z
  <2>1. Lowest(up, 0) = 0 /\ Lowest(x, 0) = 0
    BY LowestPlaces
  <2>2. C(0) = 0 /\ 0 * Place(0) = 0
    BY Places
  <2> QED BY <2>1, <2>2
<1>6. ASSUME NEW k \in Nat, k \in Z PROVE k + 1 \in Z
  <2>1. SUFFICES ASSUME k + 1 <= n
                 PROVE  Lowest(up, k + 1) + C(k + 1) * Place(k + 1) = p * Lowest(x, k + 1)
    OBVIOUS
  <2>2. Lowest(up, k) + C(k) * Place(k) = p * Lowest(x, k)
    BY <1>6, <2>1
  <2>3. k \in 0 .. Room - 1 /\ k \in 0 .. n - 1
    BY <1>0, <2>1
  <2>4. PICK l, m, pl, b \in Nat : l = Lowest(up, k) /\ m = Lowest(x, k) /\ pl = Place(k) /\ b = Base
    <3>1. Figures(up, k) /\ Figures(x, k) /\ k <= Room
      BY <1>0, <1>1, <1>4, <2>1 DEF Figures
    <3> QED BY <3>1, LowestType, Places, Bases
  <2>5. PICK d, u \in Nat : d = x[k] /\ u = up[k] /\ d \in Digit
    BY <1>1, <1>4, <2>3, DigitType DEF Figures
  <2>6. Lowest(up, k + 1) = l + u * pl /\ Lowest(x, k + 1) = m + d * pl /\ Place(k + 1) = b * pl
    BY <2>3, <2>4, <2>5, LowestPlaces, Places
  <2>7. CASE k < from
    <3>1. d = 0 /\ u = 0 /\ C(k) = 0 /\ C(k + 1) = 0
      BY <2>5, <2>7 DEF RaisedBy
    <3>2. l = p * m
      BY <2>2, <2>4, <3>1
    <3> HIDE DEF C
    <3> QED BY <2>4, <2>6, <3>1, <3>2
  <2>8. CASE ~(k < from)
    <3>1. PICK c, h \in Nat : c = C(k) /\ c < p /\ h = d \div q /\ h = C(k + 1)
      <4>1. C(k) \in Nat /\ C(k) < p /\ C(k + 1) \in Nat /\ C(k + 1) = x[k] \div q
        BY <1>2, <1>3, <2>1, <2>3, <2>8
      <4> QED BY <2>5, <4>1
    <3>2. d * p + c = (((d * p) % Base) + c) + Base * (d \div q)
      <4>1. d \in Digit /\ c < p /\ p > 0 /\ q > 0 /\ q * p = Base
        BY <2>5, <3>1
      <4>2. Moved(d, p, q, c, Base)
        BY ONLY <4>1, p \in Nat, q \in Nat, c \in Nat, CharUp
      <4> QED BY <4>2 DEF Moved
    <3>3. u = ((d * p) % Base) + c
      BY <1>3, <2>3, <2>5, <2>8, <3>1
    <3>4. d * p + c = u + b * h
      BY <2>4, <3>1, <3>2, <3>3
    <3>5. l + c * pl = p * m
      BY <2>2, <2>4, <3>1
    <3>6. (l + u * pl) + h * (b * pl) = p * (m + d * pl)
      <4>1. (l + u * pl) + h * (b * pl) = l + (u + b * h) * pl
        OBVIOUS
      <4>2. (d * p + c) * pl = d * p * pl + c * pl
        OBVIOUS
      <4>3. p * (m + d * pl) = p * m + d * p * pl
        OBVIOUS
      <4>4. l + (u + b * h) * pl = l + (d * p + c) * pl
        BY <3>4
      <4> QED BY <3>5, <4>1, <4>2, <4>3, <4>4
    <3> HIDE DEF C
    <3> QED BY <2>6, <3>1, <3>6
  <2> QED BY <2>7, <2>8
<1> HIDE DEF Z
<1>7. \A k \in Nat : k \in Z
  <2>1. Z \in SUBSET Nat
    BY DEF Z
  <2> QED BY <1>5, <1>6, <2>1, Inductive
<1>8. Lowest(up, n) + C(n) * Place(n) = p * Lowest(x, n)
  BY <1>7 DEF Z
<1>9. C(n) = top
  OBVIOUS
<1>10. top \in Digit
  <2>1. top \in Nat /\ top < p
    BY <1>2, <1>9
  <2>2. p <= Base
    <3>1. PICK e \in Nat : q = e + 1
      <4>1. q - 1 \in Nat
        OBVIOUS
      <4> QED BY <4>1
    <3>2. q * p = e * p + p /\ e * p \in Nat
      BY <3>1
    <3> QED BY <3>2
  <2> QED BY <2>1, <2>2, Bases DEF Digit
<1> QED BY <1>4, <1>8, <1>9, <1>10

\* The upper characters of what zlsh starts from are those of its operand.
Lifts(f, d, c, x, m) ==
  /\ c \in Nat /\ m \in Nat /\ c + m < Room /\ Figures(x, m)
  /\ f = MemZeroPrecise(MemCpy(d, c, x, 0, m), c)

LEMMA RaisedChars ==
  ASSUME NEW d, NEW x, NEW c, NEW m, NEW f, Lifts(f, d, c, x, m)
  PROVE  /\ \A i \in 0 .. c - 1 : f[i] = 0
         /\ \A i \in 0 .. m - 1 : f[c + i] = x[i]
         /\ Figures(f, c + m) /\ Lowest(f, c + m) = Place(c) * Lowest(x, m)
<1>0. Room \in Nat /\ c \in Nat /\ m \in Nat /\ c + m < Room /\ Figures(x, m)
  BY MostIs DEF Lifts
<1> USE <1>0
<1>1. PICK g : g = MemCpy(d, c, x, 0, m)
  OBVIOUS
<1>2. f = [i \in Index |-> IF i < c THEN 0 ELSE g[i]]
  BY <1>1 DEF MemZeroPrecise, Lifts
<1>3. \A i \in 0 .. c - 1 : f[i] = 0
  <2>1. \A i \in 0 .. c - 1 : i \in Index /\ i < c
    BY <1>0 DEF Index
  <2> QED BY <1>2, <2>1
<1>4. \A i \in 0 .. m - 1 : f[c + i] = x[i]
  <2>1. ASSUME NEW i \in 0 .. m - 1 PROVE f[c + i] = x[i]
    <3>1. PICK k \in Nat : k = c + i /\ k \in Index /\ ~(k < c) /\ 0 + k - c = i
      BY <1>0 DEF Index
    <3>2. m <= Copied(m) /\ Copied(m) \in Nat
      BY ChunksIs
    <3>3. k \in c .. c + Copied(m) - 1
      BY <3>1, <3>2
    <3>4. g[k] = x[0 + k - c]
      BY <1>1, <3>1, <3>3 DEF MemCpy
    <3> QED BY <1>2, <3>1, <3>4
  <2> QED BY <2>1
<1>5. Figures(f, c + m)
  <2>1. ASSUME NEW i \in 0 .. c + m - 1 PROVE f[i] \in Digit
    <3>1. CASE i < c
      BY <1>3, <3>1, Bases
    <3>2. CASE ~(i < c)
      <4>1. PICK k \in 0 .. m - 1 : k = i - c /\ i = c + k
        BY <3>2
      <4> QED BY <1>4, <4>1 DEF Figures
    <3> QED BY <3>1, <3>2
  <2> QED BY <2>1 DEF Figures
<1>6. Lowest(f, c + m) = Place(c) * Lowest(x, m) + Lowest(f, c)
  <2>1. c + m <= Room
    BY <1>0
  <2>2. Above(x, f, c, m)
    BY <1>4, <1>5, <2>1 DEF Above
  <2> QED BY ONLY <2>2, LowestApart
<1>7. Lowest(f, c) = 0
  <2>1. Figures(f, c) /\ c <= Room
    BY <1>0, <1>3, Bases DEF Figures
  <2> QED BY <1>3, <2>1, LowestZero
<1>8. PICK l \in Nat : l = Lowest(x, m)
  <2>1. m <= Room
    BY <1>0
  <2> QED BY <2>1, LowestType
<1>9. PICK p \in Nat : p = Place(c)
  BY Places
<1>10. Lowest(f, c + m) = Place(c) * Lowest(x, m)
  BY <1>6, <1>7, <1>8, <1>9
<1> QED BY <1>3, <1>4, <1>5, <1>10

\* The characters ShiftedUp leaves.
LEMMA ShiftedUpIs ==
  ASSUME NEW r, Shaped(r), NEW c \in Nat, NEW n \in Nat, r.used = n, c < n, n < Room, Figures(r.chars, n),
         \A i \in 0 .. c - 1 : r.chars[i] = 0,
         NEW j \in 1 .. Bits - 1, NEW q, q = ShiftedUp(r, c, j)
  PROVE  /\ Shaped(q) /\ q.sign = r.sign /\ q.alloced = r.alloced
         /\ q.used \in {n, n + 1} /\ Figures(q.chars, q.used)
         /\ Lowest(q.chars, q.used) = Power(2, j) * Lowest(r.chars, n)
<1>0. Room \in Nat
  BY MostIs
<1>1. PICK x : x = r.chars /\ Figures(x, n) /\ \A i \in 0 .. c - 1 : x[i] = 0
  OBVIOUS
<1>2. PICK p \in Nat, h \in Nat : p = Power(2, j) /\ h = Power(2, Bits - j) /\ p > 0 /\ h > 0 /\ h * p = Base
  <2>1. j \in 0 .. Bits - 1
    OBVIOUS
  <2> QED BY <2>1, Parts
<1>3. PICK up : up = [i \in Index |-> IF i \in c .. n - 1
                                      THEN ((x[i] * p) % Base) + (IF i = c THEN 0 ELSE x[i - 1] \div h)
                                      ELSE x[i]]
  OBVIOUS
<1>4. PICK top : top = x[n - 1] \div h
  OBVIOUS
<1>5. q = IF top = 0 THEN [r EXCEPT !.chars = up]
                     ELSE [r EXCEPT !.chars = [up EXCEPT ![n] = top], !.used = n + 1]
  BY <1>1, <1>2, <1>3, <1>4 DEF ShiftedUp, Shaped
<1>6. \A i \in 0 .. n - 1 : i \in Index
  BY <1>0 DEF Index
<1>7. RaisedBy(up, x, c, n, p, h)
  <2>1. \A i \in 0 .. c - 1 : x[i] = 0 /\ up[i] = 0
    BY <1>1, <1>3, <1>6
  <2>2. up[c] = (x[c] * p) % Base
    <3>1. c \in Index /\ c \in c .. n - 1
      BY <1>6
    <3>2. x[c] * p \in Nat
      <4>1. x[c] \in Digit
        BY <1>1 DEF Figures
      <4> QED BY <4>1, DigitType
    <3>3. (x[c] * p) % Base \in Nat
      BY <3>2, BaseRemainder, DigitType
    <3>4. up[c] = ((x[c] * p) % Base) + 0
      BY <1>3, <3>1
    <3> QED BY <3>3, <3>4
  <2>3. \A i \in c + 1 .. n - 1 : up[i] = ((x[i] * p) % Base) + (x[i - 1] \div h)
    <3>1. ASSUME NEW i \in c + 1 .. n - 1 PROVE up[i] = ((x[i] * p) % Base) + (x[i - 1] \div h)
      <4>1. i \in Index /\ i \in c .. n - 1 /\ i # c
        BY <1>6
      <4> QED BY <1>3, <4>1
    <3> QED BY <3>1
  <2> QED BY <2>1, <2>2, <2>3 DEF RaisedBy
<1>8. /\ Figures(up, n) /\ top \in Digit
      /\ Lowest(up, n) + top * Place(n) = p * Lowest(x, n)
  <2>1. n <= Room /\ c < n /\ h * p = Base /\ p > 0 /\ h > 0 /\ Figures(x, n)
    BY <1>0, <1>1, <1>2
  <2> QED BY ONLY <2>1, <1>4, <1>7, c \in Nat, n \in Nat, p \in Nat, h \in Nat, RaisedByIs
<1>9. PICK l \in Nat, pl \in Nat : l = Lowest(up, n) /\ pl = Place(n)
  BY <1>0, <1>8, LowestType, Places
<1>10. CASE top = 0
  <2>1. q = [sign |-> r.sign, used |-> n, alloced |-> r.alloced, chars |-> up]
    BY <1>5, <1>10 DEF Shaped
  <2>2. Lowest(up, n) = p * Lowest(x, n)
    <3>1. l + 0 * pl = l
      OBVIOUS
    <3> QED BY <1>8, <1>9, <1>10, <3>1
  <2> QED BY <1>1, <1>2, <1>8, <2>1, <2>2 DEF Shaped
<1>11. CASE top # 0
  <2>1. PICK f : f = [up EXCEPT ![n] = top]
    OBVIOUS
  <2>2. q = [sign |-> r.sign, used |-> n + 1, alloced |-> r.alloced, chars |-> f]
    BY <1>5, <1>11, <2>1 DEF Shaped
  <2>3. n \in Index
    BY <1>0 DEF Index
  <2>4. f[n] = top /\ \A i \in 0 .. n - 1 : f[i] = up[i]
    BY <1>3, <2>1, <2>3
  <2>5. Figures(f, n + 1)
    <3>1. \A i \in 0 .. n - 1 : f[i] \in Digit
      BY <1>8, <2>4 DEF Figures
    <3>2. \A i \in 0 .. n + 1 - 1 : i = n \/ i \in 0 .. n - 1
      OBVIOUS
    <3> QED BY <1>8, <2>4, <3>1, <3>2 DEF Figures
  <2>6. Lowest(f, n + 1) = Lowest(f, n) + f[n] * Place(n)
    <3>1. n \in 0 .. Room - 1
      BY <1>0
    <3> QED BY <3>1, LowestPlaces
  <2>7. Lowest(f, n) = Lowest(up, n)
    BY <1>0, <2>4, LowestAgrees
  <2>8. Lowest(f, n + 1) = p * Lowest(x, n)
    BY <1>8, <2>4, <2>6, <2>7
  <2> QED BY <1>1, <1>2, <2>2, <2>5, <2>8 DEF Shaped
<1> QED BY <1>10, <1>11

LEMMA ZLshIs ==
  ASSUME NEW s \in [Var -> Number], NEW a \in Var, NEW b \in Var, Held(s[b]), NEW n \in Shift,
         NEW v, v = AbsOf(Value(s[b])), NEW t, t = ZLsh(s, a, b, n)
  PROVE  Is(t[a], s[b].sign * (v * Power(2, n)))
<1>0. n \in Nat /\ Power(2, n) \in Nat /\ Power(2, n) > 0
  <2>1. n \in Nat
    BY ShiftIs
  <2> QED BY <2>1, TwoPlaces
<1>1. CASE s[b].sign = 0
  <2>1. t = SetSign(s, a, 0)
    BY <1>1 DEF ZLsh
  <2>2. Is(t[a], 0)
    BY <2>1, ZeroSigned
  <2>3. 0 * (v * Power(2, n)) = 0
    <3>1. v * Power(2, n) \in Nat
      BY <1>0, AbsIs
    <3> QED BY <3>1
  <2> QED BY <1>1, <2>2, <2>3
<1>2. CASE s[b].sign # 0
  <2>1. PICK c \in Nat, j \in 0 .. Bits - 1 : /\ c = n \div Bits /\ j = n % Bits
                                             /\ c + MaxUsed + 1 <= MostChars
    BY ShiftIs
  <2>2. PICK m \in Nat, x \in {s[b].chars} : /\ m = s[b].used /\ x = s[b].chars /\ m >= 1 /\ m <= MaxUsed /\ Figures(x, m)
                            /\ Lowest(x, m) = v /\ v \in Nat /\ v > 0
    BY <1>2, HeldIs, AbsIs
  <2>3. PICK e : e = Ensure(s[a], m + c + 1)
    OBVIOUS
  <2>4. /\ e \in Number /\ e.alloced >= m + c + 1
        /\ \A i \in Index : i < s[a].alloced => e.chars[i] = s[a].chars[i]
        /\ e.used = s[a].used
    <3>1. m + c + 1 \in 0 .. MostChars
      BY <2>1, <2>2, MostIs
    <3> QED BY <2>3, <3>1, EnsureIs
  <2>5. PICK u : u = [s EXCEPT ![a] = e]
    OBVIOUS
  <2>6. PICK z : z = u[b].chars /\ Figures(z, m) /\ Lowest(z, m) = v /\ u[b].used = m /\ u[a] = e
    <3>1. \A i \in 0 .. m - 1 : u[b].chars[i] = x[i]
      <4>1. CASE a = b
        <5>1. \A i \in 0 .. m - 1 : i \in Index /\ i < s[a].alloced
          <6>1. m <= s[b].alloced /\ s[b].alloced \in Nat
            BY <1>2, <2>2 DEF Held, Number
          <6> QED BY <2>1, <2>2, <4>1, <6>1, MostIs DEF Index
        <5> QED BY <2>2, <2>4, <2>5, <4>1, <5>1
      <4>2. CASE a # b
        BY <2>2, <2>5, <4>2
      <4> QED BY <4>1, <4>2
    <3>2. u[b].used = m /\ u[a] = e
      BY <2>2, <2>4, <2>5
    <3>3. Figures(u[b].chars, m)
      BY <2>2, <3>1 DEF Figures
    <3>4. Lowest(u[b].chars, m) = v
      <4>1. m <= Room
        BY <2>2, MostIs
      <4> QED BY <2>2, <3>1, <4>1, LowestAgrees
    <3> QED BY <3>2, <3>3, <3>4
  <2>7. PICK f : f = MemZeroPrecise(MemCpy(e.chars, c, z, 0, m), c)
    OBVIOUS
  <2>8. c + m < Room /\ Room \in Nat
    BY <2>1, <2>2, MostIs
  <2>9. /\ \A i \in 0 .. c - 1 : f[i] = 0
        /\ Figures(f, c + m) /\ Lowest(f, c + m) = Place(c) * v
    <3>1. PICK d : d = e.chars
      OBVIOUS
    <3>2. f = MemZeroPrecise(MemCpy(d, c, z, 0, m), c) /\ Figures(z, m) /\ c + m < Room
      BY <2>6, <2>7, <2>8, <3>1
    <3>3. /\ \A i \in 0 .. c - 1 : f[i] = 0
          /\ Figures(f, c + m) /\ Lowest(f, c + m) = Place(c) * Lowest(z, m)
      <4>1. Lifts(f, d, c, z, m)
        BY <3>2 DEF Lifts
      <4> QED BY ONLY <4>1, RaisedChars
    <3> QED BY <2>6, <3>3
  <2>10. PICK r : r = [e EXCEPT !.chars = f, !.used = m + c]
    OBVIOUS
  <2>11. Shaped(r) /\ r.used = m + c /\ r.alloced = e.alloced /\ r.chars = f
    BY <2>4, <2>10 DEF Number, Shaped
  <2>12. PICK sign \in {-1, 1} : sign = s[b].sign
    BY <1>2, HeldIs
  <2>13. PICK q : q = IF j = 0 THEN r ELSE ShiftedUp(r, c, j)
    OBVIOUS
  <2>14. t = SetSign([u EXCEPT ![a] = q], a, sign)
    <3>2. CASE a = b
      <4>1. z = e.chars
        BY <2>6, <3>2
      <4> QED BY <1>2, <2>1, <2>2, <2>3, <2>5, <2>6, <2>7, <2>10, <2>12, <2>13, <3>2, <4>1 DEF ZLsh, MemMoveB
    <3>3. CASE a # b
      BY <1>2, <2>1, <2>2, <2>3, <2>5, <2>6, <2>7, <2>10, <2>12, <2>13, <3>3 DEF ZLsh
    <3> QED BY <3>2, <3>3
  <2>15. PICK k \in Nat : k = m + c /\ k >= 1 /\ k < Room /\ Figures(f, k) /\ Lowest(f, k) = Place(c) * v /\ c < k
    BY <2>2, <2>8, <2>9
  <2>16. PICK w : w = v * Power(2, n)
    OBVIOUS
  <2>17. Power(2, n) = Place(c) * Power(2, j) /\ (j = 0 => Power(2, n) = Place(c))
    BY <1>0, <2>1, TwoPlaces
  <2>18. w \in Nat /\ w > 0
    <3>1. PICK d \in Nat : d = Power(2, n) /\ d > 0
      BY <1>0
    <3> QED BY <2>2, <2>16, <3>1
  <2>19. PICK pl \in Nat : pl = Place(c)
    BY Places
  <2>20. /\ Shaped(q) /\ q.alloced = e.alloced /\ q.used \in {k, k + 1}
         /\ Figures(q.chars, q.used) /\ Lowest(q.chars, q.used) = w
    <3>1. CASE j = 0
      <4>1. Lowest(f, k) = w
        <5>1. pl * v = v * pl
          BY <2>2
        <5> QED BY <2>15, <2>16, <2>17, <2>19, <3>1, <5>1
      <4> QED BY <2>11, <2>13, <2>15, <3>1, <4>1
    <3>2. CASE j # 0
      <4>1. j \in 1 .. Bits - 1 /\ Shaped(r) /\ r.used = k /\ Figures(r.chars, k) /\ c < k /\ k < Room
        BY <2>1, <2>11, <2>15, <3>2
      <4>2. \A i \in 0 .. c - 1 : r.chars[i] = 0
        BY <2>9, <2>11
      <4>3. q = ShiftedUp(r, c, j)
        BY <2>13, <3>2
      <4>4. /\ Shaped(q) /\ q.alloced = r.alloced
            /\ q.used \in {k, k + 1} /\ Figures(q.chars, q.used)
            /\ Lowest(q.chars, q.used) = Power(2, j) * Lowest(r.chars, k)
        BY ONLY <4>1, <4>2, <4>3, c \in Nat, k \in Nat, ShiftedUpIs
      <4>5. Power(2, j) * Lowest(r.chars, k) = w
        <5>1. PICK p \in Nat : p = Power(2, j)
          BY <2>1, Parts
        <5>2. p * (pl * v) = v * (pl * p)
          BY <2>2
        <5> QED BY <2>11, <2>15, <2>16, <2>17, <2>19, <5>1, <5>2
      <4> QED BY <2>11, <4>4, <4>5
    <3> QED BY <3>1, <3>2
  <2>21. PICK g : g = [q EXCEPT !.sign = sign]
    OBVIOUS
  <2>22. t[a] = g
    BY <2>5, <2>14, <2>21 DEF SetSign
  <2>23. g.sign = sign /\ g.used = q.used /\ g.alloced = q.alloced /\ g.chars = q.chars
    BY <2>20, <2>21 DEF Shaped
  <2>24. PICK l \in Nat : /\ l = g.used /\ l <= g.alloced /\ l <= Room /\ g.alloced \in Nat
                          /\ Figures(g.chars, l) /\ w = Lowest(g.chars, l)
    <3>1. e.alloced \in Nat /\ e.alloced >= k + 1
      BY <2>4, <2>15 DEF Number
    <3> QED BY <2>8, <2>15, <2>20, <2>23, <3>1
  <2>25. Is(g, sign * w)
    BY ONLY <2>18, <2>23, <2>24, sign \in {-1, 1}, l \in Nat, MadeIs
  <2> QED BY <2>12, <2>16, <2>22, <2>25
<1> QED BY <1>1, <1>2

------------------------------------------------------------------------------
(* zrsh.                                                                     *)

LEMMA CharDown ==
  ASSUME NEW x \in Digit, NEW y \in Digit, NEW p \in Nat, NEW q \in Nat, p > 0, q > 0, p * q = Base
  PROVE  /\ (x \div p) + ((y * q) % Base) \in Digit
         /\ Dropped(x, y, p, q, Base)
<1>1. Base \in Nat /\ x \in Nat /\ x < Base /\ y \in Nat /\ y < Base
  BY Bases, DigitType
<1>2. (x \div p) + ((y * q) % Base) \in 0 .. Base - 1 /\ Dropped(x, y, p, q, Base)
  BY <1>1, DroppedDown
<1> QED BY <1>2 DEF Digit

\* A number is shifted down character by character.
LoweredBy(down, x, n, p, q) ==
  /\ n \in Nat /\ n >= 1 /\ n <= Room /\ Figures(x, n)
  /\ p \in Nat /\ q \in Nat /\ p > 0 /\ q > 0 /\ p * q = Base
  /\ \A i \in 0 .. n - 1 :
       down[i] = (x[i] \div p) + (((IF i + 1 < n THEN x[i + 1] ELSE 0) * q) % Base)

LEMMA LoweredByIs ==
  ASSUME NEW x, NEW down, NEW n, NEW p, NEW q, LoweredBy(down, x, n, p, q)
  PROVE  Figures(down, n) /\ Lowest(down, n) = Lowest(x, n) \div p
<1> USE n \in Nat /\ n >= 1 /\ n <= Room /\ Figures(x, n) DEF LoweredBy
<1> USE p \in Nat /\ q \in Nat /\ p > 0 /\ q > 0 /\ p * q = Base DEF LoweredBy
<1> HIDE DEF LoweredBy
<1> DEFINE A(k) == IF k < n THEN x[k] ELSE 0
           R(k) == A(k) % p
<1>0. Room \in Nat
  BY MostIs
<1>1. \A k \in Nat : A(k) \in Digit
  BY Bases DEF Figures
<1>2. \A k \in Nat : R(k) \in Nat /\ R(k) < p
  <2>1. ASSUME NEW k \in Nat PROVE R(k) \in Nat /\ R(k) < p
    <3>1. PICK d \in Nat : d = A(k)
      BY <1>1, DigitType
    <3> QED BY <3>1, Quotient
  <2> QED BY <2>1
<1>3. \A i \in 0 .. n - 1 : /\ x[i] = A(i) /\ down[i] \in Digit
                            /\ p * down[i] + R(i) = A(i) + Base * R(i + 1)
  <2>1. ASSUME NEW i \in 0 .. n - 1
        PROVE  x[i] = A(i) /\ down[i] \in Digit /\ p * down[i] + R(i) = A(i) + Base * R(i + 1)
    <3>1. PICK d \in Digit, e \in Digit : d = A(i) /\ e = A(i + 1)
      BY <1>1
    <3>2. down[i] = (d \div p) + ((e * q) % Base)
      BY <3>1 DEF LoweredBy
    <3>3. (d \div p) + ((e * q) % Base) \in Digit /\ Dropped(d, e, p, q, Base)
      BY CharDown
    <3>4. p * down[i] + (d % p) = d + Base * (e % p)
      BY <3>2, <3>3 DEF Dropped
    <3> QED BY <3>1, <3>2, <3>3, <3>4
  <2> QED BY <2>1
<1> HIDE DEF A, R
<1> DEFINE Z == {k \in Nat : k <= n => p * Lowest(down, k) + R(0) = Lowest(x, k) + R(k) * Place(k)}
<1>4. 0 \in Z
  <2>1. Lowest(down, 0) = 0 /\ Lowest(x, 0) = 0 /\ Place(0) = 1
    BY LowestPlaces, Places
  <2>2. R(0) \in Nat
    BY <1>2
  <2> QED BY <2>1, <2>2
<1>5. ASSUME NEW k \in Nat, k \in Z PROVE k + 1 \in Z
  <2>1. SUFFICES ASSUME k + 1 <= n
                 PROVE  p * Lowest(down, k + 1) + R(0) = Lowest(x, k + 1) + R(k + 1) * Place(k + 1)
    OBVIOUS
  <2>2. p * Lowest(down, k) + R(0) = Lowest(x, k) + R(k) * Place(k)
    BY <1>5, <2>1
  <2>3. k \in 0 .. Room - 1 /\ k \in 0 .. n - 1
    BY <1>0, <2>1
  <2>4. PICK l, m, pl, b \in Nat : l = Lowest(down, k) /\ m = Lowest(x, k) /\ pl = Place(k) /\ b = Base
    <3>1. Figures(down, k) /\ Figures(x, k) /\ k <= Room
      BY <1>0, <1>3, <2>1 DEF Figures
    <3> QED BY <3>1, LowestType, Places, Bases
  <2>5. PICK d, u \in Nat : d = x[k] /\ u = down[k] /\ d = A(k)
    BY <1>3, <2>3, DigitType DEF Figures
  <2>6. Lowest(down, k + 1) = l + u * pl /\ Lowest(x, k + 1) = m + d * pl /\ Place(k + 1) = b * pl
    <3>1. /\ Lowest(down, k + 1) = Lowest(down, k) + down[k] * Place(k)
          /\ Lowest(x, k + 1) = Lowest(x, k) + x[k] * Place(k)
      BY ONLY <2>3, LowestPlaces
    <3>2. Place(k + 1) = Base * Place(k)
      BY Places
    <3> QED BY ONLY <2>4, <2>5, <3>1, <3>2
  <2>7. PICK r, e, f \in Nat : r = R(0) /\ e = R(k) /\ f = R(k + 1)
    BY <1>2
  <2>8. p * l + r = m + e * pl
    BY <2>2, <2>4, <2>7
  <2>9. p * u + e = d + b * f
    BY <1>3, <2>3, <2>4, <2>5, <2>7
  <2>10. p * (l + u * pl) + r = (m + d * pl) + f * (b * pl)
    <3>1. p * (l + u * pl) + r = p * l + r + p * u * pl
      OBVIOUS
    <3>2. (p * u + e) * pl = p * u * pl + e * pl
      OBVIOUS
    <3>3. (d + b * f) * pl = d * pl + f * (b * pl)
      OBVIOUS
    <3>4. (p * u + e) * pl = (d + b * f) * pl
      BY <2>9
    <3> QED BY <2>8, <3>1, <3>2, <3>3, <3>4
  <2> QED BY <2>6, <2>7, <2>10
<1> HIDE DEF Z
<1>6. \A k \in Nat : k \in Z
  <2>1. Z \in SUBSET Nat
    BY DEF Z
  <2> QED BY <1>4, <1>5, <2>1, Inductive
<1>7. p * Lowest(down, n) + R(0) = Lowest(x, n) + R(n) * Place(n)
  BY <1>6 DEF Z
<1>8. R(n) = 0
  <2>1. A(n) = 0
    BY DEF A
  <2> QED BY <2>1 DEF R
<1>9. Figures(down, n)
  BY <1>3 DEF Figures
<1>10. PICK l, m, r \in Nat : l = Lowest(down, n) /\ m = Lowest(x, n) /\ r = R(0) /\ r < p
  BY <1>2, <1>9, LowestType
<1>11. m = p * l + r
  <2>1. PICK pl \in Nat : pl = Place(n)
    BY Places
  <2>2. 0 * pl = 0
    BY <2>1
  <2> QED BY <1>7, <1>8, <1>10, <2>1, <2>2
<1>12. m \div p = l
  <2>1. p > 0 /\ r < p /\ m = p * l + r
    BY <1>10, <1>11
  <2> QED BY ONLY <2>1, p \in Nat, l \in Nat, m \in Nat, r \in Nat, QuotientIs
<1> QED BY <1>9, <1>10, <1>12

\* zbits counts the bits a shift would have to drop to leave nothing.
LEMMA BitsCounted ==
  ASSUME NEW s \in [Var -> Number], NEW a \in Var, Held(s[a]), s[a].sign # 0,
         NEW v, v = AbsOf(Value(s[a])), NEW n \in Nat
  PROVE  ZBits(s, a) <= n <=> v < Power(2, n)
<1>1. PICK S, M : S = Ones(Value(s[a])) /\ M = Max(S)
  OBVIOUS
<1>2. S # {} /\ S \in SUBSET (0 .. Width - 1) /\ FromOnes(S) = v /\ v \in Nat
  BY <1>1, OnesBack, AbsIs
<1>3. M \in S /\ (\A k \in S : k <= M) /\ M \in Nat /\ Width \in Nat
  <2>1. Width \in Nat /\ S \in SUBSET (0 .. Width)
    BY <1>2, WidthIs
  <2>2. M \in S /\ \A k \in S : k <= M
    BY <1>1, <1>2, <2>1, MaxIs
  <2> QED BY <1>2, <2>1, <2>2
<1>4. ZBits(s, a) = M + 1
  <2>1. Value(s[a]) # 0
    BY ValueIs
  <2> QED BY <1>1, <2>1, ZBitsIs
<1>5. Power(2, n) = Raised(2, n)
  BY TwoRaised
<1>6. ASSUME M + 1 <= n PROVE v < Raised(2, n)
  <2>1. S \in SUBSET (0 .. n - 1)
    BY <1>2, <1>3, <1>6
  <2>2. BitsAre(v, S, n)
    BY <1>2, <2>1, FromOnesIs
  <2> QED BY <2>2 DEF BitsAre
<1>7. ASSUME v < Raised(2, n) PROVE M + 1 <= n
  <2>1. SUFFICES ASSUME n <= M PROVE FALSE
    BY <1>3
  <2>2. Raised(2, n) <= Raised(2, M) /\ Raised(2, n) \in Nat /\ Raised(2, M) \in Nat /\ Raised(2, M) > 0
    BY <1>3, <2>1, RaisedMonotone, TwoRaised
  <2>3. PICK p \in Nat : p = Raised(2, M) /\ p = Power(2, M) /\ p > 0 /\ v < p
    BY <1>2, <1>3, <1>7, <2>2, TwoRaised
  <2>4. v \div p = 0
    <3>1. p > 0 /\ v < p /\ v = p * 0 + v /\ 0 \in Nat
      BY <1>2, <2>3
    <3> QED BY ONLY <3>1, <1>2, p \in Nat, QuotientIs
  <2>5. (v \div Power(2, M)) % 2 = 1
    BY <1>1, <1>3 DEF Ones, OnesIn
  <2> QED BY <2>3, <2>4, <2>5
<1> QED BY <1>4, <1>5, <1>6, <1>7

\* What zrsh makes of the characters of y above the c-th, in the place of e.
Taken(e, y, c, used, same) ==
  CASE same /\ c = 0 -> e
    [] same /\ c # 0 -> [e EXCEPT !.used = used, !.chars = MemMoveF(@, c, used)]
    [] ~same -> LET fit == Ensure([e EXCEPT !.used = used], used)
                IN [fit EXCEPT !.chars = MemCpy(@, 0, y.chars, c, used)]

LEMMA TakenIs ==
  ASSUME NEW e \in Number, NEW y \in Number, NEW c \in Nat, NEW used \in Nat, c + used = y.used,
         y.used <= MaxUsed, y.used <= y.alloced, NEW same \in BOOLEAN, same => e = y,
         NEW r, r = Taken(e, y, c, used, same)
  PROVE  /\ Shaped(r) /\ r.used = used /\ r.alloced \in Nat /\ used <= r.alloced
         /\ \A i \in 0 .. used - 1 : r.chars[i] = y.chars[c + i]
<1>0. /\ Room \in Nat /\ MaxUsed \in Nat /\ MaxUsed < Room /\ used <= MaxUsed /\ MostChars \in Nat
      /\ used \in 0 .. MostChars
  BY MostIs
<1>1. \A i \in 0 .. used - 1 : i \in Index /\ i \in Nat
  BY <1>0 DEF Index
<1>2. CASE same /\ c = 0
  <2>1. r = y
    BY <1>2 DEF Taken
  <2>2. \A i \in 0 .. used - 1 : y.chars[i] = y.chars[c + i]
    BY <1>2
  <2>3. Shaped(y) /\ y.used \in Nat /\ y.alloced \in Nat
    BY NumberShaped
  <2>4. y.used = used
    BY <1>2
  <2>5. used <= y.alloced
    BY <2>4
  <2> QED BY ONLY <2>1, <2>2, <2>3, <2>4, <2>5
<1>3. CASE same /\ c # 0
  <2>1. PICK f : f = MemMoveF(y.chars, c, used)
    OBVIOUS
  <2>2. r = [y EXCEPT !.used = used, !.chars = f]
    BY <1>3, <2>1 DEF Taken
  <2>3. Shaped(r) /\ r.used = used /\ r.alloced = y.alloced /\ r.chars = f /\ y.alloced \in Nat
    BY <2>2 DEF Number, Shaped
  <2>4. ASSUME NEW i \in 0 .. used - 1 PROVE f[i] = y.chars[c + i]
    <3>1. PICK moved : moved = IF used \in 1 .. Group - 1 THEN Group - 1 ELSE Chunks(used)
      OBVIOUS
    <3>2. i < moved
      <4>1. used <= Chunks(used) /\ Chunks(used) \in Nat /\ Group \in Nat
        BY ChunksIs, DigitsAssumption
      <4> QED BY <3>1, <4>1
    <3> QED BY <1>1, <2>1, <3>1, <3>2 DEF MemMoveF
  <2>5. used <= y.alloced
    <3>1. y.used \in Nat /\ y.alloced \in Nat
      BY DEF Number
    <3> QED BY <3>1
  <2>6. \A i \in 0 .. used - 1 : r.chars[i] = y.chars[c + i]
    BY <2>3, <2>4
  <2>7. r.alloced \in Nat /\ used <= r.alloced
    BY <2>3, <2>5
  <2> QED BY ONLY <2>3, <2>6, <2>7
<1>4. CASE ~same
  <2>1. PICK d : d = [e EXCEPT !.used = used]
    OBVIOUS
  <2>2. d \in Number /\ d.used = used
    <3>1. e = [sign |-> e.sign, used |-> e.used, alloced |-> e.alloced, chars |-> e.chars]
      BY DEF Number
    <3>2. d = [sign |-> e.sign, used |-> used, alloced |-> e.alloced, chars |-> e.chars]
      BY ONLY <2>1, <3>1
    <3> QED BY <3>2 DEF Number
  <2>3. PICK fit : fit = Ensure(d, used)
    OBVIOUS
  <2>4. fit \in Number /\ fit.used = used /\ fit.alloced >= used
    BY <1>0, <2>2, <2>3, EnsureIs
  <2>5. PICK f : f = MemCpy(fit.chars, 0, y.chars, c, used)
    OBVIOUS
  <2>6. r = [fit EXCEPT !.chars = f]
    BY <1>4, <2>1, <2>3, <2>5 DEF Taken
  <2>7. Shaped(r) /\ r.used = used /\ r.alloced = fit.alloced /\ r.chars = f /\ fit.alloced \in Nat
    BY <2>4, <2>6 DEF Number, Shaped
  <2>8. ASSUME NEW i \in 0 .. used - 1 PROVE f[i] = y.chars[c + i]
    <3>1. used <= Copied(used) /\ Copied(used) \in Nat
      BY ChunksIs
    <3>2. i \in 0 .. 0 + Copied(used) - 1 /\ c + i - 0 = c + i
      BY <3>1
    <3> QED BY <1>1, <2>5, <3>2 DEF MemCpy
  <2> QED BY <2>4, <2>7, <2>8
<1> QED BY <1>2, <1>3, <1>4

\* What ShiftedDown leaves, when something is left.
LEMMA ShiftedDownIs ==
  ASSUME NEW r, Shaped(r), NEW n \in Nat, n >= 1, r.used = n, n <= Room, Figures(r.chars, n),
         r.alloced \in Nat, n <= r.alloced, NEW j \in 0 .. Bits - 1, NEW sign \in {-1, 1},
         NEW w, w = Lowest(r.chars, n) \div Power(2, j), w > 0,
         NEW q, q = [Trim(ShiftedDown(r, j)) EXCEPT !.sign = sign]
  PROVE  Is(q, sign * w)
<1>0. Room \in Nat
  BY MostIs
<1>1. PICK x : x = r.chars /\ Figures(x, n)
  OBVIOUS
<1>2. PICK p \in Nat, h \in Nat : p = Power(2, j) /\ h = Power(2, Bits - j) /\ p > 0 /\ h > 0 /\ p * h = Base
  BY Parts
<1>3. PICK down : down = [i \in Index |-> IF i < n
                            THEN (x[i] \div p) + (((IF i + 1 < n THEN x[i + 1] ELSE 0) * h) % Base)
                            ELSE x[i]]
  OBVIOUS
<1>4. PICK d : d = ShiftedDown(r, j) /\ d = [r EXCEPT !.chars = down]
  BY <1>1, <1>2, <1>3 DEF ShiftedDown
<1>5. Shaped(d) /\ d.used = n /\ d.alloced = r.alloced /\ d.chars = down
  BY <1>4 DEF Shaped
<1>6. LoweredBy(down, x, n, p, h)
  <2>2. n >= 1 /\ n <= Room /\ Figures(x, n) /\ p > 0 /\ h > 0 /\ p * h = Base
    BY <1>1, <1>2
  <2>1. \A i \in 0 .. n - 1 : i \in Index /\ i < n
    BY <1>0 DEF Index
  <2> QED BY <1>3, <2>1, <2>2 DEF LoweredBy
<1>7. Figures(down, n) /\ Lowest(down, n) = Lowest(x, n) \div p
  BY ONLY <1>6, LoweredByIs
<1>8. w = Lowest(d.chars, n) /\ Figures(d.chars, n)
  BY <1>1, <1>2, <1>5, <1>7
<1>9. PICK g : g = TrimAndSign(d, sign)
  OBVIOUS
<1>10. Is(g, sign * w)
  <2>1. sign \in {-1, 0, 1} /\ d.alloced \in Nat /\ n <= d.alloced /\ Shaped(d) /\ d.used = n /\ n <= Room
    BY <1>5
  <2> QED BY ONLY <1>8, <1>9, <2>1, n \in Nat, TrimmedIs
<1>11. g.sign # 0
  <2>1. w \in Nat
    BY <1>7, <1>8, LowestType
  <2>2. sign * w # 0
    BY <2>1
  <2> QED BY <1>10, <2>2 DEF Is, Value
<1>12. PICK t : t = Trim(d)
  OBVIOUS
<1>13. Shaped(t)
  BY <1>5, <1>12 DEF Trim, TrimTo, Shaped
<1>14. g = [t EXCEPT !.sign = IF t.used = 0 THEN 0 ELSE sign]
  BY <1>9, <1>12 DEF TrimAndSign
<1>15. t.used # 0
  BY <1>11, <1>13, <1>14 DEF Shaped
<1>16. q = g
  BY <1>4, <1>12, <1>14, <1>15
<1> QED BY <1>10, <1>16

Store(s) == s = [x \in Var |-> s[x]]

LEMMA TypedStores ==
  ASSUME NEW s \in [Var -> Number]
  PROVE  Store(s)
BY DEF Store

\* What zrsh does to the others: it may trim its operand.
Apart(t, s, a, b) ==
  /\ Store(t)
  /\ \A x \in Var : x \notin {a, b} => t[x] = s[x]
  /\ a # b => Held(t[b]) /\ Value(t[b]) = Value(s[b])

LEMMA ZRshZero ==
  ASSUME NEW s \in [Var -> Number], NEW a \in Var, NEW b \in Var, Held(s[b]), NEW u,
         u = s \/ u = Counted(s, b), NEW t, t = SetSign(u, a, 0)
  PROVE  Is(t[a], 0) /\ Apart(t, s, a, b)
<1>1. CASE s[b].sign = 0 \/ u = s
  <2>1. u = s
    BY <1>1 DEF Counted
  <2>2. Only(t, s, a) /\ Is(t[a], 0)
    BY <2>1, ZeroSigned
  <2> QED BY <2>2, TypedStores DEF Only, Apart
<1>2. CASE s[b].sign # 0 /\ u = Counted(s, b)
  <2>1. PICK y : y = Trim(s[b])
    OBVIOUS
  <2>2. u = [s EXCEPT ![b] = y]
    BY <1>2, <2>1 DEF Counted
  <2>3. Trimmed(y, s[b])
    BY <1>2, <2>1, TrimIs
  <2>4. y \in Number /\ Held(y) /\ Value(y) = Value(s[b])
    BY <2>3 DEF Trimmed, Held
  <2>5. u \in [Var -> Number] /\ u[b] = y /\ \A x \in Var : x # b => u[x] = s[x]
    BY <2>2, <2>4
  <2>6. Only(t, u, a) /\ Is(t[a], 0)
    BY <2>5, ZeroSigned
  <2> QED BY <2>4, <2>5, <2>6, TypedStores DEF Only, Apart
<1> QED BY <1>1, <1>2

LEMMA ZRshIs ==
  ASSUME NEW s \in [Var -> Number], NEW a \in Var, NEW b \in Var, Held(s[b]), NEW n \in Shift,
         NEW v, v = AbsOf(Value(s[b])), NEW t, t = ZRsh(s, a, b, n)
  PROVE  Is(t[a], s[b].sign * (v \div Power(2, n))) /\ Apart(t, s, a, b)
<1>0. n \in Nat /\ v \in Nat
  BY ShiftIs, AbsIs
<1>1. PICK two \in Nat : two = Power(2, n) /\ two > 0
  BY <1>0, TwoPlaces
<1>2. CASE n = 0
  <2>1. t = SetUnlessSame(s, a, b)
    BY <1>2 DEF ZRsh
  <2>2. Only(t, s, a) /\ Copy(t[a], s[b])
    BY <2>1, UnlessSameIs
  <2>3. Held(t[a]) /\ Value(t[a]) = Value(s[b])
    BY <2>2, CopyHeld
  <2>4. two = 1
    <3>1. Power(2, 0) = Raised(2, 0) /\ Raised(2, 0) = 1
      BY TwoRaised, RaisedSteps
    <3> QED BY <1>1, <1>2, <3>1
  <2>5. s[b].sign * (v \div two) = Value(s[b])
    <3>1. v \div 1 = v
      <4>1. 1 > 0 /\ 0 < 1 /\ v = 1 * v + 0 /\ 1 \in Nat /\ 0 \in Nat
        BY <1>0
      <4> QED BY ONLY <4>1, <1>0, QuotientIs
    <3>2. s[b].sign * v = Value(s[b])
      BY <1>0, SignedAbs
    <3> QED BY <2>4, <3>1, <3>2
  <2>6. Legal(t[a])
    BY <2>3, HeldIs
  <2> QED BY <1>1, <2>2, <2>3, <2>5, <2>6, TypedStores DEF Is, Only, Apart
<1>3. CASE n # 0 /\ s[b].sign = 0
  <2>1. t = SetSign(s, a, 0)
    BY <1>3 DEF ZRsh
  <2>2. Is(t[a], 0) /\ Apart(t, s, a, b)
    BY <2>1, ZRshZero
  <2>3. 0 * (v \div two) = 0
    <3>1. v \div two \in Nat
      BY <1>0, <1>1, Quotient
    <3> QED BY <3>1
  <2> QED BY <1>1, <1>3, <2>2, <2>3
<1>4. CASE n # 0 /\ s[b].sign # 0
  <2>1. PICK c \in Nat, j \in 0 .. Bits - 1 : c = n \div Bits /\ j = n % Bits
    BY ShiftIs
  <2>2. PICK p \in Nat, pl \in Nat : /\ p = Power(2, j) /\ pl = Place(c) /\ p > 0 /\ pl > 0 /\ two = pl * p
                                     /\ (j = 0 => two = pl)
    <3>1. Power(2, n) = Place(c) * Power(2, j) /\ (j = 0 => Power(2, n) = Place(c))
      BY <1>0, <2>1, TwoPlaces
    <3>2. Place(c) \in Nat /\ Place(c) > 0
      BY Places
    <3> QED BY <1>1, <2>1, <3>1, <3>2, Parts
  <2>3. PICK sign \in {-1, 1} : sign = s[b].sign
    BY <1>4, HeldIs
  <2>4. PICK m \in Nat : m = s[b].used /\ m >= 1 /\ m <= MaxUsed /\ v < Place(m)
    BY <1>4, HeldIs, AbsIs
  <2>5. ASSUME v < two PROVE sign * (v \div two) = 0
    <3>1. two > 0 /\ v < two /\ v = two * 0 + v /\ 0 \in Nat
      BY <1>0, <1>1, <2>5
    <3>2. v \div two = 0
      BY ONLY <1>0, <3>1, two \in Nat, QuotientIs
    <3> QED BY <3>2
  <2>6. CASE c >= m
    <3>1. t = SetSign(s, a, 0)
      BY <1>4, <2>1, <2>4, <2>6 DEF ZRsh
    <3>2. Is(t[a], 0) /\ Apart(t, s, a, b)
      BY <3>1, ZRshZero
    <3>3. v < two
      <4>1. Place(m) <= pl /\ Place(m) \in Nat
        BY <2>2, <2>6, PlaceOrder
      <4>2. pl <= two
        <5>1. PICK d \in Nat : p = d + 1
          <6>1. p - 1 \in Nat
            BY <2>2
          <6> QED BY <6>1
        <5>2. pl * p = pl * d + pl /\ pl * d \in Nat
          BY <5>1
        <5> QED BY <2>2, <5>2
      <4> QED BY <1>0, <1>1, <2>4, <4>1, <4>2
    <3> QED BY <1>1, <2>3, <2>5, <3>2, <3>3
  <2>7. CASE c < m /\ ZBits(s, b) <= n
    <3>1. t = SetSign(Counted(s, b), a, 0)
      BY <1>4, <2>1, <2>4, <2>7 DEF ZRsh
    <3>2. Is(t[a], 0) /\ Apart(t, s, a, b)
      BY <3>1, ZRshZero
    <3>3. v < two
      BY <1>0, <1>1, <1>4, <2>7, BitsCounted
    <3> QED BY <1>1, <2>3, <2>5, <3>2, <3>3
  <2>8. CASE c < m /\ ~(ZBits(s, b) <= n)
    <3>1. PICK y : y = Trim(s[b])
      OBVIOUS
    <3>2. Trimmed(y, s[b])
      BY <1>4, <3>1, TrimIs
    <3>3. y \in Number /\ Held(y) /\ Value(y) = Value(s[b]) /\ y.sign = sign /\ y.sign # 0
      BY <2>3, <3>2 DEF Trimmed, Held
    <3>4. PICK used \in Nat, x \in {y.chars} : /\ used = y.used /\ used <= MaxUsed /\ x = y.chars /\ Figures(x, used)
                                 /\ Lowest(x, used) = v /\ v < Place(used) /\ used <= y.alloced
      <4>1. AbsOf(Value(y)) = v
        BY <3>3
      <4> QED BY <3>3, <4>1, HeldIs, AbsIs DEF Held
    <3>5. ~(v < two)
      BY <1>0, <1>1, <1>4, <2>8, BitsCounted
    <3>6. c < used
      <4>1. SUFFICES ASSUME used <= c PROVE FALSE
        BY <3>4
      <4>2. Place(used) <= pl /\ Place(used) \in Nat
        BY <2>2, <4>1, PlaceOrder
      <4>3. pl <= two
        <5>1. PICK d \in Nat : p = d + 1
          <6>1. p - 1 \in Nat
            BY <2>2
          <6> QED BY <6>1
        <5>2. pl * p = pl * d + pl /\ pl * d \in Nat
          BY <5>1
        <5> QED BY <2>2, <5>2
      <4> QED BY <1>0, <1>1, <3>4, <3>5, <4>2, <4>3
    <3>7. PICK u : u = [s EXCEPT ![b] = y]
      OBVIOUS
    <3>8. u = Counted(s, b)
      BY <1>4, <3>1, <3>7 DEF Counted
    <3>9. u \in [Var -> Number] /\ u[b] = y /\ \A i \in Var : i # b => u[i] = s[i]
      BY <3>3, <3>7
    <3>10. PICK e : e = u[a] /\ e \in Number
      BY <3>9
    <3>11. PICK k \in Nat : k = used - c /\ c + k = used /\ k >= 1
      BY <3>6
    <3>12. PICK same \in BOOLEAN : same = (a = b)
      OBVIOUS
    <3>13. PICK r : r = Taken(e, y, c, k, same)
      OBVIOUS
    <3>14. PICK q : q = IF j = 0 THEN r ELSE Trim(ShiftedDown(r, j))
      OBVIOUS
    <3>15. t = SetSign([u EXCEPT ![a] = q], a, sign)
      <4>1. ~(s[b].sign = 0 \/ c >= s[b].used) /\ ~(ZBits(s, b) <= n)
        BY <1>4, <2>4, <2>8
      <4>2. PICK h : h = CASE a = b /\ c = 0 -> u[a]
                           [] a = b /\ c # 0 -> [u[a] EXCEPT !.used = k, !.chars = MemMoveF(@, c, k)]
                           [] a # b ->
                                LET fit == Ensure([u[a] EXCEPT !.used = k], k)
                                IN [fit EXCEPT !.chars = MemCpy(@, 0, u[b].chars, c, k)]
        OBVIOUS
      <4>3. h = r
        <5>1. CASE a = b /\ c = 0
          BY <3>10, <3>12, <3>13, <4>2, <5>1 DEF Taken
        <5>2. CASE a = b /\ c # 0
          BY <3>10, <3>12, <3>13, <4>2, <5>2 DEF Taken
        <5>3. CASE a # b
          BY <3>9, <3>10, <3>12, <3>13, <4>2, <5>3 DEF Taken
        <5> QED BY <5>1, <5>2, <5>3
      <4>4. u[b].used - c = k
        BY <3>4, <3>9, <3>11
      <4>5. ZRsh(s, a, b, n) = SetSign([u EXCEPT ![a] = IF j = 0 THEN h ELSE Trim(ShiftedDown(h, j))], a, s[b].sign)
        BY ONLY <1>4, <2>1, <3>8, <4>1, <4>2, <4>4 DEF ZRsh
      <4> QED BY <2>3, <3>14, <4>3, <4>5
    <3>16. /\ Shaped(r) /\ r.used = k /\ r.alloced \in Nat /\ k <= r.alloced
           /\ \A i \in 0 .. k - 1 : r.chars[i] = x[c + i]
      <4>1. same => e = y
        BY <3>9, <3>10, <3>12
      <4>2. /\ c + k = y.used /\ y.used <= MaxUsed /\ y.used <= y.alloced
            /\ e \in Number /\ y \in Number
        BY <3>3, <3>4, <3>10, <3>11
      <4>3. /\ Shaped(r) /\ r.used = k /\ r.alloced \in Nat /\ k <= r.alloced
            /\ \A i \in 0 .. k - 1 : r.chars[i] = y.chars[c + i]
        BY ONLY <3>13, <4>1, <4>2, c \in Nat, k \in Nat, same \in BOOLEAN, TakenIs
      <4> QED BY <3>4, <4>3
    <3>17. PICK f : f = r.chars
      OBVIOUS
    <3>18. Figures(f, k) /\ v = pl * Lowest(f, k) + Lowest(x, c)
      <4>1. c + k <= Room /\ Figures(x, c + k) /\ \A i \in 0 .. k - 1 : x[c + i] = f[i]
        BY <3>4, <3>11, <3>16, <3>17, MostIs
      <4>2. Figures(f, k) /\ Lowest(x, c + k) = Place(c) * Lowest(f, k) + Lowest(x, c)
        <5>1. Above(f, x, c, k)
          BY <4>1 DEF Above
        <5> QED BY ONLY <5>1, LowestApart
      <4> QED BY <2>2, <3>4, <3>11, <4>2
    <3>19. PICK w, l \in Nat : w = Lowest(f, k) /\ l = Lowest(x, c) /\ l < pl /\ k <= Room
      <4>1. k <= Room /\ c <= Room /\ Figures(x, c)
        BY <3>4, <3>6, <3>11, MostIs DEF Figures
      <4> QED BY <2>2, <3>18, <4>1, LowestType
    <3>20. v \div pl = w
      <4>1. v = pl * w + l /\ l < pl /\ pl > 0 /\ v \in Nat
        BY <1>0, <2>2, <3>18, <3>19
      <4> QED BY ONLY <4>1, pl \in Nat, w \in Nat, l \in Nat, QuotientIs
    <3>21. PICK z \in Nat : z = v \div two /\ z > 0 /\ z = w \div p /\ (j = 0 => z = w)
      <4>1. (v \div pl) \div p = v \div (pl * p)
        BY <1>0, <2>2, Divisions
      <4>2. v \div two = w \div p
        BY <2>2, <3>20, <4>1
      <4>3. v \div two \in Nat
        BY <1>0, <1>1, Quotient
      <4>4. v \div two # 0
        BY <1>0, <1>1, <3>5, <4>3, Quotient
      <4>5. j = 0 => v \div two = w
        BY <2>2, <3>20
      <4> QED BY <4>2, <4>3, <4>4, <4>5
    <3>22. PICK g : g = [q EXCEPT !.sign = sign]
      OBVIOUS
    <3>23. t = [u EXCEPT ![a] = g]
      BY <3>9, <3>15, <3>22 DEF SetSign
    <3>24. Is(g, sign * z)
      <4>1. CASE j = 0
        <5>1. g = [r EXCEPT !.sign = sign]
          BY <3>14, <3>22, <4>1
        <5>2. g.sign = sign /\ g.used = k /\ g.alloced \in Nat /\ k <= g.alloced /\ g.chars = f
          BY <3>16, <3>17, <5>1 DEF Shaped
        <5>3. k <= Room /\ Figures(g.chars, k) /\ z = Lowest(g.chars, k) /\ z > 0
          BY <3>18, <3>19, <3>21, <4>1, <5>2
        <5> QED BY ONLY <5>2, <5>3, sign \in {-1, 1}, k \in Nat, MadeIs
      <4>2. CASE j # 0
        <5>1. g = [Trim(ShiftedDown(r, j)) EXCEPT !.sign = sign]
          BY <3>14, <3>22, <4>2
        <5>2. /\ k >= 1 /\ r.used = k /\ k <= Room /\ Figures(r.chars, k) /\ r.alloced \in Nat /\ k <= r.alloced
              /\ z = Lowest(r.chars, k) \div Power(2, j) /\ z > 0 /\ Shaped(r)
          BY <2>2, <3>11, <3>16, <3>17, <3>18, <3>19, <3>21
        <5> QED BY ONLY <5>1, <5>2, k \in Nat, j \in 0 .. Bits - 1, sign \in {-1, 1}, ShiftedDownIs
      <4> QED BY <4>1, <4>2
    <3>25. Store(t) /\ t[a] = g /\ \A i \in Var : i # a => t[i] = u[i]
      <4>1. t[a] = g /\ \A i \in Var : i # a => t[i] = u[i]
        BY <3>9, <3>23
      <4>2. Store(t)
        BY <3>9, <3>23 DEF Store
      <4> QED BY ONLY <4>1, <4>2
    <3>26. Apart(t, s, a, b)
      BY <3>3, <3>9, <3>25 DEF Apart
    <3> QED BY <1>1, <2>3, <3>21, <3>24, <3>25, <3>26
  <2> QED BY <2>4, <2>6, <2>7, <2>8
<1> QED BY <1>2, <1>3, <1>4

------------------------------------------------------------------------------
(* ztrunc and zsplit.                                                        *)

\* The characters ztrunc keeps of a number of m, and the bits of the last one.
Kept(n)      == (n + Bits - 1) \div Bits
KeptBits(n, m) == IF Smallest(Kept(n), m) < Kept(n) THEN 0 ELSE n % Bits

Keeps(n, m, used, c, j) ==
  /\ n \in Nat /\ m \in Nat /\ used = Smallest(Kept(n), m)
  /\ c = n \div Bits /\ j = n % Bits

LEMMA KeptIs ==
  ASSUME NEW n, NEW m, NEW used, NEW c, NEW j, Keeps(n, m, used, c, j)
  PROVE  /\ used \in Nat /\ used <= m /\ c \in Nat /\ j \in 0 .. Bits - 1
         /\ \/ used = m /\ KeptBits(n, m) = 0 /\ Place(m) <= Power(2, n)
            \/ used = c /\ j = 0 /\ KeptBits(n, m) = 0
            \/ used = c + 1 /\ j # 0 /\ KeptBits(n, m) = j
<1> n \in Nat /\ m \in Nat /\ used = Smallest(Kept(n), m) /\ c = n \div Bits /\ j = n % Bits
  BY DEF Keeps
<1>1. PICK b \in Nat : b = Bits /\ b > 0
  BY DigitsAssumption
<1>2. c \in Nat /\ j \in Nat /\ j < b /\ n = b * c + j
  BY <1>1, Quotient
<1>3. PICK k \in Nat : k = Kept(n) /\ k = IF j = 0 THEN c ELSE c + 1
  <2>1. PICK v \in Nat : v = n + b - 1
    BY <1>1
  <2>2. Kept(n) = v \div b
    BY <1>1, <2>1 DEF Kept
  <2>3. CASE j = 0
    <3>1. PICK r \in Nat : r = b - 1 /\ r < b
      BY <1>1
    <3>2. v = b * c + r
      BY <1>2, <2>1, <2>3, <3>1
    <3>3. v \div b = c
      BY ONLY <1>1, <1>2, <3>1, <3>2, b \in Nat, r \in Nat, v \in Nat, QuotientIs
    <3> QED BY <1>2, <2>2, <2>3, <3>3
  <2>4. CASE j # 0
    <3>1. PICK r \in Nat : r = j - 1 /\ r < b
      BY <1>2, <2>4
    <3>2. PICK d \in Nat, e \in Nat : d = c + 1 /\ e = c
      BY <1>2
    <3>3. v = b * d + r
      <4>1. b * (e + 1) = b * e + b
        OBVIOUS
      <4>2. b * d = b * e + b
        BY <3>2, <4>1
      <4>3. b * c = b * e
        BY <3>2
      <4>4. PICK l \in Nat : l = b * e
        OBVIOUS
      <4>5. n = l + j
        BY <1>2, <4>3, <4>4
      <4>6. b * d = l + b
        BY <4>2, <4>4
      <4> QED BY <1>1, <1>2, <2>1, <2>4, <3>1, <4>5, <4>6
    <3>4. v \div b = d
      <4>1. b > 0 /\ r < b /\ v = b * d + r
        BY <1>1, <3>1, <3>3
      <4> QED BY ONLY <4>1, b \in Nat, r \in Nat, v \in Nat, d \in Nat, QuotientIs
    <3> QED BY <1>2, <2>2, <2>4, <3>2, <3>4
  <2> QED BY <2>3, <2>4
<1>4. CASE k <= m
  <2>1. used = k /\ KeptBits(n, m) = j
    BY <1>3, <1>4 DEF Smallest, KeptBits
  <2> QED BY <1>1, <1>2, <1>3, <1>4, <2>1
<1>5. CASE m < k
  <2>1. used = m /\ KeptBits(n, m) = 0
    BY <1>3, <1>5 DEF Smallest, KeptBits
  <2>2. PICK l \in Nat : l = b * m /\ l <= n
    <3>1. m <= c
      BY <1>2, <1>3, <1>5
    <3>2. PICK d \in Nat : c = m + d
      <4>1. PICK e \in Nat : e = c
        BY <1>2
      <4>2. e - m \in Nat
        BY <3>1, <4>1
      <4>3. e = m + (e - m)
        OBVIOUS
      <4> QED BY <4>1, <4>2, <4>3
    <3>3. b * c = b * m + b * d /\ b * d \in Nat /\ b * m \in Nat
      BY <3>2
    <3> QED BY <1>2, <3>3
  <2>3. Place(m) = Raised(2, l)
    BY <1>1, <2>2, PlaceIsRaised
  <2>4. Raised(2, l) <= Raised(2, n)
    BY <2>2, RaisedMonotone
  <2>5. Place(m) <= Power(2, n)
    BY <2>3, <2>4, TwoRaised
  <2> QED BY <1>1, <1>2, <2>1, <2>5
<1> QED BY <1>3, <1>4, <1>5

\* The remainder by whole characters and some bits of the next.
LEMMA CutIs ==
  ASSUME NEW x, NEW m \in Nat, m <= Room, Figures(x, m), NEW c \in Nat, c < m,
         NEW j \in 0 .. Bits - 1, NEW f, f[c] = x[c] % Power(2, j), \A i \in 0 .. c - 1 : f[i] = x[i]
  PROVE  /\ Figures(f, c + 1)
         /\ Lowest(f, c + 1) = Lowest(x, m) % (Place(c) * Power(2, j))
<1>0. Room \in Nat /\ c + 1 <= m
  BY MostIs
<1>1. PICK p \in Nat, q \in Nat : p = Power(2, j) /\ q = Power(2, Bits - j) /\ p > 0 /\ q > 0 /\ p * q = Base
  BY Parts
<1>2. PICK u \in Nat : Lowest(x, m) = Place(c + 1) * u + Lowest(x, c + 1)
  <2>1. c + 1 \in Nat
    OBVIOUS
  <2> QED BY <1>0, <2>1, LowestSplit
<1>3. PICK l, pl \in Nat : l = Lowest(x, c) /\ pl = Place(c) /\ l < pl /\ pl > 0
  <2>1. Figures(x, c) /\ c <= Room
    BY <1>0 DEF Figures
  <2> QED BY <2>1, LowestType, Places
<1>4. PICK d \in Nat : d = x[c] /\ d \in Digit
  <2>1. x[c] \in Digit
    BY DEF Figures
  <2> QED BY <2>1, DigitType
<1>5. PICK h, g \in Nat : h = d \div p /\ g = d % p /\ g < p /\ d = p * h + g
  <2>1. d \div p \in Nat /\ d % p \in Nat /\ d % p < p /\ d = p * (d \div p) + (d % p)
    BY ONLY <1>1, p \in Nat, d \in Nat, Quotient
  <2> QED BY <2>1
<1>6. c \in 0 .. Room - 1 /\ c <= Room
  BY <1>0
<1>7. Lowest(x, c + 1) = l + d * pl /\ Place(c + 1) = Base * pl
  BY <1>3, <1>4, <1>6, LowestPlaces, Places
<1>8. f[c] = g /\ g \in Digit
  <2>1. g <= d
    <3>1. p * h \in Nat
      BY <1>1
    <3> QED BY <1>5, <3>1
  <2>2. d < Base /\ Base \in Nat
    BY <1>4, DigitType, Bases
  <2> QED BY <1>1, <1>4, <1>5, <2>1, <2>2 DEF Digit
<1>9. Lowest(f, c) = l
  BY <1>3, <1>6, LowestAgrees
<1>10. Lowest(f, c + 1) = l + g * pl
  BY <1>3, <1>6, <1>8, <1>9, LowestPlaces
<1>11. Figures(f, c + 1)
  <2>1. \A i \in 0 .. c - 1 : f[i] \in Digit
    BY DEF Figures
  <2>2. \A i \in 0 .. c + 1 - 1 : i = c \/ i \in 0 .. c - 1
    OBVIOUS
  <2> QED BY <1>8, <2>1, <2>2 DEF Figures
<1>12. PICK e \in Nat, r \in Nat, k \in Nat, v \in Nat :
         e = pl * p /\ r = l + g * pl /\ k = q * u + h /\ v = Lowest(x, m) /\ e > 0
  <2>1. Lowest(x, m) \in Nat
    BY LowestType
  <2>2. pl * p \in Nat /\ pl * p > 0
    <3>1. PICK o \in Nat : p = o + 1
      <4>1. p - 1 \in Nat
        BY <1>1
      <4> QED BY <4>1
    <3>2. pl * p = pl * o + pl /\ pl * o \in Nat
      BY <3>1
    <3> QED BY <1>3, <3>2
  <2>3. l + g * pl \in Nat /\ q * u + h \in Nat
    OBVIOUS
  <2> QED BY ONLY <2>1, <2>2, <2>3
<1>13. r < e
  <2>1. l + g * pl < p * pl
    BY <1>3, <1>5, DigitMore
  <2>2. p * pl = pl * p
    OBVIOUS
  <2> QED BY <1>12, <2>1, <2>2
<1>14. v = e * k + r
  <2>1. v = (p * q * pl) * u + (l + d * pl)
    <3>1. Base * pl = p * q * pl
      BY <1>1
    <3> QED BY <1>2, <1>7, <1>12, <3>1
  <2>2. d * pl = (p * h + g) * pl
    BY <1>5
  <2>3. (p * q * pl) * u + (l + (p * h + g) * pl) = (pl * p) * (q * u + h) + (l + g * pl)
    OBVIOUS
  <2> QED BY <1>12, <2>1, <2>2, <2>3
<1>15. v % e = r
  <2>1. e > 0 /\ r < e /\ v = e * k + r
    BY <1>12, <1>13, <1>14
  <2> QED BY ONLY <2>1, e \in Nat, r \in Nat, k \in Nat, v \in Nat, QuotientIs
<1> QED BY <1>1, <1>3, <1>10, <1>11, <1>12, <1>15

\* What ztrunc keeps of y, in the place of e.
Clipped(e, y, used, same) ==
  LET fit == Ensure([e EXCEPT !.used = used, !.sign = y.sign], used)
  IN IF same THEN [e EXCEPT !.used = used]
             ELSE [fit EXCEPT !.chars = MemCpy(@, 0, y.chars, 0, used)]

Clips(e, y, used, same) ==
  /\ e \in Number /\ y \in Number /\ same \in BOOLEAN /\ (same => e = y)
  /\ used \in Nat /\ used <= y.used /\ y.used <= MaxUsed /\ y.used <= y.alloced

LEMMA ClippedIs ==
  ASSUME NEW e, NEW y, NEW used, NEW same, Clips(e, y, used, same), NEW r, r = Clipped(e, y, used, same)
  PROVE  /\ r \in Number /\ r.sign = y.sign /\ r.used = used /\ used <= r.alloced
         /\ \A i \in 0 .. used - 1 : r.chars[i] = y.chars[i]
<1> /\ e \in Number /\ y \in Number /\ same \in BOOLEAN /\ (same => e = y)
    /\ used \in Nat /\ used <= y.used /\ y.used <= MaxUsed /\ y.used <= y.alloced
  BY DEF Clips
<1>0. /\ Room \in Nat /\ MaxUsed \in Nat /\ MaxUsed < Room /\ MostChars \in Nat
      /\ y.used \in Nat /\ y.alloced \in Nat /\ used <= MaxUsed /\ used \in 0 .. MostChars
  <2>1. y.used \in Nat /\ y.alloced \in Nat
    BY DEF Number
  <2> QED BY <2>1, MostIs
<1>1. \A i \in 0 .. used - 1 : i \in Index
  BY <1>0 DEF Index
<1>2. e = [sign |-> e.sign, used |-> e.used, alloced |-> e.alloced, chars |-> e.chars]
  BY DEF Number
<1>3. CASE same
  <2>1. r = [sign |-> e.sign, used |-> used, alloced |-> e.alloced, chars |-> e.chars]
    BY <1>2, <1>3 DEF Clipped
  <2>2. used <= y.alloced
    BY <1>0
  <2>3. r \in Number
    BY <2>1 DEF Number
  <2>4. e = y
    BY <1>3
  <2>5. r.sign = y.sign /\ r.used = used /\ r.alloced = y.alloced /\ r.chars = y.chars
    BY ONLY <2>1, <2>4
  <2> QED BY ONLY <2>2, <2>3, <2>5
<1>4. CASE ~same
  <2>1. PICK d : d = [e EXCEPT !.used = used, !.sign = y.sign]
    OBVIOUS
  <2>2. d = [sign |-> y.sign, used |-> used, alloced |-> e.alloced, chars |-> e.chars]
    BY ONLY <2>1, <1>2
  <2>3. d \in Number /\ d.used = used /\ d.sign = y.sign
    BY <2>2 DEF Number
  <2>4. PICK fit : fit = Ensure(d, used)
    OBVIOUS
  <2>5. fit \in Number /\ fit.used = used /\ fit.sign = y.sign /\ fit.alloced >= used
    BY <1>0, <2>3, <2>4, EnsureIs
  <2>6. PICK f : f = MemCpy(fit.chars, 0, y.chars, 0, used)
    OBVIOUS
  <2>7. /\ f \in [Index -> Character]
        /\ \A i \in Index : f[i] = IF i \in 0 .. 0 + Copied(used) - 1 THEN y.chars[i] ELSE fit.chars[i]
    <3>1. fit.chars \in [Index -> Character] /\ y.chars \in [Index -> Character] /\ 0 \in Nat
      BY <2>5 DEF Number
    <3> QED BY ONLY <2>6, <3>1, used \in Nat, MemCpyIs
  <2>8. r = [fit EXCEPT !.chars = f]
    BY <1>4, <2>1, <2>4, <2>6 DEF Clipped
  <2>9. r \in Number /\ r.sign = y.sign /\ r.used = used /\ r.alloced = fit.alloced /\ r.chars = f
    BY <2>5, <2>7, <2>8 DEF Number
  <2>10. ASSUME NEW i \in 0 .. used - 1 PROVE f[i] = y.chars[i]
    <3>1. used <= Copied(used) /\ Copied(used) \in Nat
      BY ChunksIs
    <3>2. i \in 0 .. 0 + Copied(used) - 1
      BY <3>1
    <3> QED BY <1>1, <2>7, <3>2
  <2> QED BY <2>5, <2>9, <2>10
<1> QED BY <1>3, <1>4

LEMMA TrimTyped ==
  ASSUME NEW r \in Number, NEW sign \in {-1, 0, 1}, NEW q, q = TrimAndSign(r, sign)
  PROVE  q \in Number
<1>1. PICK n \in Nat : n = r.used
  BY DEF Number
<1>2. PICK t : t = Trim(r)
  OBVIOUS
<1>3. t \in Number
  <2>1. CASE n <= 0
    BY <1>1, <1>2, <2>1 DEF Trim, TrimTo
  <2>2. CASE ~(n <= 0)
    <3>1. PICK S : S = {0} \cup {i + 1 : i \in {k \in 0 .. r.used - 1 : r.chars[k] # 0}}
      OBVIOUS
    <3>2. S \in SUBSET (0 .. n) /\ S # {}
      BY <1>1, <3>1
    <3>3. Max(S) \in Nat
      <4>1. Max(S) \in S
        BY <3>2, MaxIs
      <4>2. Max(S) \in 0 .. n
        BY ONLY <3>2, <4>1
      <4> QED BY ONLY <4>2, n \in Nat
    <3>4. t = [r EXCEPT !.used = Max(S)]
      BY <1>1, <1>2, <2>2, <3>1 DEF Trim, TrimTo
    <3> QED BY <3>3, <3>4 DEF Number
  <2> QED BY <2>1, <2>2
<1>4. q = [t EXCEPT !.sign = IF t.used = 0 THEN 0 ELSE sign]
  BY <1>2 DEF TrimAndSign
<1> QED BY <1>3, <1>4 DEF Number

\* ztrunc takes the remainder by a power of two.
LEMMA ZTruncIs ==
  ASSUME NEW s, Store(s), NEW a \in Var, NEW b \in Var, s[a] \in Number, Held(s[b]),
         NEW n \in Shift, NEW v, v = AbsOf(Value(s[b])), NEW t, t = ZTrunc(s, a, b, n)
  PROVE  /\ Is(t[a], s[b].sign * (v % Power(2, n))) /\ t[a] \in Number
         /\ Store(t) /\ \A x \in Var : x # a => t[x] = s[x]
<1>0. n \in Nat /\ v \in Nat
  BY ShiftIs, AbsIs
<1>1. PICK two \in Nat : two = Power(2, n) /\ two > 0
  BY <1>0, TwoPlaces
<1>2. CASE s[b].sign = 0
  <2>1. t = [s EXCEPT ![a] = [s[a] EXCEPT !.sign = 0]]
    BY <1>2 DEF ZTrunc, SetSign
  <2>2. Store(t) /\ t[a] = [s[a] EXCEPT !.sign = 0] /\ \A x \in Var : x # a => t[x] = s[x]
    BY ONLY <2>1, Store(s), a \in Var DEF Store
  <2>3. t[a] \in Number /\ t[a].sign = 0
    BY <2>2 DEF Number
  <2>4. Is(t[a], 0)
    BY <2>3, ZeroIs
  <2>5. 0 * (v % two) = 0
    <3>1. v % two \in Nat
      BY <1>0, <1>1, Quotient
    <3> QED BY <3>1
  <2> QED BY <1>1, <1>2, <2>2, <2>3, <2>4, <2>5
<1>3. CASE s[b].sign # 0
  <2>1. PICK c \in Nat, j \in 0 .. Bits - 1 : c = n \div Bits /\ j = n % Bits
    BY ShiftIs
  <2>2. PICK p \in Nat, pl \in Nat : /\ p = Power(2, j) /\ pl = Place(c) /\ p > 0 /\ pl > 0 /\ two = pl * p
                                     /\ (j = 0 => two = pl)
    <3>1. Power(2, n) = Place(c) * Power(2, j) /\ (j = 0 => Power(2, n) = Place(c))
      BY <1>0, <2>1, TwoPlaces
    <3>2. Place(c) \in Nat /\ Place(c) > 0
      BY Places
    <3> QED BY <1>1, <2>1, <3>1, <3>2, Parts
  <2>3. PICK sign \in {-1, 0, 1} : sign = s[b].sign
    BY HeldIs
  <2>4. PICK y, e, same : y = s[b] /\ e = s[a] /\ same = (a = b) /\ same \in BOOLEAN
    OBVIOUS
  <2>5. y \in Number /\ e \in Number /\ (same => e = y)
    BY <2>4 DEF Held
  <2>6. PICK m \in Nat, x \in {y.chars} : /\ m = y.used /\ m <= MaxUsed /\ m <= Room /\ m <= y.alloced /\ x = y.chars
                            /\ Figures(x, m) /\ Lowest(x, m) = v /\ v < Place(m)
    <3>1. s[b].used \in Nat /\ s[b].used <= s[b].alloced
      BY <1>3 DEF Held, Number
    <3> QED BY <1>3, <2>4, <3>1, HeldIs, AbsIs, MostIs
  <2>7. PICK used, bits : used = Smallest(Kept(n), m) /\ bits = KeptBits(n, m)
    OBVIOUS
  <2>8. /\ used \in Nat /\ used <= m
        /\ \/ used = m /\ bits = 0 /\ Place(m) <= two
           \/ used = c /\ j = 0 /\ bits = 0
           \/ used = c + 1 /\ j # 0 /\ bits = j
    <3>1. /\ used \in Nat /\ used <= m /\ c \in Nat /\ j \in 0 .. Bits - 1
          /\ \/ used = m /\ KeptBits(n, m) = 0 /\ Place(m) <= Power(2, n)
             \/ used = c /\ j = 0 /\ KeptBits(n, m) = 0
             \/ used = c + 1 /\ j # 0 /\ KeptBits(n, m) = j
      <4>1. Keeps(n, m, used, c, j)
        BY <1>0, <2>1, <2>7 DEF Keeps
      <4> QED BY ONLY <4>1, KeptIs
    <3> QED BY ONLY <1>1, <2>7, <3>1
  <2>9. PICK r : r = Clipped(e, y, used, same)
    OBVIOUS
  <2>10. PICK cut : cut = IF bits = 0 THEN r
                          ELSE [r EXCEPT !.chars[used - 1] = r.chars[used - 1] % Power(2, bits)]
    OBVIOUS
  <2>11. PICK g : g = TrimAndSign(cut, cut.sign)
    OBVIOUS
  <2>12. t = [s EXCEPT ![a] = g]
    <3>1. ZTrunc(s, a, b, n)
            = LET h == IF a = b THEN [s[a] EXCEPT !.used = used]
                       ELSE LET fit == Ensure([s[a] EXCEPT !.used = used, !.sign = s[b].sign], used)
                            IN [fit EXCEPT !.chars = MemCpy(@, 0, s[b].chars, 0, used)]
                  k == IF bits = 0 THEN h
                       ELSE [h EXCEPT !.chars[used - 1] = h.chars[used - 1] % Power(2, bits)]
              IN [s EXCEPT ![a] = TrimAndZero(k)]
      BY <1>3, <2>4, <2>6, <2>7 DEF ZTrunc, Kept, KeptBits
    <3>2. r = IF a = b THEN [s[a] EXCEPT !.used = used]
              ELSE LET fit == Ensure([s[a] EXCEPT !.used = used, !.sign = s[b].sign], used)
                   IN [fit EXCEPT !.chars = MemCpy(@, 0, s[b].chars, 0, used)]
      BY <2>4, <2>9 DEF Clipped
    <3> QED BY <2>10, <2>11, <3>1, <3>2 DEF TrimAndZero
  <2>13. /\ r \in Number /\ r.sign = sign /\ r.used = used /\ used <= r.alloced
         /\ \A i \in 0 .. used - 1 : r.chars[i] = x[i]
    <3>1. used \in Nat /\ used <= y.used /\ y.used <= MaxUsed /\ y.used <= y.alloced
      BY <2>6, <2>8
    <3>2. /\ r \in Number /\ r.sign = y.sign /\ r.used = used /\ used <= r.alloced
          /\ \A i \in 0 .. used - 1 : r.chars[i] = y.chars[i]
      <4>1. Clips(e, y, used, same)
        BY <2>4, <2>5, <3>1 DEF Clips
      <4> QED BY ONLY <2>9, <4>1, ClippedIs
    <3> QED BY <2>3, <2>4, <2>6, <3>2
  <2>14. used <= Room /\ r.alloced \in Nat
    BY <2>6, <2>8, <2>13, MostIs DEF Number
  <2>15. /\ cut \in Number /\ cut.sign = sign /\ cut.used = used /\ cut.alloced = r.alloced
         /\ Figures(cut.chars, used) /\ Lowest(cut.chars, used) = v % two
    <3>1. CASE bits = 0
      <4>1. cut = r
        BY <2>10, <3>1
      <4>2. Figures(r.chars, used)
        BY <2>6, <2>8, <2>13 DEF Figures
      <4>3. Lowest(r.chars, used) = Lowest(x, used)
        BY <2>8, <2>13, <2>14, LowestAgrees
      <4>4. Lowest(x, used) = v % two
        <5>1. CASE used = m /\ Place(m) <= two
          <6>1. v < two
            <7>1. Place(m) \in Nat
              BY Places
            <7> QED BY <1>0, <2>6, <5>1, <7>1
          <6>2. v % two = v
            BY <1>0, <1>1, <6>1, SmallRemainder
          <6> QED BY <2>6, <5>1, <6>2
        <5>2. CASE used = c /\ j = 0
          <6>1. Lowest(x, m) % Place(c) = Lowest(x, c)
            BY <2>6, <2>8, <5>2, LowestSplit
          <6> QED BY <2>2, <2>6, <5>2, <6>1
        <5> QED BY <2>8, <3>1, <5>1, <5>2
      <4> QED BY <2>13, <4>1, <4>2, <4>3, <4>4
    <3>2. CASE bits # 0
      <4>1. used = c + 1 /\ bits = j /\ c < m
        BY <2>8, <3>2
      <4>2. PICK f : f = [r.chars EXCEPT ![c] = r.chars[c] % Power(2, j)]
        OBVIOUS
      <4>3. cut = [r EXCEPT !.chars = f]
        BY <2>10, <3>2, <4>1, <4>2
      <4>4. r.chars \in [Index -> Character] /\ c \in Index /\ r.chars[c] = x[c]
        <5>1. c \in 0 .. used - 1 /\ c \in Index
          BY <2>6, <4>1, MostIs DEF Index
        <5> QED BY <2>13, <5>1 DEF Number
      <4>5. f[c] = x[c] % Power(2, j) /\ \A i \in 0 .. c - 1 : f[i] = x[i]
        <5>1. f[c] = x[c] % Power(2, j)
          BY <4>2, <4>4
        <5>2. ASSUME NEW i \in 0 .. c - 1 PROVE f[i] = x[i]
          <6>1. i \in 0 .. used - 1 /\ i # c /\ i \in Index
            BY <2>6, <4>1, MostIs DEF Index
          <6> QED BY <2>13, <4>2, <4>4, <6>1
        <5> QED BY <5>1, <5>2
      <4>6. Figures(f, c + 1) /\ Lowest(f, c + 1) = Lowest(x, m) % (Place(c) * Power(2, j))
        BY <2>6, <4>1, <4>5, CutIs
      <4>7. f \in [Index -> Character]
        <5>1. f[c] \in Digit
          <6>1. c \in 0 .. c + 1 - 1
            OBVIOUS
          <6> QED BY <4>6, <6>1 DEF Figures
        <5>2. r.chars[c] % Power(2, j) \in Character
          BY <4>2, <4>4, <5>1 DEF Character
        <5> QED BY <4>2, <4>4, <5>2
      <4>8. cut \in Number /\ cut.sign = sign /\ cut.used = used /\ cut.alloced = r.alloced /\ cut.chars = f
        BY <2>13, <4>3, <4>7 DEF Number
      <4> QED BY <2>2, <2>6, <4>1, <4>6, <4>8
    <3> QED BY <3>1, <3>2
  <2>16. Is(g, sign * (v % two))
    <3>1. Shaped(cut)
      BY <2>15, NumberShaped
    <3>2. PICK w : w = Lowest(cut.chars, used) /\ w = v % two
      BY <2>15
    <3>3. /\ cut.used = used /\ used <= Room /\ Figures(cut.chars, used) /\ cut.alloced \in Nat /\ used <= cut.alloced
          /\ w = Lowest(cut.chars, used) /\ g = TrimAndSign(cut, sign)
      BY <2>11, <2>13, <2>14, <2>15, <3>2
    <3>4. Is(g, sign * w)
      BY ONLY <2>8, <3>1, <3>3, sign \in {-1, 0, 1}, TrimmedIs
    <3> QED BY <3>2, <3>4
  <2>17. g \in Number
    BY <2>11, <2>15, TrimTyped
  <2>18. Store(t) /\ t[a] = g /\ \A i \in Var : i # a => t[i] = s[i]
    BY ONLY <2>12, Store(s), a \in Var DEF Store
  <2> QED BY <1>1, <2>3, <2>16, <2>17, <2>18
<1> QED BY <1>2, <1>3

LEMMA SignIs ==
  ASSUME NEW r, Held(r)
  PROVE  Sign(Value(r)) = r.sign
<1>1. r.sign \in {-1, 0, 1} /\ Value(r) \in Int
  BY HeldIs
<1>2. (r.sign < 0 <=> Value(r) < 0) /\ (r.sign > 0 <=> Value(r) > 0)
  BY ValueIs
<1> QED BY <1>1, <1>2 DEF Sign

\* zsplit leaves what zrsh and ztrunc would, and starts with the part that does not
\* replace what it splits.
LEMMA ZSplitIs ==
  ASSUME NEW s \in [Var -> Number], NEW high \in Var, NEW low \in Var, NEW b \in Var, high # low,
         Held(s[b]), NEW n \in Shift, NEW v, v = AbsOf(Value(s[b])), NEW t, t = ZSplit(s, high, low, b, n)
  PROVE  Is(t[high], s[b].sign * (v \div Power(2, n))) /\ Is(t[low], s[b].sign * (v % Power(2, n)))
<1>1. Store(s) /\ s[low] \in Number
  BY TypedStores
<1>2. CASE high = b
  <2>1. PICK u : u = ZTrunc(s, low, b, n)
    OBVIOUS
  <2>2. /\ Is(u[low], s[b].sign * (v % Power(2, n))) /\ u[low] \in Number
        /\ Store(u) /\ \A x \in Var : x # low => u[x] = s[x]
    BY <1>1, <2>1, ZTruncIs
  <2>3. u \in [Var -> Number]
    <3>1. \A x \in Var : u[x] \in Number
      BY <2>2
    <3> QED BY <2>2, <3>1 DEF Store
  <2>4. u[b] = s[b]
    BY <1>2, <2>2
  <2>5. t = ZRsh(u, b, b, n)
    BY <1>2, <2>1 DEF ZSplit
  <2>6. Is(t[b], s[b].sign * (v \div Power(2, n))) /\ Apart(t, u, b, b)
    BY <2>3, <2>4, <2>5, ZRshIs
  <2>7. t[low] = u[low]
    BY <1>2, <2>6 DEF Apart
  <2> QED BY <1>2, <2>2, <2>6, <2>7
<1>3. CASE high # b
  <2>1. PICK u : u = ZRsh(s, high, b, n)
    OBVIOUS
  <2>2. Is(u[high], s[b].sign * (v \div Power(2, n))) /\ Apart(u, s, high, b)
    BY <2>1, ZRshIs
  <2>3. Store(u) /\ Held(u[b]) /\ Value(u[b]) = Value(s[b])
    BY <1>3, <2>2 DEF Apart
  <2>4. u[low] \in Number
    <3>1. CASE low = b
      BY <2>3, <3>1 DEF Held
    <3>2. CASE low # b
      BY <2>2, <3>2 DEF Apart
    <3> QED BY <3>1, <3>2
  <2>5. t = ZTrunc(u, low, b, n)
    BY <1>3, <2>1 DEF ZSplit
  <2>6. Is(t[low], u[b].sign * (v % Power(2, n))) /\ \A x \in Var : x # low => t[x] = u[x]
    BY <2>3, <2>4, <2>5, ZTruncIs
  <2>7. u[b].sign = s[b].sign
    BY <2>3, SignIs
  <2> QED BY <2>2, <2>6, <2>7
<1> QED BY <1>2, <1>3

------------------------------------------------------------------------------
(* Every call.                                                               *)

BitsRight(k, s, t) ==
  LET Gives(i, value) == Is(t[k.p[i]], value)
      Part(routine) == Shifted([k EXCEPT !.routine = routine, !.p = <<"a", @[3]>>], s)
  IN /\ k.routine \in Shifts => Gives(1, Shifted(k, s))
     /\ k.routine = "zsplit" => Gives(1, Part("zrsh")) /\ Gives(2, Part("ztrunc"))
     /\ k.routine \in Bitwise2 => Gives(1, Combined(k, s, SkippedBits(k, s)))
     /\ k.routine \in Single => (Gives(1, Flipped(k, s)) <=> ~NotWithoutRoom(k, s))

LEMMA ShiftedIs ==
  ASSUME NEW k, NEW s, NEW b, k.p[2] = b, Held(s[b]), NEW v, v = AbsOf(Value(s[b]))
  PROVE  /\ k.routine = "zlsh" => Shifted(k, s) = s[b].sign * (v * Power(2, k.n))
         /\ k.routine = "zrsh" => Shifted(k, s) = s[b].sign * (v \div Power(2, k.n))
         /\ k.routine = "ztrunc" => Shifted(k, s) = s[b].sign * (v % Power(2, k.n))
BY SignIs DEF Shifted

LEMMA ShiftRight ==
  ASSUME NEW s, Ready(s), NEW p \in Pairs, NEW n \in Shift, NEW k, k.p = p, k.n = n, NEW t,
         \/ k.routine = "zlsh" /\ t = ZLsh(s, p[1], p[2], n)
         \/ k.routine = "zrsh" /\ t = ZRsh(s, p[1], p[2], n)
         \/ k.routine = "ztrunc" /\ t = ZTrunc(s, p[1], p[2], n)
  PROVE  BitsRight(k, s, t)
<1>1. PICK a \in Var, b \in Var : /\ a = p[1] /\ b = p[2] /\ s \in [Var -> Number] /\ Held(s[b])
                                  /\ Store(s) /\ s[a] \in Number
  BY TriplesAre, ReadyIs, TypedStores
<1>2. PICK v : v = AbsOf(Value(s[b]))
  OBVIOUS
<1>3. Is(t[a], Shifted(k, s))
  <2>1. CASE k.routine = "zlsh" /\ t = ZLsh(s, p[1], p[2], n)
    <3>1. Is(t[a], s[b].sign * (v * Power(2, n)))
      BY <1>1, <1>2, <2>1, ZLshIs
    <3> QED BY <1>1, <1>2, <2>1, <3>1, ShiftedIs
  <2>2. CASE k.routine = "zrsh" /\ t = ZRsh(s, p[1], p[2], n)
    <3>1. Is(t[a], s[b].sign * (v \div Power(2, n)))
      BY <1>1, <1>2, <2>2, ZRshIs
    <3> QED BY <1>1, <1>2, <2>2, <3>1, ShiftedIs
  <2>3. CASE k.routine = "ztrunc" /\ t = ZTrunc(s, p[1], p[2], n)
    <3>1. Is(t[a], s[b].sign * (v % Power(2, n)))
      BY <1>1, <1>2, <2>3, ZTruncIs
    <3> QED BY <1>1, <1>2, <2>3, <3>1, ShiftedIs
  <2> QED BY <2>1, <2>2, <2>3
<1> QED BY <1>1, <1>3 DEF BitsRight, Bitwise2, Single

LEMMA SplitRight ==
  ASSUME NEW s, Ready(s), NEW p \in {<<"a", "c", "b">>, <<"b", "c", "b">>, <<"a", "b", "b">>},
         NEW n \in Shift, NEW x, NEW k, k = [routine |-> "zsplit", p |-> p, n |-> n, returned |-> x],
         NEW t, t = ZSplit(s, p[1], p[2], p[3], n)
  PROVE  BitsRight(k, s, t)
<1>1. PICK high \in Var, low \in Var, b \in Var :
         high = p[1] /\ low = p[2] /\ b = p[3] /\ high # low /\ s \in [Var -> Number] /\ Held(s[b])
  BY ReadyIs DEF Var
<1>2. PICK v : v = AbsOf(Value(s[b]))
  OBVIOUS
<1>3. Is(t[high], s[b].sign * (v \div Power(2, n))) /\ Is(t[low], s[b].sign * (v % Power(2, n)))
  BY <1>1, <1>2, ZSplitIs
<1>4. PICK h : h = [k EXCEPT !.routine = "zrsh", !.p = <<"a", @[3]>>]
  OBVIOUS
<1>5. PICK l : l = [k EXCEPT !.routine = "ztrunc", !.p = <<"a", @[3]>>]
  OBVIOUS
<1>6. h.routine = "zrsh" /\ h.p[2] = b /\ h.n = n /\ l.routine = "ztrunc" /\ l.p[2] = b /\ l.n = n
  BY <1>1, <1>4, <1>5
<1>7. Shifted(h, s) = s[b].sign * (v \div Power(2, n)) /\ Shifted(l, s) = s[b].sign * (v % Power(2, n))
  BY <1>1, <1>2, <1>6, ShiftedIs
<1>8. Is(t[k.p[1]], Shifted(h, s)) /\ Is(t[k.p[2]], Shifted(l, s))
  BY <1>1, <1>3, <1>7
<1>9. k.routine = "zsplit"
  OBVIOUS
<1> QED BY ONLY <1>4, <1>5, <1>8, <1>9 DEF BitsRight, Shifts, Bitwise2, Single

Combines(k, s, z) ==
  LET v == Value(s[k.p[2]])  w == Value(s[k.p[3]])
  IN /\ k.routine = "zand" =>
          z = (IF v < 0 /\ w < 0 THEN -1 ELSE 1) * FromOnes(Ones(v) \cap Ones(w))
     /\ k.routine = "zor" =>
          z = (IF v < 0 \/ w < 0 THEN -1 ELSE 1) * FromOnes(Mixed("or", s, k.p[1], k.p[2], k.p[3]))
     /\ k.routine = "zxor" =>
          z = (IF (v < 0) # (w < 0) THEN -1 ELSE 1)
                * FromOnes(Mixed("xor", s, k.p[1], k.p[2], k.p[3]))

LEMMA CombinedIs ==
  ASSUME NEW k, NEW s
  PROVE  Combines(k, s, Combined(k, s, SkippedBits(k, s)))
<1>0. PICK a, b, c, v, w : /\ k.p[1] = a /\ k.p[2] = b /\ k.p[3] = c
                           /\ v = Value(s[b]) /\ w = Value(s[c])
  OBVIOUS
<1>1. PICK skip : skip = SkippedBits(k, s)
  OBVIOUS
<1>2. Combined(k, s, skip) = CombinedSign(k, v, w)
        * FromOnes((CombinedOnes(k, v, w) \ skip) \cup (skip \cap Ones(Value(s[a]))))
  BY <1>0 DEF Combined
<1>3. CASE k.routine = "zand"
  <2>1. skip = {}
    BY <1>1, <1>3 DEF SkippedBits
  <2>2. CombinedSign(k, v, w) = IF v < 0 /\ w < 0 THEN -1 ELSE 1
    BY <1>3 DEF CombinedSign
  <2>3. CombinedOnes(k, v, w) = Ones(v) \cap Ones(w)
    BY <1>3 DEF CombinedOnes
  <2>4. ((Ones(v) \cap Ones(w)) \ {}) \cup ({} \cap Ones(Value(s[a]))) = Ones(v) \cap Ones(w)
    OBVIOUS
  <2> QED BY <1>0, <1>1, <1>2, <1>3, <2>1, <2>2, <2>3, <2>4 DEF Combines
<1>4. CASE k.routine \in {"zor", "zxor"}
  <2>1. skip = Skips(s, a, b, c)
    BY <1>0, <1>1, <1>4 DEF SkippedBits, Skips
  <2>2. CASE k.routine = "zor"
    <3>1. CombinedSign(k, v, w) = IF v < 0 \/ w < 0 THEN -1 ELSE 1
      BY <2>2 DEF CombinedSign
    <3>2. CombinedOnes(k, v, w) = Bitwise("or", Ones(v), Ones(w))
      BY <2>2 DEF CombinedOnes, Bitwise
    <3> QED BY <1>0, <1>1, <1>2, <2>1, <2>2, <3>1, <3>2 DEF Combines, Mixed
  <2>3. CASE k.routine = "zxor"
    <3>1. CombinedSign(k, v, w) = IF (v < 0) # (w < 0) THEN -1 ELSE 1
      BY <2>3 DEF CombinedSign
    <3>2. CombinedOnes(k, v, w) = Bitwise("xor", Ones(v), Ones(w))
      BY <2>3 DEF CombinedOnes, Bitwise
    <3> QED BY <1>0, <1>1, <1>2, <2>1, <2>3, <3>1, <3>2 DEF Combines, Mixed
  <2> QED BY <1>4, <2>2, <2>3
<1>5. CASE k.routine \notin {"zand", "zor", "zxor"}
  BY <1>5 DEF Combines
<1> QED BY <1>3, <1>4, <1>5

LEMMA BitwiseRight ==
  ASSUME NEW s, Ready(s), NEW p \in Triples, NEW k, k.p = p, NEW t,
         \/ k.routine = "zand" /\ t = ZAnd(s, p[1], p[2], p[3])
         \/ k.routine = "zor" /\ t = ZOr(s, p[1], p[2], p[3])
         \/ k.routine = "zxor" /\ t = ZXor(s, p[1], p[2], p[3])
  PROVE  BitsRight(k, s, t)
<1>1. PICK a \in Var, b \in Var, c \in Var :
         a = p[1] /\ b = p[2] /\ c = p[3] /\ s \in [Var -> Number] /\ Held(s[b]) /\ Held(s[c])
  BY TriplesAre, ReadyIs
<1>2. PICK v, w : v = Value(s[b]) /\ w = Value(s[c])
  OBVIOUS
<1>3. PICK z : z = Combined(k, s, SkippedBits(k, s)) /\ Combines(k, s, z)
  BY CombinedIs
<1>4. Is(t[a], z)
  <2>1. CASE k.routine = "zand" /\ t = ZAnd(s, p[1], p[2], p[3])
    <3>1. t = ZAnd(s, a, b, c)
      BY <1>1, <2>1
    <3>2. Is(t[a], (IF v < 0 /\ w < 0 THEN -1 ELSE 1) * FromOnes(Ones(v) \cap Ones(w)))
      BY <1>1, <1>2, <3>1, ZAndIs
    <3> QED BY <1>1, <1>2, <1>3, <2>1, <3>2 DEF Combines
  <2>2. CASE k.routine = "zor" /\ t = ZOr(s, p[1], p[2], p[3])
    <3>1. t = ZOr(s, a, b, c)
      BY <1>1, <2>2
    <3>2. Is(t[a], (IF v < 0 \/ w < 0 THEN -1 ELSE 1) * FromOnes(Mixed("or", s, a, b, c)))
      BY <1>1, <1>2, <3>1, ZOrIs
    <3> QED BY <1>1, <1>2, <1>3, <2>2, <3>2 DEF Combines
  <2>3. CASE k.routine = "zxor" /\ t = ZXor(s, p[1], p[2], p[3])
    <3>1. t = ZXor(s, a, b, c)
      BY <1>1, <2>3
    <3>2. Is(t[a], (IF (v < 0) # (w < 0) THEN -1 ELSE 1) * FromOnes(Mixed("xor", s, a, b, c)))
      BY <1>1, <1>2, <3>1, ZXorIs
    <3> QED BY <1>1, <1>2, <1>3, <2>3, <3>2 DEF Combines
  <2> QED BY <2>1, <2>2, <2>3
<1> QED BY <1>1, <1>3, <1>4 DEF BitsRight, Shifts, Single

LEMMA NotRight ==
  ASSUME NEW s, Ready(s), NEW p \in Pairs, NEW k, k.p = p, k.routine = "znot", NEW t,
         t = ZNot(s, p[1], p[2])
  PROVE  BitsRight(k, s, t)
<1>1. PICK a \in Var, b \in Var : a = p[1] /\ b = p[2] /\ s \in [Var -> Number] /\ Held(s[b])
  BY TriplesAre, ReadyIs
<1>2. PICK v, m, z : v = Value(s[b]) /\ m = FromOnes(Noughts(v)) /\ z = Flipped(k, s)
  OBVIOUS
<1>3. v \in Int /\ (s[b].sign = 0 <=> v = 0) /\ Sign(v) = s[b].sign
  BY <1>1, <1>2, ValueIs, HeldIs, SignIs
<1>4. z = IF v = 0 THEN 0 ELSE -s[b].sign * m
  BY <1>1, <1>2, <1>3 DEF Flipped, Noughts
<1>5. Is(t[a], z) <=> ~NotWithoutRoom(k, s)
  <2>1. CASE s[b].sign = 0
    <3>1. Is(t[a], 0)
      BY <1>1, <1>2, <2>1, ZNotIs
    <3>2. ~NotWithoutRoom(k, s)
      BY <1>1, <2>1 DEF NotWithoutRoom
    <3> QED BY <1>3, <1>4, <2>1, <3>1, <3>2
  <2>2. CASE s[b].sign # 0
    <3>1. m \in Nat /\ (Is(t[a], -s[b].sign * m) <=> m < Place(s[a].alloced))
      BY <1>1, <1>2, <2>2, ZNotIs
    <3>2. PICK sign \in {-1, 1} : sign = s[b].sign
      BY <1>1, <2>2, HeldIs
    <3>3. z = -sign * m
      BY <1>3, <1>4, <2>2, <3>2
    <3>4. AbsOf(z) = m
      BY <3>1, <3>2, <3>3 DEF AbsOf
    <3>5. s[a].alloced \in Nat
      BY <1>1 DEF Number
    <3>6. PICK size \in Nat : size = Power(Base, s[a].alloced) /\ size = Place(s[a].alloced)
      BY <3>5, Places
    <3>7. NotWithoutRoom(k, s) <=> m >= size
      BY <1>1, <1>2, <2>2, <3>4, <3>6 DEF NotWithoutRoom
    <3>8. m >= size <=> ~(m < size)
      BY <3>1
    <3>9. Is(t[a], z) <=> m < size
      BY <3>1, <3>2, <3>3, <3>6
    <3> QED BY <3>7, <3>8, <3>9
  <2> QED BY <2>1, <2>2
<1> QED BY <1>1, <1>2, <1>5 DEF BitsRight, Shifts, Bitwise2

LEMMA BitRight ==
  ASSUME NEW s, Ready(s), NEW p \in Pairs, NEW n \in Shift, NEW action \in {SetBit, ClearBit, FlipBit},
         NEW constant \in BOOLEAN, NEW k, k.p = p, k.n = n, k.routine = "zbset",
         k.returned.action = action, NEW t, t = ZBSet(s, p[1], p[2], n, action, constant)
  PROVE  BitsRight(k, s, t)
<1>1. PICK a \in Var, b \in Var : a = p[1] /\ b = p[2] /\ s \in [Var -> Number] /\ Held(s[b])
  BY TriplesAre, ReadyIs
<1>2. PICK v : v = Value(s[b])
  OBVIOUS
<1>3. Is(t[a], (IF v < 0 THEN -1 ELSE 1) * FromOnes(Touched(action, v, n)))
  BY <1>1, <1>2, ZBSetIs
<1>4. Flipped(k, s) = (IF v < 0 THEN -1 ELSE 1) * FromOnes(Touched(action, v, n))
  BY <1>1, <1>2 DEF Flipped, Touched, SetBit, ClearBit, FlipBit
<1>5. ~NotWithoutRoom(k, s)
  BY DEF NotWithoutRoom
<1> QED BY <1>1, <1>3, <1>4, <1>5 DEF BitsRight, Shifts, Bitwise2

\* A step is right: its sum is exact, or its answer, or its bits.
Step(k, s, t) ==
  Exact(k, s, t) /\ Right(k, s) /\ BitsRight(k, s, t) /\ k # NoCall

LEMMA OneKind ==
  ASSUME NEW k, NEW s, NEW t
  PROVE  /\ k.routine \in Sums \ {"zload"} /\ Exact(k, s, t) => Step(k, s, t)
         /\ k.routine = "zload" /\ Exact(k, s, t) /\ Right(k, s) => Step(k, s, t)
         /\ k.routine \in Answered /\ Right(k, s) => Step(k, s, t)
         /\ k.routine \in Shifts \cup {"zsplit"} \cup Bitwise2 \cup Single /\ BitsRight(k, s, t)
              => Step(k, s, t)
<1>1. k.routine \in Sums \/ k.routine \in Answered => BitsRight(k, s, t)
  BY DEF BitsRight, Sums, Answered, Shifts, Bitwise2, Single
<1>2. k.routine \in Answered \/ k.routine \in Shifts \cup {"zsplit"} \cup Bitwise2 \cup Single
        => Exact(k, s, t)
  BY DEF Exact, Sums, Answered, Shifts, Bitwise2, Single
<1>3. k.routine \in Sums \ {"zload"} \/ k.routine \in Shifts \cup {"zsplit"} \cup Bitwise2 \cup Single
        => Right(k, s)
  BY DEF Right, Sums, Answered, Shifts, Bitwise2, Single
<1>4. k.routine \in Sums \cup Answered \cup Shifts \cup {"zsplit"} \cup Bitwise2 \cup Single => k # NoCall
  BY DEF NoCall, Sums, Answered, Shifts, Bitwise2, Single
<1> QED BY <1>1, <1>2, <1>3, <1>4 DEF Step, Sums

\* Every step is a call of some routine, and right.
LEMMA StepIs ==
  ASSUME Before, Next
  PROVE  Step(call', num, num')
<1>0. PICK k, t : k = call' /\ t = num'
  OBVIOUS
<1>1. SUFFICES ASSUME Ready(num) PROVE Step(k, num, t)
  <2>1. call = NoCall
    BY CallIs DEF Next, Stores, Answers, CallZSaveZLoad, CallZSet, CallZNeg, CallZAbs, CallZSetU,
       CallZSetI, CallZCmpMag, CallZCmp, CallZCmpU, CallZCmpI, CallZBits, CallZLsb, CallZBTest,
       CallZAdd, CallZSub, CallZAddUnsigned, CallZSubUnsigned, CallZAddUnsignedAssign,
       CallZSubNonnegativeAssign, CallZSubPositiveAssign, CallZLsh, CallZRsh, CallZTrunc,
       CallZSplit, CallZAnd, CallZOr, CallZXor, CallZNot, CallZBSet
  <2> QED BY <1>0, <2>1 DEF Before
<1>2. CASE CallZSaveZLoad
  <2>1. PICK p \in Pairs :
          Calls("zload", p, 0, ZLoad(ZSave(num, p[2]), p[1], Saved(num[p[2]])),
                [chars |-> Saved(num[p[2]]).chars,
                 read |-> SavedSize(ZLoad(ZSave(num, p[2]), p[1], Saved(num[p[2]]))[p[1]])])
    BY <1>2 DEF CallZSaveZLoad
  <2>2. k.p = p /\ k.routine = "zload" /\ t = ZLoad(ZSave(num, p[2]), p[1], Saved(num[p[2]]))
    BY <1>0, <2>1 DEF Calls
  <2>3. k.returned = [chars |-> Saved(num[p[2]]).chars, read |-> SavedSize(t[p[1]])]
    BY <1>0, <2>1 DEF Calls
  <2>4. Exact(k, num, t)
    BY <1>1, <2>2, PairExact
  <2>5. Right(k, num)
    BY <1>1, <2>2, <2>3, LoadRight
  <2> QED BY <2>2, <2>4, <2>5, OneKind
<1>3. CASE CallZSet \/ CallZNeg \/ CallZAbs
  <2>1. PICK p \in Pairs : /\ k.p = p
                           /\ \/ k.routine = "zset" /\ t = ZSet(num, p[1], p[2])
                              \/ k.routine = "zneg" /\ t = ZNeg(num, p[1], p[2])
                              \/ k.routine = "zabs" /\ t = ZAbs(num, p[1], p[2])
    BY <1>0, <1>3, CallIs DEF CallZSet, CallZNeg, CallZAbs, Stores
  <2>2. Exact(k, num, t)
    BY <1>1, <2>1, PairExact
  <2>3. k.routine \in Sums \ {"zload"}
    BY <2>1 DEF Sums
  <2> QED BY <2>2, <2>3, OneKind
<1>4. CASE CallZSetU \/ CallZSetI
  <2>1. PICK n : /\ k.p = <<"b">> /\ k.n = n
                 /\ \/ n \in Digit /\ k.routine = "zsetu" /\ t = ZSetU(num, "b", n)
                    \/ n \in Int64 /\ k.routine = "zseti" /\ t = ZSetI(num, "b", n)
    BY <1>0, <1>4, CallIs DEF CallZSetU, CallZSetI, Stores
  <2>2. Exact(k, num, t)
    BY <1>1, <2>1, MachineExact
  <2>3. k.routine \in Sums \ {"zload"}
    BY <2>1 DEF Sums
  <2> QED BY <2>2, <2>3, OneKind
<1>5. CASE CallZAdd \/ CallZSub \/ CallZAddUnsigned \/ CallZSubUnsigned
  <2>1. PICK p \in Triples :
          /\ k.p = p
          /\ \/ k.routine = "zadd" /\ t = ZAdd(num, p[1], p[2], p[3])
             \/ k.routine = "zsub" /\ t = ZSub(num, p[1], p[2], p[3])
             \/ k.routine = "zadd_unsigned" /\ t = ZAddUnsigned(num, p[1], p[2], p[3])
             \/ k.routine = "zsub_unsigned" /\ t = ZSubUnsigned(num, p[1], p[2], p[3])
    BY <1>0, <1>5, CallIs DEF CallZAdd, CallZSub, CallZAddUnsigned, CallZSubUnsigned, Stores
  <2>2. Exact(k, num, t)
    BY <1>1, <2>1, TripleExact
  <2>3. k.routine \in Sums \ {"zload"}
    BY <2>1 DEF Sums
  <2> QED BY <2>2, <2>3, OneKind
<1>6. CASE CallZAddUnsignedAssign \/ CallZSubNonnegativeAssign \/ CallZSubPositiveAssign
  <2>1. /\ k.p = <<"b", "c">> /\ num["b"].sign >= 0 /\ num["c"].sign >= 0
        /\ \/ k.routine = "zadd_unsigned_assign" /\ t = ZAddUnsignedAssign(num, "b", "c")
           \/ /\ k.routine = "zsub_nonnegative_assign" /\ t = ZSubNonnegativeAssign(num, "b", "c")
              /\ Value(num["b"]) >= Value(num["c"])
           \/ /\ k.routine = "zsub_positive_assign"
              /\ t = ZSubPositiveAssign(Compared(num, "b", "c"), "b", "c")
              /\ num["b"].sign = 1 /\ num["c"].sign = 1 /\ ZCmpMag(num, "b", "c") = 1
    BY <1>0, <1>6, CallIs
       DEF CallZAddUnsignedAssign, CallZSubNonnegativeAssign, CallZSubPositiveAssign, Stores
  <2>2. Exact(k, num, t)
    BY <1>1, <2>1, InPlaceExact
  <2>3. k.routine \in Sums \ {"zload"}
    BY <2>1 DEF Sums
  <2> QED BY <2>2, <2>3, OneKind
<1>7. CASE \/ CallZCmpMag \/ CallZCmp \/ CallZCmpU \/ CallZCmpI
           \/ CallZBits \/ CallZLsb \/ CallZBTest
  <2>1. PICK n : /\ k.n = n
                 /\ \/ k.routine = "zcmpmag" /\ k.returned = ZCmpMag(num, "b", "c")
                    \/ k.routine = "zcmp" /\ k.returned = ZCmp(num, "b", "c")
                    \/ n \in Digit /\ k.routine = "zcmpu" /\ k.returned = ZCmpU(num, "b", n)
                    \/ n \in Int64 /\ k.routine = "zcmpi" /\ k.returned = ZCmpI(num, "b", n)
                    \/ k.routine = "zbits" /\ k.returned = ZBits(num, "b")
                    \/ n \in Builds /\ k.routine = "zlsb" /\ k.returned = ZLsb(num, "b", n)
                    \/ n \in Shift /\ k.routine = "zbtest" /\ k.returned = ZBTest(num, "b", n)
    BY <1>0, <1>7 DEF CallZCmpMag, CallZCmp, CallZCmpU, CallZCmpI, CallZBits, CallZLsb, CallZBTest,
                      Answers, Calls
  <2>2. Right(k, num)
    BY <1>1, <2>1, AnswerRight
  <2>3. k.routine \in Answered
    BY <2>1 DEF Answered
  <2> QED BY <2>2, <2>3, OneKind
<1>8. CASE CallZLsh \/ CallZRsh \/ CallZTrunc
  <2>1. PICK p \in Pairs, n \in Shift :
          /\ k.p = p /\ k.n = n
          /\ \/ k.routine = "zlsh" /\ t = ZLsh(num, p[1], p[2], n)
             \/ k.routine = "zrsh" /\ t = ZRsh(num, p[1], p[2], n)
             \/ k.routine = "ztrunc" /\ t = ZTrunc(num, p[1], p[2], n)
    BY <1>0, <1>8, CallIs DEF CallZLsh, CallZRsh, CallZTrunc, Stores
  <2>2. BitsRight(k, num, t)
    BY <1>1, <2>1, ShiftRight
  <2>3. k.routine \in Shifts
    BY <2>1 DEF Shifts
  <2> QED BY <2>2, <2>3, OneKind
<1>9. CASE CallZSplit
  <2>1. PICK p \in {<<"a", "c", "b">>, <<"b", "c", "b">>, <<"a", "b", "b">>}, n \in Shift :
          /\ k = [routine |-> "zsplit", p |-> p, n |-> n, returned |-> 0]
          /\ t = ZSplit(num, p[1], p[2], p[3], n)
    BY <1>0, <1>9 DEF CallZSplit, Stores, Calls
  <2>2. BitsRight(k, num, t)
    BY <1>1, <2>1, SplitRight
  <2>3. k.routine = "zsplit"
    BY <2>1
  <2> QED BY <2>2, <2>3, OneKind
<1>10. CASE CallZAnd \/ CallZOr \/ CallZXor
  <2>1. PICK p \in Triples :
          /\ k.p = p
          /\ \/ k.routine = "zand" /\ t = ZAnd(num, p[1], p[2], p[3])
             \/ k.routine = "zor" /\ t = ZOr(num, p[1], p[2], p[3])
             \/ k.routine = "zxor" /\ t = ZXor(num, p[1], p[2], p[3])
    BY <1>0, <1>10, CallIs DEF CallZAnd, CallZOr, CallZXor, Stores
  <2>2. BitsRight(k, num, t)
    BY <1>1, <2>1, BitwiseRight
  <2>3. k.routine \in Bitwise2
    BY <2>1 DEF Bitwise2
  <2> QED BY <2>2, <2>3, OneKind
<1>11. CASE CallZNot
  <2>1. PICK p \in Pairs : k.p = p /\ k.routine = "znot" /\ t = ZNot(num, p[1], p[2])
    BY <1>0, <1>11, CallIs DEF CallZNot, Stores
  <2>2. BitsRight(k, num, t)
    BY <1>1, <2>1, NotRight
  <2>3. k.routine \in Single
    BY <2>1 DEF Single
  <2> QED BY <2>2, <2>3, OneKind
<1>12. CASE CallZBSet
  <2>1. PICK p \in Pairs, n \in Shift, action \in {SetBit, ClearBit, FlipBit}, constant \in BOOLEAN :
          Calls("zbset", p, n, ZBSet(num, p[1], p[2], n, action, constant),
                [action |-> action, constant |-> constant])
    BY <1>12 DEF CallZBSet
  <2>2. k.p = p /\ k.n = n /\ k.routine = "zbset" /\ t = ZBSet(num, p[1], p[2], n, action, constant)
    BY <1>0, <2>1, CallIs
  <2>3. k.returned.action = action
    BY <1>0, <2>1 DEF Calls
  <2>4. BitsRight(k, num, t)
    BY <1>1, <2>2, <2>3, BitRight
  <2>5. k.routine \in Single
    BY <2>2 DEF Single
  <2> QED BY <2>4, <2>5, OneKind
<1> QED BY <1>2, <1>3, <1>4, <1>5, <1>6, <1>7, <1>8, <1>9, <1>10, <1>11, <1>12 DEF Next

\* A call whenever there is none, and never a second one: what the integers were before it
\* stays true until it is made.
LEMMA BeforeStays == Before /\ [Next]_vars => Before'
<1>1. ASSUME Before, Next PROVE Before'
  <2>1. call' # NoCall
    BY <1>1, StepIs DEF Step
  <2> QED BY <2>1 DEF Before
<1>2. ASSUME Before, UNCHANGED vars PROVE Before'
  BY <1>2 DEF Before, vars
<1> QED BY <1>1, <1>2

\* An assignment, a sum or a difference is the integer it should be, for every width of
\* a character, group of a loop, length and magnitude of the operands and way the
\* parameters coincide; but where a borrow ends inside or a carry meets a stale character
\* it is not.
THEOREM SumsAreExact == Spec => SumsExact
<1>1. Init => Before
  BY InitReady
<1>2. Before /\ [Next]_vars => Before'
  BY BeforeStays
<1>3. Before /\ [Next]_vars =>
        [call'.routine \in Sums =>
           (Is(num'[call'.p[1]], Sum(call', num))
              <=> ~(WrongDifference(call', num) \/ StaleSum(call', num)))]_vars
  BY StepIs DEF Step, Exact
<1> QED BY <1>1, <1>2, <1>3, PTL DEF Spec, SumsExact

\* A comparison, a count of bits, the lowest bit and a test of a bit answer what holds of
\* the values, and zsave fills its buffer, for every width, group, length and magnitude.
THEOREM AnswersAreRight == Spec => AnswersRight
<1>1. Init => Before
  BY InitReady
<1>2. Before /\ [Next]_vars => Before'
  BY BeforeStays
<1>3. Before /\ [Next]_vars =>
        [ /\ call'.routine \in Answered =>
               (call'.returned = Answer(call', num) <=> ~CountsOnes(call', num))
          /\ call'.routine = "zload" =>
               LET given == num[call'.p[2]]
                   held  == {i \in Index : call'.returned.chars[i] # Foreign}
               IN /\ held = 0 .. call'.returned.read - 1
                  /\ given.sign # 0 => Cardinality(held) \in given.used .. given.used + Fluff - 1
                  /\ given.sign = 0 => held = {} ]_vars
  BY StepIs DEF Step, Right
<1> QED BY <1>1, <1>2, <1>3, PTL DEF Spec, AnswersRight

\* zlsh multiplies by a power of two, zrsh divides by one, ztrunc gives the remainder and
\* zsplit both; zand, zor, zxor, znot and zbset act on each bit by itself, but where zor and
\* zxor in place skip a group and where znot has no room: for every width, group, length,
\* magnitude, shift and way the parameters coincide.
THEOREM BitsAreExact == Spec => BitsExact
<1>1. Init => Before
  BY InitReady
<1>2. Before /\ [Next]_vars => Before'
  BY BeforeStays
<1>3. Before /\ [Next]_vars =>
        [LET Gives(i, value) == Is(num'[call'.p[i]], value)
             Part(routine) == Shifted([call' EXCEPT !.routine = routine, !.p = <<"a", @[3]>>], num)
         IN /\ call'.routine \in Shifts => Gives(1, Shifted(call', num))
            /\ call'.routine = "zsplit" => Gives(1, Part("zrsh")) /\ Gives(2, Part("ztrunc"))
            /\ call'.routine \in Bitwise2 =>
                 Gives(1, Combined(call', num, SkippedBits(call', num)))
            /\ call'.routine \in Single =>
                 (Gives(1, Flipped(call', num)) <=> ~NotWithoutRoom(call', num))]_vars
  BY StepIs DEF Step, BitsRight
<1> QED BY <1>1, <1>2, <1>3, PTL DEF Spec, BitsExact

==============================================================================
