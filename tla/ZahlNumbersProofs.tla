--------------------------- MODULE ZahlNumbersProofs ---------------------------
(* For every width of characters, all maxima, all numbers that are asked     *)
(* about and any bits drawn: the device is closed, the numbers drawn are in  *)
(* range, and what zptest calls certain is.                                  *)
EXTENDS ZahlNumbers, ZahlLemmas

------------------------------------------------------------------------------
(* The device.                                                               *)

(* Where the device is open: between open and close of zrand, called by the   *)
(* client; zptest never opens it.                                             *)
InZRand == {"zrand", "open", "sign", "fill", "mask", "masked", "again", "drawn"}
Random  == {"sign", "fill", "mask", "masked", "again"}
Testing == {"zptest", "round", "power", "bits", "square"}

Places ==
  /\ pc \in InZRand \cup Testing \cup {"returned"}
  /\ call.routine \in {"zrand", "zptest"} /\ call.dist \in Distributions
  /\ pc \in Testing => call.routine = "zptest"
  /\ pc \in {"fill", "mask", "masked", "again"} => call.dist # "invalid"
  /\ call.routine = "zptest" => call.dev = "libc"
  /\ call.routine = "zrand" /\ pc = "zrand" => max = call.n

Device ==
  /\ fd \in {"closed", "open"}
  /\ pc \in {"zrand", "open"} \cup Testing => fd = "closed"
  /\ pc = "open" => call.dev = "device" /\ call.n # 0
  /\ fd = "open" => call.dev = "device" /\ call.n # 0
  /\ pc \in Random /\ call.dev = "device" => fd = "open"

IndInv == Places /\ Device /\ DeviceClosed

LEMMA InitInv == Init => IndInv
BY DEF Init, IndInv, Places, Device, DeviceClosed, InZRand, Random, Testing,
       ZRandCalls, ZPTestCalls, Devices, Distributions

USE DEF IndInv, Places, Device, DeviceClosed, InZRand, Random, Testing

\* Before anything is drawn.
LEMMA ChooseInv == IndInv /\ Choose => IndInv'
BY DEF Choose, Fail, Return, Goto, Draw, drawing, testing

LEMMA OpenInv == IndInv /\ Open => IndInv'
BY DEF Open, Fail, Return, Goto, drawing, testing

LEMMA SignInv == IndInv /\ Sign => IndInv'
BY DEF Sign, Fail, Return, Goto, drawing, testing

LEMMA LibcFillsInv == IndInv /\ LibcFills => IndInv'
BY DEF LibcFills, Goto, testing

LEMMA ReadInv == IndInv /\ Read => IndInv'
BY DEF Read, Fail, Return, Goto, drawing, testing

LEMMA MemoryFailsInv == IndInv /\ MemoryFails => IndInv'
BY DEF MemoryFails, Fail, Return, drawing, testing

LEMMA MaskInv == IndInv /\ Mask => IndInv'
BY DEF Mask, Goto, testing

LEMMA DistributeInv == IndInv /\ Distribute => IndInv'
<1> SUFFICES ASSUME IndInv, Distribute PROVE IndInv'
  OBVIOUS
<1>1. pc = "masked" /\ pc' \in {"again", "drawn"} /\ UNCHANGED <<call, result, fd>>
  BY DEF Distribute, Goto
<1> QED BY <1>1

LEMMA AgainInv == IndInv /\ Again => IndInv'
BY DEF Again, Goto, testing

LEMMA DrawnInv == IndInv /\ Drawn => IndInv'
BY DEF Drawn, Return, Goto, testing

\* zptest leaves the device alone.
LEMMA SmallInv == IndInv /\ Small => IndInv'
BY DEF Small, Certain, Verdict, Return, drawing

LEMMA EvenInv == IndInv /\ Even => IndInv'
BY DEF Even, Certain, Verdict, Return, drawing

LEMMA RoundInv == IndInv /\ Round => IndInv'
BY DEF Round, Certain, Verdict, Return, Goto, drawing

LEMMA ModPowInv == IndInv /\ ModPow => IndInv'
BY DEF ModPow, Goto, drawing

LEMMA BitInv == IndInv /\ Bit => IndInv'
BY DEF Bit, Goto, drawing

LEMMA CompareInv == IndInv /\ Compare => IndInv'
BY DEF Compare, Goto, drawing

LEMMA SquaresUsedUpInv == IndInv /\ SquaresUsedUp => IndInv'
BY DEF SquaresUsedUp, Certain, Verdict, Return, drawing

LEMMA SquareInv == IndInv /\ Square => IndInv'
BY DEF Square, Verdict, Return, Goto, drawing

LEMMA NextInv == IndInv /\ [Next]_vars => IndInv'
<1> SUFFICES ASSUME IndInv, [Next]_vars PROVE IndInv'
  OBVIOUS
<1>1. CASE Next
  BY <1>1, ChooseInv, OpenInv, SignInv, LibcFillsInv, ReadInv, MemoryFailsInv, MaskInv,
     DistributeInv, AgainInv, DrawnInv, SmallInv, EvenInv, RoundInv, ModPowInv, BitInv,
     CompareInv, SquaresUsedUpInv, SquareInv
     DEF Next, ZRandStep, ZPTestStep
<1>2. CASE UNCHANGED vars
  BY <1>2 DEF vars
<1> QED BY <1>1, <1>2

\* Of every way zrand and zptest can end, the device is open after exactly those that
\* are errors found after it was opened.
THEOREM DeviceIsClosed == Spec => []DeviceClosed
<1>1. IndInv => DeviceClosed
  OBVIOUS
<1> HIDE DEF IndInv, DeviceClosed
<1> QED BY <1>1, InitInv, NextInv, PTL DEF Spec

HIDE DEF IndInv, Device, DeviceClosed

------------------------------------------------------------------------------
(* Bits and characters.                                                      *)

LEMMA TwoType ==
  /\ MaxBits \in Nat /\ CharBits \in Nat /\ CharBits > 2 /\ CharBits > 0 /\ MaxChars \in Nat
  /\ \A n \in 0 .. MaxBits :
       n \in Nat /\ Two[n] \in Nat /\ Two[n] > 0 /\ Two[n] = Raised(2, n)
  /\ \A n \in 1 .. MaxBits : Two[n] = 2 * Two[n - 1]
  /\ Two[0] = 1 /\ 0 \in 0 .. MaxBits /\ MaxBits \in 0 .. MaxBits
<1>1. \A v, w \in Nat : v * w \in Nat
  OBVIOUS
<1>2. MaxBits \in Nat
  BY <1>1, NumbersAssumption DEF MaxBits
<1>3. PowersOf(2, Two, MaxBits)
  BY NumbersAssumption DEF PowersOf
<1>4. \A n \in 0 .. MaxBits : Two[n] = Raised(2, n)
  BY <1>2, <1>3, PowersAreRaised
<1> QED BY <1>2, <1>4, NumbersAssumption

LEMMA TwoSum ==
  ASSUME NEW m \in 0 .. MaxBits, NEW n \in 0 .. MaxBits, m + n <= MaxBits
  PROVE  m + n \in 0 .. MaxBits /\ Two[m + n] = Two[m] * Two[n]
<1>1. m \in Nat /\ n \in Nat /\ m + n \in 0 .. MaxBits
  BY TwoType
<1>2. Raised(2, m + n) = Raised(2, m) * Raised(2, n)
  BY <1>1, RaisedSum
<1> QED BY <1>1, <1>2, TwoType

LEMMA TwoMonotone ==
  ASSUME NEW m \in 0 .. MaxBits, NEW n \in 0 .. MaxBits, m <= n
  PROVE  Two[m] <= Two[n]
<1>1. m \in Nat /\ n \in Nat /\ m <= n
  BY TwoType
<1>2. Raised(2, m) <= Raised(2, n)
  BY <1>1, RaisedMonotone
<1> QED BY <1>2, TwoType

\* A number lies below the power of two that has its bits, and not below the one before.
LEMMA Counted ==
  ASSUME NEW v \in Nat, v < Two[MaxBits]
  PROVE  /\ BitsOf(v) \in 1 .. MaxBits /\ v < Two[BitsOf(v)]
         /\ v > 0 => Two[BitsOf(v) - 1] <= v
<1>1. CASE v = 0
  <2>1. MaxBits > 0
    <3>1. MaxBits # 0
      BY <1>1, NumbersAssumption DEF MaxBits
    <3> QED BY <3>1, TwoType
  <2>2. BitsOf(v) = 1 /\ 1 \in 0 .. MaxBits
    BY <1>1, <2>1, TwoType DEF BitsOf
  <2>3. Two[1] > 0 /\ Two[1] \in Nat
    BY <2>2, TwoType
  <2> QED BY <1>1, <2>1, <2>2, <2>3, TwoType
<1>2. CASE v > 0
  <2> DEFINE Z == {k \in 1 .. MaxBits : Two[k] > v}
             b == BitsOf(v)
  <2>1. MaxBits # 0
    BY <1>2, TwoType
  <2>2. Z \in SUBSET Nat /\ Z # {}
    BY <2>1, TwoType
  <2>3. PICK m \in Z : \A k \in Z : ~(k < m)
    BY <2>2, LeastNumber
  <2>4. m \in Z /\ \A k \in Z : m <= k
    BY <2>2, <2>3
  <2>5. b = CHOOSE l \in Z : \A k \in Z : l =< k
    <3>1. v # 0
      BY <1>2
    <3> QED BY <3>1, Zenon DEF BitsOf, Min
  <2>6. b \in Z /\ \A k \in Z : b <= k
    BY <2>4, <2>5, Zenon
  <2> HIDE DEF b
  <2>7. b \in 1 .. MaxBits /\ Two[b] > v
    BY <2>6
  <2>8. b - 1 \in 0 .. MaxBits /\ (b - 1 \in 1 .. MaxBits \/ b - 1 = 0) /\ ~(b <= b - 1)
    BY <2>7, TwoType
  <2>9. b - 1 \notin Z
    BY <2>6, <2>8
  <2>10. Two[b - 1] \in Nat
    BY <2>8, TwoType
  <2>11. Two[b - 1] <= v
    <3>1. CASE b - 1 = 0
      BY <1>2, <3>1, TwoType
    <3>2. CASE b - 1 \in 1 .. MaxBits
      BY <2>9, <2>10, <3>2
    <3> QED BY <2>8, <3>1, <3>2
  <2>12. Two[b] \in Nat /\ v < Two[b]
    BY <2>7, TwoType
  <2> QED BY <2>7, <2>11, <2>12 DEF b
<1> QED BY <1>1, <1>2

\* The characters that hold some bits, of which the last may not be whole.
LEMMA LastChar ==
  ASSUME NEW n \in 1 .. MaxBits
  PROVE  /\ Ceiling(n) \in Nat /\ CharBits * Ceiling(n) \in 0 .. MaxBits
         /\ CharBits * (Ceiling(n) - 1) \in 0 .. MaxBits
         /\ n % CharBits \in 0 .. CharBits - 1
         /\ Full(n) => /\ CharBits * Ceiling(n) = n
                       /\ CharBits * (Ceiling(n) - 1) = n - CharBits
         /\ ~Full(n) => n = CharBits * (Ceiling(n) - 1) + (n % CharBits)
         /\ n <= CharBits * Ceiling(n)
<1> DEFINE q == n \div CharBits
           m == n % CharBits
           u == n + CharBits - 1
           c == Ceiling(n)
<1>0. c = u \div CharBits
  BY DEF Ceiling
<1>1. n \in Nat /\ n > 0 /\ n <= MaxBits
  BY TwoType
<1>2. q \in Nat /\ m \in Nat /\ m < CharBits /\ n = CharBits * q + m
  BY <1>1, TwoType, Quotient
<1>3. u \in Nat /\ u = n + CharBits - 1
  BY <1>1, TwoType
<1> HIDE DEF q, m, u, c
<1>4. \A k \in Nat : /\ CharBits * (k + 1) = CharBits * k + CharBits /\ CharBits * k \in Nat
                     /\ CharBits * (k - 1) = CharBits * k - CharBits
  BY TwoType
<1>5. MaxBits = CharBits * MaxChars
  BY DEF MaxBits
<1>6. \A k \in Nat : CharBits * k <= MaxBits => k <= MaxChars
  <2>1. SUFFICES ASSUME NEW k \in Nat, CharBits * k <= MaxBits, k > MaxChars PROVE FALSE
    BY TwoType
  <2>2. CharBits * (k - MaxChars) = CharBits * k - CharBits * MaxChars
    BY TwoType
  <2>3. CharBits * (k - MaxChars) > 0
    BY <2>1, TwoType
  <2> QED BY <1>4, <1>5, <2>1, <2>2, <2>3, TwoType
<1>7. CASE m = 0
  <2>1. u = CharBits * q + (CharBits - 1) /\ CharBits - 1 \in Nat
        /\ CharBits - 1 < CharBits
    BY <1>2, <1>3, <1>7, <1>4, TwoType
  <2>2. c = q
    BY <1>0, <1>2, <1>3, <2>1, TwoType, Quotients
  <2>3. q # 0
    BY <1>1, <1>2, <1>7, <1>4, TwoType
  <2>4. CharBits * c = n /\ CharBits * (c - 1) = n - CharBits /\ n - CharBits >= 0
    <3>1. q - 1 \in Nat
      BY <1>2, <2>3
    <3>2. CharBits * (q - 1) \in Nat
      BY <1>4, <3>1
    <3> QED BY <1>2, <1>4, <1>7, <2>2, <3>2, TwoType
  <2>5. Full(n) /\ n - CharBits \in 0 .. MaxBits /\ n \in 0 .. MaxBits
    BY <1>1, <1>7, <2>4, TwoType DEF m, Full
  <2>6. c \in Nat /\ CharBits * c \in 0 .. MaxBits /\ CharBits * (c - 1) \in 0 .. MaxBits
        /\ n <= CharBits * c
    BY <1>1, <1>2, <2>2, <2>4, <2>5
  <2>7. n % CharBits \in 0 .. CharBits - 1
    BY <1>2, TwoType DEF m
  <2> QED BY <2>4, <2>5, <2>6, <2>7 DEF c
<1>8. CASE m # 0
  <2>1. /\ u = CharBits * (q + 1) + (m - 1) /\ m - 1 \in Nat /\ m - 1 < CharBits
        /\ q + 1 \in Nat
    BY <1>2, <1>3, <1>4, <1>8, TwoType
  <2>2. c = q + 1
    BY <1>0, <1>3, <2>1, TwoType, Quotients
  <2>3. q + 1 <= MaxChars
    <3>1. CharBits * q <= MaxBits /\ CharBits * q # MaxBits
      BY <1>1, <1>2, <1>4, <1>8, TwoType
    <3>2. q <= MaxChars /\ q # MaxChars
      BY <1>2, <1>5, <1>6, <3>1
    <3> QED BY <1>2, <3>2, TwoType
  <2>4. CharBits * (q + 1) <= CharBits * MaxChars
    <3>1. CharBits * (MaxChars - (q + 1)) >= 0
      BY <1>2, <2>3, TwoType
    <3>2. CharBits * (MaxChars - (q + 1)) = CharBits * MaxChars - CharBits * (q + 1)
      BY <1>2, TwoType
    <3>3. CharBits * (q + 1) \in Nat /\ CharBits * MaxChars \in Nat
      BY <1>2, <1>4, <2>1, TwoType
    <3> QED BY <3>1, <3>2, <3>3
  <2>5. CharBits * c = CharBits * q + CharBits /\ CharBits * (c - 1) = CharBits * q
    BY <1>2, <1>4, <2>2, TwoType
  <2>6. CharBits * q \in Nat
    BY <1>2, <1>4
  <2>7. n = CharBits * (c - 1) + m /\ n <= CharBits * c
    BY <1>1, <1>2, <2>5, <2>6, TwoType
  <2>8. CharBits * c \in 0 .. MaxBits /\ CharBits * (c - 1) \in 0 .. MaxBits
    <3>1. CharBits * c <= MaxBits
      BY <1>5, <2>2, <2>4
    <3> QED BY <1>2, <1>4, <2>5, <2>6, <3>1, TwoType
  <2>9. c \in Nat /\ m \in 0 .. CharBits - 1
    BY <1>2, <2>2, TwoType
  <2>10. ~Full(n)
    BY <1>8 DEF m, Full
  <2> QED BY <2>7, <2>8, <2>9, <2>10 DEF c, m
<1> QED BY <1>7, <1>8

\* The characters w with the last one cut to n bits modulo its width.
Masked(w, n) ==
  LET below == BaseOf(Ceiling(n) - 1)
  IN (w % below) + ((w \div below) % Two[n % CharBits]) * below

\* What is left of w when its last character is cut: all bits, or all characters but the last.
LEMMA MaskedIs ==
  ASSUME NEW n \in 1 .. MaxBits, NEW w \in Nat
  PROVE  /\ Full(n) => n - CharBits \in 0 .. MaxBits /\ Masked(w, n) = w % Two[n - CharBits]
         /\ ~Full(n) => Masked(w, n) = w % Two[n]
<1> DEFINE d == BaseOf(Ceiling(n) - 1)
           e == Two[n % CharBits]
<1>1. /\ CharBits * (Ceiling(n) - 1) \in 0 .. MaxBits
      /\ d = Two[CharBits * (Ceiling(n) - 1)]
  BY LastChar DEF BaseOf
<1>2. d \in Nat /\ d > 0
  BY <1>1, TwoType
<1>3. CharBits <= MaxBits
  <2>1. Ceiling(n) >= 1
    <3>1. SUFFICES ASSUME Ceiling(n) = 0 PROVE FALSE
      BY LastChar
    <3> QED BY <3>1, LastChar, TwoType
  <2>2. CharBits * (Ceiling(n) - 1) = CharBits * Ceiling(n) - CharBits
    BY LastChar, TwoType
  <2> QED BY <1>1, <2>2, LastChar, TwoType
<1>4. n % CharBits \in 0 .. MaxBits /\ n % CharBits \in Nat
  BY <1>3, LastChar, TwoType
<1>5. e \in Nat /\ e > 0
  BY <1>4, TwoType
<1>6. Masked(w, n) = (w % d) + ((w \div d) % e) * d
  BY DEF Masked
<1> HIDE DEF d, e
<1>7. w \div d \in Nat /\ w % d \in Nat
  BY <1>2, Quotient
<1>8. CASE Full(n)
  <2>1. e = 1
    BY <1>8, TwoType DEF e, Full
  <2>2. (w \div d) % 1 = 0
    BY <1>7
  <2>3. 0 * d = 0
    BY <1>2
  <2>4. Masked(w, n) = w % d
    BY <1>6, <1>7, <2>1, <2>2, <2>3
  <2>5. n - CharBits \in 0 .. MaxBits /\ d = Two[n - CharBits]
    BY <1>1, <1>8, LastChar
  <2> QED BY <1>8, <2>4, <2>5
<1>9. CASE ~Full(n)
  <2>1. Two[n] = d * e
    <3>1. PICK a \in 0 .. MaxBits : a = CharBits * (Ceiling(n) - 1)
      BY <1>1
    <3>2. PICK b \in 0 .. MaxBits : b = n % CharBits
      BY <1>4
    <3>3. n = a + b
      BY <1>9, <3>1, <3>2, LastChar
    <3>4. a + b <= MaxBits
      BY <3>3
    <3>5. Two[a + b] = Two[a] * Two[b]
      BY <3>4, TwoSum
    <3> QED BY <1>1, <3>1, <3>2, <3>3, <3>5 DEF e
  <2> DEFINE u == w % (d * e)
  <2>2. d * e \in Nat /\ d * e > 0
    BY <1>2, <1>5, QuotientOfQuotient
  <2>3. u \in Nat
    BY <2>2, Quotient
  <2>4. u \div d = (w \div d) % e /\ u % d = w % d
    BY <1>2, <1>5, QuotientOfRemainder, RemainderOfRemainder
  <2> HIDE DEF u
  <2>5. u = d * (u \div d) + (u % d) /\ u \div d \in Nat /\ u % d \in Nat
    BY <1>2, <2>3, Quotient
  <2>6. \A a \in Nat : d * a = a * d
    BY <1>2
  <2>7. u = d * ((w \div d) % e) + (w % d) /\ (w \div d) % e \in Nat
    BY <2>4, <2>5
  <2> HIDE DEF u
  <2>8. PICK a \in Nat : a = (w \div d) % e
    BY <2>7
  <2>9. u = a * d + (w % d) /\ a * d \in Nat
    BY <1>2, <2>6, <2>7, <2>8
  <2>10. u = Masked(w, n)
    BY <1>6, <1>7, <2>8, <2>9
  <2> QED BY <1>9, <2>1, <2>10 DEF u
<1> QED BY <1>8, <1>9

LEMMA Reduced ==
  ASSUME NEW d \in Nat, d > 0, NEW v \in Nat
  PROVE  v % d \in 0 .. d - 1 /\ (v < d => v % d = v)
<1>1. v % d \in Nat /\ v % d < d
  BY Quotient
<1>2. ASSUME v < d PROVE v % d = v
  <2>1. 0 \in Nat /\ v = d * 0 + v
    OBVIOUS
  <2> QED BY <1>2, <2>1, Quotients
<1> QED BY <1>1, <1>2

\* The numbers that come of all bits, for a maximum.
AllMasked(n) == {Masked(w, n) : w \in 0 .. BaseOf(Ceiling(n)) - 1}

\* They are made of the characters below the last, and of what is left of that.
LEMMA DrawableIs ==
  ASSUME NEW n \in 1 .. MaxBits
  PROVE  Drawable[n] = AllMasked(n)
<1> DEFINE a == BaseOf(Ceiling(n) - 1)
           e == Two[n % CharBits]
           c == BaseOf(1)
           b == BaseOf(Ceiling(n))
           high == {w % e : w \in 0 .. c - 1}
<1>1. CharBits * (Ceiling(n) - 1) \in 0 .. MaxBits /\ CharBits * Ceiling(n) \in 0 .. MaxBits
  BY LastChar
<1>2. CharBits \in 0 .. MaxBits /\ CharBits * (Ceiling(n) - 1) + CharBits = CharBits * Ceiling(n)
  <2>1. Ceiling(n) \in Nat /\ Ceiling(n) # 0
    BY LastChar, TwoType
  <2>2. PICK k \in Nat : Ceiling(n) = k + 1
    BY <2>1, Ceiling(n) - 1 \in Nat
  <2>3. CharBits * (k + 1) = CharBits * k + CharBits /\ CharBits * k \in Nat
    BY TwoType
  <2> QED BY <1>1, <2>2, <2>3, TwoType
<1>3. PICK k \in 0 .. MaxBits, l \in 0 .. MaxBits :
        k = CharBits * (Ceiling(n) - 1) /\ l = CharBits /\ k + l \in 0 .. MaxBits
  BY <1>1, <1>2
<1>4. a = Two[k] /\ c = Two[l] /\ b = Two[k + l] /\ CharBits * 1 = CharBits
  BY <1>2, <1>3, TwoType DEF BaseOf
<1>5. a \in Nat /\ a > 0 /\ c \in Nat /\ b = a * c /\ e \in Nat /\ e > 0
  <2>1. k + l <= MaxBits
    BY <1>3
  <2>2. n % CharBits \in 0 .. MaxBits
    BY <1>2, LastChar, TwoType
  <2> QED BY <1>3, <1>4, <2>1, <2>2, TwoSum, TwoType
<1>6. Drawable[n] = {low + h * a : low \in 0 .. a - 1, h \in high}
  BY DEF Drawable
<1>7. AllMasked(n) = {(w % a) + ((w \div a) % e) * a : w \in 0 .. b - 1}
  BY DEF AllMasked, Masked
<1> HIDE DEF a, b, c, e
<1>8. ASSUME NEW low \in 0 .. a - 1, NEW u \in 0 .. c - 1
      PROVE  \E w \in 0 .. b - 1 : w % a = low /\ w \div a = u
  <2>1. a * u \in Nat /\ a * u + low \in Nat /\ low \in Nat /\ low < a /\ u \in Nat
    BY <1>5
  <2>2. (a * u + low) % a = low /\ (a * u + low) \div a = u
    BY <1>5, <2>1, Quotients
  <2>3. a * u + low < b
    <3>1. u + 1 <= c
      BY <1>5
    <3>2. a * (c - (u + 1)) >= 0 /\ a * (c - (u + 1)) = a * c - (a * u + a)
      BY <1>5, <2>1, <3>1
    <3> QED BY <1>5, <2>1, <3>2
  <2>4. b \in Nat
    BY <1>5
  <2> QED BY <2>1, <2>2, <2>3, <2>4
<1>9. ASSUME NEW w \in 0 .. b - 1
      PROVE  w % a \in 0 .. a - 1 /\ w \div a \in 0 .. c - 1
  <2>1. w \in Nat /\ w < b
    BY <1>5
  <2>2. w = a * (w \div a) + (w % a) /\ w \div a \in Nat /\ w % a \in Nat /\ w % a < a
    BY <1>5, <2>1, Quotient
  <2>3. PICK q \in Nat : q = w \div a
    BY <2>2
  <2>4. SUFFICES ASSUME q >= c PROVE FALSE
    BY <1>5, <2>2, <2>3
  <2>5. a * (q - c) >= 0 /\ a * (q - c) = a * q - a * c /\ a * q \in Nat /\ a * c \in Nat
    BY <1>5, <2>4
  <2> QED BY <1>5, <2>1, <2>2, <2>3, <2>5
<1>10. Drawable[n] \subseteq AllMasked(n)
  <2>1. ASSUME NEW low \in 0 .. a - 1, NEW h \in high PROVE low + h * a \in AllMasked(n)
    <3>1. PICK u \in 0 .. c - 1 : h = u % e
      OBVIOUS
    <3>2. PICK w \in 0 .. b - 1 : w % a = low /\ w \div a = u
      BY <1>8
    <3>3. low + h * a = (w % a) + ((w \div a) % e) * a
      BY <3>1, <3>2
    <3> QED BY <1>7, <3>3
  <2> HIDE DEF high
  <2> QED BY <1>6, <2>1
<1>11. AllMasked(n) \subseteq Drawable[n]
  <2>1. ASSUME NEW w \in 0 .. b - 1 PROVE (w % a) + ((w \div a) % e) * a \in Drawable[n]
    <3>1. w % a \in 0 .. a - 1 /\ (w \div a) % e \in high
      BY <1>9
    <3> HIDE DEF high
    <3> QED BY <1>6, <3>1
  <2> QED BY <1>7, <2>1
<1> QED BY <1>10, <1>11

LEMMA MaskedNumbers ==
  ASSUME NEW m \in Nat, 0 < m, m < Two[MaxBits], NEW n \in 1 .. MaxBits, n = BitsOf(m)
  PROVE  /\ 0 .. m \subseteq AllMasked(n) <=> ~Full(n)
         /\ Full(n) => AllMasked(n) = 0 .. Two[n - CharBits] - 1
         /\ AllMasked(n) \subseteq 0 .. Two[n] - 1
<1> DEFINE drawn == AllMasked(n)
<1>1. m < Two[n] /\ Two[n - 1] <= m
  BY Counted
<1>2. n \in 0 .. MaxBits /\ n - 1 \in 0 .. MaxBits
  BY TwoType
<1>3. /\ CharBits * Ceiling(n) \in 0 .. MaxBits /\ n <= CharBits * Ceiling(n)
      /\ BaseOf(Ceiling(n)) = Two[CharBits * Ceiling(n)]
  BY LastChar DEF BaseOf
<1> DEFINE b == BaseOf(Ceiling(n))
<1>4. b \in Nat /\ Two[n] <= b
  BY <1>2, <1>3, TwoMonotone, TwoType
<1> HIDE DEF b
<1>5. drawn = {Masked(w, n) : w \in 0 .. b - 1}
  BY DEF b, AllMasked
<1> HIDE DEF drawn
<1>6. Two[n] \in Nat /\ Two[n] > 0 /\ Two[n - 1] \in Nat
  BY <1>2, TwoType
<1>7. CASE Full(n)
  <2>1. n - CharBits \in 0 .. MaxBits /\ n - CharBits <= n - 1
    <3>1. n - CharBits \in 0 .. MaxBits
      <4>1. 0 \in Nat
        OBVIOUS
      <4> QED BY ONLY <1>7, <4>1, MaskedIs, n \in 1 .. MaxBits
    <3>2. CharBits \in Nat /\ CharBits >= 1 /\ n \in Nat
      BY TwoType
    <3> QED BY <3>1, <3>2
  <2> DEFINE e == Two[n - CharBits]
  <2>2. e \in Nat /\ e > 0 /\ e <= Two[n - 1] /\ e <= Two[n]
    BY <1>2, <2>1, TwoMonotone, TwoType
  <2>3. \A w \in 0 .. b - 1 : w \in Nat /\ Masked(w, n) = w % e
    BY <1>4, <1>7, MaskedIs
  <2> HIDE DEF e
  <2>4. \A w \in 0 .. b - 1 : Masked(w, n) \in 0 .. e - 1
    BY <2>2, <2>3, Reduced
  <2>5. \A w \in 0 .. e - 1 : w \in 0 .. b - 1 /\ Masked(w, n) = w
    <3>1. SUFFICES ASSUME NEW w \in 0 .. e - 1
                   PROVE  w \in 0 .. b - 1 /\ Masked(w, n) = w
      OBVIOUS
    <3>2. w \in 0 .. b - 1 /\ w \in Nat /\ w < e
      BY <1>4, <1>6, <2>2
    <3> QED BY <2>2, <2>3, <3>2, Reduced
  <2>6. drawn = 0 .. e - 1
    <3>1. drawn \subseteq 0 .. e - 1
      BY <1>5, <2>4
    <3>2. 0 .. e - 1 \subseteq drawn
      BY <1>5, <2>5
    <3> QED BY <3>1, <3>2
  <2>7. m \in 0 .. m /\ m \notin 0 .. e - 1
    BY <1>1, <1>6, <2>2
  <2>8. ~(0 .. m \subseteq drawn)
    BY <2>6, <2>7
  <2>9. 0 .. e - 1 \subseteq 0 .. Two[n] - 1
    BY <1>6, <2>2
  <2> QED BY <1>7, <2>6, <2>8, <2>9 DEF e, drawn
<1>8. CASE ~Full(n)
  <2>1. \A w \in 0 .. b - 1 : w \in Nat /\ Masked(w, n) = w % Two[n]
    BY <1>4, <1>8, MaskedIs
  <2>2. \A w \in 0 .. b - 1 : Masked(w, n) \in 0 .. Two[n] - 1
    BY <1>6, <2>1, Reduced
  <2>3. \A v \in 0 .. m : v \in 0 .. b - 1 /\ Masked(v, n) = v
    <3>1. SUFFICES ASSUME NEW v \in 0 .. m
                   PROVE  v \in 0 .. b - 1 /\ Masked(v, n) = v
      OBVIOUS
    <3>2. v \in 0 .. b - 1 /\ v \in Nat /\ v < Two[n]
      BY <1>1, <1>4, <1>6
    <3> QED BY <1>6, <2>1, <3>2, Reduced
  <2>4. drawn \subseteq 0 .. Two[n] - 1
    BY <1>5, <2>2
  <2>5. 0 .. m \subseteq drawn
    BY <1>5, <2>3
  <2> QED BY <1>8, <2>4, <2>5 DEF drawn
<1> QED BY <1>7, <1>8 DEF drawn

------------------------------------------------------------------------------
(* The range of the numbers.                                                 *)

\* What zrand was asked for, by the client or by zptest, and what the routines know
\* of it: the maximum that zrand is given stays while a number is drawn, unless it is
\* the result.
Shaped == {"masked", "drawn"}

Asked ==
  /\ call.n \in Int /\ call.n < Two[MaxBits] /\ call.same \in BOOLEAN
  /\ call.routine = "zptest" => ~call.same /\ call.dist = "UNIFORM"

Limits ==
  /\ call.routine = "zptest" /\ pc \notin {"zptest", "returned"} => N > 3 /\ N % 2 = 1
  /\ call.routine = "zptest" /\ pc \in InZRand => max \in 0 .. N - 4
  /\ call.routine = "zrand" /\ pc \in InZRand /\ ~(pc \in Shaped /\ call.same) => max = call.n
  /\ pc \in {"open", "sign"} => max # 0
  /\ pc \in {"fill", "mask", "again"} \/ (pc = "masked" /\ ~call.same) => max > 0
  /\ pc = "again" => ~call.same

\* The number has the bits of the maximum.
InBits ==
  /\ call.same => call.routine = "zrand" /\ call.n > 0 /\ max = r
  /\ r \in 0 .. Two[BitsOf(IF call.same THEN call.n ELSE max)] - 1

InRange ==
  call.dist # "QUASIUNIFORM" \/ "number" \notin lost =>
    /\ ~call.same => r \in 0 .. max
    /\ call.same /\ call.n > 0 => r \in 0 .. Two[BitsOf(call.n)]

RangeInv ==
  /\ IndInv /\ Asked /\ Limits
  /\ pc = "masked" => InBits
  /\ pc = "drawn" => InRange
  /\ RandomInRange

USE DEF RangeInv, Asked, Limits, InBits, InRange, Shaped, N

\* While bits are drawn, the maximum is a number that has its bits.
LEMMA MaximumType ==
  ASSUME RangeInv
  PROVE  /\ pc \in InZRand /\ ~(pc \in Shaped /\ call.same) => max \in Int /\ max < Two[MaxBits]
         /\ pc \in {"fill", "mask", "again"} \/ (pc = "masked" /\ ~call.same)
              => max \in Nat /\ max > 0 /\ max < Two[MaxBits]
<1>1. call.routine \in {"zrand", "zptest"}
  BY DEF IndInv
<1>2. Two[MaxBits] \in Nat
  BY TwoType
<1> QED BY <1>1, <1>2

LEMMA InitRange == Init => RangeInv
<1> SUFFICES ASSUME Init PROVE RangeInv
  OBVIOUS
<1>1. IndInv
  BY InitInv
<1>2. Asked
  BY NumbersAssumption DEF Init, ZRandCalls, ZPTestCalls, Distributions
<1>3. pc \in {"zrand", "zptest"} /\ Limits
  BY DEF Init, ZRandCalls, ZPTestCalls
<1> QED BY <1>1, <1>2, <1>3 DEF RandomInRange, Successful

\* A call that goes on, or ends otherwise than with a number.
LEMMA NoNumber ==
  ASSUME RangeInv, IndInv', UNCHANGED call, Limits',
         (pc' = "returned" /\ result' # "ok") \/ pc' \notin {"returned", "mask", "masked", "drawn"}
  PROVE  RangeInv'
BY DEF RandomInRange, Successful

LEMMA ChooseRange == RangeInv /\ Choose => RangeInv'
<1> SUFFICES ASSUME RangeInv, Choose PROVE RangeInv'
  OBVIOUS
<1>1. IndInv' /\ IndInv
  BY ChooseInv
<1>2. UNCHANGED call
  BY DEF Choose, Fail, Return, Goto
<1>3. CASE call.dev = "invalid"
  <2>1. pc' = "returned" /\ result' = "EINVAL"
    BY <1>3 DEF Choose, Fail, Return
  <2> QED BY <1>1, <1>2, <2>1, NoNumber
<1>4. CASE call.dev # "invalid" /\ max # 0
  <2>1. pc' \in {"open", "sign"} /\ UNCHANGED max
    BY <1>4 DEF Choose, Goto
  <2>2. Limits'
    BY <1>2, <1>4, <2>1 DEF Choose
  <2> QED BY <1>1, <1>2, <2>1, <2>2, NoNumber
<1>5. CASE call.dev # "invalid" /\ max = 0
  <2>1. pc' = "drawn" /\ r' = 0 /\ max' = 0 /\ pc = "zrand"
    BY <1>5 DEF Choose, Goto, Draw
  <2>2. max \in Int /\ call.routine \in {"zrand", "zptest"}
    BY <1>1, <2>1 DEF IndInv
  <2>3. Limits'
    BY <1>2, <1>5, <2>1
  <2>4. InRange'
    <3>1. 0 \in 0 .. 0
      OBVIOUS
    <3>2. call.same => call.n = 0
      BY <1>5, <2>1, <2>2
    <3> QED BY <1>2, <2>1, <3>1, <3>2
  <2> QED BY <1>1, <1>2, <2>1, <2>3, <2>4 DEF RandomInRange, Successful
<1> QED BY <1>3, <1>4, <1>5

LEMMA OpenRange == RangeInv /\ Open => RangeInv'
<1> SUFFICES ASSUME RangeInv, Open PROVE RangeInv'
  OBVIOUS
<1>1. IndInv'
  BY OpenInv
<1>2. \/ pc' = "returned" /\ result' = "cannot open" /\ UNCHANGED call
      \/ pc = "open" /\ pc' = "sign" /\ UNCHANGED <<call, max>>
  BY DEF Open, Fail, Return, Goto
<1>3. Limits'
  BY <1>2
<1> QED BY <1>1, <1>2, <1>3, NoNumber

LEMMA SignRange == RangeInv /\ Sign => RangeInv'
<1> SUFFICES ASSUME RangeInv, Sign PROVE RangeInv'
  OBVIOUS
<1>1. IndInv'
  BY SignInv
<1>2. \/ pc' = "returned" /\ result' \in {"EINVAL", "NEGATIVE"} /\ UNCHANGED call
      \/ pc = "sign" /\ pc' = "fill" /\ max >= 0 /\ UNCHANGED <<call, max>>
  BY DEF Sign, Fail, Return, Goto
<1>3. pc = "sign" => max \in Int
  BY MaximumType
<1>4. Limits'
  BY <1>2, <1>3
<1> QED BY <1>1, <1>2, <1>4, NoNumber

\* The maximum has not changed where the bits are masked.
LEMMA AtMask ==
  ASSUME RangeInv, pc = "fill", pc' = "mask", UNCHANGED <<call, max>>, IndInv'
  PROVE  RangeInv'
<1>1. Limits'
  BY DEF IndInv
<1>2. max \in Nat /\ max > 0 /\ max < Two[MaxBits]
  BY MaximumType
<1>3. PICK n \in 1 .. MaxBits : n = BitsOf(max)
  BY <1>2, Counted
<1>4. /\ 0 .. max \subseteq AllMasked(n) <=> ~Full(n)
      /\ Full(n) => AllMasked(n) = 0 .. Two[n - CharBits] - 1
  <2>1. PICK m \in Nat : m = max
    BY <1>2
  <2>2. m > 0 /\ m < Two[MaxBits] /\ n = BitsOf(m)
    BY <1>2, <1>3, <2>1
  <2>3. /\ 0 .. m \subseteq AllMasked(n) <=> ~Full(n)
        /\ Full(n) => AllMasked(n) = 0 .. Two[n - CharBits] - 1
    BY <2>2, MaskedNumbers
  <2> QED BY <2>1, <2>3
<1>5. RandomInRange'
  <2>1. pc' = "mask" /\ max' = max
    OBVIOUS
  <2>2. Drawable[n] = AllMasked(n)
    BY DrawableIs
  <2> QED BY <1>3, <1>4, <2>1, <2>2 DEF RandomInRange, Successful
<1> QED BY <1>1, <1>5

LEMMA LibcFillsRange == RangeInv /\ LibcFills => RangeInv'
<1> SUFFICES ASSUME RangeInv, LibcFills PROVE RangeInv'
  OBVIOUS
<1>1. IndInv'
  BY LibcFillsInv
<1>2. pc = "fill" /\ pc' = "mask" /\ UNCHANGED <<call, max>>
  BY DEF LibcFills, Goto
<1> QED BY <1>1, <1>2, AtMask

LEMMA ReadRange == RangeInv /\ Read => RangeInv'
<1> SUFFICES ASSUME RangeInv, Read PROVE RangeInv'
  OBVIOUS
<1>1. IndInv'
  BY ReadInv
<1>2. \/ pc' = "returned" /\ result' = "cannot read" /\ UNCHANGED call
      \/ pc = "fill" /\ pc' \in {"fill", "mask"} /\ UNCHANGED <<call, max>>
  BY DEF Read, Fail, Return, Goto, drawing
<1>3. CASE pc' = "mask"
  BY <1>1, <1>2, <1>3, AtMask
<1>4. CASE pc' # "mask"
  <2>1. Limits'
    BY <1>2, <1>4
  <2> QED BY <1>1, <1>2, <1>4, <2>1, NoNumber
<1> QED BY <1>3, <1>4

LEMMA MemoryFailsRange == RangeInv /\ MemoryFails => RangeInv'
<1> SUFFICES ASSUME RangeInv, MemoryFails PROVE RangeInv'
  OBVIOUS
<1>1. pc' = "returned" /\ result' = "memory" /\ UNCHANGED call
  BY DEF MemoryFails, Fail, Return
<1> QED BY <1>1, MemoryFailsInv, NoNumber

LEMMA AgainRange == RangeInv /\ Again => RangeInv'
<1> SUFFICES ASSUME RangeInv, Again PROVE RangeInv'
  OBVIOUS
<1>1. pc = "again" /\ pc' = "fill" /\ UNCHANGED <<call, max>>
  BY DEF Again, Goto
<1>2. Limits'
  BY <1>1
<1> QED BY <1>1, <1>2, AgainInv, NoNumber

\* The product of a number and a number below a power of two, shifted.
LEMMA ScaledRange ==
  ASSUME NEW n \in 1 .. MaxBits, NEW v \in 0 .. Two[n] - 1, NEW m \in Nat
  PROVE  ((v + 1) * m) \div Two[n] \in 0 .. m
<1>1. PICK e \in Nat : e = Two[n] /\ e > 0
  BY TwoType, n \in 0 .. MaxBits
<1>2. PICK u \in Nat : u = v + 1 /\ u <= e
  BY <1>1
<1>3. (u * m) \div e \in 0 .. m
  BY <1>1, <1>2, QuotientOfPart
<1> QED BY <1>1, <1>2, <1>3

LEMMA MaskRange == RangeInv /\ Mask => RangeInv'
<1> SUFFICES ASSUME RangeInv, Mask PROVE RangeInv'
  OBVIOUS
<1>1. IndInv' /\ IndInv
  BY MaskInv
<1>2. pc = "mask" /\ pc' = "masked" /\ UNCHANGED call
  BY DEF Mask, Goto
<1>3. max \in Nat /\ max > 0 /\ max < Two[MaxBits] /\ call.routine \in {"zrand", "zptest"}
  BY <1>1, <1>2, MaximumType DEF IndInv
<1>4. PICK n \in 1 .. MaxBits : n = BitsOf(max)
  BY <1>3, Counted
<1>5. Drawable[n] \subseteq 0 .. Two[n] - 1
  <2>1. PICK m \in Nat : m = max
    BY <1>3
  <2>2. m > 0 /\ m < Two[MaxBits] /\ n = BitsOf(m)
    BY <1>3, <1>4, <2>1
  <2>3. AllMasked(n) \subseteq 0 .. Two[n] - 1
    BY <2>2, MaskedNumbers
  <2> QED BY <2>3, DrawableIs
<1>6. PICK v \in Drawable[n] : Draw(v)
  BY <1>4 DEF Mask
<1>7. r' = v /\ max' = (IF call.same THEN v ELSE max) /\ v \in 0 .. Two[n] - 1
  BY <1>5, <1>6 DEF Draw
<1>8. call.same => call.routine = "zrand" /\ call.n = max
  BY <1>2, <1>3
<1>9. InBits' /\ Limits'
  BY <1>2, <1>3, <1>4, <1>7, <1>8
<1>10. RandomInRange'
  BY <1>2 DEF RandomInRange, Successful
<1> QED BY <1>1, <1>2, <1>9, <1>10

\* What is made of the number: one in the range, or one to draw again.
LEMMA DistributeRange == RangeInv /\ Distribute => RangeInv'
<1> SUFFICES ASSUME RangeInv, Distribute PROVE RangeInv'
  OBVIOUS
<1>1. IndInv' /\ IndInv
  BY DistributeInv
<1>2. /\ pc = "masked" /\ pc' \in {"drawn", "again"} /\ UNCHANGED call /\ InBits
      /\ call.routine \in {"zrand", "zptest"} /\ call.same \in BOOLEAN
  BY <1>1 DEF Distribute, Goto, IndInv
<1> DEFINE m == IF call.same THEN call.n ELSE max
<1>3. m \in Nat /\ m > 0 /\ m < Two[MaxBits]
  BY <1>2, MaximumType
<1>4. PICK n \in 1 .. MaxBits : n = BitsOf(m) /\ m < Two[n] /\ Two[n - 1] <= m
  BY <1>3, Counted
<1>5. PICK e \in Nat : e = Two[n] /\ e <= 2 * m /\ m < e /\ e > 0
  <2>1. n - 1 \in 0 .. MaxBits /\ n \in 1 .. MaxBits /\ n \in 0 .. MaxBits
    BY <1>4, TwoType
  <2>2. Two[n] = 2 * Two[n - 1] /\ Two[n - 1] \in Nat /\ Two[n] \in Nat
    BY <2>1, TwoType
  <2> QED BY <1>3, <1>4, <2>2
<1>6. r \in 0 .. e - 1 /\ r \in Nat /\ r < e
  <2>1. r \in 0 .. Two[BitsOf(m)] - 1
    BY <1>2
  <2> QED BY <1>4, <1>5, <2>1
<1>7. /\ call.same => call.routine = "zrand" /\ max = r /\ m = call.n
      /\ ~call.same => m = max
  BY <1>2
<1> HIDE DEF m
<1>8. /\ pc' = "again" => ~call.same
      /\ ~call.same => max' = max /\ (pc' = "drawn" => InRange')
      /\ call.same => InRange'
  <2>1. CASE call.dist = "QUASIUNIFORM"
    <3> DEFINE f == IF call.same THEN r + 1 ELSE max
    <3>1. PICK p \in ZMul(r + 1, f) :
            Draw(p \div Two[BitsOf(call.n)]) /\ lost' = Wrong("number", p, r + 1, f)
      BY <2>1 DEF Distribute, Scale
    <3>2. /\ r' = p \div Two[BitsOf(call.n)] /\ pc' = "drawn"
          /\ max' = IF call.same THEN r' ELSE max
      BY <2>1, <3>1 DEF Distribute, Draw, Goto
    <3>3. call.routine = "zrand"
      BY <1>2, <2>1
    <3>4. m = call.n /\ (~call.same => max = call.n)
      BY <1>2, <1>7, <3>3
    <3>5. "number" \notin lost' => p = (r + 1) * f
      BY <3>1 DEF Wrong
    <3>6. f \in Nat /\ f = IF call.same THEN r + 1 ELSE m
      <4>1. CASE call.same
        BY <1>6, <4>1
      <4>2. CASE ~call.same
        BY <1>3, <1>7, <4>2
      <4> QED BY <4>1, <4>2
    <3> HIDE DEF f
    <3>7. r \in 0 .. Two[n] - 1
      BY <1>5, <1>6
    <3>8. "number" \notin lost' => r' \in 0 .. f
      <4>1. ((r + 1) * f) \div Two[n] \in 0 .. f
        BY <3>6, <3>7, ScaledRange
      <4> QED BY <1>4, <3>2, <3>4, <3>5, <4>1
    <3>9. r + 1 \in 0 .. e
      BY <1>6
    <3>10. "number" \notin lost' => IF call.same THEN r' \in 0 .. e ELSE r' \in 0 .. m
      BY <1>5, <1>6, <3>6, <3>8
    <3> QED BY <1>2, <1>4, <1>5, <1>7, <2>1, <3>2, <3>4, <3>10
  <2>2. CASE call.dist = "MODUNIFORM"
    <3>1. /\ r' = (IF r > max THEN r - max ELSE r) /\ pc' = "drawn"
          /\ max' = IF call.same THEN r' ELSE max
      BY <2>2 DEF Distribute, Draw, Goto
    <3>2. IF call.same THEN r' \in 0 .. e ELSE r' \in 0 .. m
      BY <1>3, <1>5, <1>6, <1>7, <3>1
    <3>3. call.same => m = call.n
      BY <1>7
    <3> QED BY <1>2, <1>4, <1>5, <1>7, <3>1, <3>2, <3>3
  <2>3. CASE call.dist = "UNIFORM"
    <3>1. UNCHANGED <<r, max>> /\ pc' = IF r > max THEN "again" ELSE "drawn"
      BY <2>3 DEF Distribute, Goto
    <3>2. /\ call.same => pc' = "drawn" /\ r' \in 0 .. e
          /\ ~call.same /\ pc' = "drawn" => r' \in 0 .. m
      BY <1>3, <1>5, <1>6, <1>7, <3>1
    <3>3. call.same => m = call.n
      BY <1>7
    <3> QED BY <1>2, <1>4, <1>5, <1>7, <3>1, <3>2, <3>3
  <2> QED BY <2>1, <2>2, <2>3 DEF Distribute
<1>9. Limits'
  BY <1>2, <1>3, <1>7, <1>8
<1>10. RandomInRange'
  BY <1>2 DEF RandomInRange, Successful
<1> QED BY <1>1, <1>2, <1>8, <1>9, <1>10

\* The client has the number; zptest has a base.
LEMMA DrawnRange == RangeInv /\ Drawn => RangeInv'
<1> SUFFICES ASSUME RangeInv, Drawn PROVE RangeInv'
  OBVIOUS
<1>1. IndInv'
  BY DrawnInv
<1>2. pc = "drawn" /\ UNCHANGED <<call, r, max>> /\ call.routine \in {"zrand", "zptest"}
  BY DEF Drawn, Return, Goto, IndInv
<1>3. CASE call.routine = "zrand"
  <2>1. pc' = "returned" /\ UNCHANGED lost
    BY <1>3 DEF Drawn, Return, testing
  <2>2. InRange /\ (~call.same => max = call.n)
    BY <1>2, <1>3
  <2>3. RandomInRange'
    BY <1>2, <2>1, <2>2 DEF RandomInRange, Successful
  <2> QED BY <1>1, <1>2, <1>3, <2>1, <2>3
<1>4. CASE call.routine = "zptest"
  <2>1. pc' = "power"
    BY <1>4 DEF Drawn, Goto
  <2>2. Limits'
    BY <1>2, <1>4, <2>1
  <2> QED BY <1>1, <1>2, <2>1, <2>2, NoNumber
<1> QED BY <1>2, <1>3, <1>4

------------------------------------------------------------------------------
(* zptest.                                                                   *)

\* A verdict is not a random number.
LEMMA VerdictRange ==
  ASSUME RangeInv, IndInv', NEW v \in {"NONPRIME", "PRIME", "PROBABLY_PRIME"}, NEW w,
         Verdict(v, w)
  PROVE  RangeInv'
<1>1. pc' = "returned" /\ result' = v /\ UNCHANGED call
  BY DEF Verdict, Return
<1> QED BY <1>1, NoNumber

LEMMA SmallRange == RangeInv /\ Small => RangeInv'
BY SmallInv, VerdictRange DEF Small, Certain

LEMMA EvenRange == RangeInv /\ Even => RangeInv'
BY EvenInv, VerdictRange DEF Even, Certain

\* What zsub_unsigned makes of n - 4 is never more.
LEMMA N4Range ==
  ASSUME N \in Nat, N > 3, N < Two[MaxBits]
  PROVE  N4 \in 0 .. N - 4
<1> DEFINE top  == Ceiling(BitsOf(N)) - 1
           ends == {k \in 1 .. top - 1 :
                      (N \div BaseOf(k)) % BaseOf(1) = 1 /\ N % BaseOf(k) < 4}
<1>1. N4 = IF ends = {} THEN N - 4
           ELSE (N % BaseOf(top)) - 4 + BaseOf(CHOOSE k \in ends : TRUE)
  BY DEF N4
<1>2. CASE ends = {}
  <2>1. N - 4 \in 0 .. N - 4
    OBVIOUS
  <2> HIDE DEF ends
  <2> QED BY <1>1, <1>2, <2>1
<1>3. CASE ends # {}
  <2>1. PICK k \in ends : k = CHOOSE l \in ends : TRUE
    BY <1>3
  <2>2. PICK n \in 1 .. MaxBits : n = BitsOf(N) /\ Two[n - 1] <= N
    BY Counted
  <2>3. top \in Int /\ k \in 1 .. top - 1 /\ CharBits * top \in 0 .. MaxBits
        /\ (N \div BaseOf(k)) % BaseOf(1) = 1 /\ N % BaseOf(k) < 4
    BY <2>2, LastChar
  <2>4. PICK h \in Nat : h = top /\ k \in Nat /\ 0 < k /\ k + 1 <= h
    BY <2>3
  <2> HIDE DEF top, ends
  <2>5. /\ CharBits * k \in Nat /\ CharBits * h \in 0 .. MaxBits
        /\ CharBits * k + CharBits <= CharBits * h /\ CharBits <= CharBits * k
    <3>1. CharBits * (h - (k + 1)) >= 0 /\ CharBits * (k - 1) >= 0
      BY <2>4, TwoType
    <3>2. /\ CharBits * (h - (k + 1)) = CharBits * h - (CharBits * k + CharBits)
          /\ CharBits * (k - 1) = CharBits * k - CharBits
      BY <2>4, TwoType
    <3>3. CharBits * h \in Nat /\ CharBits * k \in Nat
      BY <2>4, TwoType
    <3> QED BY <2>3, <2>4, <3>1, <3>2, <3>3, TwoType
  <2>6. PICK p \in 0 .. MaxBits, q \in 0 .. MaxBits :
          /\ p = CharBits * k /\ q = CharBits * h /\ p + CharBits <= q /\ CharBits <= p
          /\ CharBits \in 0 .. MaxBits
    BY <2>5, TwoType
  <2>7. PICK a \in Nat, b \in Nat, c \in Nat :
          a = BaseOf(k) /\ b = BaseOf(h) /\ c = BaseOf(1) /\ a > 0 /\ b > 0 /\ c > 0
    BY <2>6, TwoType, CharBits * 1 = CharBits DEF BaseOf
  <2>8. a = Two[p] /\ b = Two[q] /\ c = Two[CharBits]
    BY <2>6, <2>7, TwoType DEF BaseOf
  <2>9. PICK l \in 0 .. MaxBits : l = p + CharBits
    BY <2>6, TwoType
  <2>10. Two[l] = a * c /\ Two[l] <= b /\ c <= a
    <3>1. Two[l] = a * c
      <4>1. p + CharBits <= MaxBits
        BY <2>9
      <4> QED BY <2>6, <2>8, <2>9, <4>1, TwoSum
    <3>2. Two[l] <= b
      <4>1. l <= q
        BY <2>6, <2>9
      <4> QED BY <2>6, <2>8, <2>9, <4>1, TwoMonotone
    <3>3. c <= a
      BY <2>6, <2>8, TwoMonotone
    <3> QED BY <3>1, <3>2, <3>3
  <2>11. c >= 8
    <3>1. 3 \in 0 .. MaxBits /\ 2 \in 0 .. MaxBits /\ 1 \in 0 .. MaxBits
      BY <2>6, TwoType
    <3>2. Two[3] <= Two[CharBits]
      BY <2>6, <3>1, TwoMonotone, TwoType
    <3>3. Two[3] = 2 * Two[2] /\ Two[2] = 2 * Two[1] /\ Two[1] = 2 * Two[0]
      BY <3>1, TwoType, 3 \in 1 .. MaxBits, 2 \in 1 .. MaxBits, 1 \in 1 .. MaxBits
    <3> QED BY <2>8, <3>2, <3>3, TwoType
  <2>12. a * c >= 8 * a
    <3>1. a * (c - 8) >= 0 /\ a * (c - 8) = a * c - 8 * a
      BY <2>11
    <3> QED BY <3>1, a * c \in Nat
  \* The character the borrow ends at is below the top.
  <2>13. PICK v \in Nat : v = N % b /\ v <= N
    BY <2>7, Quotient, N \div b \in Nat, b * (N \div b) \in Nat
  <2>14. v >= a
    <3>1. SUFFICES ASSUME v < a PROVE FALSE
      OBVIOUS
    <3>2. PICK d \in Nat : b = (a * c) * d
      <4>1. PICK g \in 0 .. MaxBits : q = l + g
        <5>1. l <= q /\ l \in Nat /\ q \in Nat /\ q <= MaxBits
          BY <2>6, <2>9, TwoType
        <5>2. MaxBits \in Nat
          BY TwoType
        <5>3. PICK g \in Nat : g = q - l
          BY <5>1
        <5>4. g \in 0 .. MaxBits /\ q = l + g
          BY <5>1, <5>2, <5>3
        <5> QED BY <5>4
      <4>2. l + g <= MaxBits
        BY <4>1
      <4>3. Two[l + g] = Two[l] * Two[g] /\ Two[g] \in Nat
        BY <4>2, TwoSum, TwoType
      <4> QED BY <2>8, <2>10, <4>1, <4>3
    <3>3. PICK w \in Nat : N = b * w + v
      BY <2>7, <2>13, Quotient
    <3>4. PICK u \in Nat : u = c * (d * w)
      OBVIOUS
    <3>5. N = a * u + v
      <4>1. ((a * c) * d) * w = a * (c * (d * w))
        OBVIOUS
      <4> QED BY <3>2, <3>3, <3>4, <4>1
    <3>6. N \div a = u
      BY <2>7, <3>1, <3>5, Quotients
    <3>7. u % c = 0
      <4>1. PICK g \in Nat : g = d * w
        OBVIOUS
      <4>2. u = c * g + 0 /\ 0 \in Nat /\ 0 < c
        BY <2>7, <3>4, <4>1, c * g \in Nat
      <4> QED BY <2>7, <4>2, Quotients
    <3> QED BY <2>3, <2>7, <3>6, <3>7
  <2>15. v + a <= N
    <3>1. b <= N
      <4>1. q <= n - 1 /\ n - 1 \in 0 .. MaxBits
        <5>1. n <= CharBits * Ceiling(n) /\ Ceiling(n) = h + 1
          BY <2>2, <2>4, LastChar DEF top
        <5>2. Full(n) \/ ~Full(n)
          OBVIOUS
        <5>3. CharBits * (Ceiling(n) - 1) = CharBits * h
          BY <5>1, <2>4
        <5>4. CharBits * (Ceiling(n) - 1) <= n - 1
          <6>1. CASE Full(n)
            BY <6>1, LastChar, TwoType
          <6>2. CASE ~Full(n)
            <7>1. n % CharBits # 0
              BY <6>2 DEF Full
            <7> QED BY <6>2, <7>1, LastChar, TwoType
          <6> QED BY <6>1, <6>2
        <5> QED BY <2>6, <5>3, <5>4, TwoType
      <4>2. Two[q] <= Two[n - 1]
        BY <4>1, TwoMonotone
      <4> QED BY <2>2, <2>8, <4>1, <4>2, TwoType
    <3>2. PICK w \in Nat : N = b * w + v /\ v < b
      BY <2>7, <2>13, Quotient
    <3>3. w # 0
      <4>1. b * 0 = 0
        BY <2>7
      <4> QED BY <3>1, <3>2, <4>1
    <3>4. b * w >= b
      <4>1. b * (w - 1) >= 0 /\ b * (w - 1) = b * w - b
        BY <3>3
      <4> QED BY <4>1, b * w \in Nat
    <3>5. a <= b
      BY <2>10, <2>11, <2>12
    <3> QED BY <3>2, <3>4, <3>5
  <2>16. N4 = v - 4 + a
    BY <1>1, <1>3, <2>1, <2>4, <2>7, <2>13
  <2> QED BY <2>10, <2>11, <2>14, <2>15, <2>16
<1> QED BY <1>2, <1>3

LEMMA RoundRange == RangeInv /\ Round => RangeInv'
<1> SUFFICES ASSUME RangeInv, Round PROVE RangeInv'
  OBVIOUS
<1>1. IndInv'
  BY RoundInv
<1>2. CASE t = 0
  BY <1>1, <1>2, VerdictRange DEF Round, Certain
<1>3. CASE t # 0
  <2>1. pc' = "zrand" /\ max' = N4 /\ UNCHANGED call /\ pc \in {"zptest", "round"}
    BY <1>3 DEF Round, Goto
  <2>2. call.routine = "zptest"
    BY <2>1 DEF IndInv
  <2>3. N > 3 /\ N % 2 = 1
    BY <2>1, <2>2 DEF Round
  <2>4. N4 \in 0 .. N - 4
    BY <2>3, N4Range
  <2>5. Limits'
    BY <2>1, <2>2, <2>3, <2>4
  <2> QED BY <1>1, <2>1, <2>5, NoNumber
<1> QED BY <1>2, <1>3

LEMMA ModPowRange == RangeInv /\ ModPow => RangeInv'
<1> SUFFICES ASSUME RangeInv, ModPow PROVE RangeInv'
  OBVIOUS
<1>1. IndInv'
  BY ModPowInv
<1>2. pc' = "bits" /\ pc = "power" /\ UNCHANGED call
  BY DEF ModPow, Goto
<1>3. Limits'
  BY <1>2 DEF IndInv
<1> QED BY <1>1, <1>2, <1>3, NoNumber

LEMMA BitRange == RangeInv /\ Bit => RangeInv'
<1> SUFFICES ASSUME RangeInv, Bit PROVE RangeInv'
  OBVIOUS
<1>1. IndInv'
  BY BitInv
<1>2. pc' = "bits" /\ pc = "bits" /\ UNCHANGED call
  BY DEF Bit, Goto
<1>3. Limits'
  BY <1>2 DEF IndInv
<1> QED BY <1>1, <1>2, <1>3, NoNumber

LEMMA CompareRange == RangeInv /\ Compare => RangeInv'
<1> SUFFICES ASSUME RangeInv, Compare PROVE RangeInv'
  OBVIOUS
<1>1. IndInv'
  BY CompareInv
<1>2. pc' \in {"round", "square"} /\ pc = "bits" /\ UNCHANGED call
  BY DEF Compare, Goto
<1>3. Limits'
  BY <1>2 DEF IndInv
<1> QED BY <1>1, <1>2, <1>3, NoNumber

LEMMA SquaresUsedUpRange == RangeInv /\ SquaresUsedUp => RangeInv'
BY SquaresUsedUpInv, VerdictRange DEF SquaresUsedUp, Certain

LEMMA SquareRange == RangeInv /\ Square => RangeInv'
<1> SUFFICES ASSUME RangeInv, Square PROVE RangeInv'
  OBVIOUS
<1>1. IndInv'
  BY SquareInv
<1>2. \/ Verdict("NONPRIME", base)
      \/ pc' \in {"round", "square"} /\ pc = "square" /\ UNCHANGED call
  BY DEF Square, Goto
<1>3. CASE Verdict("NONPRIME", base)
  BY <1>1, <1>3, VerdictRange
<1>4. CASE pc' \in {"round", "square"} /\ pc = "square" /\ UNCHANGED call
  <2>1. Limits'
    BY <1>4 DEF IndInv
  <2> QED BY <1>1, <1>4, <2>1, NoNumber
<1> QED BY <1>2, <1>3, <1>4

LEMMA NextRange == RangeInv /\ [Next]_vars => RangeInv'
<1> SUFFICES ASSUME RangeInv, [Next]_vars PROVE RangeInv'
  OBVIOUS
<1>1. CASE Next
  BY <1>1, ChooseRange, OpenRange, SignRange, LibcFillsRange, ReadRange, MemoryFailsRange,
     MaskRange, DistributeRange, AgainRange, DrawnRange, SmallRange, EvenRange, RoundRange,
     ModPowRange, BitRange, CompareRange, SquaresUsedUpRange, SquareRange DEF Next, ZRandStep, ZPTestStep
<1>2. CASE UNCHANGED vars
  <2>1. IndInv'
    BY <1>2, NextInv
  <2> QED BY <1>2, <2>1 DEF vars, RandomInRange, Successful
<1> QED BY <1>1, <1>2

\* zrand: for every maximum, every width of characters, every distribution and all bits
\* the device delivers, the number returned is in the range if the result is not the
\* maximum itself; and each number of the range can be drawn exactly if the maximum has
\* no whole number of characters, for then its last character is masked to nothing.
THEOREM NumbersAreInRange == Spec => []RandomInRange
<1>1. RangeInv => RandomInRange
  OBVIOUS
<1> HIDE DEF RangeInv
<1> QED BY <1>1, InitRange, NextRange, PTL DEF Spec

HIDE DEF RangeInv, Asked, Limits, InBits, InRange, Shaped

------------------------------------------------------------------------------
(* The powers zptest computes.                                               *)

AreReduced(f, b, n, m) ==
  f = [k \in 0 .. n |-> IF k = 0 THEN 1
                        ELSE IF k % 2 = 1 THEN (f[k - 1] * b) % m
                        ELSE (f[k \div 2] * f[k \div 2]) % m]

LEMMA PowerModIs ==
  ASSUME NEW b, NEW n
  PROVE  PowerMod(b, n) = (CHOOSE f : AreReduced(f, b, n, N))[n]
BY Zenon DEF PowerMod, AreReduced

\* A step of the recursion: from the power before, or from half of it.
LEMMA ReducedStep ==
  ASSUME NEW m \in Nat, m > 1, NEW b \in Nat, NEW k \in Nat, k # 0
  PROVE  /\ k % 2 = 1 => /\ k - 1 \in Nat /\ k - 1 < k
                         /\ Residue(Raised(b, k), m) = (Residue(Raised(b, k - 1), m) * b) % m
         /\ k % 2 # 1 => /\ k \div 2 \in Nat /\ k \div 2 < k
                         /\ Residue(Raised(b, k), m)
                              = (Residue(Raised(b, k \div 2), m) * Residue(Raised(b, k \div 2), m)) % m
<1>1. CASE k % 2 = 1
  <2>1. PICK j \in Nat : j = k - 1 /\ k = j + 1
    BY k - 1 \in Nat
  <2>2. PICK v \in Nat : v = Raised(b, j) /\ Raised(b, j + 1) = b * v
    BY RaisedSteps
  <2>3. b * v = v * b
    OBVIOUS
  <2>4. Residue(v * b, m) = Residue(Residue(v, m) * b, m)
    BY ModProduct
  <2>5. Residue(Raised(b, k), m) = Residue(Residue(Raised(b, k - 1), m) * b, m)
    BY <2>1, <2>2, <2>3, <2>4
  <2>6. Residue(Raised(b, k), m) = (Residue(Raised(b, k - 1), m) * b) % m
    BY <2>5, Zenon DEF Residue
  <2> QED BY <1>1, <2>1, <2>6
<1>2. CASE k % 2 # 1
  <2>1. PICK j \in Nat : j = k \div 2 /\ k = j + j /\ j < k
    BY <1>2
  <2>2. PICK v \in Nat : v = Raised(b, j)
    BY RaisedSteps
  <2>3. Raised(b, j + j) = v * v
    BY <2>2, RaisedSum
  <2>4. Residue(v * v, m) = Residue(Residue(v, m) * Residue(v, m), m)
    BY ModProduct
  <2>5. Residue(Raised(b, k), m) = Residue(Residue(Raised(b, j), m) * Residue(Raised(b, j), m), m)
    BY <2>1, <2>2, <2>3, <2>4
  <2>6. Residue(Raised(b, k), m) = (Residue(Raised(b, j), m) * Residue(Raised(b, j), m)) % m
    BY <2>5, Zenon DEF Residue
  <2> QED BY <1>2, <2>1, <2>6
<1> QED BY <1>1, <1>2

LEMMA ReducedExist ==
  ASSUME NEW m \in Nat, m > 1, NEW b \in Nat, NEW n \in Nat
  PROVE  \E f : AreReduced(f, b, n, m)
<1> DEFINE f == [k \in 0 .. n |-> Residue(Raised(b, k), m)]
           F(k) == IF k = 0 THEN 1
                   ELSE IF k % 2 = 1 THEN (f[k - 1] * b) % m
                   ELSE (f[k \div 2] * f[k \div 2]) % m
<1>1. ASSUME NEW k \in 0 .. n PROVE Residue(Raised(b, k), m) = F(k)
  <2>0. k \in Nat /\ k <= n
    OBVIOUS
  <2>1. CASE k = 0
    <3>1. Raised(b, 0) = 1 /\ Residue(1, m) = 1
      BY RaisedSteps, ModType, 1 \in Nat
    <3> QED BY <2>1, <3>1
  <2>2. CASE k # 0 /\ k % 2 = 1
    <3>1. k - 1 \in Nat /\ k - 1 < k
          /\ Residue(Raised(b, k), m) = (Residue(Raised(b, k - 1), m) * b) % m
      BY <2>0, <2>2, ReducedStep
    <3>2. k - 1 \in 0 .. n
      BY <2>0, <3>1
    <3>3. f[k - 1] = Residue(Raised(b, k - 1), m)
      BY <3>2
    <3> QED BY <2>2, <3>1, <3>3
  <2>3. CASE k # 0 /\ k % 2 # 1
    <3>1. /\ k \div 2 \in Nat /\ k \div 2 < k
          /\ Residue(Raised(b, k), m)
               = (Residue(Raised(b, k \div 2), m) * Residue(Raised(b, k \div 2), m)) % m
      BY <2>0, <2>3, ReducedStep
    <3>2. k \div 2 \in 0 .. n
      BY <2>0, <3>1
    <3>3. f[k \div 2] = Residue(Raised(b, k \div 2), m)
      BY <3>2
    <3> QED BY <2>3, <3>1, <3>3
  <2> QED BY <2>1, <2>2, <2>3
<1>2. f = [k \in 0 .. n |-> F(k)]
  BY <1>1
<1>3. AreReduced(f, b, n, m)
  BY <1>2, Zenon DEF AreReduced
<1> QED BY <1>3

LEMMA ReducedAre ==
  ASSUME NEW m \in Nat, m > 1, NEW b \in Nat, NEW n \in Nat, NEW f, AreReduced(f, b, n, m)
  PROVE  \A k \in 0 .. n : f[k] = Residue(Raised(b, k), m)
<1> DEFINE Z == {k \in Nat : k <= n => f[k] = Residue(Raised(b, k), m)}
<1>1. \A k \in 0 .. n : f[k] = IF k = 0 THEN 1
                               ELSE IF k % 2 = 1 THEN (f[k - 1] * b) % m
                               ELSE (f[k \div 2] * f[k \div 2]) % m
  BY Zenon DEF AreReduced
<1>2. ASSUME NEW k \in Nat, \A j \in Nat : j < k => j \in Z PROVE k \in Z
  <2> SUFFICES ASSUME k <= n PROVE f[k] = Residue(Raised(b, k), m)
    OBVIOUS
  <2>0. k \in 0 .. n /\ \A j \in Nat : j < k => f[j] = Residue(Raised(b, j), m)
    BY <1>2
  <2>1. CASE k = 0
    <3>1. Raised(b, 0) = 1 /\ Residue(1, m) = 1
      BY RaisedSteps, ModType, 1 \in Nat
    <3> QED BY <1>1, <2>0, <2>1, <3>1
  <2>2. CASE k # 0 /\ k % 2 = 1
    <3>1. k - 1 \in Nat /\ k - 1 < k
          /\ Residue(Raised(b, k), m) = (Residue(Raised(b, k - 1), m) * b) % m
      BY <2>2, ReducedStep
    <3>2. f[k] = (f[k - 1] * b) % m
      BY <1>1, <2>0, <2>2
    <3> QED BY <2>0, <3>1, <3>2
  <2>3. CASE k # 0 /\ k % 2 # 1
    <3>1. /\ k \div 2 \in Nat /\ k \div 2 < k
          /\ Residue(Raised(b, k), m)
               = (Residue(Raised(b, k \div 2), m) * Residue(Raised(b, k \div 2), m)) % m
      BY <2>3, ReducedStep
    <3>2. f[k] = (f[k \div 2] * f[k \div 2]) % m
      BY <1>1, <2>0, <2>3
    <3> QED BY <2>0, <3>1, <3>2
  <2> QED BY <2>1, <2>2, <2>3
<1>3. \A k \in Nat : k \in Z
  <2>1. Z \in SUBSET Nat
    OBVIOUS
  <2> HIDE DEF Z
  <2> QED BY <1>2, <2>1, CompletelyInductive
<1> QED BY <1>3

LEMMA PowerModExact ==
  ASSUME N \in Nat, N > 1, NEW b \in Nat, NEW n \in Nat
  PROVE  PowerMod(b, n) = Residue(Raised(b, n), N)
<1>1. PICK m \in Nat : m = N /\ m > 1
  OBVIOUS
<1> DEFINE f == CHOOSE g : AreReduced(g, b, n, m)
<1>2. AreReduced(f, b, n, m)
  BY <1>1, ReducedExist, Zenon
<1> HIDE DEF f
<1>3. f[n] = Residue(Raised(b, n), m)
  BY <1>1, <1>2, ReducedAre
<1>4. PowerMod(b, n) = f[n]
  BY <1>1, PowerModIs DEF f
<1> QED BY <1>1, <1>3, <1>4

\* A number below the largest power of two is odd after as many halvings as zlsb says.
LEMMA OddPart ==
  ASSUME NEW n \in Nat, 0 < n, n < Two[MaxBits]
  PROVE  \E k \in 0 .. MaxBits : n % Two[k] = 0 /\ (n \div Two[k]) % 2 = 1
<1> DEFINE P(v) == \E k \in 0 .. MaxBits : v % Two[k] = 0 /\ (v \div Two[k]) % 2 = 1
           Z == {v \in Nat : 0 < v /\ v < Two[MaxBits] => P(v)}
<1>1. ASSUME NEW v \in Nat, \A u \in Nat : u < v => u \in Z PROVE v \in Z
  <2> SUFFICES ASSUME 0 < v, v < Two[MaxBits] PROVE P(v)
    OBVIOUS
  <2>1. CASE v % 2 = 1
    <3>1. v % 1 = 0 /\ v \div 1 = v
      OBVIOUS
    <3>2. 0 \in 0 .. MaxBits /\ Two[0] = 1
      BY TwoType
    <3> QED BY <2>1, <3>1, <3>2
  <2>2. CASE v % 2 # 1
    <3>1. PICK u \in Nat : v = 2 * u /\ 0 < u /\ u < v
      BY <2>2
    <3>2. Two[MaxBits] \in Nat
      BY TwoType
    <3>3. u < Two[MaxBits]
      BY <3>1, <3>2
    <3>4. P(u)
      BY <1>1, <3>1, <3>3
    <3>5. PICK k \in 0 .. MaxBits : u % Two[k] = 0 /\ (u \div Two[k]) % 2 = 1
      BY <3>4
    <3>6. PICK e \in Nat : e = Two[k] /\ e > 0
      BY TwoType
    <3>7. PICK d \in Nat : u = e * d
      BY <3>5, <3>6, Multiple
    <3>8. u = e * d + 0 /\ 0 \in Nat
      BY <3>7, e * d \in Nat
    <3>9. u \div e = d
      BY <3>6, <3>8, Quotients
    <3>10. d % 2 = 1
      BY <3>5, <3>6, <3>9
    <3>11. d > 0
      BY <3>10
    <3>12. e <= u
      <4>1. e * (d - 1) >= 0 /\ e * (d - 1) = e * d - e
        BY <3>11
      <4> QED BY <3>7, <4>1
    <3>13. k # MaxBits
      BY <3>2, <3>3, <3>6, <3>12
    <3>14. k + 1 \in 1 .. MaxBits /\ k + 1 \in 0 .. MaxBits /\ (k + 1) - 1 = k
      BY <3>13, TwoType
    <3>15. Two[k + 1] = 2 * e
      BY <3>6, <3>14, TwoType
    <3>16. PICK f \in Nat : f = 2 * e /\ f > 0
      BY <3>6
    <3>17. v = f * d + 0
      <4>1. 2 * (e * d) = (2 * e) * d
        OBVIOUS
      <4> QED BY <3>1, <3>7, <3>16, <4>1, f * d \in Nat
    <3>18. v \div f = d /\ v % f = 0
      BY <3>8, <3>16, <3>17, Quotients
    <3> QED BY <3>10, <3>14, <3>15, <3>16, <3>18
  <2> QED BY <2>1, <2>2
<1>2. \A v \in Nat : v \in Z
  <2>1. Z \in SUBSET Nat
    OBVIOUS
  <2> HIDE DEF Z
  <2> QED BY <1>1, <2>1, CompletelyInductive
<1> QED BY <1>2

\* What zptest works with: n - 1 is d times a power of two that is not 1.
LEMMA Halvings ==
  ASSUME N \in Nat, N > 3, N % 2 = 1, N < Two[MaxBits]
  PROVE  /\ S \in 1 .. MaxBits /\ D \in Nat
         /\ N - 1 = D * Two[S]
<1>1. PICK n \in Nat : n = N - 1 /\ 0 < n /\ n < Two[MaxBits] /\ n % 2 = 0
  <2>1. Two[MaxBits] \in Nat
    BY TwoType
  <2>2. N - 1 \in Nat /\ 0 < N - 1 /\ (N - 1) % 2 = 0
    OBVIOUS
  <2> QED BY <2>1, <2>2
<1>2. \E k \in 0 .. MaxBits : n % Two[k] = 0 /\ (n \div Two[k]) % 2 = 1
  BY <1>1, OddPart
<1>3. S = CHOOSE k \in 0 .. MaxBits : n % Two[k] = 0 /\ (n \div Two[k]) % 2 = 1
  BY <1>1 DEF S
<1>4. S \in 0 .. MaxBits /\ n % Two[S] = 0 /\ (n \div Two[S]) % 2 = 1
  BY <1>2, <1>3, Zenon
<1>5. PICK k \in 0 .. MaxBits : k = S
  BY <1>4
<1>6. PICK e \in Nat : e = Two[k] /\ e > 0
  BY TwoType
<1>7. PICK d \in Nat : n = e * d
  BY <1>4, <1>5, <1>6, Multiple
<1>8. n = e * d + 0 /\ 0 \in Nat
  BY <1>7, e * d \in Nat
<1>9. n \div e = d
  BY <1>6, <1>8, Quotients
<1>10. D = d
  BY <1>1, <1>5, <1>6, <1>9 DEF D
<1>11. k # 0
  <2>1. SUFFICES ASSUME k = 0 PROVE FALSE
    OBVIOUS
  <2>2. e = 1
    BY <1>6, <2>1, TwoType
  <2>3. n = d
    BY <1>7, <2>2
  <2>4. d % 2 = 1
    BY <1>4, <1>5, <1>6, <1>9
  <2> QED BY <1>1, <2>3, <2>4
<1>12. d * e = e * d
  OBVIOUS
<1>13. N - 1 = D * Two[S]
  BY <1>1, <1>5, <1>6, <1>7, <1>10, <1>12
<1>14. S \in 1 .. MaxBits
  BY <1>5, <1>11, TwoType
<1> QED BY <1>10, <1>13, <1>14

\* What zptest compares in its loop.
LEMMA PowerIsSquared ==
  ASSUME N \in Nat, N > 3, N % 2 = 1, N < Two[MaxBits], NEW b \in Nat
  PROVE  /\ PowerMod(b, D) = Squared(b, D, 0, N)
         /\ \A k \in 0 .. S - 1 : PowerMod(b, D * Two[k]) = Squared(b, D, k, N)
<1>1. S \in 1 .. MaxBits /\ D \in Nat
  BY Halvings
<1>2. PICK d \in Nat, s \in 1 .. MaxBits : d = D /\ s = S
  BY <1>1
<1>3. PICK n \in Nat : n = N /\ n > 1
  OBVIOUS
<1>4. PowerMod(b, d) = Residue(Raised(b, d), n)
  BY <1>3, PowerModExact
<1>5. Squared(b, d, 0, n) = Residue(Raised(b, d), n)
  BY <1>3, SquaredSteps
<1>6. ASSUME NEW k \in 0 .. s - 1 PROVE PowerMod(b, d * Two[k]) = Squared(b, d, k, n)
  <2>1. k \in 0 .. MaxBits
    BY <1>2, TwoType
  <2>2. PICK e \in Nat : e = Two[k] /\ e = Raised(2, k)
    BY <2>1, TwoType
  <2>3. PICK h \in Nat : h = d * e
    OBVIOUS
  <2>4. PowerMod(b, h) = Residue(Raised(b, h), n)
    BY <1>3, PowerModExact
  <2> QED BY <2>2, <2>3, <2>4 DEF Squared
<1> QED BY <1>2, <1>3, <1>4, <1>5, <1>6

\* A base whose powers never come to n - 1 and do not start at 1 shows n composite.
LEMMA WitnessIs ==
  ASSUME N \in Nat, N > 3, N % 2 = 1, N < Two[MaxBits], NEW b \in 2 .. N - 2,
         Squared(b, D, 0, N) # 1, \A k \in 0 .. S - 1 : Squared(b, D, k, N) # N - 1
  PROVE  IsWitness(b) /\ ~IsPrime(N)
<1>1. S \in 1 .. MaxBits /\ D \in Nat /\ N - 1 = D * Two[S] /\ b \in Nat
  BY Halvings
<1>2. IsWitness(b)
  BY <1>1, PowerIsSquared DEF IsWitness
<1>3. SUFFICES ASSUME Prime(N) PROVE FALSE
  BY <1>2 DEF IsPrime, Prime
<1>4. PICK d \in Nat, s \in Nat, n \in Nat : d = D /\ s = S /\ n = N /\ S \in 0 .. MaxBits
  <2>1. S \in Nat /\ S \in 0 .. MaxBits
    BY <1>1, TwoType
  <2> QED BY <1>1, <2>1
<1>5. n > 1 /\ Prime(n) /\ b < n
  BY <1>3, <1>4
<1>6. Residue(b, n) # 0
  BY <1>1, <1>5, ModType
<1>7. n - 1 = d * Raised(2, s)
  BY <1>1, <1>4, TwoType
<1>8. Residue(Raised(b, d), n) # 1
  BY <1>1, <1>4, <1>5, SquaredSteps
<1>9. PICK k \in 0 .. s - 1 : Squared(b, d, k, n) = n - 1
  BY <1>1, <1>5, <1>6, <1>7, <1>8, PrimesHaveNoWitness
<1> QED BY <1>4, <1>9

------------------------------------------------------------------------------
(* The verdicts.                                                             *)

\* The base is one that the test allows, and what is in x is the power of it that the
\* loop believes, unless zmodpow was given an exponent that fills its characters or some
\* product was wrong; none so far was n - 1.
Bases == call.routine = "zptest" /\ pc \in {"power", "bits", "square"} => base \in 2 .. N - 2

\* The powers that x and sq are, and what is left of the exponent.
Stands(g, e) ==
  /\ rest \in Nat /\ D = g + e * rest /\ x = Residue(Raised(base, g), N)
  /\ "base" \notin lost => sq = Residue(Raised(base, e), N)

Bits ==
  pc = "bits" /\ ~Full(BitsOf(D)) /\ "power" \notin lost => \E g, e \in Nat : Stands(g, e)

Squares ==
  pc = "square" =>
    /\ i \in 1 .. S
    /\ ~Full(BitsOf(D)) /\ "power" \notin lost =>
         /\ x = Squared(base, D, i - 1, N) /\ Squared(base, D, 0, N) # 1
         /\ \A k \in 0 .. i - 1 : Squared(base, D, k, N) # N - 1

VerdictInv == RangeInv /\ Bases /\ Bits /\ Squares /\ VerdictIsCertain

LEMMA OddNumber ==
  ASSUME RangeInv, call.routine = "zptest", pc \notin {"zptest", "returned"}
  PROVE  N \in Nat /\ N > 3 /\ N % 2 = 1 /\ N < Two[MaxBits]
BY DEF RangeInv, Asked, Limits

\* A step that gives no verdict.
LEMMA NoVerdict ==
  ASSUME VerdictInv, RangeInv', UNCHANGED call,
         \/ call.routine = "zrand"
         \/ pc' \notin {"returned", "power", "bits", "square"}
         \/ /\ pc \notin {"zptest", "returned"} /\ pc' = "returned"
            /\ result' \notin {"PRIME", "NONPRIME", "PROBABLY_PRIME"}
  PROVE  VerdictInv'
<1>1. call.routine = "zrand" => pc' \notin {"bits", "square"}
  BY DEF RangeInv, IndInv
<1>2. Bases' /\ Bits' /\ Squares'
  BY <1>1 DEF Bases, Bits, Squares
<1>3. VerdictIsCertain'
  <2>1. CASE call.routine = "zptest" /\ pc \notin {"zptest", "returned"}
    <3>1. N \in Nat /\ N > 3
      BY <2>1, OddNumber DEF VerdictInv
    <3> QED BY <2>1, <3>1 DEF VerdictIsCertain
  <2> QED BY <2>1 DEF VerdictIsCertain
<1> QED BY <1>2, <1>3 DEF VerdictInv

LEMMA InitVerdict == Init => VerdictInv
<1> SUFFICES ASSUME Init PROVE VerdictInv
  OBVIOUS
<1>1. pc \in {"zrand", "zptest"}
  BY DEF Init
<1>2. Bases /\ Bits /\ Squares /\ VerdictIsCertain
  BY <1>1 DEF Bases, Bits, Squares, VerdictIsCertain
<1> QED BY <1>2, InitRange DEF VerdictInv

\* zrand, whoever called it, gives none.
LEMMA ZRandVerdict == VerdictInv /\ (ZRandStep \/ MemoryFails) /\ ~Drawn => VerdictInv'
<1> SUFFICES ASSUME VerdictInv, ZRandStep \/ MemoryFails, ~Drawn PROVE VerdictInv'
  OBVIOUS
<1>1. RangeInv'
  BY NextRange DEF Next, VerdictInv
<1>2. UNCHANGED call /\ pc \in InZRand
  BY DEF ZRandStep, Choose, Open, Sign, LibcFills, Read, Mask, Distribute, Again, MemoryFails,
         Goto, Fail, Return
<1>3. \/ pc' \in InZRand
      \/ pc' = "returned" /\ result' \notin {"PRIME", "NONPRIME", "PROBABLY_PRIME"}
  BY DEF ZRandStep, Choose, Open, Sign, LibcFills, Read, Mask, Distribute, Again, MemoryFails,
         Goto, Fail, Return
<1> QED BY <1>1, <1>2, <1>3, NoVerdict

\* The number drawn is a base between 2 and n - 2.
LEMMA DrawnVerdict == VerdictInv /\ Drawn => VerdictInv'
<1> SUFFICES ASSUME VerdictInv, Drawn PROVE VerdictInv'
  OBVIOUS
<1>1. RangeInv' /\ RangeInv
  BY DrawnRange DEF VerdictInv
<1>2. pc = "drawn" /\ UNCHANGED call /\ call.routine \in {"zrand", "zptest"}
  BY <1>1 DEF Drawn, Return, Goto, RangeInv, IndInv
<1>3. CASE call.routine = "zrand"
  BY <1>1, <1>2, <1>3, NoVerdict
<1>4. CASE call.routine = "zptest"
  <2>1. pc' = "power" /\ base' = r + 2
    BY <1>4 DEF Drawn, Goto
  <2>2. N \in Nat /\ N > 3
    BY <1>1, <1>2, <1>4, OddNumber
  <2>3. r \in 0 .. N - 4
    <3>1. ~call.same /\ max \in 0 .. N - 4 /\ call.dist = "UNIFORM"
      BY <1>1, <1>2, <1>4 DEF RangeInv, Asked, Limits
    <3>2. r \in 0 .. max
      BY <1>1, <1>2, <3>1 DEF RangeInv, InRange
    <3> QED BY <2>2, <3>1, <3>2
  <2>4. r + 2 \in 2 .. N - 2
    BY <2>2, <2>3
  <2>5. Bases' /\ Bits' /\ Squares'
    BY <1>2, <2>1, <2>4 DEF Bases, Bits, Squares
  <2>6. VerdictIsCertain'
    BY <2>1 DEF VerdictIsCertain
  <2> QED BY <1>1, <2>5, <2>6 DEF VerdictInv
<1> QED BY <1>2, <1>3, <1>4

\* What is a witness depends on the number that is asked about.
PowerOf(b, n, m) ==
  LET f[k \in 0 .. n] ==
        IF k = 0 THEN 1
        ELSE IF k % 2 = 1 THEN (f[k - 1] * b) % m
        ELSE LET root == f[k \div 2] IN (root * root) % m
  IN f[n]

WitnessOf(b, n, d, s) ==
  \/ n % b = 0 /\ b \in 2 .. n - 1
  \/ /\ PowerOf(b, d, n) # 1
     /\ \A k \in 0 .. s - 1 : PowerOf(b, d * Two[k], n) # n - 1

LEMMA SameWitness ==
  ASSUME UNCHANGED call, NEW w, witness' = w
  PROVE  D' = D /\ S' = S /\ (IsWitness(witness)' <=> IsWitness(w))
<1>1. call' = call
  OBVIOUS
<1>2. D' = D /\ S' = S /\ N' = N
  BY <1>1 DEF D, S
<1>3. IsWitness(w) <=> WitnessOf(w, N, D, S)
  BY DEF IsWitness, PowerMod, WitnessOf, PowerOf
<1>4. IsWitness(witness)' <=> WitnessOf(witness', N', D', S')
  BY DEF IsWitness, PowerMod, WitnessOf, PowerOf
<1> QED BY <1>2, <1>3, <1>4

\* What a verdict needs.
LEMMA VerdictHolds ==
  ASSUME VerdictInv, RangeInv', NEW v, NEW w, Verdict(v, w),
         v = "PRIME" <=> N \in {2, 3}, v = "NONPRIME" /\ N <= 1 => w = N,
         v = "NONPRIME" /\ N > 1 =>
           IF N % 2 = 1 /\ (Full(BitsOf(D)) \/ "power" \in lost') THEN w \in 2 .. N - 2
                                                             ELSE ~IsPrime(N) /\ IsWitness(w),
         v = "PROBABLY_PRIME" => N > 3 /\ N % 2 = 1
  PROVE  VerdictInv'
<1>1. pc' = "returned" /\ result' = v /\ witness' = w /\ UNCHANGED call
  BY DEF Verdict, Return
<1>2. D' = D /\ S' = S
  BY <1>1, SameWitness
<1>3. Bases' /\ Bits' /\ Squares'
  BY <1>1 DEF Bases, Bits, Squares
<1>4. IsWitness(w) => IsWitness(witness)'
  BY <1>1, SameWitness
<1>5. VerdictIsCertain'
  BY <1>1, <1>2, <1>4 DEF VerdictIsCertain
<1> QED BY <1>3, <1>5 DEF VerdictInv

LEMMA SmallVerdict == VerdictInv /\ Small => VerdictInv'
<1> SUFFICES ASSUME VerdictInv, Small PROVE VerdictInv'
  OBVIOUS
<1>1. RangeInv' /\ RangeInv
  BY SmallRange DEF VerdictInv
<1>2. N \in Int /\ N <= 3
  BY <1>1 DEF Small, RangeInv, Asked
<1>3. CASE N <= 1
  <2>1. Verdict("NONPRIME", N)
    BY <1>3 DEF Small, Certain
  <2>2. N \notin {2, 3} /\ ~(N > 1)
    BY <1>2, <1>3
  <2> QED BY <1>1, <1>3, <2>1, <2>2, VerdictHolds
<1>4. CASE ~(N <= 1)
  <2>1. Verdict("PRIME", witness)
    BY <1>4 DEF Small, Certain
  <2>2. N \in {2, 3}
    BY <1>2, <1>4
  <2> QED BY <1>1, <2>1, <2>2, VerdictHolds
<1> QED BY <1>3, <1>4

LEMMA EvenVerdict == VerdictInv /\ Even => VerdictInv'
<1> SUFFICES ASSUME VerdictInv, Even PROVE VerdictInv'
  OBVIOUS
<1>1. RangeInv' /\ RangeInv
  BY EvenRange DEF VerdictInv
<1>2. N \in Int /\ N > 3 /\ N % 2 = 0 /\ Verdict("NONPRIME", 2)
  BY <1>1 DEF Even, Certain, RangeInv, Asked
<1>3. 2 \in 2 .. N - 1 /\ N \notin {2, 3} /\ ~(N <= 1) /\ N % 2 # 1
  BY <1>2
<1>4. ~IsPrime(N) /\ IsWitness(2)
  BY <1>2, <1>3 DEF IsPrime, IsWitness
<1> QED BY <1>1, <1>2, <1>3, <1>4, VerdictHolds

LEMMA RoundVerdict == VerdictInv /\ Round => VerdictInv'
<1> SUFFICES ASSUME VerdictInv, Round PROVE VerdictInv'
  OBVIOUS
<1>1. RangeInv' /\ RangeInv
  BY RoundRange DEF VerdictInv
<1>2. CASE t = 0
  <2>1. Verdict("PROBABLY_PRIME", witness)
    BY <1>2 DEF Round, Certain
  <2>2. N \in Int /\ N > 3 /\ N % 2 = 1
    <3>1. call.routine = "zptest" /\ N \in Int
      BY <1>1 DEF Round, RangeInv, IndInv, Asked
    <3> QED BY <1>1, <3>1, OddNumber DEF Round
  <2>3. N \notin {2, 3}
    BY <2>2
  <2> QED BY <1>1, <2>1, <2>2, <2>3, VerdictHolds
<1>3. CASE t # 0
  <2>1. pc' = "zrand" /\ UNCHANGED call
    BY <1>3 DEF Round, Goto
  <2> QED BY <1>1, <2>1, NoVerdict
<1> QED BY <1>2, <1>3

\* zmodpow begins with the powers 0 and 1.
LEMMA ModPowVerdict == VerdictInv /\ ModPow => VerdictInv'
<1> SUFFICES ASSUME VerdictInv, ModPow PROVE VerdictInv'
  OBVIOUS
<1>1. RangeInv' /\ RangeInv
  BY ModPowRange DEF VerdictInv
<1>2. /\ pc = "power" /\ pc' = "bits" /\ UNCHANGED <<call, base>>
      /\ x' = 1 /\ sq' = base
  BY DEF ModPow, Goto
<1>3. call.routine = "zptest"
  BY <1>1, <1>2 DEF RangeInv, IndInv
<1>4. N \in Nat /\ N > 3 /\ N % 2 = 1 /\ N < Two[MaxBits]
  BY <1>1, <1>2, <1>3, OddNumber
<1>5. base \in 2 .. N - 2 /\ base \in Nat
  BY <1>2, <1>3, <1>4 DEF VerdictInv, Bases
<1>6. D \in Nat /\ D' = D
  BY <1>2, <1>4, Halvings DEF S, D
<1>7. Bases' /\ Squares' /\ VerdictIsCertain'
  BY <1>2, <1>5 DEF Bases, Squares, VerdictIsCertain
<1>8. ~Full(BitsOf(D)) => Stands(0, 1)'
  <2>1. SUFFICES ASSUME ~Full(BitsOf(D)) PROVE Stands(0, 1)'
    OBVIOUS
  <2>2. Above = {0}
    BY <2>1 DEF Above, Full
  <2>3. rest' = D
    BY <1>6, <2>2 DEF ModPow
  <2>4. PICK b \in Nat, n \in Nat : b = base /\ n = N /\ n > 3 /\ b < n
    BY <1>4, <1>5
  <2>5. Raised(b, 0) = 1 /\ Raised(b, 0 + 1) = b * 1
    BY RaisedSteps, 0 \in Nat
  <2>6. Residue(1, n) = 1 /\ Residue(b, n) = b
    BY <2>4, ModType, 1 \in Nat
  <2>7. Raised(b, 1) = b
    BY <2>5, 0 + 1 = 1, b * 1 = b
  <2>8. D = 0 + 1 * D
    BY <1>6
  <2> QED BY <1>2, <1>6, <2>3, <2>4, <2>5, <2>6, <2>7, <2>8 DEF Stands
<1>9. Bits'
  BY <1>6, <1>8, 0 \in Nat, 1 \in Nat, Zenon, <1>2 DEF Bits
<1> QED BY <1>1, <1>7, <1>9 DEF VerdictInv

\* A bit more of the exponent: sq is squared, x times sq if it is one.
LEMMA BitVerdict == VerdictInv /\ Bit => VerdictInv'
<1> SUFFICES ASSUME VerdictInv, Bit PROVE VerdictInv'
  OBVIOUS
<1>1. RangeInv' /\ RangeInv
  BY BitRange DEF VerdictInv
<1>2. pc = "bits" /\ pc' = "bits" /\ rest # 0 /\ rest' = rest \div 2 /\ UNCHANGED <<call, base>>
  BY DEF Bit, Goto
<1>3. call.routine = "zptest"
  BY <1>1, <1>2 DEF RangeInv, IndInv
<1>4. N \in Nat /\ N > 3 /\ N % 2 = 1 /\ N < Two[MaxBits]
  BY <1>1, <1>2, <1>3, OddNumber
<1>5. base \in 2 .. N - 2 /\ base \in Nat
  BY <1>2, <1>3, <1>4 DEF VerdictInv, Bases
<1>6. D \in Nat /\ D' = D
  BY <1>2, <1>4, Halvings DEF S, D
<1>7. Bases' /\ Squares' /\ VerdictIsCertain'
  BY <1>2, <1>5 DEF Bases, Squares, VerdictIsCertain
<1>8. PICK s \in ZSqr(sq) :
        /\ sq' = s % N
        /\ IF rest % 2 = 0 THEN x' = x /\ lost' = lost \cup Wrong("base", s, sq, sq)
           ELSE \E p \in ZMul(x, sq) :
                  /\ x' = p % N
                  /\ lost' = (lost \cup Wrong("base", s, sq, sq)) \cup Wrong("power", p, x, sq)
                               \cup (IF "base" \in lost THEN {"power"} ELSE {})
  BY DEF Bit
<1>9. "power" \notin lost' => "power" \notin lost
  BY <1>8
<1>10. "base" \notin lost' => "base" \notin lost /\ sq' = (sq * sq) % N
  BY <1>8 DEF Wrong
<1>11. "power" \notin lost' => IF rest % 2 = 0 THEN x' = x
                               ELSE x' = (x * sq) % N /\ "base" \notin lost
  BY <1>8 DEF Wrong
<1>12. ASSUME ~Full(BitsOf(D)), "power" \notin lost'
       PROVE  \E g, e \in Nat : Stands(g, e)'
  <2>1. PICK g \in Nat, e \in Nat : Stands(g, e)
    BY <1>2, <1>9, <1>12 DEF VerdictInv, Bits
  <2>2. PICK b \in Nat, n \in Nat : b = base /\ n = N /\ n > 1
    BY <1>4, <1>5
  <2>3. PICK v \in Nat, w \in Nat : v = Raised(b, g) /\ w = Raised(b, e)
    BY RaisedSteps
  <2>4. Raised(b, e + e) = w * w /\ Raised(b, g + e) = v * w
    BY <2>3, RaisedSum
  <2>5. /\ Residue(w * w, n) = Residue(Residue(w, n) * Residue(w, n), n)
        /\ Residue(v * w, n) = Residue(Residue(v, n) * Residue(w, n), n)
    <3>1. n > 0
      BY <2>2
    <3>2. v \in Nat /\ w \in Nat /\ n \in Nat
      OBVIOUS
    <3>3. Residue(w * w, n) = Residue(Residue(w, n) * Residue(w, n), n)
      BY ONLY <3>1, <3>2, ModProduct
    <3>4. Residue(v * w, n) = Residue(Residue(v, n) * Residue(w, n), n)
      BY ONLY <3>1, <3>2, ModProduct
    <3> QED BY <3>3, <3>4
  <2>6. x = Residue(v, n) /\ ("base" \notin lost => sq = Residue(w, n))
    BY <2>1, <2>2, <2>3 DEF Stands
  <2>7. "base" \notin lost' => sq' = Residue(Raised(b, e + e), n)
    BY <1>10, <2>2, <2>4, <2>5, <2>6 DEF Residue
  <2>8. rest \in Nat /\ D = g + e * rest
    BY <2>1 DEF Stands
  <2>9. PICK h \in Nat : h = rest \div 2 /\ rest = 2 * h + (rest % 2) /\ rest % 2 \in {0, 1}
    BY <2>8
  <2>10. (e + e) * h = 2 * (e * h) /\ e * (2 * h) = 2 * (e * h) /\ e * (2 * h + 1) = 2 * (e * h) + e
         /\ e * h \in Nat
    BY <2>9
  <2>11. CASE rest % 2 = 0
    <3>1. rest = 2 * h
      BY <2>9, <2>11
    <3>2. D = g + (e + e) * h
      BY <2>8, <2>10, <3>1
    <3>3. x' = x
      BY <1>11, <1>12, <2>11
    <3>4. Stands(g, e + e)'
      BY <1>2, <1>6, <2>2, <2>3, <2>6, <2>7, <2>9, <3>2, <3>3 DEF Stands
    <3> QED BY <3>4, e + e \in Nat
  <2>12. CASE rest % 2 = 1
    <3>1. rest = 2 * h + 1
      BY <2>9, <2>12
    <3>2. D = (g + e) + (e + e) * h
      BY <2>8, <2>10, <3>1
    <3>3. x' = (x * sq) % N /\ "base" \notin lost
      BY <1>11, <1>12, <2>12
    <3>4. x' = Residue(Raised(b, g + e), n)
      BY <2>2, <2>4, <2>5, <2>6, <3>3 DEF Residue
    <3>5. Stands(g + e, e + e)'
      BY <1>2, <1>6, <2>2, <2>7, <2>9, <3>2, <3>4 DEF Stands
    <3> QED BY <3>5, e + e \in Nat, g + e \in Nat
  <2> QED BY <2>9, <2>11, <2>12
<1>13. Bits'
  BY <1>6, <1>12 DEF Bits
<1> QED BY <1>1, <1>7, <1>13 DEF VerdictInv

\* The first power.
LEMMA CompareVerdict == VerdictInv /\ Compare => VerdictInv'
<1> SUFFICES ASSUME VerdictInv, Compare PROVE VerdictInv'
  OBVIOUS
<1>1. RangeInv' /\ RangeInv
  BY CompareRange DEF VerdictInv
<1>2. /\ pc = "bits" /\ pc' \in {"round", "square"} /\ UNCHANGED <<call, base, x, lost>>
      /\ i' = 1 /\ rest = 0
  BY DEF Compare, Goto
<1>3. call.routine = "zptest"
  BY <1>1, <1>2 DEF RangeInv, IndInv
<1>4. CASE pc' = "round"
  BY <1>1, <1>2, <1>4, NoVerdict
<1>5. CASE pc' = "square"
  <2>1. N \in Nat /\ N > 3 /\ N % 2 = 1 /\ N < Two[MaxBits]
    BY <1>1, <1>2, <1>3, OddNumber
  <2>2. base \in 2 .. N - 2 /\ base \in Nat
    BY <1>2, <1>3, <2>1 DEF VerdictInv, Bases
  <2>3. S \in 1 .. MaxBits /\ D \in Nat /\ S' = S /\ D' = D
    BY <1>2, <2>1, Halvings DEF S, D
  <2>4. x # 1 /\ x # N - 1
    BY <1>5 DEF Compare, Goto
  <2>5. ~Full(BitsOf(D)) /\ "power" \notin lost => x = Squared(base, D, 0, N)
    <3>1. SUFFICES ASSUME ~Full(BitsOf(D)), "power" \notin lost PROVE x = Squared(base, D, 0, N)
      OBVIOUS
    <3>2. PICK g \in Nat, e \in Nat : Stands(g, e)
      BY <1>2, <3>1 DEF VerdictInv, Bits
    <3>3. g = D
      BY <1>2, <3>2, e * 0 = 0 DEF Stands
    <3>4. PICK d \in Nat, b \in Nat, n \in Nat : d = D /\ b = base /\ n = N /\ n > 1
      BY <2>1, <2>2, <2>3
    <3>5. Squared(b, d, 0, n) = Residue(Raised(b, d), n)
      BY <3>4, SquaredSteps
    <3> QED BY <3>2, <3>3, <3>4, <3>5 DEF Stands
  <2>6. 1 \in 1 .. S /\ 1 - 1 = 0 /\ \A k \in 0 .. 1 - 1 : k = 0
    BY <2>3, TwoType
  <2>7. Bases' /\ Bits'
    BY <1>2, <1>5, <2>2 DEF Bases, Bits
  <2>8. Squares'
    <3>1. i' \in 1 .. S'
      BY <1>2, <2>3, <2>6
    <3>2. ASSUME ~Full(BitsOf(D)), "power" \notin lost
          PROVE  /\ x' = Squared(base, D, i' - 1, N) /\ Squared(base, D, 0, N) # 1
                 /\ \A k \in 0 .. i' - 1 : Squared(base, D, k, N) # N - 1
      BY <1>2, <2>4, <2>5, <2>6, <3>2
    <3> QED BY <1>2, <2>3, <3>1, <3>2 DEF Squares
  <2>9. VerdictIsCertain'
    BY <1>5 DEF VerdictIsCertain
  <2> QED BY <1>1, <2>7, <2>8, <2>9 DEF VerdictInv
<1> QED BY <1>2, <1>4, <1>5

\* What is known where the squares are compared.
LEMMA AtSquare ==
  ASSUME VerdictInv, pc = "square"
  PROVE  /\ N \in Nat /\ N > 3 /\ N % 2 = 1 /\ N < Two[MaxBits]
         /\ base \in 2 .. N - 2 /\ base \in Nat /\ S \in 1 .. MaxBits /\ D \in Nat
         /\ i \in 1 .. S /\ i \in Nat /\ S \in Nat
<1>1. RangeInv
  BY DEF VerdictInv
<1>2. call.routine = "zptest"
  BY <1>1 DEF RangeInv, IndInv
<1>3. N \in Nat /\ N > 3 /\ N % 2 = 1 /\ N < Two[MaxBits]
  BY <1>1, <1>2, OddNumber
<1>4. base \in 2 .. N - 2 /\ base \in Nat
  BY <1>2, <1>3 DEF VerdictInv, Bases
<1>5. S \in 1 .. MaxBits /\ D \in Nat
  BY <1>3, Halvings
<1>6. i \in 1 .. S
  BY DEF VerdictInv, Squares
<1> QED BY <1>3, <1>4, <1>5, <1>6, TwoType

\* Where a power is neither 1 nor n - 1 and none of its squares is n - 1.
LEMMA SquaresUsedUpVerdict == VerdictInv /\ SquaresUsedUp => VerdictInv'
<1> SUFFICES ASSUME VerdictInv, SquaresUsedUp PROVE VerdictInv'
  OBVIOUS
<1>1. RangeInv'
  BY SquaresUsedUpRange DEF VerdictInv
<1>2. pc = "square" /\ i = S /\ Verdict("NONPRIME", base) /\ lost' = lost
  BY DEF SquaresUsedUp, Certain
<1>3. /\ N \in Nat /\ N > 3 /\ N % 2 = 1 /\ N < Two[MaxBits]
      /\ base \in 2 .. N - 2 /\ S \in Nat /\ N \notin {2, 3} /\ ~(N <= 1)
  BY <1>2, AtSquare
<1>4. ~Full(BitsOf(D)) /\ "power" \notin lost => IsWitness(base) /\ ~IsPrime(N)
  <2>1. SUFFICES ASSUME ~Full(BitsOf(D)), "power" \notin lost
                 PROVE  IsWitness(base) /\ ~IsPrime(N)
    OBVIOUS
  <2>2. Squared(base, D, 0, N) # 1 /\ \A k \in 0 .. S - 1 : Squared(base, D, k, N) # N - 1
    BY <1>2, <2>1 DEF VerdictInv, Squares
  <2> QED BY <1>3, <2>2, WitnessIs
<1> QED BY <1>1, <1>2, <1>3, <1>4, VerdictHolds

\* The next square: if it is 1, none of the rest is n - 1.
LEMMA SquareVerdict == VerdictInv /\ Square => VerdictInv'
<1> SUFFICES ASSUME VerdictInv, Square PROVE VerdictInv'
  OBVIOUS
<1>1. RangeInv'
  BY SquareRange DEF VerdictInv
<1>2. PICK p \in ZSqr(x) :
        /\ pc = "square" /\ i # S
        /\ lost' = lost \cup Wrong("power", p, x, x)
        /\ IF p % N = 1 THEN Verdict("NONPRIME", base)
           ELSE /\ x' = p % N /\ i' = i + 1 /\ UNCHANGED <<call, base>>
                /\ pc' = IF x' = N - 1 THEN "round" ELSE "square"
  BY DEF Square, Goto
<1>3. /\ N \in Nat /\ N > 3 /\ N % 2 = 1 /\ N < Two[MaxBits]
      /\ base \in 2 .. N - 2 /\ base \in Nat /\ S \in 1 .. MaxBits /\ D \in Nat
      /\ i \in 1 .. S /\ i \in Nat /\ S \in Nat
  BY <1>2, AtSquare
<1>4. PICK y : y = p % N
  OBVIOUS
<1>5. ASSUME ~Full(BitsOf(D)), "power" \notin lost'
      PROVE  /\ Squared(base, D, 0, N) # 1
             /\ \A k \in 0 .. i - 1 : Squared(base, D, k, N) # N - 1
             /\ y = Squared(base, D, i, N)
  <2>1. "power" \notin lost /\ p = x * x
    BY <1>2, <1>5 DEF Wrong
  <2>2. /\ x = Squared(base, D, i - 1, N) /\ Squared(base, D, 0, N) # 1
        /\ \A k \in 0 .. i - 1 : Squared(base, D, k, N) # N - 1
    BY <1>2, <1>5, <2>1 DEF VerdictInv, Squares
  <2>3. PICK j \in Nat, d \in Nat, b \in Nat, n \in Nat :
          i = j + 1 /\ d = D /\ b = base /\ n = N /\ n > 1
    <3>1. PICK j \in Nat : i = j + 1
      <4>1. i - 1 \in Nat /\ i = (i - 1) + 1
        BY <1>3
      <4> QED BY <4>1
    <3>2. D \in Nat /\ base \in Nat /\ N \in Nat /\ N > 1
      BY <1>3
    <3> HIDE DEF N
    <3> QED BY <3>1, <3>2
  <2>4. Squared(b, d, j + 1, n) = Residue(Squared(b, d, j, n) * Squared(b, d, j, n), n)
    BY <2>3, SquaredSteps
  <2>5. x = Squared(b, d, j, n)
    BY <2>2, <2>3
  <2>6. y = Residue(x * x, n)
    BY <1>4, <2>1, <2>3 DEF Residue
  <2>7. y = Squared(base, D, i, N)
    BY <2>3, <2>4, <2>5, <2>6
  <2> QED BY <2>2, <2>7
<1>6. CASE y = 1
  <2>1. Verdict("NONPRIME", base)
    BY <1>2, <1>4, <1>6
  <2>2. ~Full(BitsOf(D)) /\ "power" \notin lost' => IsWitness(base) /\ ~IsPrime(N)
    <3>1. SUFFICES ASSUME ~Full(BitsOf(D)), "power" \notin lost'
                   PROVE  IsWitness(base) /\ ~IsPrime(N)
      OBVIOUS
    <3>2. \A k \in 0 .. S - 1 : Squared(base, D, k, N) # N - 1
      <4>1. Squared(base, D, i, N) = 1
        BY <1>5, <1>6, <3>1
      <4>2. PICK j \in Nat, d \in Nat, b \in Nat, n \in Nat :
              i = j /\ d = D /\ b = base /\ n = N /\ n > 3
        BY <1>3
      <4>3. \A k \in Nat : Squared(b, d, j + k, n) = 1
        <5>1. Squared(b, d, j, n) = 1 /\ n > 1
          BY <4>1, <4>2
        <5> QED BY <5>1, SquaresStay
      <4>4. ASSUME NEW k \in 0 .. S - 1 PROVE Squared(base, D, k, N) # N - 1
        <5>1. CASE k \in 0 .. i - 1
          BY <1>5, <3>1, <5>1
        <5>2. CASE k \notin 0 .. i - 1
          <6>1. PICK l \in Nat : k = j + l
            <7>1. k - j \in Nat /\ k = j + (k - j)
              BY <1>3, <4>2, <5>2
            <7> QED BY <7>1
          <6>2. Squared(b, d, k, n) = 1
            BY <4>3, <6>1
          <6> QED BY <4>2, <6>2
        <5> QED BY <5>1, <5>2
      <4> QED BY <4>4
    <3> QED BY <1>3, <1>5, <3>1, <3>2, WitnessIs
  <2>3. N \notin {2, 3} /\ ~(N <= 1)
    BY <1>3
  <2> QED BY <1>1, <1>3, <2>1, <2>2, <2>3, VerdictHolds
<1>7. CASE y # 1
  <2>1. /\ x' = y /\ i' = i + 1 /\ UNCHANGED <<call, base>>
        /\ pc' = IF y = N - 1 THEN "round" ELSE "square"
    BY <1>2, <1>4, <1>7
  <2>2. CASE y = N - 1
    <3>1. pc' = "round"
      BY <2>1, <2>2
    <3> QED BY <1>1, <2>1, <3>1, NoVerdict
  <2>3. CASE y # N - 1
    <3>1. pc' = "square"
      BY <2>1, <2>3
    <3>2. S' = S /\ D' = D
      BY <2>1 DEF S, D
    <3>3. Bases' /\ Bits'
      BY <1>3, <2>1, <3>1 DEF Bases, Bits
    <3>4. i' \in 1 .. S /\ i' - 1 = i /\ \A k \in 0 .. i' - 1 : k \in 0 .. i - 1 \/ k = i
      BY <1>2, <1>3, <2>1
    <3>5. ASSUME ~Full(BitsOf(D)), "power" \notin lost'
          PROVE  /\ x' = Squared(base, D, i' - 1, N) /\ Squared(base, D, 0, N) # 1
                 /\ \A k \in 0 .. i' - 1 : Squared(base, D, k, N) # N - 1
      BY <1>5, <2>1, <2>3, <3>4, <3>5
    <3>6. Squares'
      BY <2>1, <3>2, <3>4, <3>5 DEF Squares
    <3>7. VerdictIsCertain'
      BY <3>1 DEF VerdictIsCertain
    <3> QED BY <1>1, <3>3, <3>6, <3>7 DEF VerdictInv
  <2> QED BY <2>2, <2>3
<1> QED BY <1>6, <1>7

LEMMA NextVerdict == VerdictInv /\ [Next]_vars => VerdictInv'
<1> SUFFICES ASSUME VerdictInv, [Next]_vars PROVE VerdictInv'
  OBVIOUS
<1>1. CASE Next
  BY <1>1, ZRandVerdict, DrawnVerdict, SmallVerdict, EvenVerdict, RoundVerdict, ModPowVerdict,
     BitVerdict, CompareVerdict, SquaresUsedUpVerdict, SquareVerdict DEF Next, ZPTestStep, ZRandStep
<1>2. CASE UNCHANGED vars
  <2>1. RangeInv'
    BY <1>2, NextRange DEF VerdictInv
  <2>2. S' = S /\ D' = D /\ (IsWitness(witness)' <=> IsWitness(witness))
    <3>1. PICK w : w = witness
      OBVIOUS
    <3>2. UNCHANGED call /\ witness' = w
      BY <1>2, <3>1 DEF vars
    <3> QED BY <3>1, <3>2, SameWitness
  <2>3. Bases' /\ Bits' /\ Squares'
    BY <1>2, <2>2 DEF vars, Bases, Bits, Stands, Squares, VerdictInv
  <2>4. VerdictIsCertain'
    BY <1>2, <2>2 DEF vars, VerdictIsCertain, VerdictInv
  <2> QED BY <2>1, <2>3, <2>4 DEF VerdictInv
<1> QED BY <1>1, <1>2

\* zptest: for every number and every number of tries, whatever bases are drawn, a verdict
\* of NONPRIME is true and comes with a witness, and PRIME is said of 2 and 3 only, unless
\* the odd part of n - 1 has a whole number of characters.
THEOREM VerdictsAreCertain == Spec => []VerdictIsCertain
<1>1. VerdictInv => VerdictIsCertain
  BY DEF VerdictInv
<1> QED BY <1>1, InitVerdict, NextVerdict, PTL DEF Spec
=============================================================================
