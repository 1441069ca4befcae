------------------------- MODULE ZahlDivisionProofs -------------------------
(* For every width of characters and of integers, every value and every    *)
(* way of passing parameters: zdivmod, zdiv and zmod store the truncated   *)
(* quotient and the remainder.                                             *)
EXTENDS ZahlDivision, WellFoundedInduction, TLAPS

LEMMA PowerType ==
  /\ \A n \in 0 .. MaxBits : Power[n] \in Nat
  /\ \A n \in 0 .. MaxBits : n > 0 => Power[n] = 2 * Power[n - 1]
  /\ Power[0] = 1 /\ MaxBits \in Nat /\ CharBits \in Nat \ {0}
BY DivisionAssumption

\* A set of exponents without a least element is empty.
LEMMA LeastExponent ==
  ASSUME NEW S \in SUBSET Nat, S # {}
  PROVE  \E m \in S : \A k \in S : ~(k < m)
<1>1. PICK m \in S : \A k \in S : <<k, m>> \notin OpToRel(<, Nat)
  BY WFMin, NatLessThanWellFounded, Zenon
<1>2. \A k \in S : ~(k < m)
  BY <1>1, Zenon DEF OpToRel
<1> QED BY <1>2

LEMMA PowerPositive == \A n \in 0 .. MaxBits : Power[n] > 0
<1> DEFINE S == {n \in 0 .. MaxBits : ~(Power[n] > 0)}
<1>1. SUFFICES S = {}
  OBVIOUS
<1>2. SUFFICES ASSUME S # {} PROVE FALSE
  OBVIOUS
<1>3. S \in SUBSET Nat
  BY PowerType
<1>4. PICK m \in S : \A k \in S : ~(k < m)
  BY <1>2, <1>3, LeastExponent
<1>5. m # 0
  BY PowerType
<1>6. m \in Nat /\ m <= MaxBits /\ m - 1 \in 0 .. MaxBits /\ m - 1 < m
  BY <1>5, PowerType
<1>7. Power[m - 1] > 0
  BY <1>4, <1>6
<1>8. Power[m] = 2 * Power[m - 1] /\ Power[m - 1] \in Nat
  BY <1>6, PowerType
<1> QED BY <1>4, <1>7, <1>8

LEMMA PowerMonotone ==
  ASSUME NEW m \in 0 .. MaxBits
  PROVE  \A n \in 0 .. MaxBits : m <= n => Power[m] <= Power[n]
<1> DEFINE S == {n \in 0 .. MaxBits : m <= n /\ ~(Power[m] <= Power[n])}
<1>1. SUFFICES S = {}
  OBVIOUS
<1>2. SUFFICES ASSUME S # {} PROVE FALSE
  OBVIOUS
<1>3. S \in SUBSET Nat
  BY PowerType
<1>4. PICK n \in S : \A k \in S : ~(k < n)
  BY <1>2, <1>3, LeastExponent
<1>5. n # m
  BY PowerType
<1>6. n \in Nat /\ n <= MaxBits /\ n - 1 \in 0 .. MaxBits /\ n - 1 < n /\ m <= n - 1
  BY <1>5, PowerType
<1>7. Power[m] <= Power[n - 1]
  BY <1>4, <1>6
<1>8. Power[n] = 2 * Power[n - 1] /\ Power[n - 1] \in Nat /\ Power[m] \in Nat
  BY <1>6, PowerType
<1> QED BY <1>4, <1>7, <1>8

\* Shifting by m and then by n is shifting by m + n.
LEMMA PowerSum ==
  ASSUME NEW m \in 0 .. MaxBits
  PROVE  \A n \in 0 .. MaxBits : m + n <= MaxBits => Power[m + n] = Power[m] * Power[n]
<1> DEFINE S == {n \in 0 .. MaxBits : m + n <= MaxBits /\ Power[m + n] # Power[m] * Power[n]}
<1>1. SUFFICES S = {}
  OBVIOUS
<1>2. SUFFICES ASSUME S # {} PROVE FALSE
  OBVIOUS
<1>3. S \in SUBSET Nat
  BY PowerType
<1>4. PICK n \in S : \A k \in S : ~(k < n)
  BY <1>2, <1>3, LeastExponent
<1>5. n # 0
  BY PowerType
<1>6. /\ n \in Nat /\ n <= MaxBits /\ n - 1 \in 0 .. MaxBits /\ n - 1 < n
      /\ m + n \in 0 .. MaxBits /\ m + (n - 1) \in 0 .. MaxBits /\ m + n > 0
      /\ (m + n) - 1 = m + (n - 1)
  BY <1>4, <1>5, PowerType
<1>7. Power[m + (n - 1)] = Power[m] * Power[n - 1]
  BY <1>4, <1>6
<1>8. Power[m + n] = 2 * Power[m + (n - 1)] /\ Power[n] = 2 * Power[n - 1]
  BY <1>6, PowerType
<1>9. \A p, q \in Nat : 2 * (p * q) = p * (2 * q)
  OBVIOUS
<1>10. Power[m] \in Nat /\ Power[n - 1] \in Nat
  BY <1>6, PowerType
<1>11. Power[m + n] = Power[m] * Power[n]
  BY <1>7, <1>8, <1>9, <1>10
<1> QED BY <1>4, <1>11

LEMMA QuotientUnique ==
  ASSUME NEW k \in Int, NEW q \in Int, NEW p \in Int, NEW r \in Int,
         k * p = p * q + r, 0 <= r, r < p
  PROVE  k = q
<1>1. CASE k > q
  <2>1. (k - q - 1) * p >= 0
    BY <1>1
  <2>2. (k - q - 1) * p = k * p - p * q - p
    OBVIOUS
  <2> QED BY <2>1, <2>2
<1>2. CASE k < q
  <2>1. (q - k - 1) * p >= 0
    BY <1>2
  <2>2. (q - k - 1) * p = p * q - k * p - p
    OBVIOUS
  <2> QED BY <2>1, <2>2
<1> QED BY <1>1, <1>2

\* A right shift undoes a left shift.
LEMMA ExactShift ==
  ASSUME NEW k \in Nat, NEW p \in Nat, p > 0
  PROVE  (k * p) \div p = k /\ (k * p) % p = 0
<1> DEFINE n == k * p
           q == n \div p
           r == n % p
<1>1. n \in Nat
  OBVIOUS
<1> HIDE DEF n
<1>2. q \in Int /\ r \in Int /\ 0 <= r /\ r < p /\ n = p * q + r
  BY <1>1
<1> HIDE DEF q, r
<1>3. k * p = p * q + r
  BY <1>2 DEF n
<1>4. k = q
  BY <1>2, <1>3, QuotientUnique
<1>5. r = 0
  BY <1>2, <1>3, <1>4
<1> QED BY <1>4, <1>5 DEF q, r, n

-----------------------------------------------------------------------------
(* Arithmetic of one step: p is the power of two of the bit that is tried. *)

LEMMA BitFound ==
  ASSUME NEW c \in Int, NEW d \in Int, NEW q \in Int, NEW r \in Int, NEW p \in Int,
         c = q * d + r
  PROVE  c = (q + p) * d + (r - d * p)
OBVIOUS

LEMMA TwiceProduct ==
  ASSUME NEW d \in Int, NEW p \in Int
  PROVE  d * (2 * p) = 2 * (d * p)
OBVIOUS

LEMMA PositiveProduct ==
  ASSUME NEW d \in Nat, NEW p \in Nat, d > 0, p > 0
  PROVE  d * p \in Nat /\ d * p > 0
OBVIOUS

LEMMA ProductMonotone ==
  ASSUME NEW d \in Nat, NEW p \in Nat, NEW q \in Nat, p <= q
  PROVE  d * p <= d * q
<1>1. d * (q - p) >= 0
  OBVIOUS
<1>2. d * (q - p) = d * q - d * p
  OBVIOUS
<1> QED BY <1>1, <1>2

\* A bit above which only is set in v is not set.
LEMMA FreshBit ==
  ASSUME NEW v \in Nat, NEW p \in Nat, p > 0, v % (2 * p) = 0
  PROVE  (v \div p) % 2 = 0 /\ (v + p) % p = 0 /\ v % p = 0
<1> DEFINE k == v \div (2 * p)
<1>1. k \in Nat /\ v = (2 * p) * k
  <2>1. 2 * p \in Nat /\ 2 * p > 0
    OBVIOUS
  <2> DEFINE m == 2 * p
  <2> HIDE DEF m
  <2>2. ASSUME m \in Nat, m > 0, v % m = 0
        PROVE  v \div m \in Nat /\ v = m * (v \div m)
    BY <2>2
  <2> QED BY <2>1, <2>2 DEF m
<1> HIDE DEF k
<1>2. 2 * k \in Nat /\ 2 * k + 1 \in Nat /\ v = (2 * k) * p /\ v + p = (2 * k + 1) * p
  BY <1>1
<1>3. v \div p = 2 * k /\ v % p = 0
  BY <1>2, ExactShift
<1>4. (v + p) % p = 0
  BY <1>2, ExactShift
<1> QED BY <1>3, <1>4, <1>1

-----------------------------------------------------------------------------
(* The invariant, action by action.                                         *)

LEMMA MagType == \A v \in Int : Mag(v) \in Nat /\ (v # 0 => Mag(v) > 0)
BY DEF Mag

LEMMA OperandsType ==
  ASSUME TypeOK
  PROVE  /\ C \in Int /\ D \in Int /\ Mag(C) \in Nat /\ Mag(D) \in Nat
         /\ D # 0 => Mag(D) > 0
         /\ use.a \in Reg /\ use.b \in Reg /\ use.c \in Reg /\ use.d \in Reg
         /\ use.a # use.b
<1>1. use \in DivMods \/ use \in Divs \/ use \in Mods
  BY DEF TypeOK, Use
<1>2. use.a \in Reg /\ use.b \in Reg /\ use.c \in Reg /\ use.d \in Reg /\ use.a # use.b
  BY <1>1, DivisionAssumption DEF DivMods, Divs, Mods, Reg
<1>3. C \in Int /\ D \in Int
  BY <1>2 DEF TypeOK, C, D
<1> QED BY <1>2, <1>3, MagType

LEMMA InitEstablishes == Init => IndInv
<1> SUFFICES ASSUME Init PROVE IndInv
  OBVIOUS
<1>1. use \in Use
  <2>1. \E x, y \in Client : x # y
    BY DivisionAssumption
  <2>2. PICK x \in Client, y \in Client : x # y
    BY <2>1
  <2>3. [a |-> x, b |-> y, c |-> x, d |-> y] \in DivMods
    BY <2>2 DEF DivMods
  <2>4. (CHOOSE u \in DivMods : TRUE) \in DivMods
    BY <2>3
  <2> QED BY <2>4 DEF Init, Use
<1>2. num \in [Reg -> Int]
  BY DivisionAssumption DEF Init
<1>3. TypeOK
  BY <1>1, <1>2, DivisionAssumption DEF Init, TypeOK
<1> QED BY <1>3 DEF Init, IndInv, LoopInvariant, Running, ShiftedToTheBit, BitsAreNew,
           Engaged, Aligned, CacheFills, CacheHolds

\* Between calls, and before a divisor is aligned, only the types matter.
LEMMA BetweenCalls ==
  ASSUME TypeOK', pc' \in {"idle", "entered"}
  PROVE  IndInv'
BY DEF IndInv, LoopInvariant, Running, ShiftedToTheBit, BitsAreNew,
       Engaged, Aligned, CacheFills, CacheHolds

\* The operands do not change before the results are stored.
LEMMA OperandsStay ==
  ASSUME UNCHANGED <<num, use>>
  PROVE  C' = C /\ D' = D
BY DEF C, D

LEMMA EnterKeeps ==
  ASSUME IndInv, ZDivMod \/ ZDiv \/ ZMod
  PROVE  IndInv'
<1>1. use' \in Use /\ pc' = "entered" /\ UNCHANGED <<num, result, temps, bit, i>>
  BY DEF ZDivMod, ZDiv, ZMod, Enter, Use
<1>2. TypeOK'
  BY <1>1 DEF IndInv, TypeOK, temps
<1> QED BY <1>1, <1>2, BetweenCalls

LEMMA TwoWrites ==
  ASSUME NEW f \in [Reg -> Int], NEW x, NEW y, NEW v \in Int, NEW w \in Int
  PROVE  [f EXCEPT ![x] = v, ![y] = w] \in [Reg -> Int]
OBVIOUS

LEMMA GiveType ==
  ASSUME TypeOK, NEW q \in Int, NEW r \in Int, Give(q, r)
  PROVE  num' \in [Reg -> Int]
<1>1. num \in [Reg -> Int] /\ num' = [num EXCEPT ![use.a] = q, ![use.b] = r]
  BY DEF Give, TypeOK
<1> QED BY <1>1, TwoWrites, Zenon

LEMMA SgnType == \A v \in Int : Sgn(v) \in {-1, 0, 1}
BY DEF Sgn

LEMMA DegenerateKeeps ==
  ASSUME IndInv, Degenerate
  PROVE  IndInv'
<1>1. pc' = "idle" /\ UNCHANGED <<use, bit, i, temps>>
  BY DEF Degenerate, NoQuotient, ZeroDividend, EqualMagnitudes, SmallerDividend, Return
<1>2. TypeOK
  BY DEF IndInv
<1>3. C \in Int /\ D \in Int
  BY <1>2, OperandsType
<1>4. num' \in [Reg -> Int]
  <2>1. CASE NoQuotient
    BY <1>2, <2>1 DEF NoQuotient, TypeOK
  <2>2. CASE ZeroDividend
    BY <1>2, <2>2, GiveType DEF ZeroDividend
  <2>3. CASE EqualMagnitudes
    <3>1. Sgn(C) * Sgn(D) \in Int
      BY <1>3, SgnType
    <3> QED BY <1>2, <2>3, <3>1, GiveType DEF EqualMagnitudes
  <2>4. CASE SmallerDividend
    <3>1. num \in [Reg -> Int] /\ num' = [num EXCEPT ![use.b] = C, ![use.a] = 0]
      BY <1>2, <2>4 DEF SmallerDividend, TypeOK
    <3>2. 0 \in Int
      OBVIOUS
    <3> QED BY <1>3, <3>1, <3>2, TwoWrites, Zenon
  <2> QED BY <2>1, <2>2, <2>3, <2>4 DEF Degenerate
<1>5. TypeOK'
  BY <1>1, <1>2, <1>4 DEF TypeOK, temps
<1> QED BY <1>1, <1>5, BetweenCalls

LEMMA ComparedType == ASSUME TypeOK PROVE pc = "single" \/ i < CharBits => Compared \in Int
<1>1. i < CharBits => i \in 0 .. CharBits - 1
  BY DivisionAssumption DEF TypeOK
<1> QED BY <1>1 DEF TypeOK, Compared

LEMMA FailureKeeps ==
  ASSUME IndInv, MemoryFails
  PROVE  IndInv'
<1>1. TypeOK /\ pc' = "idle" /\ UNCHANGED <<use, bit, i>>
  BY DEF IndInv, MemoryFails, Return
<1>2. ta' \in Int /\ tb' \in Int /\ td' = td /\ tds' = tds
  BY <1>1, ComparedType DEF MemoryFails, TypeOK, temps
<1>3. num' \in [Reg -> Int]
  BY <1>1, DivisionAssumption DEF MemoryFails, RemainderLost, TypeOK
<1>4. TypeOK'
  BY <1>1, <1>2, <1>3 DEF TypeOK
<1> QED BY <1>1, <1>4, BetweenCalls

LEMMA StoreKeeps ==
  ASSUME IndInv, Store
  PROVE  IndInv'
<1>1. TypeOK /\ pc' = "idle" /\ UNCHANGED <<use, bit, i, td, tds>>
  BY DEF IndInv, Store, Return
<1>2. C \in Int /\ D \in Int /\ use.a \in Reg /\ use.b \in Reg
  BY <1>1, OperandsType
<1>3. Sgn(C) * Sgn(D) * ta \in Int /\ (IF tb > 0 THEN Sgn(C) * tb ELSE tb) \in Int
  BY <1>1, <1>2, SgnType DEF TypeOK
<1>4. num' \in [Reg -> Int]
  BY <1>1, <1>3, GiveType DEF Store
<1>5. ta' \in Int /\ tb' \in Int
  BY <1>1, <1>2 DEF Store, TypeOK
<1>6. TypeOK'
  BY <1>1, <1>4, <1>5 DEF TypeOK
<1> QED BY <1>1, <1>6, BetweenCalls

LEMMA AlignKeeps ==
  ASSUME IndInv, Align
  PROVE  IndInv'
<1>1. TypeOK /\ pc' = "copy" /\ UNCHANGED <<num, use, ta, tb, tds, i>>
  BY DEF IndInv, Align, Goto
<1>2. PICK n \in 1 .. MaxBits, m \in 1 .. MaxBits :
        LET s == n - m
            t == Lsh(Mag(D), s)
        IN  /\ HasBits(Mag(C), n) /\ HasBits(Mag(D), m)
            /\ IF t > Mag(C) THEN td' = Rsh(t, 1) /\ bit' = s - 1
                             ELSE td' = t /\ bit' = s
  BY Zenon DEF Align
<1> DEFINE c == Mag(C)
           d == Mag(D)
           s == n - m
           t == Lsh(d, s)
<1>3. c \in Nat /\ d \in Nat /\ D # 0 /\ d > 0 /\ c > d
  BY <1>1, OperandsType DEF Align
<1>4. /\ Power[n - 1] <= c /\ c < Power[n] /\ Power[m - 1] <= d /\ d < Power[m]
      /\ IF t > c THEN td' = Rsh(t, 1) /\ bit' = s - 1 ELSE td' = t /\ bit' = s
  BY <1>2, Zenon DEF HasBits
<1>5. /\ n - 1 \in 0 .. MaxBits /\ m - 1 \in 0 .. MaxBits
      /\ n \in 0 .. MaxBits /\ m \in 0 .. MaxBits
  BY PowerType
<1>6. m <= n
  <2>1. SUFFICES ASSUME n <= m - 1 PROVE FALSE
    BY <1>5
  <2>2. Power[n] <= Power[m - 1]
    BY <1>5, <2>1, PowerMonotone
  <2> QED BY <1>3, <1>4, <1>5, <2>2, PowerType
<1>7. s \in 0 .. MaxBits - 1 /\ s \in 0 .. MaxBits /\ m + s = n
  BY <1>5, <1>6, PowerType
<1>8. Power[s] \in Nat /\ Power[s] > 0 /\ t = d * Power[s] /\ t \in Nat
  BY <1>3, <1>7, PowerType, PowerPositive DEF Lsh
<1>9. c < 2 * t /\ t <= 2 * c
  <2>1. Power[n] = Power[m] * Power[s] /\ Power[m] = 2 * Power[m - 1]
    BY <1>5, <1>7, PowerSum, PowerType
  <2>2. Power[m - 1] \in Nat /\ Power[m] \in Nat
    BY <1>5, PowerType
  <2> DEFINE p == Power[s]
             e == Power[m - 1]
  <2>3. p \in Nat /\ e \in Nat /\ e <= d /\ c < (2 * e) * p
    BY <1>4, <1>8, <2>1, <2>2
  <2> HIDE DEF p, e, c, d, t
  <2>4. e * p <= d * p
    BY <1>3, <2>3, ProductMonotone
  <2>5. (2 * e) * p = 2 * (e * p) /\ e * p \in Nat
    BY <2>3
  <2>6. t = d * p
    BY <1>8 DEF p
  <2>7. t <= 2 * c
    <3>1. Power[n] = 2 * Power[n - 1] /\ Power[n] = p * Power[m]
      BY <1>5, <2>1, <2>2, <2>3, PowerType DEF p
    <3>2. p * d <= p * Power[m]
      BY <1>3, <1>4, <2>2, <2>3, ProductMonotone
    <3>3. p * d = d * p
      BY <1>3, <2>3
    <3>4. Power[n - 1] \in Nat /\ Power[n - 1] <= c
      BY <1>4, <1>5, PowerType
    <3> QED BY <1>3, <2>6, <3>1, <3>2, <3>3, <3>4
  <2> QED BY <1>3, <1>8, <2>3, <2>4, <2>5, <2>6, <2>7
<1>10. bit' \in 0 .. MaxBits - 1 /\ td' = d * Power[bit'] /\ td' <= c /\ c < 2 * td' /\ td' \in Nat
  <2>1. CASE t <= c
    BY <1>3, <1>4, <1>7, <1>8, <1>9, <2>1
  <2>2. CASE t > c
    <3>1. s # 0
      BY <1>3, <1>8, <2>2, PowerType
    <3>2. s - 1 \in 0 .. MaxBits /\ s - 1 \in 0 .. MaxBits - 1
      BY <1>7, <3>1, PowerType
    <3>3. Power[s] = 2 * Power[s - 1] /\ Power[s - 1] \in Nat
      BY <1>7, <3>1, <3>2, PowerType
    <3> DEFINE h == d * Power[s - 1]
    <3>4. h \in Nat /\ t = 2 * h
      BY <1>3, <1>8, <3>3, TwiceProduct
    <3>5. td' = t \div 2 /\ bit' = s - 1
      <4>1. Power[1] = 2
        BY <1>7, PowerType
      <4> QED BY <1>4, <2>2, <4>1 DEF Rsh
    <3> HIDE DEF h, c, d, t
    <3>6. td' = h
      BY <3>4, <3>5
    <3>7. h <= c /\ c < 2 * h
      BY <1>3, <1>9, <3>4, <2>2
    <3> QED BY <3>2, <3>4, <3>5, <3>6, <3>7 DEF h
  <2> QED BY <1>3, <1>8, <2>1, <2>2
<1>11. TypeOK'
  BY <1>1, <1>10 DEF TypeOK
<1>12. C' = C /\ D' = D
  BY <1>1, OperandsStay
<1>13. Aligned' /\ ShiftedToTheBit' /\ Engaged' /\ LoopInvariant'
  BY <1>1, <1>3, <1>10, <1>12
     DEF Aligned, ShiftedToTheBit, Engaged, LoopInvariant, Running, Lsh
<1> QED BY <1>1, <1>11, <1>13 DEF IndInv, BitsAreNew, CacheFills, CacheHolds

LEMMA CopyKeeps ==
  ASSUME IndInv, Copy
  PROVE  IndInv'
<1>1. /\ TypeOK /\ UNCHANGED <<num, use, td, tds, bit>>
      /\ ta' = 0 /\ tb' = Mag(C) /\ i' = 0 /\ pc = "copy"
      /\ pc' = IF bit <= CharBits THEN "single" ELSE "cache"
  BY DEF IndInv, Copy, Goto
<1>2. Mag(C) \in Nat /\ Mag(D) \in Nat /\ D # 0 /\ Mag(C) > Mag(D)
  BY <1>1, OperandsType DEF IndInv, Engaged
<1>3. C' = C /\ D' = D
  BY <1>1, OperandsStay
<1>4. TypeOK'
  BY <1>1, <1>2, DivisionAssumption DEF TypeOK
<1>5. /\ bit \in 0 .. MaxBits - 1 /\ td = Lsh(Mag(D), bit)
      /\ Lsh(Mag(D), bit) <= Mag(C) /\ Mag(C) < 2 * Lsh(Mag(D), bit)
  BY <1>1 DEF IndInv, LoopInvariant, Running, ShiftedToTheBit, Aligned
<1>6. 0 * Mag(D) = 0 /\ 0 + Mag(C) = Mag(C)
  BY <1>2
<1>7. LoopInvariant' /\ ShiftedToTheBit' /\ Engaged' /\ Aligned'
  BY <1>1, <1>2, <1>3, <1>5, <1>6
     DEF LoopInvariant, Running, ShiftedToTheBit, Engaged, Aligned, Lsh
<1>8. BitsAreNew'
  <2>1. Power[bit] \in Nat /\ Power[bit] > 0 /\ bit' = bit
    BY <1>1, <1>5, PowerType, PowerPositive
  <2>2. 2 * Power[bit] \in Nat /\ 2 * Power[bit] > 0 /\ 0 * (2 * Power[bit]) = 0
    BY <2>1
  <2>3. 0 % (2 * Power[bit]) = 0
    BY <2>2, ExactShift
  <2> QED BY <1>1, <2>1, <2>3 DEF BitsAreNew
<1>9. CacheFills' /\ CacheHolds'
  BY <1>1, <1>3, <1>5, PowerType DEF CacheFills, CacheHolds
<1> QED BY <1>4, <1>7, <1>8, <1>9 DEF IndInv

\* Shifting a shifted divisor right.
LEMMA ShiftBack ==
  ASSUME NEW d \in Nat, NEW m \in 0 .. MaxBits, NEW n \in 0 .. MaxBits, n <= m
  PROVE  Rsh(Lsh(d, m), n) = Lsh(d, m - n) /\ Lsh(d, m - n) \in Nat
<1>1. m - n \in 0 .. MaxBits /\ (m - n) + n = m
  BY PowerType
<1>2. /\ Power[m] = Power[m - n] * Power[n] /\ Power[m - n] \in Nat
      /\ Power[n] \in Nat /\ Power[n] > 0
  BY <1>1, PowerSum, PowerType, PowerPositive
<1> DEFINE p == Power[m - n]
           q == Power[n]
           k == d * p
<1>3. k \in Nat /\ d * Power[m] = k * q
  <2>1. p \in Nat /\ q \in Nat /\ Power[m] = p * q
    BY <1>2
  <2> HIDE DEF p, q
  <2>2. d * (p * q) = (d * p) * q /\ d * p \in Nat
    BY <2>1
  <2> QED BY <2>1, <2>2
<1> HIDE DEF k
<1>4. (k * q) \div q = k
  BY <1>2, <1>3, ExactShift
<1> QED BY <1>3, <1>4 DEF Rsh, Lsh, k

LEMMA CacheKeeps ==
  ASSUME IndInv, Cache
  PROVE  IndInv'
<1>1. /\ TypeOK /\ UNCHANGED <<num, use, ta, tb, td, bit>>
      /\ pc = "cache" /\ pc' = "cache" /\ i < CharBits
      /\ tds' = [tds EXCEPT ![i] = Rsh(td, i)] /\ i' = i + 1
  BY DEF IndInv, Cache, Goto
<1>2. Mag(C) \in Nat /\ Mag(D) \in Nat
  BY <1>1, OperandsType
<1>3. C' = C /\ D' = D
  BY <1>1, OperandsStay
<1>4. /\ bit \in 0 .. MaxBits - 1 /\ td = Lsh(Mag(D), bit) /\ CharBits < bit
      /\ ta = 0 /\ tb = Mag(C)
      /\ \A k \in 0 .. CharBits - 1 : k < i => tds[k] = Lsh(Mag(D), bit - k)
  BY <1>1 DEF IndInv, LoopInvariant, Running, ShiftedToTheBit, CacheFills
<1>5. /\ i \in 0 .. CharBits - 1 /\ i \in 0 .. MaxBits /\ bit \in 0 .. MaxBits /\ i <= bit
      /\ tds \in [0 .. CharBits - 1 -> Int] /\ i + 1 \in 0 .. CharBits
  BY <1>1, <1>4, PowerType DEF TypeOK
<1>6. Rsh(td, i) = Lsh(Mag(D), bit - i) /\ Rsh(td, i) \in Int
  BY <1>2, <1>4, <1>5, ShiftBack
<1>7. TypeOK'
  BY <1>1, <1>5, <1>6 DEF TypeOK
<1>8. \A k \in 0 .. CharBits - 1 : k < i' => tds'[k] = Lsh(Mag(D), bit - k)
  <2> SUFFICES ASSUME NEW k \in 0 .. CharBits - 1, k < i + 1
               PROVE  tds'[k] = Lsh(Mag(D), bit - k)
    BY <1>1
  <2>1. CASE k = i
    BY <1>1, <1>5, <1>6, <2>1
  <2>2. CASE k < i
    BY <1>1, <1>4, <1>5, <2>2
  <2> QED BY <1>5, <2>1, <2>2
<1>9. CacheFills'
  BY <1>1, <1>3, <1>4, <1>8 DEF CacheFills
<1>10. LoopInvariant' /\ ShiftedToTheBit' /\ Engaged' /\ Aligned'
  BY <1>1, <1>3 DEF IndInv, LoopInvariant, Running, ShiftedToTheBit, Engaged, Aligned
<1> QED BY <1>1, <1>7, <1>9, <1>10 DEF IndInv, BitsAreNew, CacheHolds

LEMMA CachedKeeps ==
  ASSUME IndInv, Cached
  PROVE  IndInv'
<1>1. /\ TypeOK /\ UNCHANGED <<num, use, ta, tb, td, tds, bit>>
      /\ pc = "cache" /\ pc' = "many" /\ i = CharBits /\ i' = 0
  BY DEF IndInv, Cached, Goto, temps
<1>2. Mag(C) \in Nat /\ Mag(D) \in Nat
  BY <1>1, OperandsType
<1>3. C' = C /\ D' = D
  BY <1>1, OperandsStay
<1>4. /\ bit \in 0 .. MaxBits - 1 /\ CharBits < bit /\ ta = 0 /\ tb = Mag(C)
      /\ \A k \in 0 .. CharBits - 1 : k < i => tds[k] = Lsh(Mag(D), bit - k)
      /\ Lsh(Mag(D), bit) <= Mag(C) /\ Mag(C) < 2 * Lsh(Mag(D), bit)
  BY <1>1 DEF IndInv, LoopInvariant, Running, CacheFills, Aligned
<1>5. TypeOK'
  BY <1>1, PowerType DEF TypeOK
<1>6. 0 * Mag(D) = 0 /\ 0 + Mag(C) = Mag(C)
  BY <1>2
<1>7. LoopInvariant'
  BY <1>1, <1>2, <1>3, <1>4, <1>6 DEF LoopInvariant, Running
<1>8. \A k \in 0 .. CharBits - 1 : tds[k] = Lsh(Mag(D), bit - k)
  <2>1. \A k \in 0 .. CharBits - 1 : k < CharBits
    BY PowerType
  <2> QED BY <1>1, <1>4, <2>1
<1>9. CacheHolds'
  <2>1. bit + 0 = bit /\ CharBits < MaxBits /\ bit + 0 < MaxBits
    BY <1>4, PowerType
  <2>2. bit' + i' = bit
    BY <1>1, <2>1
  <2> QED BY <1>1, <1>3, <1>4, <1>8, <2>1, <2>2, PowerType DEF CacheHolds
<1>10. ShiftedToTheBit'
  <2>1. 0 \in 0 .. CharBits - 1 /\ bit - 0 = bit
    BY <1>4, PowerType
  <2>2. tds[0] = Lsh(Mag(D), bit)
    BY <1>8, <2>1
  <2> QED BY <1>1, <1>3, <2>2 DEF ShiftedToTheBit
<1>11. BitsAreNew'
  <2>1. 2 * Power[bit] \in Nat /\ 2 * Power[bit] > 0
    BY <1>4, PowerType, PowerPositive
  <2>2. 0 * (2 * Power[bit]) = 0
    BY <2>1
  <2>3. 0 % (2 * Power[bit]) = 0
    BY <2>1, <2>2, ExactShift
  <2> QED BY <1>1, <1>4, <2>3 DEF BitsAreNew
<1>12. Engaged' /\ Aligned' /\ CacheFills'
  BY <1>1, <1>3 DEF IndInv, Engaged, Aligned, CacheFills
<1> QED BY <1>5, <1>7, <1>9, <1>10, <1>11, <1>12 DEF IndInv

\* One bit of the quotient is right: what both loops rest on.
LEMMA OneBit ==
  ASSUME TypeOK, LoopInvariant, BitsAreNew, pc \in {"single", "many"}, D # 0,
         TrySubtract(Lsh(Mag(D), bit))
  PROVE  /\ bit \in 0 .. MaxBits - 1
         /\ ta' \in Nat /\ tb' \in Nat /\ ta' > 0
         /\ Mag(C) = ta' * Mag(D) + tb'
         /\ tb' < Lsh(Mag(D), bit)
         /\ ta' % Power[bit] = 0
<1> DEFINE c == Mag(C)
           d == Mag(D)
           p == Power[bit]
           t == Lsh(d, bit)
<1>1. c \in Nat /\ d \in Nat /\ d > 0
  BY OperandsType
<1>2. /\ bit \in 0 .. MaxBits - 1 /\ c = ta * d + tb
      /\ ta \in Nat /\ tb \in Nat /\ tb < 2 * t /\ (ta = 0 => t <= tb)
      /\ ta % (2 * p) = 0
  BY DEF LoopInvariant, Running, BitsAreNew, TypeOK
<1>3. p \in Nat /\ p > 0 /\ t = d * p /\ t \in Nat
  BY <1>1, <1>2, PowerType, PowerPositive DEF Lsh
<1>4. (ta \div p) % 2 = 0 /\ (ta + p) % p = 0 /\ ta % p = 0
  BY <1>2, <1>3, FreshBit
<1>5. CASE t <= tb
  <2>1. tb' = tb - t /\ ta' = ta + p
    BY <1>4, <1>5 DEF TrySubtract, WithBit, Rsh
  <2> HIDE DEF c, d, p, t
  <2>2. c = (ta + p) * d + (tb - d * p)
    BY <1>1, <1>2, <1>3, BitFound
  <2>3. ta' \in Nat /\ ta' > 0 /\ tb' \in Nat /\ tb' < t /\ c = ta' * d + tb' /\ ta' % p = 0
    BY <1>2, <1>3, <1>4, <1>5, <2>1, <2>2
  <2> QED BY <1>2, <2>3 DEF c, d, p, t
<1>6. CASE ~(t <= tb)
  <2>1. tb' = tb /\ ta' = ta
    BY <1>6 DEF TrySubtract
  <2> HIDE DEF c, d, p, t
  <2>2. ta' \in Nat /\ ta' > 0 /\ tb' \in Nat /\ tb' < t /\ c = ta' * d + tb' /\ ta' % p = 0
    BY <1>2, <1>3, <1>4, <1>6, <2>1
  <2> QED BY <1>2, <2>2 DEF c, d, p, t
<1> QED BY <1>5, <1>6

\* The last bit leaves a remainder smaller than the divisor, an earlier one
\* leaves less than the divisor shifted to the bit.
LEMMA BitThenNext ==
  ASSUME IndInv, pc \in {"single", "many"}, TrySubtract(Lsh(Mag(D), bit)),
         NEW l \in {"single", "many"}, NextBit(l)
  PROVE  /\ ta' \in Nat /\ tb' \in Nat /\ bit' = bit - 1
         /\ pc' \in {l, "store"} /\ UNCHANGED <<num, use, result, calls>>
         /\ pc' = l => bit' \in 0 .. MaxBits - 1
         /\ LoopInvariant' /\ BitsAreNew' /\ Engaged'
<1>1. /\ TypeOK /\ LoopInvariant /\ BitsAreNew /\ D # 0 /\ Mag(C) > Mag(D)
      /\ Mag(C) \in Nat /\ Mag(D) \in Nat /\ Mag(D) > 0
  BY OperandsType DEF IndInv, Engaged
<1>2. /\ bit \in 0 .. MaxBits - 1
      /\ ta' \in Nat /\ tb' \in Nat /\ ta' > 0
      /\ Mag(C) = ta' * Mag(D) + tb'
      /\ tb' < Lsh(Mag(D), bit)
      /\ ta' % Power[bit] = 0
  BY <1>1, OneBit
<1>3. /\ bit' = bit - 1 /\ UNCHANGED <<num, use, result, calls>>
      /\ pc' = IF bit = 0 \/ tb' = 0 THEN "store" ELSE l
  BY DEF NextBit, Goto
<1>4. C' = C /\ D' = D
  BY <1>3, OperandsStay
<1>5. CASE bit = 0 \/ tb' = 0
  <2>1. tb' < Mag(D)
    <3>1. CASE tb' = 0
      BY <1>1, <3>1
    <3>2. CASE bit = 0
      BY <1>1, <1>2, <3>2, PowerType DEF Lsh
    <3> QED BY <1>5, <3>1, <3>2
  <2>2. pc' = "store"
    BY <1>3, <1>5
  <2>3. LoopInvariant'
    BY <1>2, <1>4, <2>1, <2>2 DEF LoopInvariant, Running
  <2> QED BY <1>1, <1>2, <1>3, <1>4, <2>2, <2>3 DEF BitsAreNew, Engaged
<1>6. CASE ~(bit = 0 \/ tb' = 0)
  <2>1. bit' \in 0 .. MaxBits - 1 /\ bit \in 0 .. MaxBits /\ bit > 0
    BY <1>2, <1>3, <1>6, PowerType
  <2>2. Power[bit] = 2 * Power[bit'] /\ Power[bit'] \in Nat
    BY <1>3, <2>1, PowerType
  <2>3. Lsh(Mag(D), bit) = 2 * Lsh(Mag(D), bit')
    BY <1>1, <2>2, TwiceProduct DEF Lsh
  <2>4. LoopInvariant'
    BY <1>2, <1>3, <1>4, <1>6, <2>1, <2>3 DEF LoopInvariant, Running, Lsh
  <2>5. BitsAreNew' /\ Engaged'
    BY <1>1, <1>2, <1>4, <2>2 DEF BitsAreNew, Engaged
  <2> QED BY <1>2, <1>3, <1>6, <2>1, <2>4, <2>5
<1> QED BY <1>5, <1>6

LEMMA SingleKeeps ==
  ASSUME IndInv, Single
  PROVE  IndInv'
<1>1. /\ TypeOK /\ pc = "single" /\ TrySubtract(td) /\ NextBit("single")
      /\ td' = (IF pc' = "single" THEN Rsh(td, 1) ELSE td) /\ UNCHANGED <<tds, i>>
      /\ td = Lsh(Mag(D), bit)
  BY DEF IndInv, Single, ShiftedToTheBit
<1>2. /\ ta' \in Nat /\ tb' \in Nat /\ bit' = bit - 1
      /\ pc' \in {"single", "store"} /\ UNCHANGED <<num, use, result, calls>>
      /\ pc' = "single" => bit' \in 0 .. MaxBits - 1
      /\ LoopInvariant' /\ BitsAreNew' /\ Engaged'
  BY <1>1, BitThenNext
<1>3. C' = C /\ D' = D /\ Mag(D) \in Nat
  BY <1>1, <1>2, OperandsStay, OperandsType
<1>4. pc' = "single" => td' = Lsh(Mag(D), bit') /\ td' \in Int
  <2> SUFFICES ASSUME pc' = "single" PROVE td' = Lsh(Mag(D), bit') /\ td' \in Int
    OBVIOUS
  <2>1. bit' \in 0 .. MaxBits - 1 /\ bit \in 0 .. MaxBits /\ 1 \in 0 .. MaxBits /\ 1 <= bit
    BY <1>1, <1>2, PowerType DEF TypeOK
  <2> QED BY <1>1, <1>2, <1>3, <2>1, ShiftBack
<1>5. TypeOK'
  BY <1>1, <1>2, <1>4, PowerType DEF TypeOK
<1>6. ShiftedToTheBit'
  BY <1>2, <1>3, <1>4 DEF ShiftedToTheBit
<1> QED BY <1>2, <1>5, <1>6 DEF IndInv, Aligned, CacheFills, CacheHolds

LEMMA ManyKeeps ==
  ASSUME IndInv, Many
  PROVE  IndInv'
<1>1. /\ TypeOK /\ pc = "many" /\ i < CharBits /\ TrySubtract(tds[i]) /\ NextBit("many")
      /\ i' = i + 1 /\ UNCHANGED <<td, tds>> /\ tds[i] = Lsh(Mag(D), bit)
      /\ CharBits < MaxBits /\ bit + i < MaxBits
      /\ \A k \in 0 .. CharBits - 1 :
           k <= bit + i => tds[k] = Lsh(Mag(D), (bit + i) - k)
  BY DEF IndInv, Many, ShiftedToTheBit, CacheHolds
<1>2. /\ ta' \in Nat /\ tb' \in Nat /\ bit' = bit - 1
      /\ pc' \in {"many", "store"} /\ UNCHANGED <<num, use, result, calls>>
      /\ pc' = "many" => bit' \in 0 .. MaxBits - 1
      /\ LoopInvariant' /\ BitsAreNew' /\ Engaged'
  BY <1>1, BitThenNext
<1>3. C' = C /\ D' = D
  BY <1>2, OperandsStay
<1>4. i' \in 0 .. CharBits /\ bit \in Int /\ bit' + i' = bit + i
  BY <1>1, <1>2, PowerType DEF TypeOK
<1>5. TypeOK'
  BY <1>1, <1>2, <1>4 DEF TypeOK
<1>6. PICK b \in Int, j \in 0 .. CharBits : b = bit' /\ j = i' /\ b + j = bit + i
  BY <1>2, <1>4
<1>7. b + j < MaxBits /\ \A k \in 0 .. CharBits - 1 :
        k <= b + j => tds'[k] = Lsh(Mag(D), (b + j) - k)
  <2>1. b + j < MaxBits
    BY <1>1, <1>6, Zenon
  <2>2. \A k \in 0 .. CharBits - 1 : k <= b + j => tds[k] = Lsh(Mag(D), (b + j) - k)
    BY <1>1, <1>6, Zenon
  <2> QED BY <1>1, <2>1, <2>2, Zenon
<1>8. CacheHolds'
  BY <1>1, <1>3, <1>6, <1>7, Zenon DEF CacheHolds
<1>9. ShiftedToTheBit'
  <2> SUFFICES ASSUME pc' = "many", j < CharBits PROVE tds'[j] = Lsh(Mag(D), b)
    BY <1>2, <1>3, <1>6 DEF ShiftedToTheBit
  <2>1. b \in Nat /\ CharBits \in Nat
    BY <1>2, <1>6, PowerType
  <2>2. ASSUME NEW m \in Nat, NEW n \in 0 .. CharBits, CharBits \in Nat, n < CharBits
        PROVE  n \in 0 .. CharBits - 1 /\ n <= m + n /\ (m + n) - n = m
    BY <2>2
  <2>3. j \in 0 .. CharBits - 1 /\ j <= b + j /\ (b + j) - j = b
    BY <2>1, <2>2
  <2> QED BY <1>7, <2>3, Zenon
<1> QED BY <1>2, <1>5, <1>8, <1>9 DEF IndInv, Aligned, CacheFills

LEMMA ShiftCacheKeeps ==
  ASSUME IndInv, ShiftCache
  PROVE  IndInv'
<1>1. /\ TypeOK /\ pc = "many" /\ i = CharBits /\ i' = 0 /\ pc' = "many"
      /\ UNCHANGED <<num, use, ta, tb, td, bit>>
      /\ tds' = [k \in DOMAIN tds |->
                   IF k <= Wanted THEN Rsh(tds[k], CharBits) ELSE tds[k]]
      /\ CharBits < MaxBits /\ bit + i < MaxBits
      /\ \A k \in 0 .. CharBits - 1 :
           k <= bit + i => tds[k] = Lsh(Mag(D), (bit + i) - k)
      /\ bit \in 0 .. MaxBits - 1
  BY DEF IndInv, ShiftCache, Goto, CacheHolds, LoopInvariant, Running
<1>2. C' = C /\ D' = D /\ Mag(D) \in Nat
  BY <1>1, OperandsStay, OperandsType
<1>3. CharBits \in Nat /\ CharBits > 0 /\ CharBits \in 0 .. MaxBits
      /\ tds \in [0 .. CharBits - 1 -> Int] /\ Power[CharBits] \in Nat /\ Power[CharBits] > 0
  BY <1>1, PowerType, PowerPositive DEF TypeOK
<1>4. ASSUME NEW k \in 0 .. CharBits - 1, k <= bit
      PROVE  tds'[k] = Lsh(Mag(D), bit - k)
  <2>1. k <= Wanted
    BY <1>1, <1>4 DEF Wanted
  <2>2. /\ k <= bit + i /\ (bit + i) - k \in 0 .. MaxBits /\ CharBits <= (bit + i) - k
        /\ (bit + i) - k - CharBits = bit - k
    BY <1>1, <1>3, <1>4, PowerType
  <2>3. tds'[k] = Rsh(Lsh(Mag(D), (bit + i) - k), CharBits)
    BY <1>1, <1>3, <2>1, <2>2
  <2> QED BY <1>2, <1>3, <2>2, <2>3, ShiftBack
<1>5. tds' \in [0 .. CharBits - 1 -> Int]
  <2>1. \A k \in 0 .. CharBits - 1 : Rsh(tds[k], CharBits) \in Int
    BY <1>3 DEF Rsh
  <2> QED BY <1>1, <1>3, <2>1
<1>6. TypeOK'
  BY <1>1, <1>3, <1>5 DEF TypeOK
<1>7. CacheHolds'
  <2>1. bit' + i' = bit /\ bit < MaxBits
    BY <1>1, PowerType
  <2> QED BY <1>1, <1>2, <1>4, <2>1 DEF CacheHolds
<1>8. ShiftedToTheBit'
  <2>1. 0 \in 0 .. CharBits - 1 /\ 0 <= bit /\ bit - 0 = bit
    BY <1>1, <1>3
  <2>2. tds'[0] = Lsh(Mag(D), bit)
    BY <1>4, <2>1
  <2> QED BY <1>1, <1>2, <2>2 DEF ShiftedToTheBit
<1>9. LoopInvariant' /\ BitsAreNew' /\ Engaged'
  BY <1>1, <1>2 DEF IndInv, LoopInvariant, Running, BitsAreNew, Engaged
<1> QED BY <1>1, <1>6, <1>7, <1>8, <1>9 DEF IndInv, Aligned, CacheFills

LEMMA NextKeeps == IndInv /\ [Next]_vars => IndInv'
<1> SUFFICES ASSUME IndInv, [Next]_vars PROVE IndInv'
  OBVIOUS
<1>1. CASE UNCHANGED vars
  <2>1. C' = C /\ D' = D
    BY <1>1, OperandsStay DEF vars
  <2> QED BY <1>1, <2>1 DEF vars, temps, IndInv, TypeOK, LoopInvariant, Running,
         ShiftedToTheBit, BitsAreNew, Engaged, Aligned, CacheFills, CacheHolds
<1>2. CASE Next
  BY <1>2, EnterKeeps, DegenerateKeeps, FailureKeeps, AlignKeeps, CopyKeeps, CacheKeeps,
     CachedKeeps, SingleKeeps, ManyKeeps, ShiftCacheKeeps, StoreKeeps, Zenon
     DEF Next, Divide
<1> QED BY <1>1, <1>2

\* The inductive invariant, for every width of characters and integers.
THEOREM DivisionInvariant == Spec => []IndInv
<1>1. Init => IndInv
  BY InitEstablishes
<1>2. IndInv /\ [Next]_vars => IndInv'
  BY NextKeeps
<1> QED BY <1>1, <1>2, PTL DEF Spec

\* zdivmod_impl: quotient and remainder so far always make up the dividend,
\* and a quotient is never zero when it is given a sign.
THEOREM LoopsDivide == Spec => []LoopInvariant
<1>1. IndInv => LoopInvariant
  BY DEF IndInv
<1> QED BY <1>1, DivisionInvariant, PTL

\* Both loops of zdivmod_impl, with and without the cached shifts, compare
\* with the divisor shifted to the bit that is being tried.
THEOREM LoopsAgree == Spec => []ShiftedToTheBit
<1>1. IndInv => ShiftedToTheBit
  BY DEF IndInv
<1> QED BY <1>1, DivisionInvariant, PTL

\* zbset in zdivmod_impl never meets a bit that is set already.
THEOREM BitsOnce == Spec => []BitsAreNew
<1>1. IndInv => BitsAreNew
  BY DEF IndInv
<1> QED BY <1>1, DivisionInvariant, PTL

\* The subtractions of zdivmod_impl stay clear of the borrow that zsub_impl
\* gets wrong.
THEOREM BorrowsAtTop == Spec => []BorrowStaysAtTop
<1>1. IndInv => BorrowStaysAtTop
  <2> SUFFICES ASSUME IndInv, pc = "single" \/ (pc = "many" /\ i < CharBits),
                      NEW n \in 0 .. MaxBits, Compared < Power[n]
               PROVE  tb < 2 * Power[n]
    BY DEF BorrowStaysAtTop
  <2>1. TypeOK /\ Compared = Lsh(Mag(D), bit)
    BY DEF IndInv, ShiftedToTheBit, Compared
  <2>2. tb < 2 * Lsh(Mag(D), bit) /\ tb \in Int
    BY DEF IndInv, LoopInvariant, TypeOK
  <2>3. Compared \in Int /\ Power[n] \in Int
    BY <2>1, ComparedType, PowerType
  <2> QED BY <2>1, <2>2, <2>3
<1> QED BY <1>1, DivisionInvariant, PTL

-----------------------------------------------------------------------------
(* The promise of zdivmod(3).                                               *)

\* The signs given to the magnitudes make a truncated division of them.
LEMMA SignedQuotient ==
  ASSUME NEW c \in Int, NEW d \in Int, NEW q \in Nat, NEW r \in Nat,
         Mag(c) = q * Mag(d) + r, r < Mag(d), d # 0, c # 0
  PROVE  Quotients!IsQuotient(c, d, Sgn(c) * Sgn(d) * q, IF r > 0 THEN Sgn(c) * r ELSE r)
<1> DEFINE a == Sgn(c) * Sgn(d) * q
           b == IF r > 0 THEN Sgn(c) * r ELSE r
<1>1. b = Sgn(c) * r
  BY SgnType
<1>2. CASE c > 0 /\ d > 0
  <2>1. Sgn(c) = 1 /\ Sgn(d) = 1 /\ Mag(c) = c /\ Mag(d) = d
    BY <1>2 DEF Sgn, Mag
  <2>2. a = q /\ b = r
    BY <1>1, <2>1
  <2> QED BY <1>2, <2>1, <2>2
       DEF Quotients!IsQuotient, Quotients!Mag, Quotients!Sgn, Mag
<1>3. CASE c > 0 /\ d < 0
  <2>1. Sgn(c) = 1 /\ Sgn(d) = -1 /\ Mag(c) = c /\ Mag(d) = -d
    BY <1>3 DEF Sgn, Mag
  <2>2. a = -q /\ b = r
    BY <1>1, <2>1
  <2>3. (-q) * d = q * (-d)
    OBVIOUS
  <2> QED BY <1>3, <2>1, <2>2, <2>3
       DEF Quotients!IsQuotient, Quotients!Mag, Quotients!Sgn, Mag
<1>4. CASE c < 0 /\ d > 0
  <2>1. Sgn(c) = -1 /\ Sgn(d) = 1 /\ Mag(c) = -c /\ Mag(d) = d
    BY <1>4 DEF Sgn, Mag
  <2>2. a = -q /\ b = -r
    BY <1>1, <2>1
  <2>3. (-q) * d = -(q * d)
    OBVIOUS
  <2> QED BY <1>4, <2>1, <2>2, <2>3
       DEF Quotients!IsQuotient, Quotients!Mag, Quotients!Sgn, Mag
<1>5. CASE c < 0 /\ d < 0
  <2>1. Sgn(c) = -1 /\ Sgn(d) = -1 /\ Mag(c) = -c /\ Mag(d) = -d
    BY <1>5 DEF Sgn, Mag
  <2>2. a = q /\ b = -r
    BY <1>1, <2>1
  <2>3. q * (-d) = -(q * d)
    OBVIOUS
  <2> QED BY <1>5, <2>1, <2>2, <2>3
       DEF Quotients!IsQuotient, Quotients!Mag, Quotients!Sgn, Mag
<1> QED BY <1>2, <1>3, <1>4, <1>5

\* Writing two results is dividing, if the results are right.
LEMMA ResultsDivide ==
  ASSUME TypeOK, D # 0, NEW STATE q, NEW STATE r, q \in Int, r \in Int,
         num' = [num EXCEPT ![use.a] = q, ![use.b] = r], result' = "ok",
         Quotients!IsQuotient(C, D, q, r)
  PROVE  Quotients!Next
<1>1. /\ use \in Use /\ use.a \in Reg /\ use.b \in Reg /\ use.a # use.b
      /\ num \in [Reg -> Int]
  BY OperandsType DEF TypeOK
<1>2. num' \in [Reg -> Int]
  BY <1>1, TwoWrites, Zenon
<1>3. num'[use.a] = q /\ num'[use.b] = r
  BY <1>1
<1>4. \A x \in Reg \ {use.a, use.b} : num'[x] = num[x]
  BY <1>1
<1>5. Quotients!Divide(use)
  BY <1>2, <1>3, <1>4, Zenon DEF Quotients!Divide, C, D
<1> QED BY <1>1, <1>5, Zenon DEF Quotients!Next

LEMMA DegenerateDivides ==
  ASSUME IndInv, Degenerate
  PROVE  Quotients!Next
<1>1. TypeOK /\ C \in Int /\ D \in Int /\ use \in Use /\ 0 \in Int
  BY OperandsType DEF IndInv, TypeOK
<1>2. CASE NoQuotient
  <2>1. Quotients!Undefined(use)
    BY <1>2 DEF NoQuotient, Return, C, D, Quotients!Undefined
  <2> QED BY <1>1, <2>1, Zenon DEF Quotients!Next
<1>3. CASE ZeroDividend
  <2>1. Quotients!IsQuotient(C, D, 0, 0)
    BY <1>1, <1>3 DEF ZeroDividend, Quotients!IsQuotient, Quotients!Mag, Quotients!Sgn
  <2>2. D # 0 /\ num' = [num EXCEPT ![use.a] = 0, ![use.b] = 0] /\ result' = "ok"
    BY <1>3 DEF ZeroDividend, Give, Return
  <2> QED BY <1>1, <2>1, <2>2, ResultsDivide, Zenon
<1>4. CASE EqualMagnitudes
  <2>1. /\ D # 0 /\ C # 0 /\ Mag(C) = Mag(D)
        /\ num' = [num EXCEPT ![use.a] = Sgn(C) * Sgn(D), ![use.b] = 0] /\ result' = "ok"
    BY <1>1, <1>4 DEF EqualMagnitudes, Give, Return, Mag
  <2>2. Quotients!IsQuotient(C, D, Sgn(C) * Sgn(D), 0)
    BY <1>1, <2>1 DEF Quotients!IsQuotient, Quotients!Mag, Quotients!Sgn, Mag, Sgn
  <2>3. Sgn(C) * Sgn(D) \in Int
    BY <1>1, SgnType
  <2> QED BY <1>1, <2>1, <2>2, <2>3, ResultsDivide, Zenon
<1>5. CASE SmallerDividend
  <2>1. /\ Mag(C) < Mag(D) /\ C # 0
        /\ num' = [num EXCEPT ![use.b] = C, ![use.a] = 0] /\ result' = "ok"
    BY <1>5 DEF SmallerDividend, Return
  <2>2. D # 0 /\ Quotients!IsQuotient(C, D, 0, C)
    BY <1>1, <2>1 DEF Quotients!IsQuotient, Quotients!Mag, Quotients!Sgn, Mag
  <2>3. num' = [num EXCEPT ![use.a] = 0, ![use.b] = C]
    <3>1. use.a # use.b /\ num \in [Reg -> Int]
      BY <1>1, OperandsType DEF TypeOK
    <3> QED BY <2>1, <3>1
  <2> QED BY <1>1, <2>1, <2>2, <2>3, ResultsDivide, Zenon
<1> QED BY <1>2, <1>3, <1>4, <1>5 DEF Degenerate

LEMMA FailureDivides ==
  ASSUME IndInv, MemoryFails
  PROVE  Quotients!Next
<1>1. TypeOK /\ use \in Use /\ result' = "memory"
  BY DEF IndInv, TypeOK, MemoryFails, Return
<1>2. UNCHANGED num \/ RemainderLost
  BY DEF MemoryFails
<1>3. CASE UNCHANGED num
  BY <1>1, <1>3 DEF Quotients!Next, Quotients!NoMemory
<1>4. CASE RemainderLost
  <2>1. PICK v \in Numbers : num' = [num EXCEPT ![use.b] = v]
    BY <1>4 DEF RemainderLost
  <2>2. v \in Int /\ num \in [Reg -> Int]
    BY <1>1, DivisionAssumption DEF TypeOK
  <2>3. num' \in [Reg -> Int] /\ \A r \in Reg \ {use.b} : num'[r] = num[r]
    BY <2>1, <2>2
  <2>4. Mag(C) = Quotients!Mag(num[use.c]) /\ Mag(D) = Quotients!Mag(num[use.d])
    BY DEF Mag, Quotients!Mag, C, D
  <2>5. Quotients!NoMemory(use)
    BY <1>1, <1>4, <2>3, <2>4 DEF RemainderLost, Quotients!NoMemory
  <2> QED BY <1>1, <2>5 DEF Quotients!Next
<1> QED BY <1>2, <1>3, <1>4

LEMMA StoreDivides ==
  ASSUME IndInv, Store
  PROVE  Quotients!Next
<1> DEFINE q == Sgn(C) * Sgn(D) * ta
           r == IF tb > 0 THEN Sgn(C) * tb ELSE tb
<1>1. /\ TypeOK /\ C \in Int /\ D \in Int /\ D # 0 /\ Mag(C) > Mag(D)
      /\ Mag(C) = ta * Mag(D) + tb /\ ta \in Nat /\ tb \in Nat /\ tb < Mag(D)
  BY OperandsType DEF IndInv, Engaged, LoopInvariant, Store, TypeOK
<1>2. C # 0
  BY <1>1 DEF Mag
<1>3. Quotients!IsQuotient(C, D, q, r)
  BY <1>1, <1>2, SignedQuotient
<1>4. q \in Int /\ r \in Int
  BY <1>1, SgnType
<1>5. num' = [num EXCEPT ![use.a] = q, ![use.b] = r] /\ result' = "ok"
  BY DEF Store, Give, Return
<1> QED BY <1>1, <1>3, <1>4, <1>5, ResultsDivide

\* Whatever the parameters share, zdivmod, zdiv and zmod store the truncated
\* quotient and the remainder and touch nothing else.  An error touches
\* nothing, but for the remainder's old value where the dividend is the
\* smaller one and there is no room to copy it.
THEOREM DivisionImplements == Spec => ImplementsQuotients
<1>1. Init => Quotients!Init
  BY DivisionAssumption DEF Init, Quotients!Init
<1>2. IndInv /\ [Next]_vars => [Quotients!Next]_(Quotients!quotientVars)
  <2> SUFFICES ASSUME IndInv, [Next]_vars
               PROVE  [Quotients!Next]_(Quotients!quotientVars)
    OBVIOUS
  <2>1. CASE UNCHANGED vars
    BY <2>1 DEF vars, Quotients!quotientVars
  <2>2. CASE ZDivMod \/ ZDiv \/ ZMod
    BY <2>2 DEF ZDivMod, ZDiv, ZMod, Enter, Quotients!quotientVars
  <2>3. CASE Degenerate
    BY <2>3, DegenerateDivides
  <2>4. CASE MemoryFails
    BY <2>4, FailureDivides
  <2>5. CASE Store
    BY <2>5, StoreDivides
  <2>6. CASE Align \/ Copy \/ Cache \/ Cached \/ ShiftCache
    BY <2>6 DEF Align, Copy, Cache, Cached, ShiftCache, Goto, Quotients!quotientVars
  <2>7. CASE Single \/ Many
    BY <2>7 DEF Single, Many, NextBit, Goto, Quotients!quotientVars
  <2> QED BY <2>1, <2>2, <2>3, <2>4, <2>5, <2>6, <2>7, Zenon DEF Next, Divide
<1> QED BY <1>1, <1>2, DivisionInvariant, PTL DEF Spec, ImplementsQuotients, Quotients!Spec
=============================================================================
