---------------------------- MODULE ZahlPowerProofs ----------------------------
(* For all integers, exponents and widths of characters, with any of the     *)
(* parameters the same integer: how powers and modular products fail and     *)
(* what an error leaves of the caller's integers; and that squaring and      *)
(* multiplying gives the power.                                              *)
EXTENDS ZahlPower, ZahlLemmas, TLAPS

\* The routines and how many parameters they have.
LEMMA Arities ==
  /\ DOMAIN Arity = Powers \cup Products
  /\ \A routine \in DOMAIN Arity : Arity[routine] \in 2 .. 4
  /\ \A routine \in ByChars \cup Products : Arity[routine] >= 3
BY DEF Arity, Powers, Products, ByChars

(* The places of a call, and what is known there.                             *)
Positive == {"exponent", "modulus", "one", "char", "whole", "last", "shift"}
Places   == {"begin", "returned", "product", "reduce"} \cup Positive
N        == Arity[call.routine]

Typed ==
  /\ pc \in Places /\ call.routine \in DOMAIN Arity
  /\ call.p \in [1 .. N -> 1 .. N] /\ call.n \in Nat
  /\ given \in [1 .. N -> Int] /\ DOMAIN num = 1 .. N

\* Nothing is written before the loops begin, or before a product is given.
Untouched ==
  \/ pc = "begin"
  \/ pc \in {"exponent", "modulus", "one"}
  \/ pc = "product"
  => num = given

\* What was found out of the operands before.
Checked ==
  /\ pc \in Positive => /\ call.routine \in Powers /\ E > 0 /\ Before(2) # 0
                        /\ call.routine \in Modular => M # 0
  /\ pc \in {"product", "reduce"} => call.routine \in Products

\* The modulus is at hand when the product is reduced, although it may be what the
\* product was stored in.
ModulusKept ==
  /\ pc \in {"product", "reduce"} /\ call.p[1] = call.p[N] => saved = M
  /\ pc = "reduce" /\ call.p[1] # call.p[N] => D = M

IndInv == Typed /\ Untouched /\ Checked /\ ModulusKept /\ ErrorsLeaveOperands

LEMMA InitInv == Init => IndInv
<1> SUFFICES ASSUME Init PROVE IndInv
  OBVIOUS
<1>1. call.routine \in DOMAIN Arity /\ call.p \in Coincide(N) /\ call.n \in Unsigned \cup {0}
  BY DEF Init, N
<1>2. call.p \in [1 .. N -> 1 .. N]
  BY <1>1, Zenon DEF Coincide
<1>4. call.n \in Nat
  <2>1. Unsigned \subseteq Nat
    BY PowerAssumption, Zenon
  <2>2. call.n \in Unsigned \/ call.n = 0
    BY <1>1, Zenon
  <2>3. 0 \in Nat
    OBVIOUS
  <2> QED BY <2>1, <2>2, <2>3, Zenon
<1>3. num \in [1 .. N -> Int] /\ given = num /\ pc = "begin"
  BY PowerAssumption DEF Init, N
<1> QED
  BY <1>1, <1>2, <1>3, <1>4
     DEF IndInv, Typed, Untouched, Checked, ModulusKept, ErrorsLeaveOperands, Places, Positive

\* A call ends, with an error or a result, while the operands are untouched: what it
\* says of them is what they were.
LEMMA Operands ==
  ASSUME Typed, num = given
  PROVE  /\ D = M /\ B = Before(2) /\ E \in Int /\ Exponent = E
         /\ Before(2) \in Int /\ M \in Int
<1>1. 2 \in 1 .. N /\ N \in 1 .. N
  BY Arities DEF Typed, N
<1>2. call.routine \in ByChars => 3 \in 1 .. N
  BY Arities DEF Typed, N
<1> QED BY <1>1, <1>2 DEF Typed, D, M, B, E, Before, Exponent, N

\* What the properties say of the call does not change while it runs.
LEMMA SameCall ==
  ASSUME UNCHANGED <<call, given>>
  PROVE  E' = E /\ M' = M /\ N' = N /\ Before(2)' = Before(2)
BY DEF E, M, N, Before

\* Powers end with untouched operands or with a result.
LEMMA PowerEnds ==
  ASSUME Typed, call.routine \in Powers, UNCHANGED <<call, given>>,
         pc' = "returned", DOMAIN num' = DOMAIN num,
         \/ /\ result' = "0_POW_0" /\ num' = given /\ Before(2) = 0 /\ E = 0
         \/ /\ result' = "DIV_0" /\ num' = given
            /\ \/ call.routine \in Modular /\ M = 0 /\ ~(Before(2) = 0 /\ E = 0)
               \/ Before(2) = 0 /\ E < 0
         \/ /\ result' = "ok"
            /\ ~(call.routine \in Modular /\ M = 0) /\ ~(Before(2) = 0 /\ E <= 0)
         \/ result' = "memory"
  PROVE  IndInv'
<1>1. call.routine \notin Products /\ pc' \notin Positive /\ pc' \in Places
  BY DEF Powers, ByChars, Products, Positive, Places
<1>2. E \in Int
  BY Arities DEF Typed, E, Before, N
<1>3. Typed' /\ Untouched' /\ Checked' /\ ModulusKept'
  BY <1>1, SameCall DEF Typed, Untouched, Checked, ModulusKept
<1>4. ErrorsLeaveOperands'
  BY <1>1, <1>2, SameCall DEF ErrorsLeaveOperands
<1> QED BY <1>3, <1>4 DEF IndInv

LEMMA ZeroExponentInv == IndInv /\ ZeroExponent => IndInv'
<1> SUFFICES ASSUME IndInv, ZeroExponent PROVE IndInv'
  OBVIOUS
<1>1. Typed /\ num = given /\ D = M /\ B = Before(2) /\ E = 0
  BY Operands DEF IndInv, Untouched, ZeroExponent
<1>2. /\ call.routine \in Powers
      /\ pc' = "returned" /\ UNCHANGED <<call, given>> /\ DOMAIN num' = DOMAIN num
  BY DEF ZeroExponent, Fail, Done, Return, Give
<1>3. \/ B = 0 /\ result' = "0_POW_0" /\ num' = num
      \/ B # 0 /\ call.routine \in Modular /\ D = 0 /\ result' = "DIV_0" /\ num' = num
      \/ B # 0 /\ (call.routine \in Modular => D # 0) /\ result' = "ok"
  BY DEF ZeroExponent, Fail, Done, Return
<1> QED BY <1>1, <1>2, <1>3, PowerEnds

LEMMA NegativeExponentInv == IndInv /\ NegativeExponent => IndInv'
<1> SUFFICES ASSUME IndInv, NegativeExponent PROVE IndInv'
  OBVIOUS
<1>1. /\ Typed /\ num = given /\ D = M /\ B = Before(2) /\ E < 0 /\ E \in Int
      /\ ~(E = 0)
  BY Operands DEF IndInv, Untouched, NegativeExponent
<1>2. /\ call.routine \in Powers
      /\ pc' = "returned" /\ UNCHANGED <<call, given>> /\ DOMAIN num' = DOMAIN num
  BY DEF NegativeExponent, Fail, Done, Return, Give
<1>3. IF B = 0 \/ (call.routine \in Modular /\ D = 0) THEN result' = "DIV_0" /\ num' = num
                                                     ELSE result' = "ok"
  BY DEF NegativeExponent, Fail, Done, Return
<1> QED BY <1>1, <1>2, <1>3, PowerEnds

LEMMA ZeroModulusInv == IndInv /\ ZeroModulus => IndInv'
<1> SUFFICES ASSUME IndInv, ZeroModulus PROVE IndInv'
  OBVIOUS
<1>1. Typed /\ num = given /\ D = M /\ E > 0 /\ E \in Int
  BY Operands DEF IndInv, Untouched, ZeroModulus
<1>2. /\ call.routine \in Modular /\ D = 0 /\ call.routine \in Powers
      /\ pc' = "returned" /\ UNCHANGED <<call, given, num>> /\ result' = "DIV_0"
  BY DEF ZeroModulus, Fail, Return, Modular, Powers, ByChars
<1> QED BY <1>1, <1>2, PowerEnds

LEMMA ZeroBaseInv == IndInv /\ ZeroBase => IndInv'
<1> SUFFICES ASSUME IndInv, ZeroBase PROVE IndInv'
  OBVIOUS
<1>1. Typed /\ num = given /\ D = M /\ E > 0 /\ E \in Int
  BY Operands DEF IndInv, Untouched, ZeroBase
<1>2. /\ call.routine \in Powers /\ (call.routine \in Modular => D # 0) /\ result' = "ok"
      /\ pc' = "returned" /\ UNCHANGED <<call, given>> /\ DOMAIN num' = DOMAIN num
  BY DEF ZeroBase, Done, Return, Give
<1> QED BY <1>1, <1>2, PowerEnds

------------------------------------------------------------------------------
(* The steps of a power whose operands are in order.                         *)

\* A step from one place of a power to another.
LEMMA PowerGoes ==
  ASSUME Typed, ErrorsLeaveOperands, call.routine \in Powers, E > 0, Before(2) # 0,
         call.routine \in Modular => M # 0,
         UNCHANGED <<call, given>>, pc' \in Positive, DOMAIN num' = DOMAIN num,
         pc' \in {"exponent", "modulus", "one"} => num' = given
  PROVE  IndInv'
<1>1. pc' \in Places /\ pc' \notin {"begin", "returned", "product", "reduce"}
  BY DEF Positive, Places
<1> QED
  BY <1>1, SameCall
     DEF IndInv, Typed, Untouched, Checked, ModulusKept, ErrorsLeaveOperands

LEMMA BaseInv == IndInv /\ Base => IndInv'
<1> SUFFICES ASSUME IndInv, Base PROVE IndInv'
  OBVIOUS
<1>1. /\ Typed /\ num = given /\ D = M /\ B = Before(2) /\ E > 0
  BY Operands DEF IndInv, Untouched, Base
<1>2. /\ call.routine \in Powers /\ B # 0 /\ (call.routine \in Modular => D # 0)
      /\ pc' \in {"exponent", "modulus"} /\ UNCHANGED <<call, given, num>>
  BY DEF Base, Goto
<1> QED BY <1>1, <1>2, PowerGoes DEF IndInv, Positive

\* What is known in the midst of a power.
LEMMA InPower ==
  ASSUME IndInv, pc \in Positive
  PROVE  /\ Typed /\ ErrorsLeaveOperands /\ call.routine \in Powers /\ E > 0
         /\ Before(2) # 0 /\ (call.routine \in Modular => M # 0)
BY DEF IndInv, Checked

LEMMA CopyInv == IndInv /\ (CopyExponent \/ CopyModulus) => IndInv'
<1> SUFFICES ASSUME IndInv, CopyExponent \/ CopyModulus PROVE IndInv'
  OBVIOUS
<1>1. /\ pc \in {"exponent", "modulus"} /\ pc' \in {"modulus", "one"}
      /\ UNCHANGED <<call, given, num>>
  BY DEF CopyExponent, CopyModulus, Goto
<1>2. num = given /\ pc \in Positive /\ pc' \in Positive
  BY <1>1 DEF IndInv, Untouched, Positive
<1> QED BY <1>1, <1>2, InPower, PowerGoes

LEMMA LoopsInv ==
  IndInv /\ (One \/ NextChar \/ WholeChar \/ LastChar \/ Shift) => IndInv'
<1> SUFFICES ASSUME IndInv, One \/ NextChar \/ WholeChar \/ LastChar \/ Shift PROVE IndInv'
  OBVIOUS
<1>1. /\ pc \in {"one", "char", "whole", "last", "shift"}
      /\ pc' \in {"char", "whole", "last", "shift"}
      /\ UNCHANGED <<call, given>> /\ DOMAIN num' = DOMAIN num
  <2>1. ASSUME NEW b, NEW wrong, MultiplyBy(b, wrong) PROVE DOMAIN num' = DOMAIN num
    BY <2>1 DEF MultiplyBy, Give
  <2>2. MultiplyAndSquare => DOMAIN num' = DOMAIN num
    BY <2>1 DEF MultiplyAndSquare
  <2>3. Shift => DOMAIN num' = DOMAIN num
    BY <2>1 DEF Shift
  <2> QED BY <2>2, <2>3 DEF One, NextChar, WholeChar, LastChar, Shift, Goto, Give
<1>2. pc \in Positive /\ pc' \in Positive
  BY <1>1 DEF Positive
<1> QED BY <1>1, <1>2, InPower, PowerGoes

LEMMA FinishInv == IndInv /\ Finish => IndInv'
<1> SUFFICES ASSUME IndInv, Finish PROVE IndInv'
  OBVIOUS
<1>1. /\ pc \in Positive /\ pc' = "returned" /\ result' = "ok"
      /\ UNCHANGED <<call, given>> /\ DOMAIN num' = DOMAIN num
  BY DEF Finish, Done, Return, Give, Positive
<1>2. E \in Int
  BY Arities DEF IndInv, Typed, E, Before, N
<1> QED BY <1>1, <1>2, InPower, PowerEnds

------------------------------------------------------------------------------
(* zmodmul and zmodsqr.                                                      *)

LEMMA SaveModulusInv == IndInv /\ SaveModulus => IndInv'
<1> SUFFICES ASSUME IndInv, SaveModulus PROVE IndInv'
  OBVIOUS
<1>1. /\ Typed /\ num = given /\ D = M
      /\ call.routine \in Products /\ pc' = "product" /\ UNCHANGED <<call, given, num>>
      /\ saved' = IF call.p[1] = call.p[N] THEN D ELSE saved
  BY Operands DEF IndInv, Untouched, SaveModulus, Goto, N
<1> QED
  BY <1>1, SameCall
     DEF IndInv, Typed, Untouched, Checked, ModulusKept, ErrorsLeaveOperands, Places, Positive

LEMMA ProductInv == IndInv /\ Product => IndInv'
<1> SUFFICES ASSUME IndInv, Product PROVE IndInv'
  OBVIOUS
<1>1. /\ pc = "product" /\ Typed /\ num = given /\ D = M /\ call.routine \in Products
      /\ pc' = "reduce" /\ UNCHANGED <<call, given, saved>>
  BY Operands DEF IndInv, Untouched, Checked, Product, Goto, temps
<1>2. PICK product : num' = [num EXCEPT ![call.p[1]] = product]
  BY DEF Product, Give
<1>3. call.p[1] # call.p[N] => D' = D
  <2>1. N \in 1 .. N
    BY <1>1, Arities DEF Typed, N
  <2> QED BY <1>1, <1>2, <2>1 DEF Typed, D, N
<1> QED
  BY <1>1, <1>2, <1>3, SameCall
     DEF IndInv, Typed, Untouched, Checked, ModulusKept, ErrorsLeaveOperands, Places, Positive

LEMMA ReduceInv == IndInv /\ Reduce => IndInv'
<1> SUFFICES ASSUME IndInv, Reduce PROVE IndInv'
  OBVIOUS
<1>1. /\ Typed /\ call.routine \in Products /\ pc' = "returned" /\ UNCHANGED <<call, given>>
      /\ DOMAIN num' = DOMAIN num
  BY DEF IndInv, Checked, Reduce, Fail, Done, Return, Give
<1>2. IF call.p[1] = call.p[N] THEN saved = M ELSE D = M
  BY DEF IndInv, ModulusKept, Reduce
<1>3. \/ M = 0 /\ A = 0 /\ result' = "0_DIV_0" /\ num' = num
      \/ M = 0 /\ A # 0 /\ result' = "DIV_0" /\ num' = num
      \/ M # 0 /\ result' = "ok"
  BY <1>2 DEF Reduce, Fail, Done, Return, N
<1>4. num' = num => A' = A
  BY <1>1 DEF A
<1>5. call.routine \notin Powers /\ call.routine \notin Modular
  BY <1>1 DEF Powers, ByChars, Modular, Products
<1> QED
  BY <1>1, <1>3, <1>4, <1>5, SameCall
     DEF IndInv, Typed, Untouched, Checked, ModulusKept, ErrorsLeaveOperands, Places, Positive

------------------------------------------------------------------------------

LEMMA MemoryFailsInv == IndInv /\ MemoryFails => IndInv'
BY SameCall
   DEF IndInv, Typed, Untouched, Checked, ModulusKept, ErrorsLeaveOperands, Places, Positive,
       MemoryFails, Return

LEMMA NextInv == IndInv /\ [Next]_vars => IndInv'
<1> SUFFICES ASSUME IndInv, [Next]_vars PROVE IndInv'
  OBVIOUS
<1>1. CASE Next
  BY <1>1, ZeroExponentInv, NegativeExponentInv, ZeroModulusInv, ZeroBaseInv, BaseInv, CopyInv,
     LoopsInv, FinishInv, SaveModulusInv, ProductInv, ReduceInv, MemoryFailsInv
     DEF Next, Exceptional, PowerStep, ProductStep
<1>2. CASE UNCHANGED vars
  BY <1>2, SameCall
     DEF vars, IndInv, Typed, Untouched, Checked, ModulusKept, ErrorsLeaveOperands, A, D
<1> QED BY <1>1, <1>2

\* zpow, zpowu, zmodpow, zmodpowu, zmodmul and zmodsqr fail for exactly the operands
\* that have no result, and the first four before they have touched any of them.
THEOREM ErrorsAreExact == Spec => []ErrorsLeaveOperands
<1>1. IndInv => ErrorsLeaveOperands
  BY DEF IndInv
<1> QED BY <1>1, InitInv, NextInv, PTL DEF Spec

------------------------------------------------------------------------------
(* zmod.                                                                     *)

LEMMA MagSgn ==
  ASSUME NEW v \in Int
  PROVE  /\ Mag(v) \in Nat /\ Sgn(v) \in {-1, 0, 1} /\ v = Sgn(v) * Mag(v)
         /\ (Sgn(v) = 0 <=> v = 0) /\ (v # 0 => Mag(v) > 0) /\ (Mag(v) = 0 <=> v = 0)
BY DEF Mag, Sgn

LEMMA MagSgnOf ==
  ASSUME NEW s \in {-1, 1}, NEW n \in Nat
  PROVE  Mag(s * n) = n /\ (n > 0 => Sgn(s * n) = s)
BY DEF Mag, Sgn

LEMMA MagSgnProduct ==
  ASSUME NEW v \in Int, NEW w \in Int
  PROVE  Mag(v * w) = Mag(v) * Mag(w) /\ Sgn(v * w) = Sgn(v) * Sgn(w)
<1>1. CASE v = 0 \/ w = 0
  BY <1>1 DEF Mag, Sgn
<1>2. CASE v > 0 /\ w > 0
  <2>1. v * w > 0
    BY <1>2
  <2> QED BY <1>2, <2>1 DEF Mag, Sgn
<1>3. CASE v > 0 /\ w < 0
  <2>1. v * (-w) > 0 /\ v * (-w) = -(v * w)
    BY <1>3
  <2> QED BY <1>3, <2>1 DEF Mag, Sgn
<1>4. CASE v < 0 /\ w > 0
  <2>1. (-v) * w > 0 /\ (-v) * w = -(v * w)
    BY <1>4
  <2> QED BY <1>4, <2>1 DEF Mag, Sgn
<1>5. CASE v < 0 /\ w < 0
  <2>1. (-v) * (-w) > 0 /\ (-v) * (-w) = v * w
    BY <1>5
  <2> QED BY <1>5, <2>1 DEF Mag, Sgn
<1> QED BY <1>1, <1>2, <1>3, <1>4, <1>5

LEMMA RemType ==
  ASSUME NEW v \in Int, NEW m \in Int, m # 0
  PROVE  Rem(v, m) \in Int
<1>1. Mag(v) % Mag(m) \in Nat
  BY MagSgn, Quotient
<1>2. Sgn(v) \in Int
  BY MagSgn
<1> QED BY <1>1, <1>2 DEF Rem

\* A factor may be reduced before.
LEMMA RemFactor ==
  ASSUME NEW v \in Int, NEW w \in Int, NEW m \in Int, m # 0
  PROVE  Rem(v * Rem(w, m), m) = Rem(v * w, m)
<1> DEFINE d == Mag(m)
           r == Mag(w) % d
<1>1. d \in Nat /\ d > 0 /\ Mag(v) \in Nat /\ Mag(w) \in Nat /\ v * w \in Int
  BY MagSgn
<1>2. r \in Nat
  BY <1>1, Quotient
<1>3. Rem(w, m) = Sgn(w) * r
  BY DEF Rem
<1>4. (Mag(v) * r) % d = (Mag(v) * Mag(w)) % d
  BY <1>1, ReducedFactor
<1> HIDE DEF d, r
<1>5. CASE w = 0
  <2>1. Rem(w, m) = 0
    BY <1>2, <1>3, <1>5 DEF Sgn
  <2> QED BY <1>5, <2>1
<1>6. CASE w # 0 /\ r = 0
  <2>1. Rem(w, m) = 0 /\ Sgn(w) \in Int
    BY <1>3, <1>6, MagSgn
  <2>2. v * Rem(w, m) = 0
    BY <2>1
  <2>3. Rem(0, m) = 0
    <3>1. Sgn(0) = 0 /\ Mag(0) = 0 /\ 0 % d \in Nat
      BY <1>1, Quotient DEF Sgn, Mag
    <3> QED BY <3>1 DEF Rem, d
  <2>4. Mag(v) * r = 0
    BY <1>1, <1>6
  <2>5. (Mag(v) * Mag(w)) % d = 0
    <3>1. 0 % d = 0
      BY <1>1, QuotientIs
    <3> QED BY <1>4, <2>4, <3>1
  <2>6. Rem(v * w, m) = Sgn(v * w) * 0
    BY <2>5, MagSgnProduct DEF Rem, d
  <2>7. Sgn(v * w) \in Int
    BY <1>1, MagSgn
  <2> QED BY <2>2, <2>3, <2>6, <2>7
<1>7. CASE w # 0 /\ r > 0
  <2>1. Sgn(w) \in {-1, 1}
    BY <1>7, MagSgn
  <2>2. Mag(Rem(w, m)) = r /\ Sgn(Rem(w, m)) = Sgn(w)
    BY <1>2, <1>3, <1>7, <2>1, MagSgnOf
  <2>3. Rem(w, m) \in Int
    BY RemType
  <2>4. /\ Mag(v * Rem(w, m)) = Mag(v) * r /\ Sgn(v * Rem(w, m)) = Sgn(v * w)
        /\ Mag(v * w) = Mag(v) * Mag(w)
    <3>1. \A n \in Int : Mag(v * n) = Mag(v) * Mag(n) /\ Sgn(v * n) = Sgn(v) * Sgn(n)
      BY MagSgnProduct
    <3> QED BY <2>2, <2>3, <3>1
  <2> QED BY <1>4, <2>4 DEF Rem, d
<1> QED BY <1>2, <1>5, <1>6, <1>7

------------------------------------------------------------------------------
(* The power that PowersExact speaks of, by itself.                          *)

Multiplied(mod, m, v, w) == IF mod THEN Rem(v * w, m) ELSE v * w
ArePowers(f, mod, m, b, n) ==
  f = [k \in 0 .. n |-> IF k = 0 THEN 1 ELSE Multiplied(mod, m, f[k - 1], b)]
NthPower(mod, m, b, n) == (CHOOSE f : ArePowers(f, mod, m, b, n))[n]

LEMMA PowerIsNth ==
  ASSUME NEW b, NEW n
  PROVE  Power(b, n) = NthPower(call.routine \in Modular, M, b, n)
BY Zenon DEF Power, NthPower, ArePowers, Multiplied

LEMMA MultipliedType ==
  ASSUME NEW mod \in BOOLEAN, NEW m \in Int, mod => m # 0, NEW v \in Int, NEW w \in Int
  PROVE  Multiplied(mod, m, v, w) \in Int
<1>1. v * w \in Int
  OBVIOUS
<1> QED BY <1>1, RemType DEF Multiplied

LEMMA PowersExist ==
  ASSUME NEW mod \in BOOLEAN, NEW m \in Int, mod => m # 0, NEW b \in Int
  PROVE  \A n \in Nat : \E f \in [0 .. n -> Int] : ArePowers(f, mod, m, b, n)
<1> DEFINE Z == {n \in Nat : ~\E f \in [0 .. n -> Int] : ArePowers(f, mod, m, b, n)}
<1>1. SUFFICES ASSUME Z # {} PROVE FALSE
  OBVIOUS
<1>2. PICK n \in Z : \A k \in Z : ~(k < n)
  BY <1>1, LeastNumber
<1>3. n # 0
  <2>1. SUFFICES ASSUME n = 0 PROVE FALSE
    OBVIOUS
  <2> DEFINE f == [k \in 0 .. 0 |-> 1]
  <2>2. f \in [0 .. 0 -> Int] /\ ArePowers(f, mod, m, b, 0)
    BY DEF ArePowers
  <2> QED BY <1>2, <2>1, <2>2
<1>4. n \in Nat /\ n - 1 \in Nat /\ n - 1 < n
  BY <1>2, <1>3
<1>5. PICK f \in [0 .. n - 1 -> Int] : ArePowers(f, mod, m, b, n - 1)
  BY <1>2, <1>4
<1> DEFINE g == [k \in 0 .. n |-> IF k = n THEN Multiplied(mod, m, f[n - 1], b) ELSE f[k]]
<1>6. g \in [0 .. n -> Int]
  <2>1. f[n - 1] \in Int
    BY <1>4, <1>5
  <2>2. Multiplied(mod, m, f[n - 1], b) \in Int
    BY <2>1, MultipliedType
  <2>3. \A k \in 0 .. n : k # n => k \in 0 .. n - 1
    BY <1>4
  <2> QED BY <1>5, <2>2, <2>3
<1>7. ArePowers(g, mod, m, b, n)
  <2>1. SUFFICES ASSUME NEW k \in 0 .. n
                 PROVE  g[k] = IF k = 0 THEN 1 ELSE Multiplied(mod, m, g[k - 1], b)
    BY DEF ArePowers
  <2>2. k # 0 => k - 1 \in 0 .. n /\ k - 1 # n
    BY <1>4
  <2>3. k # 0 => g[k - 1] = f[k - 1]
    BY <2>2
  <2>4. CASE k = n
    BY <1>3, <2>3, <2>4
  <2>5. CASE k # n
    <3>1. k \in 0 .. n - 1
      BY <1>4, <2>5
    <3>2. f[k] = IF k = 0 THEN 1 ELSE Multiplied(mod, m, f[k - 1], b)
      BY <1>5, <3>1, Zenon DEF ArePowers
    <3> QED BY <2>3, <2>5, <3>2
  <2> QED BY <2>4, <2>5
<1> QED BY <1>2, <1>4, <1>6, <1>7

\* Powers of a longer row begin with those of a shorter one.
LEMMA PowersAgree ==
  ASSUME NEW mod, NEW m, NEW b, NEW n \in Nat, NEW l \in Nat, n <= l, NEW f, NEW g,
         ArePowers(f, mod, m, b, n), ArePowers(g, mod, m, b, l)
  PROVE  \A k \in 0 .. n : f[k] = g[k]
<1> DEFINE Z == {k \in 0 .. n : f[k] # g[k]}
<1>1. SUFFICES ASSUME Z # {} PROVE FALSE
  OBVIOUS
<1>2. Z \in SUBSET Nat
  OBVIOUS
<1>3. PICK k \in Z : \A o \in Z : ~(o < k)
  BY <1>1, <1>2, LeastNumber
<1>4. k \in 0 .. n /\ k \in 0 .. l
  BY <1>3
<1>5. /\ f[k] = IF k = 0 THEN 1 ELSE Multiplied(mod, m, f[k - 1], b)
      /\ g[k] = IF k = 0 THEN 1 ELSE Multiplied(mod, m, g[k - 1], b)
  BY <1>4, Zenon DEF ArePowers
<1>6. k # 0 => k - 1 \in 0 .. n /\ k - 1 < k
  BY <1>4
<1>7. k # 0 => f[k - 1] = g[k - 1]
  BY <1>3, <1>6
<1>8. f[k] = g[k]
  BY <1>5, <1>7, Zenon
<1> QED BY <1>3, <1>8

LEMMA NthPowers ==
  ASSUME NEW mod \in BOOLEAN, NEW m \in Int, mod => m # 0, NEW b \in Int
  PROVE  /\ NthPower(mod, m, b, 0) = 1
         /\ \A n \in Nat :
              /\ NthPower(mod, m, b, n) \in Int
              /\ NthPower(mod, m, b, n + 1) = Multiplied(mod, m, NthPower(mod, m, b, n), b)
<1> DEFINE F(n) == CHOOSE f : ArePowers(f, mod, m, b, n)
<1>1. ASSUME NEW n \in Nat
      PROVE  ArePowers(F(n), mod, m, b, n) /\ F(n)[n] \in Int
  <2>1. PICK f \in [0 .. n -> Int] : ArePowers(f, mod, m, b, n)
    BY PowersExist
  <2>2. ArePowers(F(n), mod, m, b, n)
    BY <2>1, Zenon
  <2>3. n <= n /\ n \in 0 .. n
    OBVIOUS
  <2> HIDE DEF F
  <2>4. F(n)[n] = f[n]
    BY <2>1, <2>2, <2>3, PowersAgree
  <2> QED BY <2>1, <2>2, <2>3, <2>4
<1>2. \A n : NthPower(mod, m, b, n) = F(n)[n]
  BY DEF NthPower
<1> HIDE DEF F
<1>3. F(0)[0] = 1
  <2>1. 0 \in 0 .. 0
    OBVIOUS
  <2> QED BY <1>1, <2>1, Zenon DEF ArePowers
<1>4. ASSUME NEW n \in Nat
      PROVE  F(n + 1)[n + 1] = Multiplied(mod, m, F(n)[n], b)
  <2>1. n + 1 \in Nat /\ n + 1 \in 0 .. n + 1 /\ n + 1 # 0 /\ (n + 1) - 1 = n
        /\ n <= n + 1 /\ n \in 0 .. n
    OBVIOUS
  <2>2. F(n + 1)[n + 1] = Multiplied(mod, m, F(n + 1)[n], b)
    BY <1>1, <2>1, Zenon DEF ArePowers
  <2>3. F(n)[n] = F(n + 1)[n]
    BY <1>1, <2>1, PowersAgree
  <2> QED BY <2>2, <2>3
<1> QED BY <1>1, <1>2, <1>3, <1>4

\* A power of any exponent and one of a positive exponent are multiplied by adding
\* the exponents; with a modulus the exponent 0 would give a 1 that is not reduced.
LEMMA PowersMultiply ==
  ASSUME NEW mod \in BOOLEAN, NEW m \in Int, mod => m # 0, NEW b \in Int, NEW k \in Nat
  PROVE  \A n \in Nat : n > 0 =>
           Multiplied(mod, m, NthPower(mod, m, b, k), NthPower(mod, m, b, n))
             = NthPower(mod, m, b, k + n)
<1> DEFINE P(n) == NthPower(mod, m, b, n)
           Z == {n \in Nat : n > 0 /\ Multiplied(mod, m, P(k), P(n)) # P(k + n)}
<1>1. SUFFICES ASSUME Z # {} PROVE FALSE
  BY Zenon
<1>2. PICK n \in Z : \A o \in Z : ~(o < n)
  BY <1>1, LeastNumber
<1>3. P(0) = 1 /\ \A o \in Nat : P(o) \in Int /\ P(o + 1) = Multiplied(mod, m, P(o), b)
  BY NthPowers, Zenon
<1>0. n \in Nat /\ n > 0 /\ Multiplied(mod, m, P(k), P(n)) # P(k + n)
  BY <1>2
<1>4. \A o \in Nat : o < n /\ o > 0 => Multiplied(mod, m, P(k), P(o)) = P(k + o)
  BY <1>2
<1> HIDE DEF P, Z
<1>5. PICK l \in Nat : n = l + 1 /\ l < n
  <2>1. n - 1 \in Nat /\ n = (n - 1) + 1 /\ n - 1 < n
    BY <1>0
  <2> QED BY <2>1, Zenon
<1>6. k + n = (k + l) + 1 /\ k + l \in Nat
  BY <1>5
<1>7. P(n) = Multiplied(mod, m, P(l), b) /\ P(k + n) = Multiplied(mod, m, P(k + l), b)
  BY <1>3, <1>5, <1>6, Zenon
<1>8. P(k) \in Int /\ P(l) \in Int /\ P(k) * P(l) \in Int /\ P(l) * b \in Int
  BY <1>3, <1>5
<1>9. P(k) * (P(l) * b) = (P(k) * P(l)) * b
  BY <1>8
<1>10. Multiplied(mod, m, P(k), P(n)) = Multiplied(mod, m, P(k) * P(l), b)
  <2>1. CASE mod
    <3>1. Rem(P(k) * Rem(P(l) * b, m), m) = Rem(P(k) * (P(l) * b), m)
      BY <1>8, <2>1, RemFactor
    <3> QED BY <1>7, <1>9, <2>1, <3>1 DEF Multiplied
  <2>2. CASE ~mod
    BY <1>7, <1>9, <2>2 DEF Multiplied
  <2> QED BY <2>1, <2>2
<1>11. CASE l = 0
  <2>1. P(l) = 1 /\ k + l = k
    BY <1>3, <1>11
  <2>2. P(k) * P(l) = P(k)
    BY <1>8, <2>1
  <2> QED BY <1>0, <1>7, <1>10, <2>1, <2>2
<1>12. CASE l # 0
  <2>1. Multiplied(mod, m, P(k), P(l)) = P(k + l)
    BY <1>4, <1>5, <1>12
  <2>2. CASE mod
    <3>1. \A v, w \in Int : Rem(w * Rem(v, m), m) = Rem(w * v, m)
      BY <2>2, RemFactor
    <3>2. Rem(b * Rem(P(k) * P(l), m), m) = Rem(b * (P(k) * P(l)), m)
      BY <1>8, <3>1
    <3>3. Rem(P(k) * P(l), m) \in Int
      BY <1>8, <2>2, RemType
    <3>4. \A v, w \in Int : v * w = w * v
      OBVIOUS
    <3>5. Rem(Rem(P(k) * P(l), m) * b, m) = Rem((P(k) * P(l)) * b, m)
      BY <1>8, <3>2, <3>3, <3>4
    <3> QED BY <1>0, <1>7, <1>10, <2>1, <2>2, <3>5 DEF Multiplied
  <2>3. CASE ~mod
    BY <1>0, <1>7, <1>10, <2>1, <2>3 DEF Multiplied
  <2> QED BY <2>2, <2>3
<1> QED BY <1>11, <1>12

\* The power of a magnitude is that of the integer, but for the sign.
LEMMA PowerOfMagnitude ==
  ASSUME NEW m \in Int, NEW b \in Int
  PROVE  \A n \in Nat :
           NthPower(FALSE, m, b, n) = IF b < 0 /\ n % 2 = 1 THEN -NthPower(FALSE, m, Mag(b), n)
                                                         ELSE NthPower(FALSE, m, Mag(b), n)
<1> DEFINE P(n) == NthPower(FALSE, m, b, n)
           Q(n) == NthPower(FALSE, m, Mag(b), n)
           Same(n) == P(n) = IF b < 0 /\ n % 2 = 1 THEN -Q(n) ELSE Q(n)
           Z == {n \in Nat : ~Same(n)}
<1>1. SUFFICES ASSUME Z # {} PROVE FALSE
  BY Zenon
<1>2. PICK n \in Z : \A o \in Z : ~(o < n)
  BY <1>1, LeastNumber
<1>3. /\ P(0) = 1 /\ Q(0) = 1
      /\ \A o \in Nat : /\ P(o) \in Int /\ P(o + 1) = P(o) * b
                        /\ Q(o) \in Int /\ Q(o + 1) = Q(o) * Mag(b)
  <2>1. Mag(b) \in Int /\ \A v, w : Multiplied(FALSE, m, v, w) = v * w
    BY MagSgn DEF Multiplied
  <2>2. ASSUME NEW c \in Int
        PROVE  /\ NthPower(FALSE, m, c, 0) = 1
               /\ \A o \in Nat : /\ NthPower(FALSE, m, c, o) \in Int
                                /\ NthPower(FALSE, m, c, o + 1) = NthPower(FALSE, m, c, o) * c
    <3>1. /\ NthPower(FALSE, m, c, 0) = 1
          /\ \A o \in Nat :
               /\ NthPower(FALSE, m, c, o) \in Int
               /\ NthPower(FALSE, m, c, o + 1) = Multiplied(FALSE, m, NthPower(FALSE, m, c, o), c)
      BY NthPowers
    <3> QED BY <2>1, <3>1, Zenon
  <2> QED BY <2>1, <2>2, Zenon
<1>4. n \in Nat /\ ~Same(n) /\ \A o \in Nat : o < n => Same(o)
  BY <1>2
<1> HIDE DEF P, Q, Z
<1>5. n # 0
  BY <1>3, <1>4
<1>6. PICK l \in Nat : n = l + 1 /\ l < n
  <2>1. n - 1 \in Nat /\ n = (n - 1) + 1 /\ n - 1 < n
    BY <1>4, <1>5
  <2> QED BY <2>1, Zenon
<1>7. n % 2 = 1 <=> l % 2 # 1
  BY <1>6
<1>8. P(n) = P(l) * b /\ Q(n) = Q(l) * Mag(b) /\ P(l) \in Int /\ Q(l) \in Int /\ Same(l)
  BY <1>3, <1>4, <1>6
<1>9. CASE b < 0
  <2>1. Mag(b) = -b
    BY <1>9 DEF Mag
  <2>2. Q(n) = -(Q(l) * b)
    BY <1>8, <2>1
  <2>3. (-Q(l)) * b = -(Q(l) * b)
    BY <1>8
  <2> QED BY <1>4, <1>7, <1>8, <1>9, <2>2, <2>3
<1>10. CASE ~(b < 0)
  BY <1>4, <1>8, <1>10 DEF Mag
<1> QED BY <1>9, <1>10

------------------------------------------------------------------------------
(* Powers of two, and the characters of the exponent.                        *)

LEMMA TwoType ==
  /\ MaxBits \in Nat /\ CharBits \in Nat /\ CharBits > 0 /\ MaxChars \in Nat
  /\ \A n \in 0 .. MaxBits : Two[n] \in Nat /\ Two[n] > 0
  /\ \A n \in 0 .. MaxBits : n > 0 => Two[n] = 2 * Two[n - 1]
  /\ Two[0] = 1
<1>1. \A v, w \in Nat : v * w \in Nat
  OBVIOUS
<1>2. MaxBits \in Nat
  BY <1>1, PowerAssumption DEF MaxBits
<1> QED BY <1>2, PowerAssumption

LEMMA TwoMonotone ==
  ASSUME NEW m \in 0 .. MaxBits
  PROVE  \A n \in 0 .. MaxBits : m <= n => Two[m] <= Two[n]
<1> DEFINE Z == {n \in 0 .. MaxBits : m <= n /\ ~(Two[m] <= Two[n])}
<1>1. SUFFICES ASSUME Z # {} PROVE FALSE
  OBVIOUS
<1>2. Z \in SUBSET Nat
  BY TwoType
<1>3. PICK n \in Z : \A k \in Z : ~(k < n)
  BY <1>1, <1>2, LeastNumber
<1>4. n # m
  BY TwoType
<1>5. n \in Nat /\ n <= MaxBits /\ n - 1 \in 0 .. MaxBits /\ n - 1 < n /\ m <= n - 1
  BY <1>4, TwoType
<1>6. Two[m] <= Two[n - 1]
  BY <1>3, <1>5
<1>7. Two[n] = 2 * Two[n - 1] /\ Two[n - 1] \in Nat /\ Two[m] \in Nat
  BY <1>5, TwoType
<1> QED BY <1>3, <1>6, <1>7

LEMMA TwoSum ==
  ASSUME NEW m \in 0 .. MaxBits
  PROVE  \A n \in 0 .. MaxBits : m + n <= MaxBits => Two[m + n] = Two[m] * Two[n]
<1> DEFINE Z == {n \in 0 .. MaxBits : m + n <= MaxBits /\ Two[m + n] # Two[m] * Two[n]}
<1>1. SUFFICES ASSUME Z # {} PROVE FALSE
  OBVIOUS
<1>2. Z \in SUBSET Nat
  BY TwoType
<1>3. PICK n \in Z : \A k \in Z : ~(k < n)
  BY <1>1, <1>2, LeastNumber
<1>4. n # 0
  BY TwoType
<1>5. /\ n \in Nat /\ n <= MaxBits /\ n - 1 \in 0 .. MaxBits /\ n - 1 < n
      /\ m + n \in 0 .. MaxBits /\ m + (n - 1) \in 0 .. MaxBits /\ m + n > 0
      /\ (m + n) - 1 = m + (n - 1)
  BY <1>3, <1>4, TwoType
<1>6. Two[m + (n - 1)] = Two[m] * Two[n - 1]
  BY <1>3, <1>5
<1>7. Two[m + n] = 2 * Two[m + (n - 1)] /\ Two[n] = 2 * Two[n - 1]
  BY <1>5, TwoType
<1>8. \A v, w \in Nat : 2 * (v * w) = v * (2 * w)
  OBVIOUS
<1>9. Two[m] \in Nat /\ Two[n - 1] \in Nat
  BY <1>5, TwoType
<1> QED BY <1>3, <1>6, <1>7, <1>8, <1>9

\* Where the characters begin.
LEMMA CharPlace ==
  /\ \A k \in 0 .. MaxChars : CharBits * k \in 0 .. MaxBits
  /\ \A k \in Nat : CharBits * (k + 1) = CharBits * k + CharBits
  /\ CharBits * 0 = 0 /\ CharBits * MaxChars = MaxBits
<1>1. ASSUME NEW k \in 0 .. MaxChars
      PROVE  CharBits * k \in 0 .. MaxBits
  <2>1. CharBits * (MaxChars - k) >= 0 /\ CharBits * k >= 0
    BY TwoType
  <2>2. CharBits * (MaxChars - k) = CharBits * MaxChars - CharBits * k
    BY TwoType
  <2> QED BY <2>1, <2>2, TwoType DEF MaxBits
<1>2. CharBits * MaxChars = MaxBits
  BY DEF MaxBits
<1>3. \A k \in Nat : CharBits * (k + 1) = CharBits * k + CharBits
  BY TwoType
<1> QED BY <1>1, <1>2, <1>3, TwoType

\* Of a number that fits the characters, how many bits there are and how many
\* characters are whole.
LEMMA Counted ==
  ASSUME NEW v \in Nat, v > 0, v < Two[MaxBits]
  PROVE  /\ BitsOf(v) \in 0 .. MaxBits /\ BitsOf(v) > 0 /\ v < Two[BitsOf(v)]
         /\ Whole(v) \in 0 .. MaxChars
         /\ BitsOf(v) % CharBits = 0 => BitsOf(v) = CharBits * Whole(v)
         /\ BitsOf(v) % CharBits # 0 =>
              /\ Whole(v) < MaxChars /\ BitsOf(v) < CharBits * (Whole(v) + 1)
              /\ Whole(v) < Used(v)
         /\ Whole(v) <= Used(v)
<1> DEFINE n == BitsOf(v)
           k == n \div CharBits
           r == n % CharBits
<1>1. n \in 0 .. MaxBits /\ v < Two[n]
  <2> DEFINE Z == {l \in 0 .. MaxBits : v < Two[l]}
  <2>1. Z \in SUBSET Nat /\ Z # {}
    BY TwoType
  <2>2. PICK m \in Z : \A l \in Z : ~(l < m)
    BY <2>1, LeastNumber
  <2>3. m \in Z /\ \A l \in Z : m <= l
    BY <2>1, <2>2
  <2>4. n = CHOOSE m2 \in Z : \A l \in Z : m2 =< l
    BY Zenon DEF BitsOf, Min
  <2>5. n \in Z
    BY <2>3, <2>4, Zenon
  <2> QED BY <2>5
<1>2. n > 0
  BY <1>1, TwoType
<1>3. n \in Nat
  BY <1>1
<1> HIDE DEF n
<1>4. k \in Nat /\ r \in Nat /\ r < CharBits /\ n = CharBits * k + r
  BY <1>3, TwoType, Quotient
<1> HIDE DEF k, r
<1>5. k <= MaxChars /\ (r # 0 => k < MaxChars)
  <2>1. CASE k > MaxChars
    <3>1. CharBits * (k - MaxChars) >= CharBits
      BY <1>4, <2>1, TwoType
    <3>2. CharBits * (k - MaxChars) = CharBits * k - CharBits * MaxChars
      BY <1>4, TwoType
    <3> QED BY <1>1, <1>4, <3>1, <3>2, TwoType DEF MaxBits
  <2>2. CASE k = MaxChars
    BY <1>1, <1>4, <2>2, TwoType DEF MaxBits
  <2> QED BY <1>4, <2>1, <2>2, TwoType
<1>6. r = 0 => n = CharBits * k
  BY <1>4, TwoType
<1>7. n < CharBits * (k + 1)
  BY <1>4, CharPlace, TwoType
<1> DEFINE u == (n + CharBits - 1) \div CharBits
<1>8. u = IF r = 0 THEN k ELSE k + 1
  <2>1. n + CharBits - 1 \in Nat
    BY <1>3, TwoType
  <2>2. CASE r = 0
    <3>1. n + CharBits - 1 = CharBits * k + (CharBits - 1) /\ CharBits - 1 \in Nat
      BY <1>6, <2>2, TwoType
    <3> QED BY <1>4, <2>1, <2>2, <3>1, TwoType, QuotientIs
  <2>3. CASE r # 0
    <3>1. n + CharBits - 1 = CharBits * (k + 1) + (r - 1) /\ r - 1 \in Nat /\ r - 1 < CharBits
      BY <1>4, <2>3, CharPlace, TwoType
    <3> QED BY <1>4, <2>1, <2>3, <3>1, TwoType, QuotientIs
  <2> QED BY <2>2, <2>3
<1> HIDE DEF u
<1>9. Whole(v) = k /\ BitsOf(v) % CharBits = r /\ BitsOf(v) = n /\ Used(v) = u
  BY Zenon DEF Whole, Used, k, r, n, u
<1>10. k < k + 1 /\ k <= k /\ k <= k + 1
  BY <1>4
<1> QED BY <1>1, <1>2, <1>4, <1>5, <1>6, <1>7, <1>8, <1>9, <1>10

\* A character of v is the next digit of v with something on top.  The products are
\* kept out of sight of the lemmas that cite this one.
IsProduct(dg, d, g)         == dg = d * g
SomethingOn(w, v, dg)       == \E o \in Nat : w = v + dg * o
IsNextDigit(w, v, d, g, dg) == w \div d = ((v \div d) % g) + g * (w \div dg)

LEMMA NextDigit ==
  ASSUME NEW v \in Nat, NEW d \in Nat, NEW g \in Nat, d > 0, g > 0,
         NEW dg \in Nat, IsProduct(dg, d, g), dg > 0, NEW w \in Nat, SomethingOn(w, v, dg)
  PROVE  IsNextDigit(w, v, d, g, dg)
<1>1. PICK o \in Nat : w = v + dg * o
  BY DEF SomethingOn
<1>2. /\ dg = d * g /\ w \in Nat /\ v \in Nat /\ d \in Nat /\ g \in Nat /\ dg \in Nat
      /\ d > 0 /\ g > 0 /\ dg > 0
  BY DEF IsProduct
<1> DEFINE q == v \div d
           r == v % d
           p == q \div g
           t == q % g
<1>3. q \in Nat /\ r \in Nat /\ r < d /\ v = d * q + r
  BY Quotient
<1> HIDE DEF q, r
<1>4. p \in Nat /\ t \in Nat /\ t < g /\ q = g * p + t
  BY <1>3, Quotient
<1> HIDE DEF p, t
<1>5. PICK up \in Nat : up = p + o
  BY <1>1, <1>4
<1>6. PICK high \in Nat : high = g * up + t
  BY <1>4, <1>5
<1>7. PICK low \in Nat : low = d * t + r
  BY <1>3, <1>4
<1>8. w = d * high + r
  <2>1. d * high = d * (g * p) + d * (g * o) + d * t
    BY <1>1, <1>4, <1>5, <1>6
  <2>2. v = d * (g * p) + d * t + r
    BY <1>3, <1>4
  <2>3. dg * o = d * (g * o)
    BY <1>1, <1>2
  <2> QED BY <1>1, <1>3, <1>4, <1>6, <2>1, <2>2, <2>3
<1>9. w = dg * up + low
  <2>1. d * high = dg * up + d * t
    BY <1>2, <1>4, <1>5, <1>6
  <2> QED BY <1>3, <1>4, <1>6, <1>7, <1>8, <2>1
<1>10. low < dg
  <2>1. d * (g - 1 - t) >= 0
    BY <1>4
  <2>2. d * (g - 1 - t) = d * g - d - d * t
    BY <1>4
  <2> QED BY <1>2, <1>3, <1>4, <1>7, <2>1, <2>2
<1>11. w \div d = high
  BY <1>2, <1>3, <1>6, <1>8, Quotients, Zenon
<1>12. w \div dg = up
  <2>1. dg \in Nat /\ dg > 0 /\ w \in Nat /\ up \in Nat /\ low \in Nat
    BY <1>2
  <2> QED BY <2>1, <1>9, <1>10, Quotients, Zenon
<1>13. w \div d = t + g * (w \div dg)
  BY <1>4, <1>5, <1>6, <1>11, <1>12
<1> QED BY <1>13 DEF t, q, IsNextDigit

\* The exponent that is read is v with top above its whole characters.

\* The characters before the last are read as they are ...
LEMMA WholeDigit ==
  ASSUME NEW v \in Nat, NEW top \in Nat, NEW n \in 0 .. MaxChars, NEW k \in 0 .. MaxChars, k < n,
         NEW w \in Nat, w = v + top * Two[CharBits * n]
  PROVE  w \div Two[CharBits * k]
           = ((v \div Two[CharBits * k]) % Two[CharBits])
               + Two[CharBits] * (w \div Two[CharBits * (k + 1)])
<1>1. /\ CharBits * k \in 0 .. MaxBits /\ CharBits \in 0 .. MaxBits
      /\ CharBits * (k + 1) = CharBits * k + CharBits /\ k + 1 \in 0 .. MaxChars
      /\ CharBits * (k + 1) \in 0 .. MaxBits
  <2>1. k + 1 \in 0 .. MaxChars /\ 1 \in 0 .. MaxChars /\ CharBits * 1 = CharBits
    BY TwoType
  <2>2. CharBits * 1 \in 0 .. MaxBits
    BY <2>1, CharPlace
  <2> QED BY <2>1, <2>2, CharPlace
<1>2. PICK l \in Nat : n = (k + 1) + l
  <2>1. n - (k + 1) \in Nat /\ n = (k + 1) + (n - (k + 1))
    OBVIOUS
  <2> QED BY <2>1, Zenon
<1>3. CharBits * n = CharBits * (k + 1) + CharBits * l /\ CharBits * l \in 0 .. MaxBits
      /\ CharBits * n \in 0 .. MaxBits
  <2>1. l \in 0 .. MaxChars
    BY <1>2, TwoType
  <2> QED BY <1>2, <2>1, CharPlace, TwoType
<1> DEFINE d == Two[CharBits * k]
           g == Two[CharBits]
           h == Two[CharBits * l]
<1>4. Two[CharBits * (k + 1)] = d * g
  BY <1>1, TwoSum
<1>5. Two[CharBits * n] = Two[CharBits * (k + 1)] * h
  BY <1>1, <1>3, TwoSum
<1>6. d \in Nat /\ d > 0 /\ g \in Nat /\ g > 0 /\ h \in Nat /\ Two[CharBits * (k + 1)] > 0
  BY <1>1, <1>3, TwoType
<1> HIDE DEF d, g, h
<1> DEFINE dg == Two[CharBits * (k + 1)]
<1>7. dg = d * g /\ dg \in Nat /\ dg > 0
  BY <1>1, <1>4, TwoType DEF dg
<1>8. Two[CharBits * n] = dg * h /\ Two[CharBits * n] \in Nat
  BY <1>3, <1>5, TwoType
<1> HIDE DEF dg
<1>9. SomethingOn(w, v, dg)
  <2>1. top * h \in Nat /\ top * (dg * h) = dg * (top * h)
    BY <1>6, <1>7
  <2>2. w = v + dg * (top * h)
    BY <1>8, <2>1
  <2> QED BY <2>1, <2>2 DEF SomethingOn
<1>10. IsNextDigit(w, v, d, g, dg)
  BY <1>6, <1>7, <1>9, NextDigit DEF IsProduct
<1> QED BY <1>10 DEF IsNextDigit, d, g, dg

\* ... and what is read last is the rest: all of top, or the last bits of v.
LEMMA LastDigit ==
  ASSUME NEW v \in Nat, v > 0, v < Two[MaxBits], NEW top \in Nat, NEW w \in Nat,
         w = v + (IF BitsOf(v) % CharBits = 0 THEN top * Two[BitsOf(v)] ELSE 0)
  PROVE  w \div Two[CharBits * Whole(v)]
           = IF BitsOf(v) % CharBits = 0 THEN top
             ELSE (v \div Two[CharBits * Whole(v)]) % Two[CharBits]
<1> DEFINE n == BitsOf(v)
           k == Whole(v)
           d == Two[CharBits * k]
<1>1. /\ n \in 0 .. MaxBits /\ v < Two[n] /\ k \in 0 .. MaxChars
      /\ n % CharBits = 0 => n = CharBits * k
      /\ n % CharBits # 0 => k < MaxChars /\ n < CharBits * (k + 1)
  BY Counted
<1> HIDE DEF n, k
<1>2. CharBits * k \in 0 .. MaxBits /\ d \in Nat /\ d > 0
  BY <1>1, CharPlace, TwoType
<1> HIDE DEF d
<1>3. CASE n % CharBits = 0
  <2>1. Two[n] = d
    BY <1>1, <1>3 DEF d
  <2>2. w = d * top + v
    BY <1>2, <1>3, <2>1 DEF n
  <2>3. w \div d = top
    BY <1>1, <1>2, <2>1, <2>2, QuotientIs
  <2> QED BY <1>3, <2>3 DEF n, d, k
<1>4. CASE n % CharBits # 0
  <2>1. w = v
    BY <1>4 DEF n
  <2>2. /\ k + 1 \in 0 .. MaxChars /\ CharBits * (k + 1) \in 0 .. MaxBits
        /\ CharBits * (k + 1) = CharBits * k + CharBits /\ CharBits \in 0 .. MaxBits
    <3>1. k + 1 \in 0 .. MaxChars /\ 1 \in 0 .. MaxChars /\ CharBits * 1 = CharBits
      BY <1>1, <1>4, TwoType
    <3>2. CharBits * 1 \in 0 .. MaxBits
      BY <3>1, CharPlace
    <3> QED BY <1>1, <3>1, <3>2, CharPlace
  <2> DEFINE g == Two[CharBits]
  <2>3. Two[CharBits * (k + 1)] = d * g
    BY <1>2, <2>2, TwoSum DEF d
  <2>4. Two[n] <= Two[CharBits * (k + 1)] /\ Two[n] \in Nat
    BY <1>1, <1>4, <2>2, TwoMonotone, TwoType
  <2>5. g \in Nat /\ g > 0
    BY <2>2, TwoType
  <2> HIDE DEF g
  <2> DEFINE q == v \div d
             r == v % d
  <2>6. q \in Nat /\ r \in Nat /\ r < d /\ v = d * q + r
    BY <1>2, Quotient
  <2> HIDE DEF q, r
  <2>7. q < g
    <3>1. SUFFICES ASSUME q >= g PROVE FALSE
      BY <2>5, <2>6
    <3>2. d * (q - g) >= 0
      BY <1>2, <2>5, <2>6, <3>1
    <3>3. d * (q - g) = d * q - d * g
      BY <1>2, <2>5, <2>6
    <3>4. d * g \in Nat /\ v < d * g /\ d * q \in Nat
      BY <1>1, <1>2, <2>3, <2>4, <2>5, <2>6
    <3> QED BY <2>6, <3>2, <3>3, <3>4
  <2>8. q % g = q
    <3>1. q = g * 0 + q
      BY <2>5, <2>6
    <3> QED BY <2>5, <2>6, <2>7, <3>1, QuotientIs
  <2>9. w \div d = (v \div d) % g
    BY <2>1, <2>8 DEF q
  <2> QED BY <1>4, <2>9 DEF n, d, k, g
<1> QED BY <1>3, <1>4
------------------------------------------------------------------------------
(* What holds while a power is computed.                                     *)

Mod    == call.routine \in Modular
Root   == IF Mod THEN Before(2) ELSE Mag(Before(2))
P      == [n \in Nat |-> NthPower(Mod, M, Root, n)]
Total  == E + Spill
Tail(k) == Total \div Two[CharBits * k]

Loops == {"char", "whole", "last", "shift"}

\* What was given fits an exponent's characters; only the result was written.
Operand ==
  /\ tc \in [0 .. MaxChars -> Nat]
  /\ \A k \in 1 .. N : given[k] < Two[MaxBits]
  /\ pc # "returned" => num = [given EXCEPT ![call.p[1]] = A]
  /\ pc = "reduce" /\ "power" \notin lost =>
       A = Before(2) * Before(IF call.routine = "zmodsqr" THEN 2 ELSE 3)

\* What the loops start with.
Started ==
  /\ pc \in {"begin", "product", "exponent", "modulus", "one"} => lost = {}
  /\ pc \in {"exponent", "modulus", "one"} => tb = P[1]
  /\ pc \in {"one"} \cup Loops /\ Mod => td = M
  /\ pc \in {"exponent", "char", "whole", "last"} => call.routine \in ByChars
  /\ pc = "shift" => call.routine \notin ByChars
  /\ pc \in {"modulus", "one"} \cup Loops /\ call.routine \in ByChars =>
       \A k \in 0 .. MaxChars :
         k < Used(E) => tc[k] = (E \div Two[CharBits * k]) % Two[CharBits]

\* Of the exponent n, some has been multiplied in, and the rest is to be, for the base
\* has been squared a few times; what is wrong may be anything.
Stands(f, n, wrong, base, product, rest) ==
  \E e \in Nat \ {0}, r \in Nat :
    /\ n = r + e * rest
    /\ "base" \notin wrong => base = f[e]
    /\ "power" \notin wrong => product = f[r]

Looping ==
  /\ pc = "char"  => i \in 0 .. Whole(E) /\ Stands(P, Total, lost, tb, A, Tail(i))
  /\ pc = "whole" => /\ i \in 0 .. Whole(E) /\ i < Whole(E) /\ j \in 1 .. CharBits
                     /\ x \in Nat /\ x < Two[j]
                     /\ Stands(P, Total, lost, tb, A, x + Two[j] * Tail(i + 1))
  /\ pc = "last"  => x \in Nat /\ Stands(P, Total, lost, tb, A, x)
  /\ pc = "shift" => x \in Nat /\ Stands(P, Total, lost, tb, A, 2 * (x \div 2))

PowerInv == IndInv /\ Operand /\ Started /\ Looping

\* The call and the exponent copied, nothing of these depends on what a step changes.
LEMMA SamePower ==
  ASSUME UNCHANGED <<call, given>>
  PROVE  /\ Mod' = Mod /\ P' = P /\ E' = E /\ M' = M /\ N' = N
         /\ tc' = tc => /\ Spill' = Spill /\ Total' = Total
                        /\ \A k : Tail(k)' = Tail(k)
<1>1. Mod' = Mod /\ P' = P /\ E' = E /\ M' = M /\ N' = N
  BY SameCall DEF Mod, P, Root
<1>2. tc' = tc => Spill' = Spill
  BY SameCall DEF Spill
<1>3. tc' = tc => Total' = Total
  BY <1>1, <1>2 DEF Total
<1> QED BY <1>1, <1>2, <1>3 DEF Tail

LEMMA OperandTypes ==
  ASSUME Typed
  PROVE  /\ Before(2) \in Int /\ M \in Int /\ E \in Int /\ Mod \in BOOLEAN /\ Root \in Int
         /\ 1 \in 1 .. N /\ 2 \in 1 .. N /\ N \in 1 .. N
         /\ (call.routine \in ByChars \cup Products => 3 \in 1 .. N)
<1>1. 1 \in 1 .. N /\ 2 \in 1 .. N /\ N \in 1 .. N
  BY Arities DEF Typed, N
<1>2. call.routine \in ByChars \cup Products => 3 \in 1 .. N
  BY Arities DEF Typed, N
<1>3. Before(2) \in Int /\ M \in Int /\ E \in Int
  BY <1>1, <1>2 DEF Typed, E, M, Before, N
<1> QED BY <1>1, <1>2, <1>3, MagSgn DEF Mod, Root

\* The powers, as a function of the exponent.
LEMMA PowerFacts ==
  ASSUME Typed, Mod => M # 0
  PROVE  /\ P[0] = 1
         /\ \A n \in Nat : P[n] \in Int /\ P[n + 1] = Multiplied(Mod, M, P[n], Root)
         /\ \A k, n \in Nat : n > 0 => Multiplied(Mod, M, P[k], P[n]) = P[k + n]
<1>1. Root \in Int /\ M \in Int /\ Mod \in BOOLEAN
  BY OperandTypes
<1>2. \A n \in Nat : P[n] = NthPower(Mod, M, Root, n)
  BY DEF P
<1>3. P[0] = 1 /\ \A n \in Nat : P[n] \in Int /\ P[n + 1] = Multiplied(Mod, M, P[n], Root)
  <2>1. /\ NthPower(Mod, M, Root, 0) = 1
        /\ \A n \in Nat :
             /\ NthPower(Mod, M, Root, n) \in Int
             /\ NthPower(Mod, M, Root, n + 1) = Multiplied(Mod, M, NthPower(Mod, M, Root, n), Root)
    BY <1>1, NthPowers
  <2>2. 0 \in Nat /\ \A n \in Nat : n + 1 \in Nat
    OBVIOUS
  <2> QED BY <1>2, <2>1, <2>2, Zenon
<1>4. ASSUME NEW k \in Nat, NEW n \in Nat, n > 0
      PROVE  Multiplied(Mod, M, P[k], P[n]) = P[k + n]
  <2>1. \A o \in Nat : o > 0 =>
          Multiplied(Mod, M, NthPower(Mod, M, Root, k), NthPower(Mod, M, Root, o))
            = NthPower(Mod, M, Root, k + o)
    BY <1>1, PowersMultiply
  <2>2. k + n \in Nat
    OBVIOUS
  <2>3. k \in Nat /\ n \in Nat /\ n > 0
    BY <1>4
  <2> QED BY <1>2, <2>1, <2>2, <2>3, Zenon
<1> QED BY <1>3, <1>4

\* What is multiplied in is the exponent and, above its characters, an even number.
LEMMA TotalType ==
  ASSUME Typed, Operand, E > 0
  PROVE  /\ Total \in Nat /\ Total > 0 /\ E \in Nat
         /\ Total % 2 = E % 2
         /\ call.routine \notin ByChars => Total = E
         /\ call.routine \in ByChars =>
              /\ E < Two[MaxBits]
              /\ Total = E + (IF BitsOf(E) % CharBits = 0 THEN tc[Whole(E)] * Two[BitsOf(E)] ELSE 0)
<1>1. E \in Nat
  BY OperandTypes
<1>2. CASE call.routine \in ByChars
  <2>1. E < Two[MaxBits]
    BY <1>2, OperandTypes DEF Operand, E, Before, Typed, N
  <2> DEFINE n == BitsOf(E)
             top == tc[Whole(E)]
  <2>2. n \in 0 .. MaxBits /\ n > 0 /\ Whole(E) \in 0 .. MaxChars
    BY <1>1, <2>1, Counted
  <2>3. top \in Nat
    BY <2>2 DEF Operand
  <2>4. Total = E + (IF n % CharBits = 0 THEN top * Two[n] ELSE 0)
    BY <1>2 DEF Total, Spill
  <2> HIDE DEF n, top
  <2>5. Two[n] = 2 * Two[n - 1] /\ Two[n - 1] \in Nat
    <3>1. n - 1 \in 0 .. MaxBits
      BY <2>2, TwoType
    <3> QED BY <2>2, <3>1, TwoType
  <2>6. PICK o \in Nat : o = top * Two[n - 1]
    BY <2>3, <2>5
  <2>7. top * Two[n] = 2 * o
    BY <2>3, <2>5, <2>6
  <2>8. Total \in Nat /\ Total > 0 /\ Total % 2 = E % 2
    BY <1>1, <2>4, <2>7
  <2> QED BY <1>1, <1>2, <2>1, <2>4, <2>8 DEF n, top
<1>3. CASE call.routine \notin ByChars
  BY <1>1, <1>3 DEF Total, Spill
<1> QED BY <1>2, <1>3

LEMMA TailType ==
  ASSUME Typed, Operand, E > 0, NEW k \in 0 .. MaxChars
  PROVE  Tail(k) \in Nat
BY TotalType, CharPlace, TwoType, Quotient DEF Tail

\* A base and a product that are right unless they are said to be wrong, after the one
\* has been squared, or after the other has been multiplied by it.
BaseGoesOn(w, v, base, square) ==
  "base" \notin v => "base" \notin w /\ square = Multiplied(Mod, M, base, base)
ProductGoesOn(w, v, bit, base, product, next) ==
  "power" \notin v =>
    /\ "power" \notin w
    /\ bit = 1 => "base" \notin w /\ next = Multiplied(Mod, M, product, base)
    /\ bit = 0 => next = product

\* Multiplying and squaring takes one bit off the rest.
LEMMA OneBit ==
  ASSUME Typed, Mod => M # 0, NEW n \in Nat, NEW w, NEW base, NEW product, NEW bit \in {0, 1},
         NEW rest \in Nat, Stands(P, n, w, base, product, bit + 2 * rest),
         NEW v, NEW square, NEW next,
         BaseGoesOn(w, v, base, square), ProductGoesOn(w, v, bit, base, product, next)
  PROVE  Stands(P, n, v, square, next, rest)
<1>1. PICK e \in Nat \ {0}, r \in Nat :
        /\ n = r + e * (bit + 2 * rest)
        /\ "base" \notin w => base = P[e]
        /\ "power" \notin w => product = P[r]
  BY DEF Stands
<1>2. Multiplied(Mod, M, P[e], P[e]) = P[e + e] /\ Multiplied(Mod, M, P[r], P[e]) = P[r + e]
  <2>1. e \in Nat /\ e > 0 /\ r \in Nat
    BY <1>1
  <2> QED BY <1>1, <2>1, PowerFacts, Zenon
<1>3. e + e \in Nat \ {0} /\ r + e \in Nat
  BY <1>1
<1>4. n = r + e * bit + (e + e) * rest
  <2>1. e * (bit + 2 * rest) = e * bit + (e + e) * rest
    BY <1>1
  <2>2. e * bit \in Nat /\ (e + e) * rest \in Nat
    BY <1>1
  <2> QED BY <1>1, <2>1, <2>2
<1>5. "base" \notin v => square = P[e + e]
  BY <1>1, <1>2, Zenon DEF BaseGoesOn
<1>6. CASE bit = 1
  <2>1. n = (r + e) + (e + e) * rest
    BY <1>1, <1>4, <1>6
  <2>2. "power" \notin v => next = P[r + e]
    <3> SUFFICES ASSUME "power" \notin v PROVE next = P[r + e]
      OBVIOUS
    <3>1. "power" \notin w /\ "base" \notin w /\ next = Multiplied(Mod, M, product, base)
      BY <1>6, Zenon DEF ProductGoesOn
    <3> QED BY <1>1, <1>2, <3>1, Zenon
  <2> QED BY <1>3, <1>5, <2>1, <2>2, Zenon DEF Stands
<1>7. CASE bit = 0
  <2>1. n = r + (e + e) * rest
    BY <1>1, <1>4, <1>7
  <2>2. "power" \notin v => next = P[r]
    BY <1>1, <1>7, Zenon DEF ProductGoesOn
  <2> QED BY <1>1, <1>3, <1>5, <2>1, <2>2, Zenon DEF Stands
<1> QED BY <1>6, <1>7

\* A step of zmul_ll and zsqr_ll, or zmodmul and zmodsqr.
LEMMA ReducedIs ==
  ASSUME Mod => td = M, NEW v, NEW u
  PROVE  Reduced(v * u) = Multiplied(Mod, M, v, u)
BY DEF Reduced, Multiplied, Mod

LEMMA SquareGoesOn ==
  ASSUME Mod => td = M, NEW s, NEW w
  PROVE  BaseGoesOn(w, w \cup Wrong("base", s, tb, tb), tb, Reduced(s))
BY ReducedIs DEF BaseGoesOn, Wrong

\* The result times b, if it had been wrong had it been so.
LEMMA MultiplyGoesOn ==
  ASSUME Mod => td = M, NEW w, NEW v, NEW b, MultiplyBy(b, v),
         "power" \notin v => "power" \notin w /\ "base" \notin w,
         num = [given EXCEPT ![call.p[1]] = A], call.p[1] \in DOMAIN given, UNCHANGED <<call, given>>
  PROVE  /\ ProductGoesOn(w, lost', 1, b, A, A')
         /\ num' = [given EXCEPT ![call.p[1]] = A']
         /\ "base" \notin lost' <=> "base" \notin v
<1>1. PICK p \in Times(A, b) :
        /\ num' = [num EXCEPT ![call.p[1]] = Reduced(p)]
        /\ lost' = v \cup Wrong("power", p, A, b)
  BY DEF MultiplyBy, Give
<1>2. A' = Reduced(p) /\ num' = [given EXCEPT ![call.p[1]] = A']
  BY <1>1 DEF A
<1>3. "power" \notin lost' => "power" \notin v /\ p = A * b
  BY <1>1 DEF Wrong
<1>4. "base" \notin lost' <=> "base" \notin v
  BY <1>1 DEF Wrong
<1>5. ProductGoesOn(w, lost', 1, b, A, A')
  BY <1>2, <1>3, ReducedIs DEF ProductGoesOn
<1> QED BY <1>2, <1>4, <1>5

LEMMA Halves ==
  ASSUME NEW n \in Nat
  PROVE  /\ n \div 2 \in Nat /\ n % 2 \in {0, 1} /\ n = (n % 2) + 2 * (n \div 2)
OBVIOUS

LEMMA BaseSquared ==
  ASSUME PowerInv, pc \in {"whole", "last"}, MultiplyAndSquare, UNCHANGED <<call, given>>,
         NEW rest \in Nat, Stands(P, Total, lost, tb, A, (x % 2) + 2 * rest), x \in Nat
  PROVE  /\ Stands(P, Total, lost', tb', A', rest) /\ UNCHANGED tc
         /\ num' = [given EXCEPT ![call.p[1]] = A'] /\ x' = x \div 2
<1>1. Typed /\ (Mod => M # 0) /\ (Mod => td = M) /\ E > 0 /\ Operand
  BY DEF PowerInv, IndInv, Checked, Positive, Started, Loops, Mod
<1>2. Total \in Nat
  BY <1>1, TotalType
<1>3. PICK s : LET wrong == lost \cup Wrong("base", s, tb, tb)
               IN /\ tb' = Reduced(s)
                  /\ IF x % 2 = 0 THEN UNCHANGED num /\ lost' = wrong
                     ELSE MultiplyBy(tb, wrong \cup (IF "base" \in lost THEN {"power"} ELSE {}))
  BY DEF MultiplyAndSquare
<1> DEFINE wrong == lost \cup Wrong("base", s, tb, tb)
<1>4. num = [given EXCEPT ![call.p[1]] = A] /\ call.p[1] \in DOMAIN given
  BY <1>1, OperandTypes DEF PowerInv, Operand, Typed, N
<1>5. BaseGoesOn(lost, wrong, tb, tb')
  BY <1>1, <1>3, SquareGoesOn
<1>6. "power" \notin wrong <=> "power" \notin lost
  BY DEF Wrong
<1>7. UNCHANGED tc /\ x' = x \div 2
  BY DEF MultiplyAndSquare
<1>8. CASE x % 2 = 0
  <2>1. num' = num /\ lost' = wrong
    BY <1>3, <1>8
  <2>2. A' = A
    BY <2>1 DEF A
  <2>3. ProductGoesOn(lost, lost', 0, tb, A, A')
    BY <1>6, <2>1, <2>2 DEF ProductGoesOn
  <2>4. BaseGoesOn(lost, lost', tb, tb')
    BY <1>5, <2>1
  <2>5. Stands(P, Total, lost, tb, A, 0 + 2 * rest)
    BY <1>8
  <2>6. Stands(P, Total, lost', tb', A', rest)
    BY <1>1, <1>2, <2>3, <2>4, <2>5, OneBit
  <2> QED BY <1>4, <1>7, <2>1, <2>2, <2>6
<1>9. CASE x % 2 = 1
  <2> DEFINE both == wrong \cup (IF "base" \in lost THEN {"power"} ELSE {})
  <2>1. MultiplyBy(tb, both)
    BY <1>3, <1>9
  <2>2. "power" \notin both => "power" \notin lost /\ "base" \notin lost
    BY <1>6
  <2>3. "base" \notin both <=> "base" \notin wrong
    OBVIOUS
  <2> HIDE DEF both, wrong
  <2>4. /\ ProductGoesOn(lost, lost', 1, tb, A, A')
        /\ num' = [given EXCEPT ![call.p[1]] = A']
        /\ "base" \notin lost' <=> "base" \notin both
    BY <1>1, <1>4, <2>1, <2>2, MultiplyGoesOn
  <2>5. BaseGoesOn(lost, lost', tb, tb')
    BY <1>5, <2>3, <2>4 DEF BaseGoesOn
  <2>6. Stands(P, Total, lost, tb, A, 1 + 2 * rest)
    BY <1>9
  <2>7. Stands(P, Total, lost', tb', A', rest)
    BY <1>1, <1>2, <2>4, <2>5, <2>6, OneBit
  <2> QED BY <1>7, <2>4, <2>7
<1>10. x % 2 \in {0, 1}
  OBVIOUS
<1> QED BY <1>8, <1>9, <1>10

------------------------------------------------------------------------------
(* Each step.                                                                *)

LEMMA InitPower == Init => PowerInv
<1> SUFFICES ASSUME Init PROVE PowerInv
  OBVIOUS
<1>1. IndInv
  BY InitInv
<1>2. num \in [1 .. N -> Numbers] /\ given = num /\ pc = "begin" /\ lost = {}
      /\ tc = [k \in 0 .. MaxChars |-> 0]
  BY DEF Init, N
<1>3. tc \in [0 .. MaxChars -> Nat] /\ \A k \in 1 .. N : given[k] < Two[MaxBits]
  BY <1>2, PowerAssumption
<1>4. num = [given EXCEPT ![call.p[1]] = A]
  BY <1>1, <1>2, OperandTypes DEF IndInv, Typed, N, A
<1> QED BY <1>1, <1>2, <1>3, <1>4 DEF PowerInv, Operand, Started, Looping, Loops

LEMMA ReturnsPower ==
  ASSUME PowerInv, pc' = "returned", UNCHANGED <<call, given, tc>>
  PROVE  (Operand /\ Started /\ Looping)'
BY SamePower DEF PowerInv, Operand, Started, Looping, Loops

LEMMA BasePower == PowerInv /\ Base => (Operand /\ Started /\ Looping)'
<1> SUFFICES ASSUME PowerInv, Base PROVE (Operand /\ Started /\ Looping)'
  OBVIOUS
<1>1. /\ Typed /\ num = given /\ D = M /\ B = Before(2)
      /\ num = [given EXCEPT ![call.p[1]] = A]
  BY Operands DEF PowerInv, IndInv, Untouched, Base, Operand
<1>2. /\ (Mod => M # 0) /\ UNCHANGED <<call, given, num, tc, lost>> /\ lost = {}
      /\ tb' = (IF Mod THEN Rem(Root, M) ELSE Root)
      /\ IF call.routine \in ByChars THEN pc' = "exponent" ELSE pc' = "modulus"
  BY <1>1 DEF Base, Goto, temps, Mod, Root, PowerInv, Started
<1>3. P[1] = Multiplied(Mod, M, 1, Root)
  <2>1. 0 \in Nat /\ 0 + 1 = 1
    OBVIOUS
  <2> QED BY <1>1, <1>2, <2>1, PowerFacts
<1>4. tb' = P[1]
  <2>1. Root \in Int
    BY <1>1, OperandTypes
  <2>2. 1 * Root = Root
    BY <2>1
  <2> QED BY <1>2, <1>3, <2>2, Zenon DEF Multiplied
<1>5. A' = A
  BY <1>2 DEF A
<1> QED BY <1>1, <1>2, <1>4, <1>5, SamePower DEF PowerInv, Operand, Started, Looping, Loops

LEMMA CopyExponentPower == PowerInv /\ CopyExponent => (Operand /\ Started /\ Looping)'
<1> SUFFICES ASSUME PowerInv, CopyExponent PROVE (Operand /\ Started /\ Looping)'
  OBVIOUS
<1>1. PICK left \in Char :
        tc' = [k \in DOMAIN tc |-> IF k < Used(Exponent)
                                   THEN (Exponent \div Two[CharBits * k]) % Two[CharBits]
                                   ELSE left]
  BY DEF CopyExponent
<1>2. /\ pc = "exponent" /\ pc' = "modulus" /\ UNCHANGED <<call, given, num, tb, td, lost>>
      /\ Typed /\ num = given /\ E > 0 /\ DOMAIN tc = 0 .. MaxChars
  BY DEF CopyExponent, Goto, PowerInv, IndInv, Untouched, Checked, Positive, Operand
<1>3. Exponent = E /\ E \in Nat
  BY <1>2, Operands
<1>4. CharBits \in 0 .. MaxBits /\ Two[CharBits] \in Nat /\ Two[CharBits] > 0
  <2>1. 1 \in 0 .. MaxChars /\ CharBits * 1 = CharBits
    BY TwoType, PowerAssumption
  <2> QED BY <2>1, CharPlace, TwoType
<1>5. \A k \in 0 .. MaxChars : (E \div Two[CharBits * k]) % Two[CharBits] \in Nat
  BY <1>3, <1>4, CharPlace, TwoType, Quotient
<1>6. left \in Nat
  BY <1>4 DEF Char
<1>7. /\ tc' \in [0 .. MaxChars -> Nat]
      /\ \A k \in 0 .. MaxChars :
           k < Used(E) => tc'[k] = (E \div Two[CharBits * k]) % Two[CharBits]
  BY <1>1, <1>2, <1>3, <1>5, <1>6
<1>8. A' = A
  BY <1>2 DEF A
<1> QED BY <1>2, <1>7, <1>8, SamePower DEF PowerInv, Operand, Started, Looping, Loops

LEMMA CopyModulusPower == PowerInv /\ CopyModulus => (Operand /\ Started /\ Looping)'
<1> SUFFICES ASSUME PowerInv, CopyModulus PROVE (Operand /\ Started /\ Looping)'
  OBVIOUS
<1>1. /\ pc = "modulus" /\ pc' = "one" /\ UNCHANGED <<call, given, num, tb, tc, lost>>
      /\ Typed /\ num = given /\ D = M /\ (Mod => td' = M)
  BY Operands DEF CopyModulus, Goto, PowerInv, IndInv, Untouched, Mod
<1>2. A' = A
  BY <1>1 DEF A
<1> QED BY <1>1, <1>2, SamePower DEF PowerInv, Operand, Started, Looping, Loops

\* The base itself, and nothing or the base as product.
LEMMA StandsFirst ==
  ASSUME NEW n \in Nat, NEW bit \in {0, 1}, NEW rest \in Nat, n = bit + rest
  PROVE  Stands(P, n, {}, P[1], P[bit], rest)
<1>1. 1 \in Nat \ {0} /\ bit \in Nat /\ n = bit + 1 * rest
  OBVIOUS
<1> QED BY <1>1, Zenon DEF Stands

LEMMA OnePower == PowerInv /\ One => (Operand /\ Started /\ Looping)'
<1> SUFFICES ASSUME PowerInv, One PROVE (Operand /\ Started /\ Looping)'
  OBVIOUS
<1>1. /\ pc = "one" /\ UNCHANGED <<call, given, tb, tc, td>> /\ i' = 0 /\ x' = call.n
      /\ lost' = {}
      /\ Typed /\ num = given /\ E > 0 /\ (Mod => M # 0) /\ tb = P[1] /\ Operand
      /\ pc' = IF call.routine \in ByChars THEN "char" ELSE "shift"
      /\ call.n \in Nat
  BY DEF One, Goto, temps, PowerInv, IndInv, Untouched, Checked, Positive, Started, Mod, Typed
<1>2. P[0] = 1
  BY <1>1, PowerFacts
<1> DEFINE bit == IF call.routine \notin ByChars /\ call.n % 2 = 1 THEN 1 ELSE 0
<1>3. num' = [num EXCEPT ![call.p[1]] = P[bit]]
  BY <1>1, <1>2 DEF One, Give
<1>4. A' = P[bit] /\ num' = [given EXCEPT ![call.p[1]] = A']
  BY <1>1, <1>3, OperandTypes DEF A, Typed, N
<1>5. Total \in Nat /\ E \in Nat
  BY <1>1, TotalType
<1>6. CASE call.routine \in ByChars
  <2>1. Tail(0) = Total
    <3>1. Two[CharBits * 0] = 1
      BY CharPlace, TwoType
    <3>2. Total = 1 * Total + 0 /\ 1 \in Nat /\ 0 \in Nat /\ 1 > 0 /\ 0 < 1
      BY <1>5
    <3> QED BY <1>5, <3>1, <3>2, Quotients, Zenon DEF Tail
  <2>2. Stands(P, Total, lost', tb', A', Tail(0))
    BY <1>1, <1>4, <1>5, <1>6, <2>1, StandsFirst
  <2>3. 0 \in 0 .. Whole(E)
    <3>1. Whole(E) \in Nat
      BY <1>1, <1>5, <1>6, TotalType, Counted
    <3> QED BY <3>1
  <2> QED BY <1>1, <1>4, <1>6, <2>2, <2>3, SamePower
          DEF PowerInv, Operand, Started, Looping, Loops
<1>7. CASE call.routine \notin ByChars
  <2>1. Total = call.n
    BY <1>1, <1>7, TotalType DEF E
  <2>2. call.n \div 2 \in Nat /\ call.n = bit + 2 * (call.n \div 2) /\ bit \in {0, 1}
    <3>1. /\ call.n \div 2 \in Nat /\ call.n % 2 \in {0, 1}
          /\ call.n = (call.n % 2) + 2 * (call.n \div 2)
      BY <1>1, Halves
    <3>2. bit = call.n % 2
      BY <1>7, <3>1
    <3> HIDE DEF bit
    <3> QED BY <3>1, <3>2
  <2>3. Stands(P, Total, lost', tb', A', 2 * (x' \div 2))
    <3>1. 2 * (call.n \div 2) \in Nat
      BY <2>2
    <3> QED BY <1>1, <1>4, <1>5, <2>1, <2>2, <3>1, StandsFirst
  <2> QED BY <1>1, <1>4, <1>7, <2>3, SamePower
          DEF PowerInv, Operand, Started, Looping, Loops
<1> QED BY <1>6, <1>7

\* What is known in the loops.
LEMMA InLoop ==
  ASSUME PowerInv, pc \in Loops
  PROVE  /\ Typed /\ Operand /\ E > 0 /\ (Mod => M # 0) /\ (Mod => td = M)
         /\ Total \in Nat /\ E \in Nat /\ call.p[1] \in 1 .. N
         /\ num = [given EXCEPT ![call.p[1]] = A]
         /\ pc # "shift" => call.routine \in ByChars
<1>1. /\ Typed /\ Operand /\ E > 0 /\ (Mod => M # 0) /\ (Mod => td = M)
      /\ num = [given EXCEPT ![call.p[1]] = A]
      /\ pc # "shift" => call.routine \in ByChars
  BY DEF PowerInv, IndInv, Checked, Positive, Operand, Started, Loops, Mod
<1>2. call.p[1] \in 1 .. N
  BY <1>1, OperandTypes DEF Typed, N
<1> QED BY <1>1, <1>2, TotalType

\* What the loops over characters know of the exponent.
LEMMA ExponentRead ==
  ASSUME PowerInv, pc \in Loops, call.routine \in ByChars
  PROVE  /\ E > 0 /\ E < Two[MaxBits] /\ Whole(E) \in 0 .. MaxChars
         /\ \A k \in 0 .. MaxChars :
              /\ k < Whole(E) => /\ k + 1 \in 0 .. MaxChars
                                 /\ tc[k] \in Nat /\ tc[k] < Two[CharBits]
                                 /\ Tail(k) = tc[k] + Two[CharBits] * Tail(k + 1)
              /\ k = Whole(E) => tc[k] \in Nat /\ Tail(k) = tc[k]
<1>1. /\ Typed /\ Operand /\ E > 0 /\ E < Two[MaxBits] /\ E \in Nat /\ Total \in Nat
      /\ Total = E + (IF BitsOf(E) % CharBits = 0 THEN tc[Whole(E)] * Two[BitsOf(E)] ELSE 0)
      /\ \A k \in 0 .. MaxChars :
           k < Used(E) => tc[k] = (E \div Two[CharBits * k]) % Two[CharBits]
  <2>1. \A k \in 0 .. MaxChars :
           k < Used(E) => tc[k] = (E \div Two[CharBits * k]) % Two[CharBits]
    BY DEF PowerInv, Started
  <2> QED BY <2>1, InLoop, TotalType
<1>2. /\ Whole(E) \in 0 .. MaxChars /\ BitsOf(E) \in 0 .. MaxBits /\ Whole(E) <= Used(E)
      /\ BitsOf(E) % CharBits = 0 => BitsOf(E) = CharBits * Whole(E)
      /\ BitsOf(E) % CharBits # 0 => Whole(E) < Used(E)
  BY <1>1, Counted
<1> DEFINE n == Whole(E)
           top == tc[n]
<1>3. top \in Nat
  BY <1>1, <1>2 DEF Operand
<1>4. ASSUME NEW k \in 0 .. MaxChars, k < n
      PROVE  /\ k + 1 \in 0 .. MaxChars
             /\ tc[k] \in Nat /\ tc[k] < Two[CharBits]
             /\ Tail(k) = tc[k] + Two[CharBits] * Tail(k + 1)
  <2>1. k + 1 \in 0 .. MaxChars /\ k < Used(E)
    <3>1. n \in Nat /\ n <= MaxChars /\ MaxChars \in Nat /\ Used(E) \in Int
      <4>1. BitsOf(E) + CharBits - 1 \in Nat
        BY <1>2, TwoType
      <4> QED BY <1>2, <4>1, TwoType, Quotient DEF Used
    <3> QED BY <1>2, <1>4, <3>1
  <2>2. tc[k] = (E \div Two[CharBits * k]) % Two[CharBits]
    BY <1>1, <2>1
  <2>3. CharBits \in 0 .. MaxBits
    <3>1. 1 \in 0 .. MaxChars /\ CharBits * 1 = CharBits
      BY TwoType, PowerAssumption
    <3> QED BY <3>1, CharPlace
  <2>4. tc[k] \in Nat /\ tc[k] < Two[CharBits]
    <3>1. Two[CharBits] \in Nat /\ Two[CharBits] > 0
      BY <2>3, TwoType
    <3>2. E \div Two[CharBits * k] \in Nat
      BY <1>1, CharPlace, TwoType, Quotient
    <3> QED BY <2>2, <3>1, <3>2, Quotient
  <2>5. PICK t \in Nat : Total = E + t * Two[CharBits * n]
    <3>1. CASE BitsOf(E) % CharBits = 0
      <4>1. Total = E + top * Two[CharBits * n]
        BY <1>1, <1>2, <3>1
      <4> QED BY <1>3, <4>1
    <3>2. CASE BitsOf(E) % CharBits # 0
      <4>1. Two[CharBits * n] \in Nat
        BY <1>2, CharPlace, TwoType
      <4>2. Total = E + 0 * Two[CharBits * n]
        BY <1>1, <3>2, <4>1
      <4> QED BY <4>2
    <3> QED BY <3>1, <3>2
  <2>6. \A t2 \in Nat, n2 \in 0 .. MaxChars, w \in Nat :
          k < n2 /\ w = E + t2 * Two[CharBits * n2] =>
            w \div Two[CharBits * k] = ((E \div Two[CharBits * k]) % Two[CharBits])
                                         + Two[CharBits] * (w \div Two[CharBits * (k + 1)])
    BY <1>1, WholeDigit
  <2>7. Tail(k) = ((E \div Two[CharBits * k]) % Two[CharBits]) + Two[CharBits] * Tail(k + 1)
    BY <1>1, <1>2, <1>4, <2>5, <2>6, Zenon DEF Tail
  <2> QED BY <2>1, <2>2, <2>4, <2>7
<1>5. Tail(n) = top
  <2>1. \A t2 \in Nat, w \in Nat :
          w = E + (IF BitsOf(E) % CharBits = 0 THEN t2 * Two[BitsOf(E)] ELSE 0) =>
            w \div Two[CharBits * n]
              = IF BitsOf(E) % CharBits = 0 THEN t2
                ELSE (E \div Two[CharBits * n]) % Two[CharBits]
    BY <1>1, LastDigit
  <2>2. Tail(n) = IF BitsOf(E) % CharBits = 0 THEN top
                  ELSE (E \div Two[CharBits * n]) % Two[CharBits]
    BY <1>1, <1>3, <2>1, Zenon DEF Tail
  <2>3. BitsOf(E) % CharBits # 0 => top = (E \div Two[CharBits * n]) % Two[CharBits]
    BY <1>1, <1>2
  <2> QED BY <2>2, <2>3
<1> QED BY <1>1, <1>2, <1>3, <1>4, <1>5

LEMMA NextCharPower == PowerInv /\ NextChar => (Operand /\ Started /\ Looping)'
<1> SUFFICES ASSUME PowerInv, NextChar PROVE (Operand /\ Started /\ Looping)'
  OBVIOUS
<1>1. /\ pc = "char" /\ UNCHANGED <<call, given, num, tb, tc, td, i, lost>>
      /\ x' = tc[i] /\ j' = CharBits
      /\ i \in 0 .. Whole(E) /\ Stands(P, Total, lost, tb, A, Tail(i))
      /\ pc' = IF i < Whole(given[call.p[3]]) THEN "whole" ELSE "last"
      /\ pc \in Loops
  BY DEF NextChar, Goto, temps, PowerInv, Looping, Loops
<1>2. call.routine \in ByChars /\ E = given[call.p[3]] /\ A' = A
  BY <1>1, InLoop DEF E, Before, A
<1>3. Whole(E) \in 0 .. MaxChars /\ i \in 0 .. MaxChars
  <2>1. Whole(E) \in 0 .. MaxChars
    BY <1>1, <1>2, ExponentRead
  <2> QED BY <1>1, <2>1, TwoType
<1>4. CASE i < Whole(E)
  <2>1. x' \in Nat /\ x' < Two[CharBits] /\ Tail(i) = x' + Two[CharBits] * Tail(i + 1)
    BY <1>1, <1>2, <1>3, <1>4, ExponentRead
  <2>2. j' \in 1 .. CharBits
    BY <1>1, TwoType
  <2>3. Stands(P, Total, lost', tb', A', x' + Two[j'] * Tail(i' + 1))
    BY <1>1, <1>2, <2>1
  <2>4. pc' = "whole"
    BY <1>1, <1>2, <1>4
  <2>5. Looping'
    BY <1>1, <1>3, <1>4, <2>1, <2>2, <2>3, <2>4, SamePower DEF Looping
  <2> QED BY <1>1, <1>2, <2>4, <2>5, SamePower DEF PowerInv, Operand, Started, Loops
<1>5. CASE ~(i < Whole(E))
  <2>1. i = Whole(E)
    BY <1>1, <1>3, <1>5
  <2>2. x' \in Nat /\ Tail(i) = x'
    BY <1>1, <1>2, <1>3, <2>1, ExponentRead
  <2>3. pc' = "last"
    BY <1>1, <1>2, <1>5
  <2>4. Looping'
    BY <1>1, <1>2, <2>2, <2>3, SamePower DEF Looping
  <2> QED BY <1>1, <1>2, <2>3, <2>4, SamePower DEF PowerInv, Operand, Started, Loops
<1> QED BY <1>4, <1>5

\* Whatever loop goes on, only the result and what the loop keeps have changed.
LEMMA LoopGoesOn ==
  ASSUME PowerInv, pc \in Loops, pc' \in Loops, pc' = "shift" <=> pc = "shift",
         UNCHANGED <<call, given, tc, td>>, num' = [given EXCEPT ![call.p[1]] = A']
  PROVE  (Operand /\ Started)'
<1>1. Operand'
  BY SamePower DEF PowerInv, Operand, Loops
<1>2. Started'
  BY SamePower DEF PowerInv, Started, Loops
<1> QED BY <1>1, <1>2

LEMMA WholeCharPower == PowerInv /\ WholeChar => (Operand /\ Started /\ Looping)'
<1> SUFFICES ASSUME PowerInv, WholeChar PROVE (Operand /\ Started /\ Looping)'
  OBVIOUS
<1>1. /\ pc = "whole" /\ pc \in Loops /\ UNCHANGED <<call, given, tc, td>> /\ MultiplyAndSquare
      /\ j' = j - 1 /\ i' = (IF j = 1 THEN i + 1 ELSE i)
      /\ pc' = (IF j = 1 THEN "char" ELSE "whole")
      /\ i \in 0 .. Whole(E) /\ i < Whole(E) /\ j \in 1 .. CharBits /\ x \in Nat /\ x < Two[j]
      /\ Stands(P, Total, lost, tb, A, x + Two[j] * Tail(i + 1))
  BY DEF WholeChar, MultiplyAndSquare, Goto, PowerInv, Looping, Loops
<1>2. call.routine \in ByChars /\ Typed /\ Operand /\ E > 0
  BY <1>1, InLoop
<1>3. Whole(E) \in 0 .. MaxChars /\ i + 1 \in 0 .. MaxChars /\ i + 1 \in 0 .. Whole(E)
  <2>1. Whole(E) \in 0 .. MaxChars
    BY <1>1, <1>2, ExponentRead
  <2> QED BY <1>1, <2>1, TwoType
<1> DEFINE t == Tail(i + 1)
           half == x \div 2
<1>4. t \in Nat
  BY <1>2, <1>3, TailType
<1>5. /\ j \in 0 .. MaxBits /\ j - 1 \in 0 .. MaxBits /\ Two[j] = 2 * Two[j - 1]
      /\ Two[j - 1] \in Nat
  <2>1. CharBits \in 0 .. MaxBits
    <3>1. 1 \in 0 .. MaxChars /\ CharBits * 1 = CharBits
      BY TwoType, PowerAssumption
    <3> QED BY <3>1, CharPlace
  <2>2. j \in 0 .. MaxBits /\ j - 1 \in 0 .. MaxBits /\ j > 0
    BY <1>1, <2>1, TwoType
  <2> QED BY <2>2, TwoType
<1>6. half \in Nat /\ x = (x % 2) + 2 * half /\ half < Two[j - 1] /\ x % 2 \in {0, 1}
  BY <1>1, <1>5
<1> HIDE DEF t, half
<1>7. PICK more \in Nat : more = Two[j - 1] * t
  BY <1>4, <1>5
<1>8. x + Two[j] * t = (x % 2) + 2 * (half + more) /\ half + more \in Nat
  <2>1. Two[j] * t = 2 * more
    BY <1>4, <1>5, <1>7
  <2> QED BY <1>6, <1>7, <2>1
<1>9. /\ Stands(P, Total, lost', tb', A', half + more)
      /\ num' = [given EXCEPT ![call.p[1]] = A'] /\ x' = half
  <2>1. Stands(P, Total, lost, tb, A, (x % 2) + 2 * (half + more))
    BY <1>1, <1>8 DEF t
  <2> QED BY <1>1, <1>8, <2>1, BaseSquared DEF half
<1>10. (Operand /\ Started)'
  BY <1>1, <1>9, LoopGoesOn DEF Loops
<1>11. CASE j = 1
  <2>1. Two[j - 1] = 1
    BY <1>11, TwoType
  <2>2. half = 0 /\ more = t
    BY <1>4, <1>6, <1>7, <2>1
  <2>3. half + more = Tail(i + 1)
    BY <1>4, <2>2 DEF t
  <2>4. Looping'
    BY <1>1, <1>3, <1>9, <1>11, <2>3, SamePower DEF Looping
  <2> QED BY <1>10, <2>4
<1>12. CASE j # 1
  <2>1. j' \in 1 .. CharBits
    BY <1>1, <1>12, TwoType
  <2>2. half + more = x' + Two[j'] * Tail(i' + 1)
    BY <1>1, <1>7, <1>9, <1>12 DEF t
  <2>3. x' \in Nat /\ x' < Two[j']
    BY <1>1, <1>6, <1>9
  <2>4. Looping'
    BY <1>1, <1>9, <1>12, <2>1, <2>2, <2>3, SamePower DEF Looping
  <2> QED BY <1>10, <2>4
<1> QED BY <1>11, <1>12

LEMMA LastCharPower == PowerInv /\ LastChar => (Operand /\ Started /\ Looping)'
<1> SUFFICES ASSUME PowerInv, LastChar PROVE (Operand /\ Started /\ Looping)'
  OBVIOUS
<1>1. /\ pc = "last" /\ pc \in Loops /\ pc' = "last" /\ UNCHANGED <<call, given, tc, td>>
      /\ MultiplyAndSquare /\ x \in Nat /\ Stands(P, Total, lost, tb, A, x)
  BY DEF LastChar, MultiplyAndSquare, Goto, PowerInv, Looping, Loops
<1>2. x \div 2 \in Nat /\ x = (x % 2) + 2 * (x \div 2)
  BY <1>1
<1>3. /\ Stands(P, Total, lost', tb', A', x \div 2)
      /\ num' = [given EXCEPT ![call.p[1]] = A'] /\ x' = x \div 2
  <2>1. Stands(P, Total, lost, tb, A, (x % 2) + 2 * (x \div 2))
    BY <1>1, <1>2
  <2> QED BY <1>1, <1>2, <2>1, BaseSquared
<1>4. (Operand /\ Started)'
  BY <1>1, <1>3, LoopGoesOn DEF Loops
<1>5. Looping'
  BY <1>1, <1>2, <1>3, SamePower DEF Looping
<1> QED BY <1>4, <1>5

\* The multiplication by itself, as the loop over an unsigned exponent does it.
LEMMA OddPart ==
  ASSUME Typed, Mod => M # 0, NEW n \in Nat, NEW w, NEW base, NEW product, NEW bit \in {0, 1},
         NEW rest \in Nat, Stands(P, n, w, base, product, bit + rest),
         NEW v, NEW next, "base" \notin v => "base" \notin w,
         ProductGoesOn(w, v, bit, base, product, next)
  PROVE  Stands(P, n, v, base, next, rest)
<1>1. PICK e \in Nat \ {0}, r \in Nat :
        /\ n = r + e * (bit + rest)
        /\ "base" \notin w => base = P[e]
        /\ "power" \notin w => product = P[r]
  BY DEF Stands
<1>2. Multiplied(Mod, M, P[r], P[e]) = P[r + e] /\ r + e \in Nat
  <2>1. e \in Nat /\ e > 0 /\ r \in Nat /\ r + e \in Nat
    BY <1>1
  <2> QED BY <1>1, <2>1, PowerFacts, Zenon
<1>3. e * (bit + rest) = e * bit + e * rest /\ e * rest \in Nat
  BY <1>1
<1>4. CASE bit = 1
  <2>1. n = (r + e) + e * rest
    BY <1>1, <1>3, <1>4
  <2>2. "power" \notin v => next = P[r + e]
    BY <1>1, <1>2, <1>4, Zenon DEF ProductGoesOn
  <2> QED BY <1>1, <1>2, <2>1, <2>2, Zenon DEF Stands
<1>5. CASE bit = 0
  <2>1. n = r + e * rest
    BY <1>1, <1>3, <1>5
  <2>2. "power" \notin v => next = P[r]
    BY <1>1, <1>5, Zenon DEF ProductGoesOn
  <2> QED BY <1>1, <2>1, <2>2, Zenon DEF Stands
<1> QED BY <1>4, <1>5

LEMMA ShiftPower == PowerInv /\ Shift => (Operand /\ Started /\ Looping)'
<1> SUFFICES ASSUME PowerInv, Shift PROVE (Operand /\ Started /\ Looping)'
  OBVIOUS
<1>1. /\ pc = "shift" /\ pc \in Loops /\ pc' = "shift" /\ UNCHANGED <<call, given, tc, td>>
      /\ x' = x \div 2 /\ x \in Nat /\ Stands(P, Total, lost, tb, A, 2 * (x \div 2))
  BY DEF Shift, Goto, PowerInv, Looping, Loops
<1>2. /\ Typed /\ (Mod => M # 0) /\ (Mod => td = M) /\ Total \in Nat
      /\ num = [given EXCEPT ![call.p[1]] = A] /\ call.p[1] \in DOMAIN given
  BY <1>1, InLoop DEF Typed, N
<1>3. PICK s : LET wrong == lost \cup Wrong("base", s, tb, tb)
               IN /\ tb' = Reduced(s)
                  /\ IF x' % 2 = 0 THEN UNCHANGED num /\ lost' = wrong
                     ELSE MultiplyBy(tb', wrong \cup (IF "base" \in wrong THEN {"power"} ELSE {}))
  BY DEF Shift
<1> DEFINE wrong == lost \cup Wrong("base", s, tb, tb)
<1>4. BaseGoesOn(lost, wrong, tb, tb')
  BY <1>2, <1>3, SquareGoesOn
<1>5. PICK half \in Nat : half = x \div 2
  BY <1>1
<1>6. /\ half % 2 \in {0, 1} /\ half \div 2 \in Nat /\ half = (half % 2) + 2 * (half \div 2)
      /\ 2 * (half \div 2) \in Nat
  BY <1>5
<1>7. Stands(P, Total, wrong, tb', A, half)
  <2>1. Stands(P, Total, lost, tb, A, 0 + 2 * half)
    BY <1>1, <1>5
  <2>2. ProductGoesOn(lost, wrong, 0, tb, A, A)
    BY DEF ProductGoesOn, Wrong
  <2> HIDE DEF wrong
  <2> QED BY <1>2, <1>4, <1>5, <2>1, <2>2, OneBit
<1>8. Stands(P, Total, wrong, tb', A, (half % 2) + 2 * (half \div 2))
  BY <1>6, <1>7, Zenon
<1>9. /\ Stands(P, Total, lost', tb', A', 2 * (half \div 2))
      /\ num' = [given EXCEPT ![call.p[1]] = A']
  <2>1. CASE half % 2 = 0
    <3>1. num' = num /\ lost' = wrong
      BY <1>1, <1>3, <1>5, <2>1
    <3>2. A' = A
      BY <1>1, <3>1 DEF A
    <3>3. Stands(P, Total, wrong, tb', A, 2 * (half \div 2))
      <4> HIDE DEF wrong
      <4>1. (half % 2) + 2 * (half \div 2) = 2 * (half \div 2)
        BY <1>6, <2>1
      <4> QED BY <1>8, <4>1
    <3> QED BY <1>2, <3>1, <3>2, <3>3
  <2>2. CASE half % 2 = 1
    <3> DEFINE both == wrong \cup (IF "base" \in wrong THEN {"power"} ELSE {})
    <3>1. MultiplyBy(tb', both)
      BY <1>1, <1>3, <1>5, <2>2
    <3>2. /\ "power" \notin both => "power" \notin wrong /\ "base" \notin wrong
          /\ "base" \notin both <=> "base" \notin wrong
      OBVIOUS
    <3> HIDE DEF both, wrong
    <3>3. /\ ProductGoesOn(wrong, lost', 1, tb', A, A')
          /\ num' = [given EXCEPT ![call.p[1]] = A']
          /\ "base" \notin lost' <=> "base" \notin both
      BY <1>1, <1>2, <3>1, <3>2, MultiplyGoesOn
    <3>4. Stands(P, Total, wrong, tb', A, 1 + 2 * (half \div 2))
      BY <1>8, <2>2
    <3>5. "base" \notin lost' => "base" \notin wrong
      BY <3>2, <3>3
    <3> QED BY <1>2, <1>6, <3>3, <3>4, <3>5, OddPart
  <2> QED BY <1>6, <2>1, <2>2
<1>10. (Operand /\ Started)'
  BY <1>1, <1>9, LoopGoesOn DEF Loops
<1>11. Looping'
  BY <1>1, <1>5, <1>9, SamePower DEF Looping
<1> QED BY <1>10, <1>11

\* zmodmul and zmodsqr.
LEMMA ProductPower == PowerInv /\ (SaveModulus \/ Product) => (Operand /\ Started /\ Looping)'
<1> SUFFICES ASSUME PowerInv, SaveModulus \/ Product PROVE (Operand /\ Started /\ Looping)'
  OBVIOUS
<1>1. /\ Typed /\ call.routine \in Products /\ UNCHANGED <<call, given, tc>>
      /\ pc' \in {"product", "reduce"} /\ num = given
      /\ num = [given EXCEPT ![call.p[1]] = A]
  BY DEF SaveModulus, Product, Goto, temps, PowerInv, IndInv, Untouched, Checked, Operand
<1>2. CASE SaveModulus
  <2>1. pc' = "product" /\ A' = A /\ num' = num /\ lost' = lost /\ pc = "begin"
    BY <1>2 DEF SaveModulus, Goto, A
  <2> QED BY <1>1, <2>1, SamePower DEF PowerInv, Operand, Started, Looping, Loops
<1>3. CASE Product
  <2> DEFINE third == IF call.routine = "zmodsqr" THEN 2 ELSE 3
  <2>1. PICK p : /\ num' = [num EXCEPT ![call.p[1]] = p]
                 /\ lost' = Wrong("power", p, Before(2), Before(third))
    BY <1>1, <1>3 DEF Product, Give, B, Before
  <2>2. call.p[1] \in 1 .. N /\ DOMAIN given = 1 .. N /\ pc' = "reduce"
    BY <1>1, <1>3, OperandTypes DEF Typed, N, Product, Goto
  <2>3. A' = p /\ num' = [given EXCEPT ![call.p[1]] = A']
    BY <1>1, <2>1, <2>2 DEF A
  <2>4. "power" \notin lost' => A' = Before(2) * Before(third)
    BY <2>1, <2>3 DEF Wrong
  <2>5. Operand'
    BY <1>1, <2>2, <2>3, <2>4, SamePower DEF PowerInv, Operand, Before
  <2> QED BY <2>2, <2>5, SamePower DEF PowerInv, Started, Looping, Loops
<1> QED BY <1>1, <1>2, <1>3

LEMMA PowerNext == PowerInv /\ [Next]_vars => PowerInv'
<1> SUFFICES ASSUME PowerInv, [Next]_vars PROVE PowerInv'
  OBVIOUS
<1>1. IndInv'
  BY NextInv DEF PowerInv
<1>2. CASE ZeroExponent \/ NegativeExponent \/ ZeroModulus \/ ZeroBase \/ Finish \/ Reduce
           \/ MemoryFails
  <2>1. pc' = "returned" /\ UNCHANGED <<call, given, tc>>
    BY <1>2 DEF ZeroExponent, NegativeExponent, ZeroModulus, ZeroBase, Finish, Reduce,
                MemoryFails, Fail, Done, Return, temps
  <2> QED BY <1>1, <2>1, ReturnsPower DEF PowerInv
<1>3. CASE Next /\ ~(ZeroExponent \/ NegativeExponent \/ ZeroModulus \/ ZeroBase \/ Finish
                     \/ Reduce \/ MemoryFails)
  BY <1>1, <1>3, BasePower, CopyExponentPower, CopyModulusPower, OnePower, NextCharPower,
     WholeCharPower, LastCharPower, ShiftPower, ProductPower
     DEF PowerInv, Next, Exceptional, PowerStep, ProductStep
<1>4. CASE UNCHANGED vars
  <2>1. A' = A
    BY <1>4 DEF vars, A
  <2>2. UNCHANGED <<pc, call, given, num, tb, tc, td, x, i, j, lost>>
    BY <1>4 DEF vars
  <2>3. Operand'
    BY <2>1, <2>2, SamePower DEF PowerInv, Operand, Before
  <2>4. Started'
    BY <2>1, <2>2, SamePower DEF PowerInv, Started, Loops
  <2>5. Looping'
    BY <2>1, <2>2, SamePower DEF PowerInv, Looping
  <2> QED BY <1>1, <2>3, <2>4, <2>5 DEF PowerInv
<1> QED BY <1>2, <1>3, <1>4

------------------------------------------------------------------------------
(* The ends.                                                                 *)

\* What is promised of a power.
LEMMA PromisedPower ==
  ASSUME Typed, call.routine \in Powers, ~(E < 0)
  PROVE  Promised = NthPower(Mod, M, Before(2), Total)
<1>1. call.routine \notin Products
  BY DEF Powers, ByChars, Products
<1>2. Promised = Power(Before(2), E + Spill)
  <2>1. E >= 0
    BY OperandTypes
  <2> QED BY <1>1, <2>1 DEF Promised, Products
<1> QED BY <1>2, PowerIsNth DEF Mod, Total

\* One result, and whether it is the one that is promised.
Stores(v) == num' = [given EXCEPT ![call.p[1]] = v]

LEMMA StoresOne ==
  ASSUME Typed, NEW v, NEW w, Stores(v)
  PROVE  Stores(w) <=> v = w
<1>1. call.p[1] \in DOMAIN given
  BY OperandTypes DEF Typed, N
<1>2. num'[call.p[1]] = v
  BY <1>1 DEF Stores
<1>3. Stores(w) => num'[call.p[1]] = w
  BY <1>1 DEF Stores
<1> QED BY <1>2, <1>3

LEMMA ExceptionalExact ==
  PowerInv /\ Exceptional /\ result' = "ok" => (Stores(Promised) <=> ~InverseOfOne)
<1> SUFFICES ASSUME PowerInv, Exceptional, result' = "ok"
             PROVE  Stores(Promised) <=> ~InverseOfOne
  OBVIOUS
<1>1. /\ Typed /\ num = given /\ Operand /\ pc = "begin" /\ call.routine \in Powers
  BY DEF PowerInv, IndInv, Untouched, Exceptional, ZeroExponent, NegativeExponent, ZeroModulus,
         ZeroBase, Modular, Powers, ByChars
<1>2. /\ D = M /\ B = Before(2) /\ Exponent = E /\ E \in Int /\ M \in Int /\ Before(2) \in Int
      /\ Mod \in BOOLEAN
  BY <1>1, Operands, OperandTypes
<1>3. CASE ZeroExponent
  <2>1. E = 0 /\ (Mod => M # 0) /\ num' = [given EXCEPT ![call.p[1]] = 1]
    BY <1>1, <1>2, <1>3 DEF ZeroExponent, Fail, Done, Return, Give, Mod
  <2>2. Total = 0
    BY <2>1 DEF Total, Spill
  <2>3. NthPower(Mod, M, Before(2), 0) = 1
    <3>1. /\ NthPower(Mod, M, Before(2), 0) = 1
          /\ \A n \in Nat :
               /\ NthPower(Mod, M, Before(2), n) \in Int
               /\ NthPower(Mod, M, Before(2), n + 1)
                    = Multiplied(Mod, M, NthPower(Mod, M, Before(2), n), Before(2))
      BY <1>2, <2>1, NthPowers
    <3> QED BY <3>1
  <2>4. ~(E < 0)
    BY <2>1
  <2>5. Promised = 1 /\ ~InverseOfOne
    BY <1>1, <2>2, <2>3, <2>4, PromisedPower DEF InverseOfOne
  <2> QED BY <2>1, <2>5 DEF Stores
<1>4. CASE NegativeExponent
  <2>1. E < 0 /\ Stores(0)
    BY <1>1, <1>2, <1>4 DEF NegativeExponent, Fail, Done, Return, Give, Stores
  <2>2. call.routine \notin Products /\ ~(E >= 0)
    BY <1>1, <1>2, <2>1 DEF Powers, ByChars, Products
  <2>3. Promised = IF Before(2) = 1 THEN 1 ELSE 0
    BY <1>1, <2>1, <2>2 DEF Promised, Products
  <2>4. InverseOfOne <=> Before(2) = 1
    BY <1>1, <2>1 DEF InverseOfOne
  <2>5. Stores(Promised) <=> 0 = Promised
    BY <1>1, <2>1, StoresOne
  <2> QED BY <2>3, <2>4, <2>5
<1>5. CASE ZeroModulus
  BY <1>5 DEF ZeroModulus, Fail, Return
<1>6. CASE ZeroBase
  <2>1. E > 0 /\ (Mod => M # 0) /\ Before(2) = 0 /\ num' = [given EXCEPT ![call.p[1]] = 0]
    BY <1>1, <1>2, <1>6 DEF ZeroBase, Done, Return, Give, Mod
  <2>2. Total \in Nat /\ Total > 0
    BY <1>1, <2>1, TotalType
  <2>3. PICK l \in Nat : Total = l + 1
    <3>1. Total - 1 \in Nat /\ Total = (Total - 1) + 1
      BY <2>2
    <3> QED BY <3>1, Zenon
  <2>4. /\ NthPower(Mod, M, Before(2), l) \in Int
        /\ NthPower(Mod, M, Before(2), l + 1)
             = Multiplied(Mod, M, NthPower(Mod, M, Before(2), l), Before(2))
    BY <1>2, <2>1, NthPowers
  <2>5. \A v \in Int : v * 0 = 0
    OBVIOUS
  <2>6. Mod => Rem(0, M) = 0
    <3>1. Sgn(0) = 0 /\ Mag(0) = 0
      BY DEF Sgn, Mag
    <3>2. ASSUME Mod PROVE 0 % Mag(M) \in Nat
      BY <1>2, <2>1, <3>2, MagSgn, Quotient
    <3> QED BY <3>1, <3>2 DEF Rem
  <2>7. NthPower(Mod, M, Before(2), l + 1) = 0
    BY <2>1, <2>4, <2>5, <2>6, Zenon DEF Multiplied
  <2>8. ~(E < 0)
    BY <1>2, <2>1
  <2>9. Promised = 0 /\ ~InverseOfOne
    BY <1>1, <2>3, <2>7, <2>8, PromisedPower DEF InverseOfOne
  <2> QED BY <2>1, <2>9 DEF Stores
<1> QED BY <1>3, <1>4, <1>5, <1>6 DEF Exceptional

LEMMA FinishExact ==
  PowerInv /\ Finish /\ "power" \notin lost =>
    num' = [given EXCEPT ![call.p[1]] = Promised] /\ ~InverseOfOne
<1> SUFFICES ASSUME PowerInv, Finish, "power" \notin lost
             PROVE  num' = [given EXCEPT ![call.p[1]] = Promised] /\ ~InverseOfOne
  OBVIOUS
<1>1. /\ pc \in Loops /\ num' = [num EXCEPT ![call.p[1]] = IF Negative THEN -A ELSE A]
      /\ \/ pc = "last" /\ x = 0
         \/ pc = "shift" /\ x \div 2 = 0
  BY DEF Finish, Done, Give, Loops
<1>2. /\ Typed /\ E > 0 /\ (Mod => M # 0) /\ Total \in Nat /\ E \in Nat /\ Operand
      /\ num = [given EXCEPT ![call.p[1]] = A] /\ call.p[1] \in 1 .. N
      /\ call.routine \in Powers
  BY <1>1, InLoop DEF PowerInv, IndInv, Checked, Loops, Positive
<1>3. A = P[Total]
  <2>1. Stands(P, Total, lost, tb, A, 0)
    BY <1>1 DEF PowerInv, Looping
  <2>2. PICK e \in Nat \ {0}, r \in Nat : A = P[r] /\ Total = r + e * 0
    BY <2>1, Zenon DEF Stands
  <2> QED BY <2>2
<1>4. A = NthPower(Mod, M, Root, Total)
  BY <1>2, <1>3 DEF P
<1>5. num' = [given EXCEPT ![call.p[1]] = IF Negative THEN -A ELSE A]
  BY <1>1, <1>2 DEF Typed
<1>6. Promised = NthPower(Mod, M, Before(2), Total)
  <2>1. ~(E < 0)
    BY <1>2
  <2> QED BY <1>2, <2>1, PromisedPower
<1>7. ~InverseOfOne
  BY <1>2 DEF InverseOfOne
<1>8. CASE Mod
  <2>1. Root = Before(2) /\ ~Negative
    BY <1>8 DEF Root, Mod, Negative
  <2> QED BY <1>4, <1>5, <1>6, <1>7, <2>1
<1>9. CASE ~Mod
  <2>1. Mod = FALSE
    BY <1>9 DEF Mod
  <2>2. A = NthPower(FALSE, M, Mag(Before(2)), Total)
    BY <1>4, <2>1 DEF Root
  <2>3. NthPower(FALSE, M, Before(2), Total)
          = IF Before(2) < 0 /\ Total % 2 = 1 THEN -NthPower(FALSE, M, Mag(Before(2)), Total)
                                             ELSE NthPower(FALSE, M, Mag(Before(2)), Total)
    BY <1>2, OperandTypes, PowerOfMagnitude
  <2>4. Negative <=> Before(2) < 0 /\ Total % 2 = 1
    <3>1. Total % 2 = E % 2
      BY <1>2, TotalType
    <3>2. E = IF call.routine = "zpow" THEN given[call.p[3]] ELSE call.n
      BY <1>2, <1>9 DEF E, Before, Mod, Powers, ByChars, Modular
    <3> QED BY <1>9, <3>1, <3>2 DEF Negative, Before, Mod
  <2>5. (IF Negative THEN -A ELSE A) = NthPower(FALSE, M, Before(2), Total)
    BY <2>2, <2>3, <2>4, Zenon
  <2> QED BY <1>5, <1>6, <1>7, <2>1, <2>5
<1> QED BY <1>8, <1>9

LEMMA ReduceExact ==
  PowerInv /\ Reduce /\ result' = "ok" /\ "power" \notin lost =>
    num' = [given EXCEPT ![call.p[1]] = Promised] /\ ~InverseOfOne
<1> SUFFICES ASSUME PowerInv, Reduce, result' = "ok", "power" \notin lost
             PROVE  num' = [given EXCEPT ![call.p[1]] = Promised] /\ ~InverseOfOne
  OBVIOUS
<1>1. /\ pc = "reduce" /\ Typed /\ call.routine \in Products
      /\ A = Before(2) * Before(IF call.routine = "zmodsqr" THEN 2 ELSE 3)
      /\ num = [given EXCEPT ![call.p[1]] = A]
      /\ IF call.p[1] = call.p[N] THEN saved = M ELSE D = M
  BY DEF Reduce, PowerInv, IndInv, Operand, Checked, ModulusKept
<1>2. num' = [num EXCEPT ![call.p[1]] = Rem(A, M)]
  BY <1>1 DEF Reduce, Fail, Done, Return, Give, N
<1>3. call.p[1] \in 1 .. N
  BY <1>1, OperandTypes DEF Typed, N
<1>4. num' = [given EXCEPT ![call.p[1]] = Rem(A, M)]
  BY <1>1, <1>2, <1>3 DEF Typed
<1>5. Promised = Rem(A, M)
  <2>1. CASE call.routine = "zmodmul"
    <3>1. Promised = Rem(Before(2) * Before(3), M)
      BY <2>1 DEF Promised, Powers, ByChars
    <3> QED BY <1>1, <2>1, <3>1
  <2>2. CASE call.routine = "zmodsqr"
    <3>1. Promised = Rem(Before(2) * Before(2), M)
      BY <2>2 DEF Promised, Powers, ByChars
    <3> QED BY <1>1, <2>2, <3>1
  <2> QED BY <1>1, <2>1, <2>2 DEF Products
<1>6. ~InverseOfOne
  BY <1>1 DEF InverseOfOne, Powers, ByChars, Products
<1> QED BY <1>4, <1>5, <1>6

\* zpow, zpowu, zmodpow, zmodpowu, zmodmul and zmodsqr store the power or the product
\* they promise and nothing else, for all integers, exponents and widths of characters,
\* whichever parameters are the same integer and whatever zmul_ll and zsqr_ll store:
\* if no product that they got wrong has gone into the result, and it is not 1 to the
\* power of an exponent below zero; and for an exponent that fills its characters it is
\* the power of a greater exponent.
THEOREM PowersAreExact == Spec => PowersExact
<1> DEFINE Stored == num' = [given EXCEPT ![call.p[1]] = Promised] <=> ~InverseOfOne
           Ended  == pc' = "returned" /\ result' = "ok" /\ "power" \notin lost'
<1>1. PowerInv /\ [Next]_vars => [Ended => Stored]_vars
  <2> SUFFICES ASSUME PowerInv, Next, Ended PROVE Stored
    OBVIOUS
  <2>1. Exceptional \/ Finish \/ Reduce
    BY DEF Next, PowerStep, ProductStep, Base, CopyExponent, CopyModulus, One, NextChar, WholeChar,
           LastChar, Shift, SaveModulus, Product, MemoryFails, Goto, Return
  <2>2. CASE Exceptional
    BY <2>2, ExceptionalExact DEF Stores
  <2>3. CASE Finish \/ Reduce
    <3>1. "power" \notin lost
      BY <2>3 DEF Finish, Reduce, Fail, Done, Return
    <3> QED BY <2>3, <3>1, FinishExact, ReduceExact
  <2> QED BY <2>1, <2>2, <2>3
<1>2. Spec => [][Ended => Stored]_vars
  <2> HIDE DEF Stored, Ended
  <2> QED BY <1>1, InitPower, PowerNext, PTL DEF Spec
<1> QED BY <1>2 DEF PowersExact
=============================================================================
