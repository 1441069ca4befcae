------------------------------ MODULE ZahlPower ------------------------------
(***************************************************************************)
(* Powers (zpow.c, zpowu.c), modular powers (zmodpow.c, zmodpowu.c) and    *)
(* the modular products they are made of (zmodmul.c, zmodsqr.c).           *)
(*                                                                         *)
(* Integers are values, and products what zmul and zsqr store (ZMul and    *)
(* ZSqr: ZahlKaratsuba when it is run, anything where it is proved about); *)
(* but the exponent libzahl_tmp_pow_c is a row of characters, for the      *)
(* loops over it go by the number of its bits and read one character that  *)
(* need not be part of it.                                                 *)
(*                                                                         *)
(* A behaviour is one call, with any of the parameters the same integer.   *)
(***************************************************************************)
EXTENDS Integers, FiniteSetsExt

CONSTANTS Numbers,              \* the values the caller's integers have
          Unsigned,             \* the exponents of zpowu and zmodpowu
          CharBits,             \* BITS_PER_CHAR
          MaxChars,             \* characters of an exponent, its bound
          Two,                  \* the powers of two
          Powered,              \* the bases and exponents of zpow and zpowu, where
                                \* neither is trivial: a bound
          ZMul(_, _), ZSqr(_)   \* the magnitudes zmul_ll and zsqr_ll may store

MaxBits == CharBits * MaxChars
Char    == 0 .. Two[CharBits] - 1

ASSUME PowerAssumption ==
  /\ CharBits \in Nat \ {0} /\ MaxChars \in Nat \ {0}
  /\ Two \in [0 .. MaxBits -> Nat \ {0}] /\ Two[0] = 1
  /\ \A n \in 1 .. MaxBits : Two[n] = 2 * Two[n - 1]
  /\ Unsigned \subseteq Nat
  /\ Numbers \subseteq Int /\ \A v \in Numbers : v < Two[MaxBits]

VARIABLES num,            \* what each of the caller's integers holds
          given,          \* what it held when the call began
          call,           \* the routine, its parameters p and its number n
          pc, result,     \* where the call is and how it ended
          tb, tc, td,     \* libzahl_tmp_pow_b, _c (its characters) and _d
          saved,          \* libzahl_tmp_modmul, libzahl_tmp_modsqr
          x, i, j,        \* the bits to read, the character, its bits
          lost            \* what a product zmul_ll or zsqr_ll got wrong has gone into

vars == <<num, given, call, pc, result, tb, tc, td, saved, x, i, j, lost>>

Mag(v) == IF v < 0 THEN -v ELSE v
Sgn(v) == IF v < 0 THEN -1 ELSE IF v = 0 THEN 0 ELSE 1

\* zmod: the remainder of the truncated quotient.
Rem(v, m) == Sgn(v) * (Mag(v) % Mag(m))

Arity == [zpow |-> 3, zpowu |-> 2, zmodpow |-> 4, zmodpowu |-> 3, zmodmul |-> 4, zmodsqr |-> 3]
Modular == {"zmodpow", "zmodpowu"}
ByChars == {"zpow", "zmodpow"}
Powers  == ByChars \cup {"zpowu", "zmodpowu"}

A == num[call.p[1]]
B == num[call.p[2]]
Exponent == IF call.routine \in ByChars THEN num[call.p[3]] ELSE call.n
D == num[call.p[Arity[call.routine]]]

------------------------------------------------------------------------------

\* The ways n parameters can coincide: the first is integer 1, and each of the
\* others one that came before or the next.
Coincide(n) == {p \in [1 .. n -> 1 .. n] :
                  \A k \in 1 .. n : p[k] <= 1 + Max({0} \cup {p[l] : l \in 1 .. k - 1})}

Fits(b, e) == Mag(b) <= 1 \/ e <= 0 \/ <<Mag(b), e>> \in Powered

\* A result that is no operand held something, no matter what.
Init ==
  /\ \E routine \in DOMAIN Arity :
       \E p \in Coincide(Arity[routine]),
          n \in IF routine \in {"zpowu", "zmodpowu"} THEN Unsigned ELSE {0} :
         call = [routine |-> routine, p |-> p, n |-> n]
  /\ num \in [1 .. Arity[call.routine] -> Numbers]
  /\ \A k \in DOMAIN num : k \notin {call.p[l] : l \in 2 .. Arity[call.routine]}
                             => num[k] = Max(Numbers)
  /\ call.routine \in {"zpow", "zpowu"} => Fits(B, Exponent)
  /\ given = num
  /\ pc = "begin" /\ result = "none"
  /\ tb = 0 /\ tc = [k \in 0 .. MaxChars |-> 0] /\ td = 0 /\ saved = 0
  /\ x = 0 /\ i = 0 /\ j = 0 /\ lost = {}

temps == <<tb, tc, td, saved>>
loops == <<x, i, j>>

Goto(l)   == pc' = l /\ UNCHANGED <<given, call, result>>
Return(r) == pc' = "returned" /\ result' = r /\ UNCHANGED <<given, call, temps, loops, lost>>
Give(v)   == num' = [num EXCEPT ![call.p[1]] = v]

Fail(error) == Return(error) /\ UNCHANGED num
Done(v)     == Return("ok") /\ Give(v)

\* An exponent that is not positive, a zero.
ZeroExponent ==
  /\ pc = "begin" /\ call.routine \in Powers /\ Exponent = 0
  /\ \/ B = 0 /\ Fail("0_POW_0")
     \/ B # 0 /\ call.routine \in Modular /\ D = 0 /\ Fail("DIV_0")
     \/ B # 0 /\ (call.routine \in Modular => D # 0) /\ Done(1)

\* Mutant: as if the modulus did not matter with an exponent below zero.
NegativeExponent_NoModulus ==
  /\ pc = "begin" /\ call.routine \in Powers /\ Exponent < 0
  /\ IF B = 0 THEN Fail("DIV_0") ELSE Done(0)

NegativeExponent ==
  /\ pc = "begin" /\ call.routine \in Powers /\ Exponent < 0
  /\ IF B = 0 \/ (call.routine \in Modular /\ D = 0) THEN Fail("DIV_0") ELSE Done(0)

ZeroModulus ==
  /\ pc = "begin" /\ call.routine \in Modular /\ Exponent > 0 /\ D = 0
  /\ Fail("DIV_0")

ZeroBase ==
  /\ pc = "begin" /\ call.routine \in Powers /\ Exponent > 0 /\ B = 0
  /\ call.routine \in Modular => D # 0
  /\ Done(0)

------------------------------------------------------------------------------
(* zpow, zmodpow, zpowu and zmodpowu, of a positive exponent.               *)

\* zabs or zmod, into tb.
Base ==
  /\ pc = "begin" /\ call.routine \in Powers /\ Exponent > 0 /\ B # 0
  /\ call.routine \in Modular => D # 0
  /\ tb' = IF call.routine \in Modular THEN Rem(B, D) ELSE Mag(B)
  /\ Goto(IF call.routine \in ByChars THEN "exponent" ELSE "modulus")
  /\ UNCHANGED <<num, tc, td, saved, loops, lost>>

BitsOf(v) == Min({n \in 0 .. MaxBits : v < Two[n]})
Used(v)   == (BitsOf(v) + CharBits - 1) \div CharBits
Whole(v)  == BitsOf(v) \div CharBits

\* zset(tc, c): what is above the characters of the exponent is what an exponent
\* before it, or another owner of the block, left there.
CopyExponent ==
  /\ pc = "exponent"
  /\ \E left \in Char :
       tc' = [k \in DOMAIN tc |-> IF k < Used(Exponent)
                                  THEN (Exponent \div Two[CharBits * k]) % Two[CharBits]
                                  ELSE left]
  /\ Goto("modulus") /\ UNCHANGED <<num, tb, td, saved, loops, lost>>

CopyModulus ==
  /\ pc = "modulus"
  /\ td' = IF call.routine \in Modular THEN D ELSE td
  /\ Goto("one") /\ UNCHANGED <<num, tb, tc, saved, loops, lost>>

\* The result is written from here on; whether the power is negative was found
\* out before.
One ==
  /\ pc = "one"
  /\ Give(IF call.routine \notin ByChars /\ call.n % 2 = 1 THEN tb ELSE 1)
  /\ i' = 0 /\ j' = 0 /\ x' = call.n
  /\ Goto(IF call.routine \in ByChars THEN "char" ELSE "shift")
  /\ UNCHANGED <<temps, lost>>

\* zmul and zsqr, of signed integers; zmodmul and zmodsqr then divide.
Times(v, w) == {Sgn(v) * Sgn(w) * m : m \in ZMul(Mag(v), Mag(w))}
SquareOf(v) == ZSqr(Mag(v))
Reduced(v)  == IF call.routine \in Modular THEN Rem(v, td) ELSE v

\* Of a history: what becomes wrong with a product p of v and w.
Wrong(name, p, v, w) == IF p = v * w THEN {} ELSE {name}

\* The result times b, where some of the two is wrong already.
MultiplyBy(b, wrong) ==
  \E p \in Times(A, b) :
    /\ Give(Reduced(p))
    /\ lost' = wrong \cup Wrong("power", p, A, b)

MultiplyAndSquare ==
  /\ \E s \in SquareOf(tb) :
       LET wrong == lost \cup Wrong("base", s, tb, tb)
       IN /\ tb' = Reduced(s)
          /\ IF x % 2 = 0 THEN UNCHANGED num /\ lost' = wrong
             ELSE MultiplyBy(tb, wrong \cup (IF "base" \in lost THEN {"power"} ELSE {}))
  /\ x' = x \div 2
  /\ UNCHANGED <<tc, td, saved>>

\* Mutant: one character too few counts as whole.
NextChar_OneLess ==
  /\ pc = "char"
  /\ x' = tc[i] /\ j' = CharBits
  /\ Goto(IF i + 1 < Whole(given[call.p[3]]) THEN "whole" ELSE "last")
  /\ UNCHANGED <<num, temps, i, lost>>

\* The characters below n are read in whole; character n, maybe above all of
\* them, as far as it has ones.
NextChar ==
  /\ pc = "char"
  /\ x' = tc[i] /\ j' = CharBits
  /\ Goto(IF i < Whole(given[call.p[3]]) THEN "whole" ELSE "last")
  /\ UNCHANGED <<num, temps, i, lost>>

WholeChar ==
  /\ pc = "whole"
  /\ MultiplyAndSquare
  /\ j' = j - 1
  /\ i' = IF j = 1 THEN i + 1 ELSE i
  /\ Goto(IF j = 1 THEN "char" ELSE "whole")

LastChar ==
  /\ pc = "last" /\ x # 0
  /\ MultiplyAndSquare
  /\ Goto("last") /\ UNCHANGED <<i, j>>

\* while (c >>= 1): squares before it multiplies.
Shift ==
  /\ pc = "shift" /\ x \div 2 # 0
  /\ x' = x \div 2
  /\ \E s \in SquareOf(tb) :
       LET wrong == lost \cup Wrong("base", s, tb, tb)
       IN /\ tb' = Reduced(s)
          /\ IF x' % 2 = 0 THEN UNCHANGED num /\ lost' = wrong
             ELSE MultiplyBy(tb', wrong \cup (IF "base" \in wrong THEN {"power"} ELSE {}))
  /\ Goto("shift") /\ UNCHANGED <<tc, td, saved, i, j>>

Negative == /\ call.routine \notin Modular /\ given[call.p[2]] < 0
            /\ (IF call.routine = "zpow" THEN given[call.p[3]] ELSE call.n) % 2 = 1

Finish ==
  /\ \/ pc = "last" /\ x = 0
     \/ pc = "shift" /\ x \div 2 = 0
  /\ Done(IF Negative THEN -A ELSE A)

------------------------------------------------------------------------------
(* zmodmul and zmodsqr.                                                     *)

Products == {"zmodmul", "zmodsqr"}

SaveModulus ==
  /\ pc = "begin" /\ call.routine \in Products
  /\ saved' = IF call.p[1] = call.p[Arity[call.routine]] THEN D ELSE saved
  /\ Goto("product") /\ UNCHANGED <<num, tb, tc, td, loops, lost>>

Product ==
  /\ pc = "product"
  /\ LET C == num[call.p[IF call.routine = "zmodsqr" THEN 2 ELSE 3]]
     IN \E p \in IF call.routine = "zmodsqr" THEN SquareOf(B) ELSE Times(B, C) :
          Give(p) /\ lost' = Wrong("power", p, B, C)
  /\ Goto("reduce") /\ UNCHANGED <<temps, loops>>

Reduce ==
  /\ pc = "reduce"
  /\ LET m == IF call.p[1] = call.p[Arity[call.routine]] THEN saved ELSE D
     IN IF m = 0 THEN Fail(IF A = 0 THEN "0_DIV_0" ELSE "DIV_0") ELSE Done(Rem(A, m))

\* Every integer that is given a value may need memory.  What the result holds then
\* is not promised; here it is the last value it had.
MemoryFails ==
  /\ pc \notin {"begin", "returned"} \/ (call.routine \in Products /\ pc = "begin")
  /\ Return("memory") /\ UNCHANGED num

Exceptional == ZeroExponent \/ NegativeExponent \/ ZeroModulus \/ ZeroBase
PowerStep   == \/ Base \/ CopyExponent \/ CopyModulus \/ One
               \/ NextChar \/ WholeChar \/ LastChar \/ Shift \/ Finish
ProductStep == SaveModulus \/ Product \/ Reduce

Next == Exceptional \/ PowerStep \/ ProductStep \/ MemoryFails

Spec == Init /\ [][Next]_vars

------------------------------------------------------------------------------
(* Properties.                                                              *)

Before(k) == given[call.p[k]]
E == IF call.routine \in ByChars THEN Before(3) ELSE call.n
M == Before(Arity[call.routine])

\* What is multiplied in beyond the exponent: the character above it, if all of its
\* characters are whole.  Named, because the manuals do not know it.
Spill ==
  IF call.routine \in ByChars /\ E > 0 /\ BitsOf(E) % CharBits = 0
  THEN tc[Whole(E)] * Two[BitsOf(E)] ELSE 0

\* b to the power of n, reduced on the way where there is a modulus.
Power(b, n) ==
  LET f[k \in 0 .. n] ==
        IF k = 0 THEN 1
        ELSE IF call.routine \in Modular THEN Rem(f[k - 1] * b, M) ELSE f[k - 1] * b
  IN f[n]

\* 1 stays 1 even if the modulus is 1 or -1; and one divided by a power is 1 if the
\* base is 1, and otherwise 0.
Promised ==
  CASE call.routine = "zmodmul" -> Rem(Before(2) * Before(3), M)
    [] call.routine = "zmodsqr" -> Rem(Before(2) * Before(2), M)
    [] call.routine \in Powers  -> IF E >= 0 THEN Power(Before(2), E + Spill)
                                    ELSE IF Before(2) = 1 THEN 1 ELSE 0

\* Which the code does not do: it gives 0 for the base 1, too.
InverseOfOne == call.routine \in Powers /\ E < 0 /\ Before(2) = 1

\* zpow, zpowu, zmodpow, zmodpowu, zmodmul and zmodsqr store the power or product
\* they promise and change nothing else, whichever parameters are the same integer:
\* not for 1 and an exponent below zero, and not, perhaps, after zmul_ll or zsqr_ll
\* got a product wrong that the result is made of; and a power whose exponent fills
\* its characters is one of a greater exponent.
PowersExact ==
  [][pc' = "returned" /\ result' = "ok" /\ "power" \notin lost' =>
       (num' = [given EXCEPT ![call.p[1]] = Promised] <=> ~InverseOfOne)]_vars

\* 0^0 and divisions by zero are detected, and before the caller's integers are
\* touched, except by zmodmul and zmodsqr: these give the product first.
ErrorsLeaveOperands ==
  pc = "returned" /\ result # "memory" =>
    /\ result = "0_POW_0" <=> call.routine \in Powers /\ Before(2) = 0 /\ E = 0
    /\ result = "0_DIV_0" <=> call.routine \in Products /\ M = 0 /\ A = 0
    /\ result = "DIV_0" <=>
         \/ call.routine \in Modular /\ M = 0 /\ ~(Before(2) = 0 /\ E = 0)
         \/ call.routine \in Powers /\ Before(2) = 0 /\ E < 0
         \/ call.routine \in Products /\ M = 0 /\ A # 0
    /\ result # "ok" /\ call.routine \in Powers => num = given
==============================================================================
