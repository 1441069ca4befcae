------------------------------ MODULE ZahlProducts ------------------------------
(***************************************************************************)
(* Multiplication (src/zmul.c, zmul of zahl/inlines.h) and squaring        *)
(* (src/zsqr.c, zsqr of zahl/inlines.h), called from any state ZahlCalls   *)
(* starts in.                                                              *)
(*                                                                         *)
(* Both split their operands in halves and recur: stack has the frames of  *)
(* zmul_ll and zsqr_ll, and a step is what the innermost does up to its    *)
(* next call or its return.  Its temporaries are integers of num with      *)
(* names of their own.  zmul_ll copies the halves it works on.  zsqr_ll    *)
(* does not: its halves are windows on the block of the operand, which may *)
(* be the block of the result, or on an array in the frame.                *)
(***************************************************************************)
EXTENDS ZahlCalls, Sequences, TLC

VARIABLES
  stack,    \* the frames of zmul_ll and zsqr_ll, the innermost first
  given,    \* what the integers were when zmul or zsqr was called
  outcome   \* "none", "multiplying", "stored", or "failed" after longjmp

productVars == <<num, call, stack, given, outcome>>

------------------------------------------------------------------------------
(* Frames and their temporaries.                                            *)

Top  == Head(stack)
Runs(ll, at) == outcome = "multiplying" /\ stack # <<>> /\ Top.ll = ll /\ Top.at = at

MulFrame(a, b, c) == [ll |-> "zmul_ll", at |-> "enter", a |-> a, b |-> b, c |-> c]
SqrFrame(a, b)    == [ll |-> "zsqr_ll", at |-> "enter", a |-> a, b |-> b]

\* The temporary of the innermost frame with a name, and its integers with r in it.
Temp(name) == name \o ToString(Len(stack))
NoBlock == [sign |-> 0, used |-> 0, alloced |-> 0, chars |-> [i \in Index |-> Foreign]]
With(s, names, r) == [v \in names |-> r] @@ s

\* The frame calls another one, and goes on at a place with what it remembers.
Recurs(at, remembered, frame) ==
  /\ stack' = <<frame, remembered @@ [Top EXCEPT !.at = at]>> \o Tail(stack)
  /\ UNCHANGED <<call, given, outcome>>

\* The frame returns, and has freed its temporaries.
FrameReturns(s) ==
  /\ num' = [v \in DOMAIN s \ {Temp(name) : name \in {"b_high", "b_low", "c_high", "c_low",
                                                      "aux", "z0", "z1", "low", "high"}}
               |-> s[v]]
  /\ stack' = Tail(stack)
  /\ UNCHANGED <<call, given, outcome>>

OneCharProduct(s, a, b, c) ==
  LET r == Ensure(s[a], 1)
  IN [s EXCEPT ![a] = [r EXCEPT !.used = 1, !.sign = 1,
                                !.chars[0] = (s[b].chars[0] * s[c].chars[0]) % Base]]

------------------------------------------------------------------------------
(* zmul_ll: Karatsuba.  The result holds the low product while b_low and     *)
(* c_low, which are not needed any more, become the middle and the high one. *)

ZSplitPz(s, high, low, a, delim) ==
  IF s[a].sign = 0 THEN SetSign(SetSign(s, high, 0), low, 0)
                   ELSE ZSplit(s, high, low, a, delim)

\* It has a factor that is zero, a product that fits a character, or it recurs.
FactorIsZero == num[Top.b].sign = 0 \/ num[Top.c].sign = 0
FitsChar     == ~FactorIsZero /\ ZBits(num, Top.b) + ZBits(num, Top.c) <= Bits
Bisected     == ~FactorIsZero /\ ~FitsChar
Trimmed      == Counted(Counted(num, Top.b), Top.c)

MulZero ==
  /\ Runs("zmul_ll", "enter") /\ FactorIsZero
  /\ FrameReturns(SetSign(num, Top.a, 0))

MulOneChar ==
  /\ Runs("zmul_ll", "enter") /\ FitsChar
  /\ FrameReturns(OneCharProduct(Trimmed, Top.a, Top.b, Top.c))

\* Mutant: the factors are split above their last bit.
HalfOfFactors_All == Largest(ZBits(num, Top.b), ZBits(num, Top.c))

HalfOfFactors == Largest(ZBits(num, Top.b), ZBits(num, Top.c)) \div 2

MulSplit ==
  LET bh == Temp("b_high")  bl == Temp("b_low")
      ch == Temp("c_high")  cl == Temp("c_low")
      m2 == HalfOfFactors
      temps == With(Trimmed, {bh, bl, ch, cl}, NoBlock)
  IN /\ Runs("zmul_ll", "enter") /\ Bisected
     /\ num' = ZSplitPz(ZSplitPz(temps, bh, bl, Top.b, m2), ch, cl, Top.c, m2)
     /\ Recurs("low", [m2 |-> m2], MulFrame(Top.a, bl, cl))

MulLow ==
  LET bl == Temp("b_low")  cl == Temp("c_low")
  IN /\ Runs("zmul_ll", "low")
     /\ num' = ZAddUnsignedAssign(ZAddUnsignedAssign(num, bl, Temp("b_high")),
                                  cl, Temp("c_high"))
     /\ Recurs("middle", <<>>, MulFrame(bl, bl, cl))

MulMiddle ==
  /\ Runs("zmul_ll", "middle")
  /\ UNCHANGED num
  /\ Recurs("high", <<>>, MulFrame(Temp("c_low"), Temp("b_high"), Temp("c_high")))

MulHigh ==
  LET z0 == Top.a  z1 == Temp("b_low")  z2 == Temp("c_low")
      cross  == ZSubNonnegativeAssign(ZSubNonnegativeAssign(num, z1, z0), z1, z2)
      placed == ZLsh(ZLsh(cross, z1, z1, Top.m2), z2, z2, 2 * Top.m2)
  IN /\ Runs("zmul_ll", "high")
     /\ FrameReturns(ZAddUnsignedAssign(ZAddUnsignedAssign(placed, z0, z1), z0, z2))

------------------------------------------------------------------------------
(* zsqr_ll: Karatsuba, without subtractions.                                *)

\* A number in the characters of the integer v.in, from v.from on.
Window(name, from, used) == [in |-> name, from |-> from, used |-> used]
At(s, v) ==
  [sign |-> 1, used |-> v.used, alloced |-> 0,
   chars |-> [i \in Index |-> IF v.from + i \in Index THEN s[v.in].chars[v.from + i]
                                                      ELSE Foreign]]

\* zsplit_unsigned_fast_small_auto: below two characters, into the array aux.
\* The second character of the operand counts if there is one.
SmallHalves(s, v, bits, aux) ==
  LET r     == At(s, v)
      upper == IF r.used = 2 THEN r.chars[1] ELSE 0
      low   == r.chars[0] % Power(2, bits)
      high0 == (r.chars[0] \div Power(2, bits)) + (upper % Power(2, bits)) * Power(2, Bits - bits)
      high1 == upper \div Power(2, bits)
      array == [i \in Index |-> CASE i = 0 -> low
                                  [] i = Fluff -> high0
                                  [] i = Fluff + 1 /\ r.used = 2 -> high1
                                  [] i \in 1 .. 3 * Fluff - 1 /\ i # Fluff
                                       /\ ~(i = Fluff + 1 /\ r.used = 2) -> Stale
                                  [] OTHER -> Foreign]
  IN [state |-> With(s, {aux}, [NoBlock EXCEPT !.chars = array]),
      low   |-> Window(aux, 0, IF low = 0 THEN 0 ELSE 1),
      high  |-> Window(aux, Fluff, IF high1 = 0 THEN 1 ELSE 2)]

\* Mutant: the character at the cut belongs to neither half.
LargeHalves_OneOff(s, v, bits) ==
  LET n == bits \div Bits
  IN [state |-> s,
      low   |-> Window(v.in, v.from, Trim(At(s, Window(v.in, v.from, n - 1))).used),
      high  |-> Window(v.in, v.from + n, v.used - n)]

\* zsplit_unsigned_fast_large_taint: at whole characters, in place.
LargeHalves(s, v, bits) ==
  LET n == bits \div Bits
  IN [state |-> s,
      low   |-> Window(v.in, v.from, Trim(At(s, Window(v.in, v.from, n))).used),
      high  |-> Window(v.in, v.from + n, v.used - n)]

\* The operand of the innermost frame, and how it is split.
Operand  == At(num, Top.b)
BitsOfB  == ZBits([x \in {"b"} |-> Operand], "b")
HalfBits == BitsOfB \div 2
Delim    == IF HalfBits < Bits THEN HalfBits ELSE (HalfBits \div Bits) * Bits
Halves   ==
  LET v == [Top.b EXCEPT !.used = Trim(Operand).used]
  IN IF HalfBits < Bits THEN SmallHalves(num, v, Delim, Temp("aux"))
                        ELSE LargeHalves(num, v, Delim)

SqrOneChar ==
  /\ Runs("zsqr_ll", "enter") /\ BitsOfB <= Bits \div 2
  /\ LET h == Temp("high")
     IN FrameReturns(OneCharProduct(With(num, {h}, Operand), Top.a, h, h))

SqrSplit ==
  /\ Runs("zsqr_ll", "enter") /\ BitsOfB > Bits \div 2 /\ Halves.low.used # 0
  /\ num' = With(Halves.state, {Temp("z0"), Temp("z1")}, NoBlock)
  /\ Recurs("low", [bits |-> Delim, low |-> Halves.low, high |-> Halves.high],
            SqrFrame(Temp("z0"), Halves.low))

\* The low half is zero.
SqrSplitHigh ==
  /\ Runs("zsqr_ll", "enter") /\ BitsOfB > Bits \div 2 /\ Halves.low.used = 0
  /\ num' = Halves.state
  /\ Recurs("only", [bits |-> Delim], SqrFrame(Top.a, Halves.high))

SqrLow ==
  LET low == Temp("low")  high == Temp("high")
  IN /\ Runs("zsqr_ll", "low")
     /\ num' = With(With(num, {low}, At(num, Top.low)), {high}, At(num, Top.high))
     /\ Recurs("cross", <<>>, MulFrame(Temp("z1"), low, high))

\* Both halves have been read when the high square is stored, in the block they may
\* be in.
SqrCross ==
  /\ Runs("zsqr_ll", "cross")
  /\ num' = ZLsh(num, Temp("z1"), Temp("z1"), Top.bits + 1)
  /\ Recurs("high", <<>>, SqrFrame(Top.a, Top.high))

SqrOnly ==
  /\ Runs("zsqr_ll", "only")
  /\ FrameReturns(ZLsh(num, Top.a, Top.a, 2 * Top.bits))

SqrHigh ==
  /\ Runs("zsqr_ll", "high")
  /\ FrameReturns(ZAddUnsignedAssign(
       ZAddUnsignedAssign(ZLsh(num, Top.a, Top.a, 2 * Top.bits), Top.a, Temp("z1")),
       Top.a, Temp("z0")))

------------------------------------------------------------------------------
(* zmul and zsqr.  zmul works on magnitudes: it makes its operands positive  *)
(* meanwhile.  b may be c, and both may be a.                                *)

Unsigned(s, b, c) == LET t == SetSign(s, b, s[b].sign * s[b].sign)
                     IN SetSign(t, c, t[c].sign * t[c].sign)

\* Mutant: the sign of the product is read from the factors left positive.
SignsRestored_Not(s, a, b, c) == SetSign(s, a, given[b].sign * given[c].sign)

SignsRestored(s, a, b, c) ==
  LET cSign    == SetSign(given, b, given[b].sign * given[b].sign)[c].sign
      restored == SetSign(SetSign(s, c, cSign), b, given[b].sign)
  IN SetSign(restored, a, restored[b].sign * restored[c].sign)

Begins(routine, p, s, frames) ==
  /\ outcome = "none" /\ outcome' = "multiplying"
  /\ routine \in Routines
  /\ call'  = [routine |-> routine, p |-> p, n |-> 0, returned |-> 0]
  /\ given' = num /\ num' = s /\ stack' = frames

CallZMul == \E p \in Triples :
  Begins("zmul", p, Unsigned(num, p[2], p[3]), <<MulFrame(p[1], p[2], p[3])>>)

\* What zsqr does of zero, it does in ZSqrReturns.
CallZSqr == \E p \in Pairs :
  Begins("zsqr", p, Counted(num, p[2]),
         IF num[p[2]].sign = 0 THEN <<>>
         ELSE <<SqrFrame(p[1], Window(p[2], 0, Trim(num[p[2]]).used))>>)

Ends(routine, s) ==
  /\ outcome = "multiplying" /\ stack = <<>> /\ call.routine = routine
  /\ outcome' = "stored"
  /\ num' = s
  /\ UNCHANGED <<call, stack, given>>

ZMulReturns == Ends("zmul", SignsRestored(num, call.p[1], call.p[2], call.p[3]))
ZSqrReturns == Ends("zsqr", SetSign(num, call.p[1], IF given[call.p[2]].sign = 0 THEN 0 ELSE 1))

\* A frame cannot have its temporaries, at any depth: libzahl_failure leaves zmul
\* or zsqr, and only frees the temporaries of all frames.
ZInitTempFails ==
  /\ outcome = "multiplying" /\ stack # <<>> /\ Top.at = "enter"
  /\ CASE Top.ll = "zmul_ll" -> Bisected
       [] Top.ll = "zsqr_ll" -> BitsOfB > Bits \div 2 /\ Halves.low.used # 0
  /\ num' = [v \in Var |-> IF Top.ll = "zmul_ll" THEN Trimmed[v] ELSE num[v]]
  /\ stack' = <<>> /\ outcome' = "failed"
  /\ UNCHANGED <<call, given>>

ProductInit == Init /\ stack = <<>> /\ given = num /\ outcome = "none"

ProductNext ==
  \/ CallZMul \/ CallZSqr \/ ZMulReturns \/ ZSqrReturns \/ ZInitTempFails
  \/ MulZero \/ MulOneChar \/ MulSplit \/ MulLow \/ MulMiddle \/ MulHigh
  \/ SqrOneChar \/ SqrSplit \/ SqrSplitHigh \/ SqrLow \/ SqrCross \/ SqrOnly \/ SqrHigh

ProductSpec == ProductInit /\ [][ProductNext]_productVars

------------------------------------------------------------------------------
(* What the code does not do: the products it gets wrong, no fewer and no    *)
(* more.                                                                    *)

\* zmul_ll subtracts two of its products from the third with zsub_impl, at every
\* depth of its recursion; so does zsqr_ll for the product of the halves.
BitsOf(v) == Min({n \in 1 .. Bits * (MaxUsed + 1) : v < Power(2, n)})
Drops(x, y) ==
  LET n == Min({k \in 0 .. 2 * MaxUsed + 1 : y < Power(Base, k)})
      above == x \div Power(Base, n)
  IN /\ y > 0 /\ x % Power(Base, n) < y
     /\ \E i \in 0 .. 2 * MaxUsed : above % Power(Base, i + 1) = Power(Base, i) /\ above > Power(Base, i)

RECURSIVE LosesBorrow(_, _)
LosesBorrow(x, y) ==
  /\ x # 0 /\ y # 0 /\ BitsOf(x) + BitsOf(y) > Bits
  /\ LET half == Power(2, BitsOf(Largest(x, y)) \div 2)
         xl == x % half  xh == x \div half  yl == y % half  yh == y \div half
         middle == (xl + xh) * (yl + yh)
     IN \/ LosesBorrow(xl, yl) \/ LosesBorrow(xh, yh) \/ LosesBorrow(xl + xh, yl + yh)
        \/ Drops(middle, xl * yl) \/ Drops(middle - xl * yl, xh * yh)

RECURSIVE LosesBorrowSquaring(_)
LosesBorrowSquaring(x) ==
  /\ x # 0 /\ BitsOf(x) > Bits \div 2
  /\ LET bits == BitsOf(x) \div 2
         half == Power(2, IF bits < Bits THEN bits ELSE (bits \div Bits) * Bits)
         xl == x % half  xh == x \div half
     IN LosesBorrow(xl, xh) \/ LosesBorrowSquaring(xl) \/ LosesBorrowSquaring(xh)

WrongProduct(k, s) ==
  LET v(i) == Magnitude(s[k.p[i]])
  IN IF k.routine = "zsqr" THEN s[k.p[2]].sign # 0 /\ LosesBorrowSquaring(v(2))
     ELSE s[k.p[2]].sign # 0 /\ s[k.p[3]].sign # 0 /\ LosesBorrow(v(2), v(3))

------------------------------------------------------------------------------
(* Properties.                                                              *)

Product(k, s) ==
  LET v(i) == Value(s[k.p[i]])
  IN IF k.routine = "zsqr" THEN v(2) * v(2) ELSE v(2) * v(3)

\* The magnitudes the modules on integers as values say zmul and zsqr may store.
Karatsuba == INSTANCE ZahlKaratsuba WITH CharBits <- Bits

Foretold(k, s) ==
  LET v(i) == AbsOf(Value(s[k.p[i]]))
  IN IF k.routine = "zsqr" THEN Karatsuba!Squared[v(2)] ELSE Karatsuba!Multiplied[v(2), v(3)]

\* A product of zmul, a square of zsqr is the integer it should be, whether or not
\* the result is a factor and so loses it to the first of the three products or to
\* a recursion whose halves are in its block: unless zsub_impl loses a borrow.  Then
\* it is another one; and it is one that ZahlKaratsuba says it may be.
ProductsExact ==
  outcome = "stored" =>
    /\ Is(num[call.p[1]], Product(call, given)) <=> ~WrongProduct(call, given)
    /\ \E m \in Foretold(call, given), sign \in {-1, 1} : Is(num[call.p[1]], sign * m)

\* A factor that is not the result keeps its value, but for the sign, which zmul
\* takes from its factors and an error at any depth of the recursion keeps; and
\* products, half made ones after an error, and factors may be given to the next
\* call, with nothing written outside their blocks although the halves of zsqr_ll
\* are windows on one.
FactorsStay ==
  outcome \in {"stored", "failed"} =>
    /\ \A v \in Var \ {call.p[1]} :
         IF outcome = "failed" /\ call.routine = "zmul" /\ v \in {call.p[2], call.p[3]}
         THEN Value(num[v]) = AbsOf(Value(given[v])) ELSE Value(num[v]) = Value(given[v])
    /\ \A v \in Var : Legal(num[v]) /\ WithinBlock(num[v])

\* The recursion ends, and soon: each frame halves the longer operand, though the
\* sums of halves zmul_ll multiplies may be a bit longer than the halves, so that
\* there are at most three frames more than bits in the number of bits.
RecursionHalves ==
  outcome = "multiplying" =>
    Len(stack) <= BitsOf(BitsOf(Largest(AbsOf(Value(given[call.p[2]])),
                                        AbsOf(Value(given[call.p[Len(call.p)]]))))) + 3
==============================================================================
