---------------------------- MODULE ZahlDivision ----------------------------
(***************************************************************************)
(* Division: zdivmod (zdivmod.c), zdiv and zmod (inlines.h).               *)
(*                                                                         *)
(* The divisor is shifted left until its top bit meets the dividend's and  *)
(* is then moved down one bit at a time, subtracted wherever it fits.  If  *)
(* the quotient is long, shifting the whole divisor for each bit is too    *)
(* slow: libzahl_tmp_divmod_ds caches the divisor shifted by 0, 1, ...,    *)
(* BITS_PER_CHAR - 1 bits, and only after one turn over the cache are the  *)
(* cached values shifted, by a whole character each, and the last time     *)
(* only those that are still wanted.                                       *)
(*                                                                         *)
(* Integers are values here; ZahlDigits and ZahlArithmetic model the       *)
(* characters that the comparisons, shifts and subtractions work on.  The  *)
(* temporaries keep what the last call left in them, as in the code.       *)
(***************************************************************************)
EXTENDS Integers

CONSTANTS Client,             \* the caller's integers
          TmpDiv, TmpMod,     \* libzahl_tmp_div, libzahl_tmp_mod
          Numbers,            \* the values the caller's integers start with
          CharBits,           \* BITS_PER_CHAR
          MaxBits,            \* no value needs more bits than these
          Power,              \* the powers of two
          MaxCalls            \* the calls a behaviour makes

ASSUME DivisionAssumption ==
  /\ \E x, y \in Client : x # y
  /\ TmpDiv \notin Client /\ TmpMod \notin Client
  /\ CharBits \in Nat \ {0}
  /\ MaxBits \in Nat
  /\ Power \in [0 .. MaxBits -> Nat]
  /\ Power[0] = 1
  /\ \A n \in 1 .. MaxBits : Power[n] = 2 * Power[n - 1]
  /\ Numbers \subseteq Int
  /\ \A v \in Numbers : -Power[MaxBits] < v /\ v < Power[MaxBits]
  /\ 0 \in Numbers

Reg == Client \cup {TmpDiv, TmpMod}

\* The ways to pass parameters: quotient a and remainder b differ, and each
\* may be the dividend c or the divisor d, which may be the same.
DivMods == {u \in [a : Client, b : Client, c : Client, d : Client] : u.a # u.b}
Divs    == [a : Client, b : {TmpDiv}, c : Client, d : Client]
Mods    == [a : {TmpMod}, b : Client, c : Client, d : Client]
Use     == DivMods \cup Divs \cup Mods

VARIABLES num,            \* what each integer holds
          use,            \* the parameters of the running call
          pc,             \* where it is; "idle" between calls
          result,         \* how the last call ended
          ta, tb, td,     \* libzahl_tmp_divmod_a, _b and _d
          tds,            \* the cache of shifted divisors
          bit, i,         \* the bit of the quotient, the entry of the cache
          calls           \* the calls made

temps == <<ta, tb, td, tds>>
vars == <<num, use, pc, result, temps, bit, i, calls>>

Mag(v) == IF v < 0 THEN -v ELSE v
Sgn(v) == IF v < 0 THEN -1 ELSE IF v = 0 THEN 0 ELSE 1

C == num[use.c]
D == num[use.d]

\* zbits(v) = n, of v # 0; zlsh and zrsh; zbset(v, v, n, 1); all of v >= 0.
HasBits(v, n) == n > 0 /\ Power[n - 1] <= v /\ v < Power[n]
Lsh(v, n) == v * Power[n]
Rsh(v, n) == v \div Power[n]
WithBit(v, n) == IF Rsh(v, n) % 2 = 1 THEN v ELSE v + Power[n]

-----------------------------------------------------------------------------

Init ==
  /\ num \in {f \in [Reg -> Numbers] : f[TmpDiv] = 0 /\ f[TmpMod] = 0}
  /\ use = CHOOSE u \in DivMods : TRUE
  /\ pc = "idle" /\ result = "none"
  /\ ta = 0 /\ tb = 0 /\ td = 0
  /\ tds = [k \in 0 .. CharBits - 1 |-> 0]
  /\ bit = 0 /\ i = 0 /\ calls = 0

Enter(U) ==
  /\ pc = "idle" /\ calls < MaxCalls
  /\ use' \in U
  /\ pc' = "entered" /\ calls' = calls + 1
  /\ UNCHANGED <<num, result, temps, bit, i>>

ZDivMod == Enter(DivMods)
ZDiv    == Enter(Divs)
ZMod    == Enter(Mods)

Return(r) ==
  /\ pc' = "idle" /\ result' = r
  /\ UNCHANGED <<use, bit, i, calls>>

Give(q, r) == num' = [num EXCEPT ![use.a] = q, ![use.b] = r]

NoQuotient ==
  /\ pc = "entered" /\ D = 0
  /\ Return(IF C # 0 THEN "DIV_0" ELSE "0_DIV_0")
  /\ UNCHANGED <<num, temps>>

ZeroDividend ==
  /\ pc = "entered" /\ D # 0 /\ C = 0
  /\ Give(0, 0)
  /\ Return("ok") /\ UNCHANGED temps

EqualMagnitudes ==
  /\ pc = "entered" /\ C # 0 /\ Mag(C) = Mag(D)
  /\ Give(Sgn(C) * Sgn(D), 0)
  /\ Return("ok") /\ UNCHANGED temps

\* Mutant: the quotient is stored before the remainder is read.
SmallerDividend_QuotientFirst ==
  /\ pc = "entered" /\ C # 0 /\ Mag(C) < Mag(D)
  /\ num' = [num EXCEPT ![use.a] = 0, ![use.b] = IF use.c = use.a THEN 0 ELSE C]
  /\ Return("ok") /\ UNCHANGED temps

\* SET(b, c) comes first: c may be a.
SmallerDividend ==
  /\ pc = "entered" /\ C # 0 /\ Mag(C) < Mag(D)
  /\ num' = [num EXCEPT ![use.b] = C, ![use.a] = 0]
  /\ Return("ok") /\ UNCHANGED temps

-----------------------------------------------------------------------------
(* zdivmod_impl.                                                            *)

Goto(l) == pc' = l /\ UNCHANGED <<num, use, result, calls>>

\* Mutant: the divisor is lowered when it need not be.
Align_Reversed ==
  /\ pc = "entered" /\ D # 0 /\ Mag(C) > Mag(D)
  /\ \E cBits, dBits \in 1 .. MaxBits :
       LET s == cBits - dBits
           t == Lsh(Mag(D), s)
       IN  /\ HasBits(Mag(C), cBits) /\ HasBits(Mag(D), dBits)
           /\ IF t < Mag(C) /\ s > 0 THEN td' = Rsh(t, 1) /\ bit' = s - 1
                                     ELSE td' = t /\ bit' = s
  /\ Goto("copy") /\ UNCHANGED <<ta, tb, tds, i>>

Align ==
  /\ pc = "entered" /\ D # 0 /\ Mag(C) > Mag(D)
  /\ \E cBits, dBits \in 1 .. MaxBits :
       LET s == cBits - dBits
           t == Lsh(Mag(D), s)
       IN  /\ HasBits(Mag(C), cBits) /\ HasBits(Mag(D), dBits)
           /\ IF t > Mag(C) THEN td' = Rsh(t, 1) /\ bit' = s - 1
                            ELSE td' = t /\ bit' = s
  /\ Goto("copy") /\ UNCHANGED <<ta, tb, tds, i>>

\* Mutant: the quotient begins with what the last call left in ta.
Copy_KeepsQuotient ==
  /\ pc = "copy"
  /\ tb' = Mag(C) /\ i' = 0
  /\ Goto(IF bit <= CharBits THEN "single" ELSE "cache")
  /\ UNCHANGED <<ta, td, tds, bit>>

Copy ==
  /\ pc = "copy"
  /\ ta' = 0 /\ tb' = Mag(C) /\ i' = 0
  /\ Goto(IF bit <= CharBits THEN "single" ELSE "cache")
  /\ UNCHANGED <<td, tds, bit>>

Cache ==
  /\ pc = "cache" /\ i < CharBits
  /\ tds' = [tds EXCEPT ![i] = Rsh(td, i)] /\ i' = i + 1
  /\ Goto("cache") /\ UNCHANGED <<ta, tb, td, bit>>

Cached ==
  /\ pc = "cache" /\ i = CharBits
  /\ i' = 0
  /\ Goto("many") /\ UNCHANGED <<temps, bit>>

\* Mutant: a divisor that fits exactly is not subtracted.
TrySubtract_Strict(t) ==
  IF t < tb THEN tb' = tb - t /\ ta' = WithBit(ta, bit)
            ELSE UNCHANGED <<ta, tb>>

\* One bit of the quotient, with the divisor shifted to it.
TrySubtract(t) ==
  IF t <= tb THEN tb' = tb - t /\ ta' = WithBit(ta, bit)
             ELSE UNCHANGED <<ta, tb>>

\* !bit-- || zzero(tb).  bit = -1 is SIZE_MAX, which nobody reads.
NextBit(l) == bit' = bit - 1 /\ Goto(IF bit = 0 \/ tb' = 0 THEN "store" ELSE l)

Single ==
  /\ pc = "single"
  /\ TrySubtract(td)
  /\ NextBit("single")
  /\ td' = IF pc' = "single" THEN Rsh(td, 1) ELSE td
  /\ UNCHANGED <<tds, i>>

Many ==
  /\ pc = "many" /\ i < CharBits
  /\ TrySubtract(tds[i])
  /\ NextBit("many")
  /\ i' = i + 1
  /\ UNCHANGED <<td, tds>>

\* Mutant: i = MIN(bit, BITS_PER_CHAR - 1), one entry too few.
Wanted_OneLess == IF bit < CharBits - 1 THEN bit - 1 ELSE CharBits - 2

\* zrsh_taint on the entries that still have a bit to try.
Wanted == IF bit < CharBits - 1 THEN bit ELSE CharBits - 1

\* Mutant: the turn over the cache does not begin anew.
ShiftCache_NoTurn ==
  /\ pc = "many" /\ i = CharBits
  /\ tds' = [k \in DOMAIN tds |->
               IF k <= Wanted THEN Rsh(tds[k], CharBits) ELSE tds[k]]
  /\ Goto("many") /\ UNCHANGED <<ta, tb, td, bit, i>>

ShiftCache ==
  /\ pc = "many" /\ i = CharBits
  /\ tds' = [k \in DOMAIN tds |->
               IF k <= Wanted THEN Rsh(tds[k], CharBits) ELSE tds[k]]
  /\ i' = 0
  /\ Goto("many") /\ UNCHANGED <<ta, tb, td, bit>>

\* zswap(a, ta), zswap(b, tb), and the signs: neither c nor d is read any
\* more, so a and b may be these.
Store ==
  /\ pc = "store"
  /\ Give(Sgn(C) * Sgn(D) * ta, IF tb > 0 THEN Sgn(C) * tb ELSE tb)
  /\ ta' = num[use.a] /\ tb' = num[use.b]
  /\ Return("ok") /\ UNCHANGED <<td, tds>>

\* The divisor that is compared.
Compared == IF pc = "single" THEN td ELSE tds[i]

\* SET(b, c) gives b the sign and .used of c before it asks for room, and
\* libzahl_realloc stores the NULL of a failed realloc in .chars: what b held
\* is lost, and what it holds is not c either.  b has the room if it is an
\* operand, for c is the smaller one.
RemainderLost ==
  /\ Mag(C) < Mag(D) /\ use.b \notin {use.c, use.d}
  /\ \E v \in Numbers : num' = [num EXCEPT ![use.b] = v]

\* Whatever enlarges an integer may fail.  What comes before the failing call
\* has been done.  zseti(a, sign) asks for room before it writes, and only if
\* a has no block, so that nothing is lost there.
MemoryFails ==
  /\ \/ /\ pc = "entered" /\ C # 0 /\ D # 0 /\ UNCHANGED temps
        /\ \/ Mag(C) > Mag(D) /\ UNCHANGED num
           \/ Mag(C) = Mag(D) /\ use.a \notin {use.c, use.d} /\ UNCHANGED num
           \/ RemainderLost
     \/ pc = "copy" /\ ta' = 0 /\ UNCHANGED <<num, tb, td, tds>>
     \/ pc = "cache" /\ i < CharBits /\ UNCHANGED <<num, temps>>
     \/ /\ pc = "single" \/ (pc = "many" /\ i < CharBits)
        /\ ta = 0 /\ Compared <= tb
        /\ tb' = tb - Compared /\ UNCHANGED <<num, ta, td, tds>>
  /\ Return("memory")

Degenerate == NoQuotient \/ ZeroDividend \/ EqualMagnitudes \/ SmallerDividend
Divide == Align \/ Copy \/ Cache \/ Cached \/ Single \/ Many \/ ShiftCache \/ Store

Next == ZDivMod \/ ZDiv \/ ZMod \/ Degenerate \/ Divide \/ MemoryFails

Spec == Init /\ [][Next]_vars

\* A call runs; nothing is assumed of the caller, nor of the allocator.
FairSpec == Spec /\ WF_vars(Degenerate \/ Divide)

-----------------------------------------------------------------------------

TypeOK ==
  /\ num \in [Reg -> Int]
  /\ use \in Use
  /\ pc \in {"idle", "entered", "copy", "cache", "single", "many", "store"}
  /\ ta \in Int /\ tb \in Int /\ td \in Int
  /\ tds \in [0 .. CharBits - 1 -> Int]
  /\ bit \in Int /\ i \in 0 .. CharBits

Running == pc \in {"copy", "cache", "single", "many"}

\* While bits are tried: what is left of the dividend and the bits found so
\* far make up the dividend, what is left is too small for a higher bit, and
\* the first bit tried is always set (so that a sign may be given to the
\* quotient without looking at it).
LoopInvariant ==
  /\ Running => bit \in 0 .. MaxBits - 1
  /\ pc \in {"single", "many"} =>
       /\ Mag(C) = ta * Mag(D) + tb
       /\ 0 <= ta /\ 0 <= tb /\ tb < 2 * Lsh(Mag(D), bit)
       /\ ta = 0 => Lsh(Mag(D), bit) <= tb
  /\ pc = "store" =>
       /\ Mag(C) = ta * Mag(D) + tb
       /\ 0 <= tb /\ tb < Mag(D)
       /\ ta > 0

\* The divisor that is compared is the one shifted to the bit being tried,
\* in both loops: in particular after a whole turn over the cache, when its
\* entries have been shifted in place, the last time only a part of them.
ShiftedToTheBit ==
  /\ pc \in {"copy", "cache", "single"} => td = Lsh(Mag(D), bit)
  /\ pc = "many" /\ i < CharBits => tds[i] = Lsh(Mag(D), bit)

\* A bit is set at most once: WithBit always adds it.
BitsAreNew == pc \in {"single", "many"} => ta % (2 * Power[bit]) = 0

\* zsub_impl is exact unless a borrow leaves the subtrahend's characters and
\* ends in the middle of those above (BorrowEndsInside in ZahlCalls).  Division
\* never gets there: above the characters of what is subtracted the remainder
\* has a single 1 at most.
BorrowStaysAtTop ==
  pc = "single" \/ (pc = "many" /\ i < CharBits) =>
    \A n \in 0 .. MaxBits :
      n % CharBits = 0 /\ Compared < Power[n] => tb < 2 * Power[n]

\* The inductive invariant: with what the loops rest on.  Where td or the
\* cache is ready, its shift is the right one to start from; entry k of the
\* cache is k bits behind the bit at which the turn over it began.
Engaged == pc \notin {"idle", "entered"} => D # 0 /\ Mag(C) > Mag(D)

Aligned ==
  pc \in {"copy", "cache"} =>
    Lsh(Mag(D), bit) <= Mag(C) /\ Mag(C) < 2 * Lsh(Mag(D), bit)

CacheFills ==
  pc = "cache" =>
    /\ CharBits < bit /\ ta = 0 /\ tb = Mag(C)
    /\ \A k \in 0 .. CharBits - 1 : k < i => tds[k] = Lsh(Mag(D), bit - k)

CacheHolds ==
  pc = "many" =>
    /\ CharBits < MaxBits /\ bit + i < MaxBits
    /\ \A k \in 0 .. CharBits - 1 :
         k <= bit + i => tds[k] = Lsh(Mag(D), (bit + i) - k)

IndInv ==
  /\ TypeOK /\ LoopInvariant /\ ShiftedToTheBit /\ BitsAreNew
  /\ Engaged /\ Aligned /\ CacheFills /\ CacheHolds

Quotients == INSTANCE ZahlQuotients

\* zdivmod, zdiv and zmod store the truncated quotient and its remainder.  A
\* division by zero leaves all of the caller's integers alone, and so does a
\* lack of memory but for one: the old value of the remainder is lost if the
\* dividend, being the smaller one, was to be copied there.
ImplementsQuotients == Quotients!Spec

\* Every call returns.
CallsReturn == pc # "idle" ~> pc = "idle"
=============================================================================
