------------------------------- MODULE ZahlGcd -------------------------------
(***************************************************************************)
(* The greatest common divisor (zgcd.c), and what its loop does to the two *)
(* temporaries: their .chars are swapped (zswap_tainted_unsigned) and      *)
(* moved up past the zeros that are shifted out (zrsh_taint), and are put  *)
(* back only at the end.                                                   *)
(*                                                                         *)
(* Integers are values, except that zsub_impl is as ZahlArithmetic has it: *)
(* it loses the top character where a borrow ends at a 1 below the top.    *)
(* A behaviour is one call.  The result may be an operand, which is of no  *)
(* consequence: it is written after all has been read.                     *)
(***************************************************************************)
EXTENDS Integers

CONSTANTS Numbers,        \* the values of the operands
          CharBits,       \* BITS_PER_CHAR
          MaxChars,       \* no value needs more characters than these
          Power           \* the powers of two

MaxBits == CharBits * MaxChars

ASSUME GcdAssumption ==
  /\ CharBits \in Nat \ {0} /\ MaxChars \in Nat
  /\ Power \in [0 .. MaxBits -> Nat \ {0}]
  /\ Power[0] = 1
  /\ \A n \in 1 .. MaxBits : Power[n] = 2 * Power[n - 1]
  /\ Numbers \subseteq Int
  /\ \A n \in Numbers : -Power[MaxBits] < n /\ n < Power[MaxBits]

VARIABLES b, c,           \* the operands
          a,              \* the result
          pc, result,     \* where the call is and how it ended
          u, v,           \* the magnitudes libzahl_tmp_gcd_u and _v hold
          uAt, vAt,       \* where their .chars points: into which block, how far
          p, q,           \* (history) the magnitudes the loop began with
          shifts,         \* the power of two both operands have
          lost            \* (history) zsub_impl has lost a character

vars == <<b, c, a, pc, result, u, v, uAt, vAt, p, q, shifts, lost>>

Mag(n) == IF n < 0 THEN -n ELSE n
Odd(n) == n % 2 = 1

\* n = zlsb(w), and what zrsh by n leaves of w.
Rsh(w, n)   == w \div Power[n]

\* Mutant: some zeros are shifted out, not all of them.
IsLsb_Any(w, n) == w % Power[n] = 0

IsLsb(w, n) == w % Power[n] = 0 /\ Odd(Rsh(w, n))

\* used characters are left of w when it is trimmed.
BasePower(n) == Power[CharBits * n]
IsUsed(w, used) == used > 0 /\ BasePower(used - 1) <= w /\ w < BasePower(used)

------------------------------------------------------------------------------

Home == [u |-> [block |-> "u", from |-> 0], v |-> [block |-> "v", from |-> 0]]

Init ==
  /\ b \in Numbers /\ c \in Numbers
  /\ a = 0 /\ pc = "begin" /\ result = "none"
  /\ u = 0 /\ v = 0 /\ uAt = Home.u /\ vAt = Home.v
  /\ p = 0 /\ q = 0 /\ shifts = 0 /\ lost = FALSE

Return(r) == pc' = "returned" /\ result' = r /\ UNCHANGED <<b, c, u, v, p, q, shifts, lost>>

\* Mutant: the other operand is not looked at if this one is zero.
ZeroOperand_One ==
  /\ pc = "begin" /\ (b = 0 \/ c = 0)
  /\ a' = 1
  /\ Return("ok") /\ UNCHANGED <<uAt, vAt>>

ZeroOperand ==
  /\ pc = "begin" /\ (b = 0 \/ c = 0)
  /\ a' = IF b = 0 THEN c ELSE b
  /\ Return("ok") /\ UNCHANGED <<uAt, vAt>>

\* Both operands lose their zeros; the result gets back what they shared.
Strip ==
  /\ pc = "begin" /\ b # 0 /\ c # 0
  /\ \E i, j \in 0 .. MaxBits :
       /\ IsLsb(Mag(b), i) /\ p' = Rsh(Mag(b), i)
       /\ IsLsb(Mag(c), j) /\ q' = Rsh(Mag(c), j)
       /\ shifts' = IF i < j THEN i ELSE j
  /\ u' = p' /\ v' = q'
  /\ pc' = "loop" /\ UNCHANGED <<b, c, a, result, uAt, vAt, lost>>

\* zsub_impl(y, x, x->used) of x < y: the borrow out of the n characters of x ends
\* at character m, which is 1 and stays so, and the top one is dropped.
LosesTop(x, y, n, m, top) ==
  /\ IsUsed(x, n) /\ IsUsed(y, top)
  /\ n <= m /\ m < top - 1
  /\ y % BasePower(n) < x
  /\ y % BasePower(m) = y % BasePower(n)
  /\ (y \div BasePower(m)) % BasePower(1) = 1

WithoutTop(x, y, m, top) ==
  ((y \div BasePower(m + 1)) % BasePower(top - m - 2)) * BasePower(m + 1)
    + BasePower(m) + (BasePower(m) + (y % BasePower(m)) - x)

\* Mutant: the difference is not kept.
Difference_Kept(x, y) == {y}

\* What zsub_positive_assign(y, x) may leave in y.
Difference(x, y) ==
  LET Lost == {t \in (1 .. MaxChars) \X (1 .. MaxChars) \X (1 .. MaxChars) :
                 LosesTop(x, y, t[1], t[2], t[3])}
  IN IF Lost = {} THEN {y - x} ELSE {WithoutTop(x, y, t[2], t[3]) : t \in Lost}

\* One turn of the loop: y, the larger, loses x and the zeros that gives.
Turn ==
  /\ pc = "loop" /\ u # v
  /\ LET swap == u > v
         x == IF swap THEN v ELSE u
         y == IF swap THEN u ELSE v
         at == IF swap THEN uAt ELSE vAt
     IN \E w \in Difference(x, y), n \in 0 .. MaxBits :
          /\ IsLsb(w, n)
          /\ u' = x /\ v' = Rsh(w, n)
          /\ uAt' = IF swap THEN vAt ELSE uAt
          /\ vAt' = [at EXCEPT !.from = @ + (n \div CharBits)]
          /\ lost' = (lost \/ w # y - x)
  /\ UNCHANGED <<b, c, a, pc, result, p, q, shifts>>

\* Mutant: the pointers are left where the loop moved them.
Store_NotRestored ==
  /\ pc = "loop" /\ u = v
  /\ a' = (IF b < 0 /\ c < 0 THEN -1 ELSE 1) * (Power[shifts] * u)
  /\ Return("ok") /\ UNCHANGED <<uAt, vAt>>

\* zlsh, the sign, and .chars put back.
Store ==
  /\ pc = "loop" /\ u = v
  /\ a' = (IF b < 0 /\ c < 0 THEN -1 ELSE 1) * (Power[shifts] * u)
  /\ uAt' = Home.u /\ vAt' = Home.v
  /\ Return("ok")

\* SET, zrsh and zlsh may need memory; when zlsh does, .chars stays where it is.
MemoryFails ==
  /\ pc = "begin" \/ (pc = "loop" /\ u = v)
  /\ Return("memory") /\ UNCHANGED <<a, uAt, vAt>>

Next == ZeroOperand \/ Strip \/ Turn \/ Store \/ MemoryFails

Spec == Init /\ [][Next]_vars

\* The call runs; nothing is assumed of the allocator.
FairSpec == Spec /\ WF_vars(ZeroOperand \/ Strip \/ Turn \/ Store)

------------------------------------------------------------------------------
(* Properties.                                                              *)

Pointers == [block : {"u", "v"}, from : Nat]

\* The type invariant.
TypeOK ==
  /\ b \in Numbers /\ c \in Numbers /\ a \in Int
  /\ pc \in {"begin", "loop", "returned"} /\ result \in {"none", "ok", "memory"}
  /\ u \in Nat /\ v \in Nat /\ p \in Nat /\ q \in Nat
  /\ uAt \in Pointers /\ vAt \in Pointers
  /\ shifts \in 0 .. MaxBits /\ lost \in BOOLEAN

\* zsub_positive_assign and zlsb, whose loop has no end but a one, are given what
\* they need, and while no character is lost the common divisors of u and v remain
\* those of the numbers the loop began with, the odd parts of the operands.
Divides(d, n)  == n % d = 0
OddAndPositive == pc = "loop" => Odd(u) /\ u > 0 /\ Odd(v) /\ v > 0
Running ==
  /\ pc # "returned" => result = "none"
  /\ pc = "loop" => b # 0 /\ c # 0
Stripped ==
  pc = "loop" =>
    /\ Odd(p) /\ Odd(q)
    /\ \E i, j \in 0 .. MaxBits : /\ Mag(b) = Power[i] * p /\ Mag(c) = Power[j] * q
                                 /\ shifts = IF i < j THEN i ELSE j
InRange == pc = "loop" /\ ~lost => u < Power[MaxBits] /\ v < Power[MaxBits]
SameDivisors ==
  pc = "loop" /\ ~lost =>
    \A d \in 1 .. Power[MaxBits] :
      Divides(d, u) /\ Divides(d, v) <=> Divides(d, p) /\ Divides(d, q)
LoopInvariant ==
  TypeOK /\ OddAndPositive /\ Running /\ Stripped /\ InRange /\ SameDivisors

\* No temporary points into the block of both or of the other when the call is over,
\* unless the result found no memory: then the loop's pointers stay.
PointersRestored ==
  /\ uAt.block # vAt.block
  /\ pc = "begin" \/ result = "ok" => uAt = Home.u /\ vAt = Home.v

\* What number-theory.tex defines: the largest common divisor, negative if both
\* operands are, the other operand if one is zero.  Where zsub_impl lost a
\* character it may be anything.
IsGcd(g) ==
  IF b = 0 \/ c = 0 THEN g = b + c
  ELSE /\ Divides(Mag(g), Mag(b)) /\ Divides(Mag(g), Mag(c))
       /\ \A d \in Mag(g) + 1 .. Mag(b) : ~(Divides(d, Mag(b)) /\ Divides(d, Mag(c)))
       /\ g < 0 <=> b < 0 /\ c < 0
GcdExact == pc = "returned" /\ result = "ok" /\ ~lost => IsGcd(a)

\* What ZahlGcdProofs shows to be inductive.
IndInv == LoopInvariant /\ PointersRestored /\ GcdExact

\* Every call returns, a lost character or not.
CallsReturn == <>(pc = "returned")
==============================================================================
