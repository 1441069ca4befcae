------------------------------- MODULE ZahlDigits -------------------------------
(***************************************************************************)
(* The representation of an integer (zahl/internals.h) and the loops over  *)
(* its characters (zahl/memory.h, src/internals.h) every routine of the    *)
(* library is built on.                                                    *)
(*                                                                         *)
(* A z_t is [sign, used, alloced, chars]: chars[0 .. used - 1] is the      *)
(* magnitude, least significant character first, and means nothing when    *)
(* sign is 0.  The block behind chars has alloced characters and a margin  *)
(* of Fluff more, because most loops run in groups of four characters and  *)
(* touch up to three beyond the last.  The model keeps those characters    *)
(* too: a character no call has given a value is Stale, and one that is    *)
(* not in the block is Foreign.  A computation on either gives Stale or    *)
(* Spoilt, so what a routine takes from the wrong place shows in its       *)
(* result.                                                                 *)
(***************************************************************************)
EXTENDS Integers, FiniteSetsExt

CONSTANTS
  Bits,        \* bits in a character, BITS_PER_CHAR (64 in the code)
  Group,       \* characters a loop takes at a time, also ZAHL_FLUFF (4)
  SmallCases,  \* sizes libzahl_memcpy copies exactly (20, or 0)
  Room,        \* characters the model has for an integer, its bound
  Stale,       \* a character that holds whatever was left there
  Foreign,     \* a character outside the block
  Spoilt       \* what is computed from a character outside the block

ASSUME DigitsAssumption ==
  /\ Bits \in Nat \ {0} /\ Group \in Nat \ {0}
  /\ SmallCases \in Nat /\ Room \in Nat \ {0}

\* b to the n-th.
Power(b, n) == LET p[k \in Nat] == IF k = 0 THEN 1 ELSE b * p[k - 1] IN p[n]

Base  == Power(2, Bits)
Digit == 0 .. Base - 1

\* What is no digit can be told from digits, and from each other.
ASSUME MarkersAssumption ==
  /\ Stale \notin Digit /\ Foreign \notin Digit /\ Spoilt \notin Digit
  /\ Stale # Foreign /\ Stale # Spoilt /\ Foreign # Spoilt

Index == 0 .. Room - 1
Fluff == Group

Smallest(x, y) == IF x < y THEN x ELSE y
Largest(x, y)  == IF x < y THEN y ELSE x
Sign(n)        == IF n < 0 THEN -1 ELSE IF n > 0 THEN 1 ELSE 0

------------------------------------------------------------------------------
(* Characters.                                                              *)

\* The positions of the block of an integer with room for n characters.
Block(n) == IF n = 0 THEN {} ELSE 0 .. n + Fluff - 1

\* What an operator on characters makes of characters that are no digits.
Tainted(chars) == IF chars \cap {Foreign, Spoilt} # {} THEN Spoilt ELSE Stale
Digitwise(f, x, y) == IF {x, y} \subseteq Digit THEN f[x, y] ELSE Tainted({x, y})

OnesIn(n, width) == {i \in 0 .. width - 1 : (n \div Power(2, i)) % 2 = 1}

\* The number whose ones are S, by the powers of two below each place.
Weights(S, top) ==
  LET sum[n \in 0 .. top] ==
        IF n = 0 THEN 0 ELSE sum[n - 1] + (IF n - 1 \in S THEN Power(2, n - 1) ELSE 0)
  IN sum
FromOnes(S) == LET top == IF S = {} THEN 0 ELSE Max(S) + 1 IN Weights(S, top)[top]

AndDigit == [q \in Digit \X Digit |-> FromOnes(OnesIn(q[1], Bits) \cap OnesIn(q[2], Bits))]
OrDigit  == [q \in Digit \X Digit |-> FromOnes(OnesIn(q[1], Bits) \cup OnesIn(q[2], Bits))]
XorDigit == [q \in Digit \X Digit |->
              FromOnes((OnesIn(q[1], Bits) \cup OnesIn(q[2], Bits))
                         \ (OnesIn(q[1], Bits) \cap OnesIn(q[2], Bits)))]

\* libzahl_add_overflow, with the carry that comes in and the one that goes out.
Plus(x, y, carry) ==
  IF {x, y} \subseteq Digit
  THEN [digit |-> (x + y + carry) % Base, carry |-> (x + y + carry) \div Base]
  ELSE [digit |-> Tainted({x, y}), carry |-> 0]

\* The step of zsub_impl: it tests before it subtracts, modulo the base.
Minus(x, y, borrow) ==
  IF {x, y} \subseteq Digit
  THEN [digit  |-> (x - y - borrow) % Base,
        borrow |-> IF (IF borrow = 1 THEN x <= y ELSE x < y) THEN 1 ELSE 0]
  ELSE [digit |-> Tainted({x, y}), borrow |-> 0]

------------------------------------------------------------------------------
(* Integers as values.                                                      *)

\* The number in the lowest n characters.
Lowest(chars, n) ==
  LET low[k \in 0 .. Room] ==
        IF k = 0 THEN 0 ELSE low[k - 1] + chars[k - 1] * Power(Base, k - 1)
  IN low[n]

Magnitude(r) == Lowest(r.chars, r.used)
Value(r)     == IF r.sign = 0 THEN 0 ELSE r.sign * Magnitude(r)

\* A routine may be given r: its magnitude is made of digits, is not zero
\* (the loops that look for a digit other than zero have no other end) and
\* fits.  Zeros above the magnitude are allowed.
Legal(r) ==
  /\ r.sign \in {-1, 0, 1}
  /\ r.sign # 0 =>
       /\ r.used \in 1 .. r.alloced
       /\ \A i \in 0 .. r.used - 1 : r.chars[i] \in Digit
       /\ \E i \in 0 .. r.used - 1 : r.chars[i] # 0

\* Nothing outside the block of r was written, nothing in it comes from outside.
WithinBlock(r) ==
  \A i \in Index : IF i \in Block(r.alloced) THEN r.chars[i] \notin {Foreign, Spoilt}
                                             ELSE r.chars[i] = Foreign

------------------------------------------------------------------------------
(* Blocks.                                                                  *)

\* The size libzahl_realloc gives a block: a power of two.
RoundedUp == [n \in 1 .. 2 * Room |->
                Min({k \in {Power(2, i) : i \in 0 .. Room} : k >= n})]

\* ENSURE_SIZE.  The contents move along, the rest of the block is stale.
Ensure(r, n) ==
  IF r.alloced >= n THEN r
  ELSE LET size == RoundedUp[n]
       IN [r EXCEPT !.alloced = size,
                    !.chars = [i \in Index |->
                                 IF i \in Block(size) /\ i >= r.alloced THEN Stale
                                                                        ELSE r.chars[i]]]

------------------------------------------------------------------------------
(* Loops over characters.                                                   *)

\* The characters a loop in groups touches for n of them.
Chunks(n) == Group * ((n + Group - 1) \div Group)

\* libzahl_memcpy: d[at ..] gets s[from ..].
Copied(n) == IF n <= SmallCases THEN n ELSE Chunks(n)
MemCpy(d, at, s, from, n) ==
  [i \in Index |-> IF i \in at .. at + Copied(n) - 1 THEN s[from + i - at] ELSE d[i]]

\* libzahl_memmoveb and libzahl_memmovef: the direction makes the overlap safe.
MemMoveB(d, at, n) == MemCpy(d, at, d, 0, n)
MemMoveF(d, from, n) ==
  LET moved == IF n \in 1 .. Group - 1 THEN Group - 1 ELSE Chunks(n)
  IN [i \in Index |-> IF i < moved THEN d[from + i] ELSE d[i]]

\* libzahl_memset and libzahl_memset_precise, with zero.
MemZero(d, at, n) == [i \in Index |-> IF i \in at .. at + Chunks(n) - 1 THEN 0 ELSE d[i]]
MemZeroPrecise(d, n) == [i \in Index |-> IF i < n THEN 0 ELSE d[i]]

\* ZMEM_2OP, and ZMEM_2OP_PRECISE with the characters its loop reaches.
ZMem2Op(f, d, x, y, n) ==
  [i \in Index |-> IF i < Chunks(n) THEN Digitwise(f, x[i], y[i]) ELSE d[i]]
Reached(n) == IF n > Group /\ n % Group = 0 THEN n - Group ELSE n
ZMem2OpPrecise(f, d, x, y, n) ==
  [i \in Index |-> IF i < Reached(n) THEN Digitwise(f, x[i], y[i]) ELSE d[i]]

\* ZMEM_1OP with ~.
ZMemNot(d, x, n) ==
  [i \in Index |-> IF i < Chunks(n) THEN Digitwise(XorDigit, x[i], Base - 1) ELSE d[i]]

------------------------------------------------------------------------------
(* Trimming.                                                                *)

\* Zeros above the magnitude are dropped until floor characters are left.
TrimTo(r, floor) ==
  IF r.used <= floor THEN r
  ELSE [r EXCEPT !.used = Max({floor} \cup {i + 1 : i \in {k \in floor .. r.used - 1 :
                                                            r.chars[k] # 0}})]
Trim(r)        == TrimTo(r, 0)

\* Mutant: the sign is set even if nothing is left.
TrimAndSign_Signed(r, s) == [Trim(r) EXCEPT !.sign = s]

TrimAndSign(r, s) == LET t == Trim(r) IN [t EXCEPT !.sign = IF t.used = 0 THEN 0 ELSE s]
TrimAndZero(r) == TrimAndSign(r, r.sign)
==============================================================================
