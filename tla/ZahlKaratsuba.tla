----------------------------- MODULE ZahlKaratsuba -----------------------------
(***************************************************************************)
(* What zmul (src/zmul.c) and zsqr (src/zsqr.c) store, as numbers, for the *)
(* modules that take integers as values.  ZahlProducts, which has every    *)
(* character, checks that it is what they store.                           *)
(*                                                                         *)
(* It is the product, unless zsub_impl (src/zsub.c) loses a borrow on the  *)
(* way: where a borrow ends at a character that is one, it takes the top   *)
(* character off instead.  That one then stands above the integer, and     *)
(* what is subtracted next may borrow from it, or from what is above it.   *)
(***************************************************************************)
EXTENDS Integers

CONSTANT CharBits    \* BITS_PER_CHAR

Base == 2 ^ CharBits

BitsIn[v \in Nat]  == IF v = 0 THEN 0 ELSE 1 + BitsIn[v \div 2]
CharsIn[v \in Nat] == IF v = 0 THEN 0 ELSE 1 + CharsIn[v \div Base]

\* An integer with the characters above it: it is the used ones of known characters,
\* which are all together the number all.
Row(v)     == [all |-> v, used |-> CharsIn[v], known |-> CharsIn[v]]
Value(row) == row.all % (Base ^ row.used)
Char(v, k) == (v \div (Base ^ k)) % Base

\* The character a borrow from those above the first ones ends at.
BorrowEnd(v, chars) ==
  CHOOSE k \in chars .. CharsIn[v] : Char(v, k) # 0 /\ v % (Base ^ k) < Base ^ chars

\* zsub_impl: it goes wrong without a borrow that is lost only when there is nothing
\* left to borrow from.  Then the stale character that it comes to may be one, or not.
ZSubImpl(row, w) ==
  LET chars == CharsIn[w]
      k     == BorrowEnd(row.all, chars)
      cut   == [row EXCEPT !.used = @ - 1]
  IN CASE row.all % (Base ^ chars) >= w -> {[row EXCEPT !.all = @ - w]}
       [] row.all >= Base ^ chars /\ row.all % (Base ^ chars) < w ->
            IF Char(row.all, k) = 1 THEN {[cut EXCEPT !.all = @ - w + Base ^ k]}
                                  ELSE {[row EXCEPT !.all = @ - w]}
       [] row.all < w ->
            {[kept EXCEPT !.all = (@ - w) % (Base ^ row.known)] : kept \in {row, cut}}

\* zsub_nonnegative_assign, which drops zeros above the magnitude while it compares.
ZSubNonnegativeAssign(row, w) ==
  LET trimmed == [row EXCEPT !.used = IF CharsIn[w] < CharsIn[Value(row)]
                                      THEN CharsIn[Value(row)]
                                      ELSE IF CharsIn[w] < @ THEN CharsIn[w] ELSE @]
  IN CASE w = 0 \/ row = Row(0) -> {row}
       [] w # 0 /\ Value(row) = w -> {Row(0)}
       [] OTHER -> ZSubImpl(trimmed, w)

\* zmul_ll: the products of the halves, and of their sums.
Multiplied[v \in Nat, w \in Nat] ==
  LET m2   == (IF v < w THEN BitsIn[w] ELSE BitsIn[v]) \div 2
      half == 2 ^ m2
      vl == v % half  vh == v \div half  wl == w % half  wh == w \div half
  IN IF v = 0 \/ w = 0 \/ BitsIn[v] + BitsIn[w] <= CharBits THEN {v * w}
     ELSE UNION {{z0 + Value(z1) * half + z2 * half * half :
                    z1 \in UNION {ZSubNonnegativeAssign(row, z2) :
                                    row \in ZSubNonnegativeAssign(Row(sums), z0)}} :
                  z0 \in Multiplied[vl, wl], sums \in Multiplied[vl + vh, wl + wh],
                  z2 \in Multiplied[vh, wh]}

\* zsqr_ll, which subtracts nothing but in the product of its halves.
Squared[v \in Nat] ==
  LET bits == BitsIn[v] \div 2
      half == 2 ^ (IF bits < CharBits THEN bits ELSE bits - (bits % CharBits))
      low  == v % half  high == v \div half
  IN IF BitsIn[v] <= CharBits \div 2 THEN {v * v}
     ELSE {z0 + 2 * half * z1 + half * half * z2 :
             z0 \in Squared[low], z1 \in Multiplied[low, high], z2 \in Squared[high]}
==============================================================================
