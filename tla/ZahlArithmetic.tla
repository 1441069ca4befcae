---------------------------- MODULE ZahlArithmetic ----------------------------
(***************************************************************************)
(* Assignments and comparisons (zahl/inlines.h), addition (src/zadd.c) and *)
(* subtraction (src/zsub.c), character by character.                       *)
(*                                                                         *)
(* An operator named after a routine takes the integers as they are, s,    *)
(* and the names of its parameters, and gives the integers as the routine  *)
(* leaves them; names may coincide, as the parameters of the C function    *)
(* may.  An operator named after a routine that returns a number gives the *)
(* number; the one beside it, in -ed, gives the integers it leaves.        *)
(***************************************************************************)
EXTENDS ZahlDigits

------------------------------------------------------------------------------
(* Assignments, zahl/inlines.h.                                             *)

\* zset: .used is set before the block is there to hold it.
ZSet(s, a, b) ==
  IF s[b].sign = 0 THEN [s EXCEPT ![a].sign = 0]
  ELSE LET r == Ensure([s[a] EXCEPT !.sign = s[b].sign, !.used = s[b].used], s[b].used)
       IN [s EXCEPT ![a] =
             [r EXCEPT !.chars = MemCpy(r.chars, 0, s[b].chars, 0, s[b].used)]]

SetUnlessSame(s, a, b) == IF a = b THEN s ELSE ZSet(s, a, b)
SetSign(s, a, sign)    == [s EXCEPT ![a].sign = sign]
Negated(s, a)          == [s EXCEPT ![a].sign = -@]

ZNeg(s, a, b) == Negated(SetUnlessSame(s, a, b), a)
ZAbs(s, a, b) == LET t == SetUnlessSame(s, a, b)
                 IN IF t[a].sign < 0 THEN SetSign(t, a, 1) ELSE t

OneChar(s, a, sign, char) ==
  LET r == Ensure(s[a], 1)
  IN [s EXCEPT ![a] = [r EXCEPT !.sign = sign, !.used = 1, !.chars[0] = char]]
ZSetU(s, a, n) == IF n = 0 THEN SetSign(s, a, 0) ELSE OneChar(s, a, 1, n)

ZSetI(s, a, n) == IF n >= 0 THEN ZSetU(s, a, n) ELSE OneChar(s, a, -1, (-n) % Base)

------------------------------------------------------------------------------
(* Comparisons, zahl/inlines.h.  They drop zeros above the magnitude of     *)
(* their operands as they go: Compared is what zcmpmag leaves.              *)

Compared(s, a, b) ==
  IF s[a].sign = 0 \/ s[b].sign = 0 THEN s
  ELSE [s EXCEPT ![a] = TrimTo(@, s[b].used), ![b] = TrimTo(@, s[a].used)]

\* Mutant: the code the TODO in zcmpmag proposes, .used decides.
ZCmpMag_ByUsed(s, a, b) ==
  LET x == s[a]  y == s[b]
      differ == {i \in 0 .. x.used - 1 : x.chars[i] # y.chars[i]}
  IN CASE x.sign = 0 -> IF y.sign = 0 THEN 0 ELSE -1
       [] x.sign # 0 /\ y.sign = 0 -> 1
       [] x.sign # 0 /\ y.sign # 0 /\ x.used # y.used -> Sign(x.used - y.used)
       [] OTHER -> IF differ = {} THEN 0
                   ELSE Sign(x.chars[Max(differ)] - y.chars[Max(differ)])

ZCmpMag(s, a, b) ==
  LET t == Compared(s, a, b)  x == t[a]  y == t[b]
      differ == {i \in 0 .. x.used - 1 : x.chars[i] # y.chars[i]}
  IN CASE x.sign = 0 -> IF y.sign = 0 THEN 0 ELSE -1
       [] x.sign # 0 /\ y.sign = 0 -> 1
       [] x.sign # 0 /\ y.sign # 0 /\ x.used # y.used -> Sign(x.used - y.used)
       [] OTHER -> IF differ = {} THEN 0
                   ELSE Sign(x.chars[Max(differ)] - y.chars[Max(differ)])

ZCmp(s, a, b) ==
  IF s[a].sign # s[b].sign THEN Sign(s[a].sign - s[b].sign)
                           ELSE s[a].sign * ZCmpMag(s, a, b)
ComparedSigned(s, a, b) == IF s[a].sign # s[b].sign THEN s ELSE Compared(s, a, b)

\* A trimmed magnitude against one character.
AgainstChar(r, char) == IF r.used > 1 THEN 1 ELSE Sign(r.chars[0] - char)

ZCmpU(s, a, n) ==
  CASE n = 0 -> s[a].sign
    [] n # 0 /\ s[a].sign <= 0 -> -1
    [] OTHER -> AgainstChar(Trim(s[a]), n)
ComparedU(s, a, n) == IF n = 0 \/ s[a].sign <= 0 THEN s ELSE [s EXCEPT ![a] = Trim(@)]

ZCmpI(s, a, n) ==
  CASE n = 0 -> s[a].sign
    [] n # 0 /\ s[a].sign = 0 -> -Sign(n)
    [] n < 0 /\ s[a].sign > 0 -> 1
    [] n < 0 /\ s[a].sign < 0 -> -AgainstChar(Trim(s[a]), (-n) % Base)
    [] n > 0 /\ s[a].sign < 0 -> -1
    [] n > 0 /\ s[a].sign > 0 -> AgainstChar(Trim(s[a]), n)
ComparedI(s, a, n) ==
  IF n # 0 /\ s[a].sign = Sign(n) THEN [s EXCEPT ![a] = Trim(@)] ELSE s

\* zbits counts bits, zlsb finds the lowest one, zbtest looks at one.
ZBits(s, a) ==
  LET r == Trim(s[a])
  IN IF r.sign = 0 THEN 1
     ELSE (r.used - 1) * Bits + Max(OnesIn(r.chars[r.used - 1], Bits)) + 1
Counted(s, a) == IF s[a].sign = 0 THEN s ELSE [s EXCEPT ![a] = Trim(@)]

\* ZAHL_ADD_CTZ is a builtin of GCC and Clang, and a loop in C for other compilers.
\* The builtin counts the zeros below the lowest one; the loop counts ones.
SizeMax == -1
Builds  == {"builtin", "C"}
AddCtz(build, x) ==
  IF build = "builtin" THEN Min(OnesIn(x, Bits)) ELSE Min((0 .. Bits) \ OnesIn(x, Bits))
ZLsb(s, a, build) ==
  LET i == Min({k \in Index : s[a].chars[k] # 0})
  IN IF s[a].sign = 0 THEN SizeMax ELSE i * Bits + AddCtz(build, s[a].chars[i])

ZBTest(s, a, bit) ==
  LET chars == bit \div Bits
  IN IF s[a].sign = 0 \/ chars >= s[a].used THEN 0
     ELSE (s[a].chars[chars] \div Power(2, bit % Bits)) % 2

------------------------------------------------------------------------------
(* Addition, src/zadd.c.                                                    *)

\* The loop of zadd_impl_4 over n characters, into d, and the carry into each turn.
Carries(x, y) ==
  LET carry[i \in 0 .. Room] ==
        IF i = 0 THEN 0 ELSE Plus(x[i - 1], y[i - 1], carry[i - 1]).carry
  IN carry
AddChars(d, x, y, n) ==
  [i \in Index |-> IF i < n THEN Plus(x[i], y[i], Carries(x, y)[i]).digit ELSE d[i]]

\* The loop that carries on above the n characters, and where it stops.
CarryStops(d, n) == Min({i \in Index : i >= n /\ d[i] # Base - 1})
Carried(d, n) ==
  LET stop == CarryStops(d, n)
  IN [i \in Index |-> IF i \in n .. stop - 1 THEN 0
                      ELSE IF i = stop THEN Plus(d[i], 1, 0).digit ELSE d[i]]

ZAddImpl(s, a, b, c, n) ==
  LET sum   == AddChars(s[a].chars, s[b].chars, s[c].chars, n)
      carry == Carries(s[b].chars, s[c].chars)[n] = 1
      last  == IF carry THEN CarryStops(sum, n) + 1 ELSE n
  IN [s EXCEPT ![a].chars = IF carry THEN Carried(sum, n) ELSE sum,
               ![a].used  = Largest(@, last)]

\* Mutant: the character for the carry is not cleared.
RoomForCarry_NotCleared(s, a, size) == [s EXCEPT ![a] = Ensure(s[a], size + 1)]

\* The character above both operands takes the last carry.
RoomForCarry(s, a, size) ==
  [s EXCEPT ![a] = LET r == Ensure(s[a], size + 1) IN [r EXCEPT !.chars[size] = 0]]

\* a += b, where a is extended with zeros if it is the shorter one.
AddInto(s, a, b) ==
  LET n == Smallest(s[a].used, s[b].used)
      extended == [s EXCEPT ![a].chars = MemZero(@, s[a].used, s[b].used - s[a].used)]
  IN IF s[a].used < s[b].used THEN ZAddImpl(extended, a, a, b, s[b].used)
                              ELSE ZAddImpl(s, a, a, b, n)

\* a gets long + short: what long has above short is copied, the rest is added.
AddTo(s, a, long, short, size) ==
  LET n == s[short].used
      copied == [s EXCEPT ![a].chars = MemCpy(@, n, s[long].chars, n, size - n),
                          ![a].used  = size]
  IN ZAddImpl(copied, a, long, short, n)

ZAddUnsigned(s, a, b, c) ==
  LET size == Largest(s[b].used, s[c].used)
      t    == RoomForCarry(s, a, size)
  IN CASE s[b].sign = 0 -> ZAbs(s, a, c)
       [] s[b].sign # 0 /\ s[c].sign = 0 -> ZAbs(s, a, b)
       [] OTHER ->
            SetSign(CASE a = b -> AddInto(t, a, c)
                      [] a # b /\ a = c -> AddInto(t, a, b)
                      [] OTHER -> IF s[b].used > s[c].used THEN AddTo(t, a, b, c, size)
                                                           ELSE AddTo(t, a, c, b, size),
                    a, 1)

ZAddUnsignedAssign(s, a, b) ==
  CASE s[a].sign = 0 -> ZAbs(s, a, b)
    [] s[a].sign # 0 /\ s[b].sign = 0 -> s
    [] OTHER -> SetSign(AddInto(RoomForCarry(s, a, Largest(s[a].used, s[b].used)), a, b), a, 1)

------------------------------------------------------------------------------
(* Subtraction, src/zsub.c.                                                 *)

\* The loop of zsub_impl over n characters of x, and the borrow into each turn.
Borrows(x, y) ==
  LET borrow[i \in 0 .. Room] ==
        IF i = 0 THEN 0 ELSE Minus(x[i - 1], y[i - 1], borrow[i - 1]).borrow
  IN borrow
SubChars(x, y, n) ==
  [i \in Index |-> IF i < n THEN Minus(x[i], y[i], Borrows(x, y)[i]).digit ELSE x[i]]

BorrowStops(d, n) == Min({i \in Index : i >= n /\ d[i] # 0})

\* The end of zsub_impl: a one the borrow comes to is taken off the top.
Borrowed(r, n) ==
  LET i == BorrowStops(r.chars, n)
      below == [k \in Index |-> IF k \in n .. i - 1 THEN Base - 1 ELSE r.chars[k]]
  IN IF r.chars[i] = 1 THEN [r EXCEPT !.chars = below, !.used = @ - 1]
                       ELSE [r EXCEPT !.chars = [below EXCEPT ![i] = Minus(@, 1, 0).digit]]

ZSubImpl(s, a, b, n) ==
  LET r == [s[a] EXCEPT !.chars = SubChars(@, s[b].chars, n)]
  IN [s EXCEPT ![a] = IF Borrows(s[a].chars, s[b].chars)[n] = 1 THEN Borrowed(r, n) ELSE r]

\* Mutant: the subtrahend is overwritten before it is used.
SubFrom_NotSaved(s, a, big, small) ==
  ZSubImpl(SetUnlessSame(s, a, big), a, small, s[small].used)

\* a gets the magnitude of big less that of small, which may be in a.
SubFrom(s, a, big, small) ==
  LET n == s[small].used
      saved == ZSet(s, "tmp_sub", small)
  IN IF a = small THEN ZSubImpl(SetUnlessSame(saved, a, big), a, "tmp_sub", n)
                  ELSE ZSubImpl(SetUnlessSame(s, a, big), a, small, n)

ZSubUnsigned(s, a, b, c) ==
  LET t == Compared(s, b, c)
      magcmp == ZCmpMag(s, b, c)
  IN CASE s[b].sign = 0 -> Negated(ZAbs(s, a, c), a)
       [] s[b].sign # 0 /\ s[c].sign = 0 -> ZAbs(s, a, b)
       [] OTHER -> CASE magcmp = 0 -> SetSign(t, a, 0)
                     [] magcmp < 0 -> SetSign(SubFrom(t, a, c, b), a, -1)
                     [] magcmp > 0 -> SetSign(SubFrom(t, a, b, c), a, 1)

ZSubNonnegativeAssign(s, a, b) ==
  CASE s[b].sign = 0 -> ZAbs(s, a, a)
    [] s[b].sign # 0 /\ ZCmpMag(s, a, b) = 0 -> SetSign(Compared(s, a, b), a, 0)
    [] OTHER -> LET t == Compared(s, a, b) IN ZSubImpl(t, a, b, t[b].used)

ZSubPositiveAssign(s, a, b) == ZSubImpl(s, a, b, s[b].used)

------------------------------------------------------------------------------
(* The signs: zadd and zsub.                                                *)

ZAdd(s, a, b, c) ==
  CASE s[b].sign = 0 -> SetUnlessSame(s, a, c)
    [] s[b].sign # 0 /\ s[c].sign = 0 -> SetUnlessSame(s, a, b)
    [] s[b].sign < 0 /\ s[c].sign < 0 -> Negated(ZAddUnsigned(s, a, b, c), a)
    [] s[b].sign < 0 /\ s[c].sign > 0 -> ZSubUnsigned(s, a, c, b)
    [] s[b].sign > 0 /\ s[c].sign < 0 -> ZSubUnsigned(s, a, b, c)
    [] s[b].sign > 0 /\ s[c].sign > 0 -> ZAddUnsigned(s, a, b, c)

ZSub(s, a, b, c) ==
  CASE s[b].sign = 0 -> ZNeg(s, a, c)
    [] s[b].sign # 0 /\ s[c].sign = 0 -> SetUnlessSame(s, a, b)
    [] s[b].sign < 0 /\ s[c].sign < 0 -> ZSubUnsigned(s, a, c, b)
    [] s[b].sign < 0 /\ s[c].sign > 0 -> Negated(ZAddUnsigned(s, a, b, c), a)
    [] s[b].sign > 0 /\ s[c].sign < 0 -> ZAddUnsigned(s, a, b, c)
    [] s[b].sign > 0 /\ s[c].sign > 0 -> ZSubUnsigned(s, a, b, c)
==============================================================================
