------------------------------ MODULE ZahlBitwise ------------------------------
(***************************************************************************)
(* Shifts (src/zlsh.c, src/zrsh.c, src/ztrunc.c, zsplit) and the bitwise   *)
(* operations (src/zand.c, src/zor.c, src/zxor.c, src/znot.c,              *)
(* src/zbset.c), character by character, in the manner of ZahlArithmetic.  *)
(***************************************************************************)
EXTENDS ZahlArithmetic

------------------------------------------------------------------------------
(* Shifts.                                                                  *)

\* The loop of zlsh over the characters from .. used - 1, with its last carry.
ShiftedUp(r, from, bits) ==
  LET top == r.chars[r.used - 1] \div Power(2, Bits - bits)
      carry(i) == IF i = from THEN 0 ELSE r.chars[i - 1] \div Power(2, Bits - bits)
      up == [i \in Index |-> IF i \in from .. r.used - 1
                             THEN ((r.chars[i] * Power(2, bits)) % Base) + carry(i)
                             ELSE r.chars[i]]
  IN IF top = 0 THEN [r EXCEPT !.chars = up]
                ELSE [r EXCEPT !.chars = [up EXCEPT ![r.used] = top], !.used = @ + 1]

ZLsh(s, a, b, n) ==
  LET chars == n \div Bits
      bits  == n % Bits
      t     == [s EXCEPT ![a] = Ensure(@, s[b].used + chars + 1)]
      moved == IF a = b THEN MemMoveB(t[a].chars, chars, t[b].used)
                        ELSE MemCpy(t[a].chars, chars, t[b].chars, 0, t[b].used)
      r == [t[a] EXCEPT !.chars = MemZeroPrecise(moved, chars), !.used = t[b].used + chars]
  IN IF s[b].sign = 0 THEN SetSign(s, a, 0)
     ELSE SetSign([t EXCEPT ![a] = IF bits = 0 THEN r ELSE ShiftedUp(r, chars, bits)],
                  a, s[b].sign)

\* The loop of zrsh over all characters.
ShiftedDown(r, bits) ==
  LET above(i) == IF i + 1 < r.used THEN r.chars[i + 1] ELSE 0
  IN [r EXCEPT !.chars = [i \in Index |->
        IF i < r.used THEN (r.chars[i] \div Power(2, bits)) + ((above(i) * Power(2, Bits - bits)) % Base)
                      ELSE r.chars[i]]]

ZRsh(s, a, b, n) ==
  LET chars == n \div Bits
      bits  == n % Bits
      t == IF s[b].sign = 0 \/ chars >= s[b].used THEN s ELSE Counted(s, b)
      used == t[b].used - chars
      r == CASE a = b /\ chars = 0 -> t[a]
             [] a = b /\ chars # 0 ->
                  [t[a] EXCEPT !.used = used, !.chars = MemMoveF(@, chars, used)]
             [] a # b ->
                  LET fit == Ensure([t[a] EXCEPT !.used = used], used)
                  IN [fit EXCEPT !.chars = MemCpy(@, 0, t[b].chars, chars, used)]
  IN CASE n = 0 -> SetUnlessSame(s, a, b)
       [] n # 0 /\ (s[b].sign = 0 \/ chars >= s[b].used \/ ZBits(s, b) <= n) ->
            SetSign(t, a, 0)
       [] OTHER -> SetSign([t EXCEPT ![a] = IF bits = 0 THEN r ELSE Trim(ShiftedDown(r, bits))],
                           a, s[b].sign)

\* ztrunc cuts the last character only if it is there.
ZTrunc(s, a, b, n) ==
  LET chars == (n + Bits - 1) \div Bits
      used  == Smallest(chars, s[b].used)
      bits  == IF used < chars THEN 0 ELSE n % Bits
      fit   == Ensure([s[a] EXCEPT !.used = used, !.sign = s[b].sign], used)
      r     == IF a = b THEN [s[a] EXCEPT !.used = used]
                        ELSE [fit EXCEPT !.chars = MemCpy(@, 0, s[b].chars, 0, used)]
      cut   == IF bits = 0 THEN r ELSE [r EXCEPT !.chars[used - 1] = @ % Power(2, bits)]
  IN IF s[b].sign = 0 THEN SetSign(s, a, 0) ELSE [s EXCEPT ![a] = TrimAndZero(cut)]

\* zsplit starts with the part that is not stored over its source.
ZSplit(s, high, low, a, n) ==
  IF high = a THEN ZRsh(ZTrunc(s, low, a, n), high, a, n)
              ELSE ZTrunc(ZRsh(s, high, a, n), low, a, n)

------------------------------------------------------------------------------
(* Bitwise operations on magnitudes.                                        *)

ZAnd(s, a, b, c) ==
  LET used == Smallest(s[b].used, s[c].used)
      r    == [s[a] EXCEPT !.used = used]
      fit  == IF a \in {b, c} THEN r ELSE Ensure(r, used)
      both == [fit EXCEPT !.chars = ZMem2Op(AndDigit, @, s[b].chars, s[c].chars, used)]
      sign == IF s[b].sign > 0 \/ s[c].sign > 0 THEN 1 ELSE -1
  IN IF s[b].sign = 0 \/ s[c].sign = 0 THEN SetSign(s, a, 0)
     ELSE [s EXCEPT ![a] = TrimAndSign(both, sign)]

\* Mutant: in place, the loop runs on to the end of its group.
Merged_NotPrecise(f, s, a, b, c) ==
  LET n    == Smallest(s[b].used, s[c].used)
      m    == Largest(s[b].used, s[c].used)
      t    == [s EXCEPT ![a] = Ensure(@, m)]
      long == IF s[b].used = m THEN b ELSE c
      both == ZMem2Op(f, t[a].chars, t[b].chars, t[c].chars, n)
      all  == IF a = long THEN both ELSE MemCpy(both, n, t[long].chars, n, m - n)
  IN [t EXCEPT ![a] = [@ EXCEPT !.chars = all, !.used = m]]

\* Mutant: room for the characters both have is thought to be enough.
Merged_LessRoom(f, s, a, b, c) ==
  LET n    == Smallest(s[b].used, s[c].used)
      m    == Largest(s[b].used, s[c].used)
      t    == [s EXCEPT ![a] = Ensure(@, n)]
      long == IF s[b].used = m THEN b ELSE c
      both == IF a \in {b, c} THEN ZMem2OpPrecise(f, t[a].chars, t[b].chars, t[c].chars, n)
                              ELSE ZMem2Op(f, t[a].chars, t[b].chars, t[c].chars, n)
      all  == IF a = long THEN both ELSE MemCpy(both, n, t[long].chars, n, m - n)
  IN [t EXCEPT ![a] = [@ EXCEPT !.chars = all, !.used = m]]

\* What zor and zxor share: f on the characters both have, then those only the
\* longer one has.  In place the loop must leave the characters above alone.
Merged(f, s, a, b, c) ==
  LET n    == Smallest(s[b].used, s[c].used)
      m    == Largest(s[b].used, s[c].used)
      t    == [s EXCEPT ![a] = Ensure(@, m)]
      long == IF s[b].used = m THEN b ELSE c
      both == IF a \in {b, c} THEN ZMem2OpPrecise(f, t[a].chars, t[b].chars, t[c].chars, n)
                              ELSE ZMem2Op(f, t[a].chars, t[b].chars, t[c].chars, n)
      all  == IF a = long THEN both ELSE MemCpy(both, n, t[long].chars, n, m - n)
  IN [t EXCEPT ![a] = [@ EXCEPT !.chars = all, !.used = m]]

ZOr(s, a, b, c) ==
  CASE s[b].sign = 0 -> SetUnlessSame(s, a, c)
    [] s[b].sign # 0 /\ s[c].sign = 0 -> SetUnlessSame(s, a, b)
    [] OTHER -> SetSign(Merged(OrDigit, s, a, b, c), a,
                        IF s[b].sign > 0 /\ s[c].sign > 0 THEN 1 ELSE -1)

ZXor(s, a, b, c) ==
  CASE s[b].sign = 0 -> SetUnlessSame(s, a, c)
    [] s[b].sign # 0 /\ s[c].sign = 0 -> SetUnlessSame(s, a, b)
    [] OTHER -> [s EXCEPT ![a] = TrimAndSign(Merged(XorDigit, s, a, b, c)[a],
                                             IF s[b].sign # s[c].sign THEN -1 ELSE 1)]

\* znot makes no room for the result.
ZNot(s, a, b) ==
  LET t    == Counted(s, b)
      bits == ZBits(s, b) % Bits
      used == t[b].used
      d    == ZMemNot(t[a].chars, t[b].chars, used)
      cut  == IF bits = 0 THEN d
              ELSE [d EXCEPT ![used - 1] = Digitwise(AndDigit, @, Power(2, bits) - 1)]
  IN IF s[b].sign = 0 THEN SetSign(s, a, 0)
     ELSE [t EXCEPT ![a] = TrimAndZero([@ EXCEPT !.chars = cut, !.used = used,
                                                 !.sign = -s[b].sign])]

------------------------------------------------------------------------------
(* One bit: zbset of zahl/inlines.h and the three routines behind it.       *)

SetBit   == 1
ClearBit == 0
FlipBit  == -1

\* Mutant: the .used of zero is taken for real.
Extended_KeepsUsed(r, chars) ==
  LET nonzero == IF r.sign = 0 THEN [r EXCEPT !.sign = 1] ELSE r
      fit     == Ensure(nonzero, chars + 1)
  IN IF chars < nonzero.used THEN nonzero
     ELSE [fit EXCEPT !.chars = MemZero(@, fit.used, chars + 1 - fit.used),
                      !.used  = chars + 1]

\* PROLOGUE(1): a is extended with zeros up to the character of the bit.
Extended(r, chars) ==
  LET nonzero == IF r.sign = 0 THEN [r EXCEPT !.used = 0, !.sign = 1] ELSE r
      fit     == Ensure(nonzero, chars + 1)
  IN IF chars < nonzero.used THEN nonzero
     ELSE [fit EXCEPT !.chars = MemZero(@, fit.used, chars + 1 - fit.used),
                      !.used  = chars + 1]

OnBit(f, r, bit, mask) == [r EXCEPT !.chars[bit \div Bits] = Digitwise(f, @, mask)]
Bit(bit)   == Power(2, bit % Bits)
Others(bit) == Base - 1 - Bit(bit)

ZBSetLLSet(r, bit)  == OnBit(OrDigit, Extended(r, bit \div Bits), bit, Bit(bit))
ZBSetLLFlip(r, bit) ==
  TrimAndZero(OnBit(XorDigit, Extended(r, bit \div Bits), bit, Bit(bit)))
ZBSetLLClear(r, bit) ==
  IF bit \div Bits >= r.used THEN r ELSE TrimAndZero(OnBit(AndDigit, r, bit, Others(bit)))

\* With action and bit known to the compiler the work is done in line.
BSetInLine(r, bit, action) ==
  CASE action = SetBit   -> OnBit(OrDigit, r, bit, Bit(bit))
    [] action = FlipBit  -> TrimAndZero(OnBit(XorDigit, r, bit, Bit(bit)))
    [] action = ClearBit -> TrimAndZero(OnBit(AndDigit, r, bit, Others(bit)))

ZBSet(s, a, b, bit, action, constant) ==
  LET t == SetUnlessSame(s, a, b)
      outside == t[a].sign = 0 \/ bit \div Bits >= t[a].used
      called == CASE action = SetBit   -> ZBSetLLSet(t[a], bit)
                  [] action = FlipBit  -> ZBSetLLFlip(t[a], bit)
                  [] action = ClearBit -> ZBSetLLClear(t[a], bit)
  IN CASE constant /\ ~outside -> [t EXCEPT ![a] = BSetInLine(@, bit, action)]
       [] constant /\ outside /\ action = ClearBit -> t
       [] OTHER -> [t EXCEPT ![a] = called]
==============================================================================
