------------------------------ MODULE ZahlMarshal ------------------------------
(***************************************************************************)
(* zsave (zahl/inlines.h) and zload (zload.c), in the manner of            *)
(* ZahlArithmetic.  What is saved is the sign, the number of characters    *)
(* and, if there is a magnitude, its characters in whole groups.           *)
(***************************************************************************)
EXTENDS ZahlArithmetic

\* What zsave and zload return, but for the sign and the number.
SavedSize(r) == IF r.sign = 0 THEN 0 ELSE Chunks(r.used)

\* Mutant: as many characters as there are, not whole groups.
NewBuffer_Used(r) == [i \in Index |-> IF i < r.used /\ r.sign # 0 THEN Stale ELSE Foreign]

\* The client's buffer: as long as zsave(a, 0) says.
NewBuffer(r) == [i \in Index |-> IF i < SavedSize(r) THEN Stale ELSE Foreign]

\* The characters that fill the last group are cleared before they are saved.
Padded(r) ==
  IF r.sign = 0 THEN r
  ELSE [r EXCEPT !.chars = [i \in Index |-> IF i \in r.used .. r.used + Fluff - 2 THEN 0 ELSE @[i]]]

Saved(r) ==
  [sign |-> r.sign, used |-> r.used,
   chars |-> IF r.sign = 0 THEN NewBuffer(r)
                           ELSE MemCpy(NewBuffer(r), 0, Padded(r).chars, 0, r.used)]

ZSave(s, a) == [s EXCEPT ![a] = Padded(@)]

ZLoad(s, a, buf) ==
  LET r == [s[a] EXCEPT !.sign = buf.sign, !.used = buf.used]
      fit == Ensure(r, buf.used)
  IN [s EXCEPT ![a] = IF buf.sign = 0 THEN r
                      ELSE [fit EXCEPT !.chars = MemCpy(@, 0, buf.chars, 0, buf.used)]]
==============================================================================
