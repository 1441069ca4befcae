------------------------------ MODULE ZahlStrings ------------------------------
(***************************************************************************)
(* Integers as strings: zstr (zstr.c), zsets (zsets.c), zstr_length        *)
(* (zstr_length.c); and the words for an error (zerror.c, zperror.c).      *)
(*                                                                         *)
(* Integers are values, and products what zmul and zsqr store (ZMul and    *)
(* ZSqr: ZahlKaratsuba when it is run, anything where it is proved about). *)
(* A string is its characters at their addresses, for zstr puts its groups *)
(* of digits where it guesses they will be and moves them down when it     *)
(* knows.                                                                  *)
(*                                                                         *)
(* A behaviour is one call, and what the client does with its error.       *)
(***************************************************************************)
EXTENDS Integers, Sequences, FiniteSetsExt

CONSTANTS Printed,    \* the integers given to zstr
          Measured,   \* the integers given to zstr_length
          Parsed,     \* the strings given to zsets
          Radices,    \* the radices given to zstr_length
          Radix,      \* of the strings (10 in the code)
          Digits,     \* digits in a group: their power of the radix is the largest
                      \* that is a character (19)
          RadixPower, \* the powers of the radix up to that one
          CharBase,   \* ZAHL_CHAR_MAX + 1
          Spare,      \* how much longer a buffer is than it has to be, its bound
          Room,       \* addresses in the model, its bound
          ZMul(_, _), ZSqr(_)   \* the magnitudes zmul_ll and zsqr_ll may store

\* One character may have a digit more than a group, but two do not have two more:
\* 10^19 < 2^64 < 10^20 and 2^128 < 10^39.
ASSUME StringsAssumption ==
  /\ Radix \in Nat \ {0, 1} /\ Digits \in Nat \ {0} /\ CharBase \in Nat
  /\ RadixPower \in [0 .. Digits -> Nat] /\ RadixPower[0] = 1
  /\ \A k \in 1 .. Digits : RadixPower[k] = Radix * RadixPower[k - 1]
  /\ RadixPower[Digits] <= CharBase /\ CharBase <= Radix * RadixPower[Digits]
  /\ CharBase * CharBase <= Radix * (RadixPower[Digits] * RadixPower[Digits])
  /\ Printed \subseteq Int /\ Measured \subseteq Int /\ Radices \subseteq Nat
  /\ \A s \in Parsed : s \in Seq(Int)
  /\ Spare \in Nat /\ Room \in Nat

\* The characters other than digits: signs, anything else, the end, what malloc
\* left, and what is not in the buffer.
Minus == -1  Plus == -2  Other == -3  Nul == -4  Junk == -5  Outside == -6

VARIABLES call, pc,   \* the routine with its parameters, and where it is
          result,     \* how the call ended
          error,      \* libzahl_error
          num,        \* libzahl_tmp_str_num
          str, size,  \* the buffer of zstr and how long it is
          b, n, last, tot, overridden,
          mag, div, sizeTemp, sizeTotal,
          a, at,      \* the integer zsets stores, and where in the string it is
          lost        \* whether zmul_ll or zsqr_ll got a product wrong

vars == <<call, pc, result, error, num, str, size, b, n, last, tot, overridden,
          mag, div, sizeTemp, sizeTotal, a, at, lost>>
printing  == <<str, size, b, n, last, tot, overridden>>
measuring == <<mag, div, sizeTemp, sizeTotal>>
parsing   == <<a, at>>

Mag(v)  == IF v < 0 THEN -v ELSE v
Neg(v)  == IF v < 0 THEN 1 ELSE 0
PowerOfRadix == RadixPower[Digits]    \* libzahl_const_1e19

\* A magnitude in a radix.
Numeral(v, radix) ==
  LET f[w \in 0 .. v] == IF w < radix THEN <<w>> ELSE Append(f[w \div radix], w % radix)
  IN f[v]
Decimal(v) == (IF v < 0 THEN <<Minus>> ELSE <<>>) \o Numeral(Mag(v), Radix)

\* The number that the characters of s after one up to another are the digits of.
Number(s, from, to) ==
  LET f[i \in from .. to] == IF i = from THEN 0 ELSE f[i - 1] * Radix + s[i]
  IN f[to]

Larger(x, y)  == IF x < y THEN y ELSE x
Chars(v)      == IF v = 0 THEN 0 ELSE Len(Numeral(Mag(v), CharBase))

------------------------------------------------------------------------------
(* The calls.                                                               *)

\* The length zstr reckons with if it is given none.
Guess(used) == (Digits + 1) * used

\* The model has the addresses zstr may write to, and one more.
ASSUME RoomAssumption ==
  \A v \in Printed : /\ Guess(Chars(v) + 1) + 2 <= Room
                     /\ Len(Decimal(v)) + Spare + 2 <= Room

\* n is none or at least the length of the string, and there may be a zero above the
\* magnitude.  A buffer has the room n promises, or what zstr would allot.
Prints(v) ==
  {[routine |-> "zstr", v |-> v, used |-> Chars(v) + zeros, n |-> k, given |-> given] :
     zeros \in {0, 1}, given \in BOOLEAN,
     k \in {0} \cup (Len(Decimal(v)) .. Len(Decimal(v)) + Spare)}

\* The last one stands for the routines of the other modules.
Calls ==
  (UNION {Prints(v) : v \in Printed})
    \cup [routine : {"zstr_length"}, v : Measured, radix : Radices]
    \cup [routine : {"zsets"}, v : {7}, string : Parsed]
    \cup [routine : {"another"}, raises : {"0_POW_0", "0_DIV_0", "DIV_0", "NEGATIVE", "errno"}]

Fresh(k) == [i \in 0 .. Room - 1 |-> IF i < k THEN Junk ELSE Outside]
Reckoned == IF call.n = 0 THEN Guess(call.used) ELSE call.n

Init ==
  /\ call \in Calls /\ pc = call.routine
  /\ result = "none" /\ error = "none"
  /\ size = IF call.routine = "zstr" /\ call.given THEN Larger(2, Reckoned + 1) ELSE 0
  /\ str = Fresh(size)
  /\ b = 0 /\ n = 0 /\ last = 0 /\ tot = 0 /\ overridden = Nul
  /\ num = 0 /\ mag = 0 /\ div = 0 /\ sizeTemp = 0 /\ sizeTotal = 0
  /\ a = IF call.routine = "zsets" THEN call.v ELSE 0
  /\ at = 0 /\ lost = FALSE

Goto(l)   == pc' = l /\ UNCHANGED <<call, result, error, lost>>
Return(v) == pc' = "returned" /\ result' = v /\ UNCHANGED <<call, error, lost>>

\* The product of x and y is stored as p.
Stored(p, x, y) == lost' = (lost \/ p # x * y) /\ UNCHANGED <<call, result, error>>

\* libzahl_failure.
Fail(code) == /\ pc' = "failed" /\ error' = code
              /\ UNCHANGED <<call, result, lost, num, printing, measuring, parsing>>

Another == pc = "another" /\ Fail(call.raises)

------------------------------------------------------------------------------
(* zstr.                                                                    *)

\* Characters stored from an address on.
Store(t, addr, chars) ==
  [i \in DOMAIN t |-> IF i - addr + 1 \in DOMAIN chars THEN chars[i - addr + 1] ELSE t[i]]
\* memmove.
Move(t, to, from, k) ==
  [i \in DOMAIN t |-> IF i \in to .. to + k - 1 THEN t[from + i - to] ELSE t[i]]

\* sprintint_fix and sprintint_min.
Fix(v)   == [i \in 1 .. Digits |-> (v \div RadixPower[Digits - i]) % Radix]
Short(v) == Numeral(v, Radix)

PrintZero ==
  /\ pc = "zstr" /\ call.v = 0
  /\ LET k == IF call.given THEN size ELSE 2
     IN size' = k /\ str' = Store(IF call.given THEN str ELSE Fresh(2), 0, <<0, Nul>>)
  /\ Return("ok") /\ UNCHANGED <<num, b, n, last, tot, overridden, measuring, parsing>>

\* Mutant: no room for the end of the string is allotted.
Allotted_NoEnd == IF call.given THEN size ELSE Reckoned

Allotted == IF call.given THEN size ELSE Reckoned + 1

\* Where the next group goes: to the left of the last one if there is room.
NextGroup(k) == last' = k /\ n' = IF k > Digits THEN k - Digits ELSE 0

Begin ==
  /\ pc = "zstr" /\ call.v # 0
  /\ size' = Allotted
  /\ num' = Mag(call.v)
  /\ str' = Store(IF call.given THEN str ELSE Fresh(Allotted), 0, <<Minus>>)
  /\ b' = Neg(call.v)
  /\ NextGroup(Reckoned - Neg(call.v))
  /\ tot' = 0 /\ overridden' = Nul
  /\ Goto("group") /\ UNCHANGED <<measuring, parsing>>

\* All groups but the first have all their digits.  The end that sprintint_fix puts
\* after them is replaced by the digit of the group to the right that was there.
Group ==
  /\ pc = "group" /\ num \div PowerOfRadix # 0
  /\ num' = num \div PowerOfRadix
  /\ str' = Store(str, b + n, Fix(num % PowerOfRadix) \o <<overridden>>)
  /\ overridden' = str'[b + n]
  /\ NextGroup(n)
  /\ tot' = tot + Digits
  /\ Goto("group") /\ UNCHANGED <<size, b, measuring, parsing>>

\* Mutant: the groups are moved without the end.
FirstGroup_NoEnd ==
  /\ pc = "group" /\ num \div PowerOfRadix = 0
  /\ num' = 0
  /\ LET chars == Short(num % PowerOfRadix)
     IN str' = IF tot = 0 THEN Store(str, b, chars \o <<Nul>>)
               ELSE Move(Store(str, b, chars), b + Len(chars), b + last, tot)
  /\ Return("ok") /\ UNCHANGED <<size, b, n, last, tot, overridden, measuring, parsing>>

\* The first digits, and the groups moved up to them with the end.
FirstGroup ==
  /\ pc = "group" /\ num \div PowerOfRadix = 0
  /\ num' = 0
  /\ LET chars == Short(num % PowerOfRadix)
     IN str' = IF tot = 0 THEN Store(str, b, chars \o <<Nul>>)
               ELSE Move(Store(str, b, chars), b + Len(chars), b + last, tot + 1)
  /\ Return("ok") /\ UNCHANGED <<size, b, n, last, tot, overridden, measuring, parsing>>

------------------------------------------------------------------------------
(* zstr_length.                                                             *)

Measure ==
  /\ pc = "zstr_length"
  /\ IF call.radix < 2 THEN Fail("INVALID_RADIX")
     ELSE /\ num' = Mag(call.v) /\ sizeTotal' = 1
          /\ Goto("length") /\ UNCHANGED <<printing, mag, div, sizeTemp, parsing>>

Radical ==
  /\ pc = "length" /\ num # 0
  /\ mag' = call.radix /\ div' = call.radix /\ sizeTemp' = 1
  /\ Goto("square") /\ UNCHANGED <<num, printing, sizeTotal, parsing>>

Square ==
  /\ pc = "square" /\ mag <= num
  /\ \E p \in ZSqr(mag) : mag' = p /\ Stored(p, mag, mag)
  /\ div' = mag /\ sizeTemp' = 2 * sizeTemp
  /\ UNCHANGED <<pc, num, printing, sizeTotal, parsing>>

Cut ==
  /\ pc = "square" /\ mag > num
  /\ sizeTotal' = sizeTotal + sizeTemp \div 2
  /\ num' = num \div div
  /\ Goto("length") /\ UNCHANGED <<printing, mag, div, sizeTemp, parsing>>

EndMeasure ==
  /\ pc = "length" /\ num = 0
  /\ sizeTotal' = sizeTotal + Neg(call.v)
  /\ Return("ok") /\ UNCHANGED <<num, printing, mag, div, sizeTemp, parsing>>

------------------------------------------------------------------------------
(* zsets.                                                                   *)

S == call.string
Signed == S # <<>> /\ S[1] \in {Minus, Plus}
Start  == IF Signed THEN 1 ELSE 0        \* characters before the digits

\* Everything is looked at before anything is stored.
Parse ==
  /\ pc = "zsets"
  /\ IF Len(S) = Start \/ \E i \in Start + 1 .. Len(S) : S[i] \notin 0 .. Radix - 1
     THEN Return("EINVAL") /\ UNCHANGED <<num, printing, measuring, parsing>>
     ELSE a' = 0 /\ at' = Start /\ Goto("digits") /\ UNCHANGED <<num, printing, measuring>>

\* The case the switch jumps to, past the multiplication: the digits there are
\* beyond whole groups, or a whole one.
FirstCase == LET k == (Len(S) - Start) % Digits IN IF k = 0 THEN Digits ELSE k

\* From case k on down to the last, and zadd.
Take(k, before) ==
  /\ a' = before + Number(S, at, at + k)
  /\ at' = at + k
  /\ UNCHANGED <<num, printing, measuring>>

FirstDigits ==
  /\ pc = "digits" /\ at = Start
  /\ Take(FirstCase, a)
  /\ Goto("digits")

NextDigits ==
  /\ pc = "digits" /\ at # Start /\ at < Len(S)
  /\ \E p \in ZMul(a, PowerOfRadix) : Take(Digits, p) /\ Stored(p, a, PowerOfRadix)
  /\ UNCHANGED pc

SetSign ==
  /\ pc = "digits" /\ at = Len(S)
  /\ a' = IF S[1] = Minus THEN -a ELSE a
  /\ Return("ok") /\ UNCHANGED <<num, printing, measuring, at>>

\* An integer or the buffer needs memory, and there is none.
MemoryFails ==
  /\ \/ pc \in {"group", "length", "square", "digits"}
     \/ pc = "zstr" /\ ~call.given
  /\ Fail("errno")

------------------------------------------------------------------------------
(* zerror and zperror.                                                      *)

\* Mutant: one more is missing.
LIST_ERRORS_Shorter == {"0_POW_0", "0_DIV_0", "DIV_0"}

\* The errors that have a description.
LIST_ERRORS == {"0_POW_0", "0_DIV_0", "DIV_0", "NEGATIVE"}

\* zerror(desc), where desc may be null.
ZError(desc) ==
  /\ pc = "failed"
  /\ \/ error = "errno" /\ result' = "ERRNO_SET" /\ pc' = "described"
     \/ error # "errno" /\ ~desc /\ result' = error /\ pc' = "described"
     \/ error # "errno" /\ desc /\ error \in LIST_ERRORS /\ result' = error /\ pc' = "described"
     \/ error # "errno" /\ desc /\ error \notin LIST_ERRORS /\ result' = "none" /\ pc' = "aborted"
  /\ UNCHANGED <<call, error, lost, num, printing, measuring, parsing>>

Report == \E desc \in BOOLEAN : ZError(desc)

\* zperror: perror, or the description zerror gives.
ZPError == ZError(TRUE)

Next ==
  \/ PrintZero \/ Begin \/ Group \/ FirstGroup
  \/ Measure \/ Radical \/ Square \/ Cut \/ EndMeasure
  \/ Parse \/ FirstDigits \/ NextDigits \/ SetSign
  \/ MemoryFails \/ Another \/ Report \/ ZPError

Spec == Init /\ [][Next]_vars

------------------------------------------------------------------------------
(* Properties.                                                              *)

Over(routine) == pc = "returned" /\ call.routine = routine

\* The sign takes the place of a digit, and the guess has no place to spare: one
\* character with one digit more than a group.
Tight ==
  /\ call.routine = "zstr" /\ call.n = 0 /\ call.v < 0
  /\ Len(Numeral(Mag(call.v), Radix)) = Guess(call.used)

\* zstr writes nothing outside the buffer, whether it made it or was told its size,
\* and ends the string in it: unless the guess is too small for the sign.
BuffersSuffice ==
  Over("zstr") =>
    (~Tight <=> /\ \A i \in DOMAIN str : i >= size => str[i] = Outside
                /\ \E i \in DOMAIN str : i < size /\ str[i] = Nul)

\* What zstr leaves is the numeral, wherever it put the groups of digits first; if
\* the guess is too small the second digit of the magnitude becomes the first.
\* zsets reads a numeral of any length as its integer, and refuses anything else and
\* keeps the integer; zstr_length is the length.  Both unless zmul_ll or zsqr_ll got a
\* product wrong on the way.
StringIn(t) == LET end == Min({i \in DOMAIN t : t[i] = Nul}) IN [i \in 1 .. end |-> t[i - 1]]
Garbled(s) == [s EXCEPT ![3] = s[2]]
IsNumeral == Len(S) > Start /\ \A i \in Start + 1 .. Len(S) : S[i] \in 0 .. Radix - 1
StringsExact ==
  /\ Over("zstr") =>
       StringIn(str) = IF Tight THEN Garbled(Decimal(call.v)) ELSE Decimal(call.v)
  /\ Over("zsets") =>
       /\ result = "ok" <=> IsNumeral
       /\ ~IsNumeral => a = call.v
       /\ IsNumeral /\ ~lost =>
            /\ Mag(a) = Number(S, Start, Len(S))
            /\ (S[1] = Minus => a <= 0) /\ (S[1] # Minus => a >= 0)
  /\ Over("zstr_length") =>
       /\ call.radix >= 2
       /\ ~lost => sizeTotal = Len(Numeral(Mag(call.v), call.radix)) + Neg(call.v)

\* Whatever error a routine ends with, zerror and zperror can tell of it: except of
\* the radix zstr_length refuses, which aborts the program if it asks for words.
ErrorsDescribed ==
  /\ pc = "aborted" => call.routine = "zstr_length" /\ call.radix < 2
  /\ pc = "described" => result = IF error = "errno" THEN "ERRNO_SET" ELSE error
==============================================================================
