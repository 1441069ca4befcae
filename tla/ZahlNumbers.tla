----------------------------- MODULE ZahlNumbers -----------------------------
(***************************************************************************)
(* Random numbers (zrand.c) and the primality test (zptest.c) that draws   *)
(* its bases from them.                                                    *)
(*                                                                         *)
(* Integers are values, and products what zmul and zsqr store (ZMul and    *)
(* ZSqr: ZahlKaratsuba when it is run, anything where it is proved about). *)
(* What the generators and the devices deliver is any bits; how bits       *)
(* become a number of the range asked for is modelled, with the masks and  *)
(* the loops as they are, and zmodpow bit by bit, with the character above *)
(* the exponent that it may read (ZahlPower).  zlsb is the builtin's.      *)
(*                                                                         *)
(* A behaviour is one call of the client.  zptest calls zrand.             *)
(***************************************************************************)
EXTENDS Integers, FiniteSetsExt

CONSTANTS Maxima,         \* the values zrand is given as the maximum
          Questioned,     \* the values zptest is asked about
          Tries,          \* how often it is to try
          CharBits,       \* BITS_PER_CHAR
          MaxChars,       \* characters of a value, their bound
          Two,            \* the powers of two
          ZMul(_, _), ZSqr(_)   \* the magnitudes zmul_ll and zsqr_ll may store

MaxBits == CharBits * MaxChars

\* libzahl_const_4 has one character.
ASSUME NumbersAssumption ==
  /\ CharBits \in Nat \ (0 .. 2) /\ MaxChars \in Nat \ {0}
  /\ Two \in [0 .. MaxBits -> Nat \ {0}] /\ Two[0] = 1
  /\ \A n \in 1 .. MaxBits : Two[n] = 2 * Two[n - 1]
  /\ Tries \subseteq Nat /\ Maxima \cup Questioned \subseteq Int
  /\ \A n \in Maxima \cup Questioned : n < Two[MaxBits]

VARIABLES call,           \* what the client called, with what
          pc, result,     \* where the call is and how it ended
          r,              \* the random number
          max,            \* the maximum, which r may be: then it changes with r
          fd,             \* whether the device is open
          left,           \* characters the device has not delivered yet
          t, x, i,        \* of zptest: tries, the power, how often it was squared
          sq, rest,       \* of zmodpow: libzahl_tmp_pow_b, bits of the exponent left
          base,           \* libzahl_tmp_ptest_a
          witness,
          lost            \* what a product zmul_ll or zsqr_ll got wrong has gone into

vars == <<call, pc, result, r, max, fd, left, t, x, i, sq, rest, base, witness, lost>>
drawing == <<r, max, fd, left>>
testing == <<t, x, i, sq, rest, base, witness, lost>>

BitsOf(n) == IF n = 0 THEN 1 ELSE Min({k \in 1 .. MaxBits : Two[k] > n})
Ceiling(bits) == (bits + CharBits - 1) \div CharBits
BaseOf(chars) == Two[CharBits * chars]

------------------------------------------------------------------------------
(* zrand.                                                                   *)

Devices == {"device", "libc", "invalid"}
Distributions == {"QUASIUNIFORM", "UNIFORM", "MODUNIFORM", "invalid"}

ZRandCalls == [routine : {"zrand"}, dev : Devices, dist : Distributions,
               n : Maxima, same : BOOLEAN]
ZPTestCalls == [routine : {"zptest"}, dev : {"libc"}, dist : {"UNIFORM"},
                n : Questioned, same : {FALSE}, tries : Tries]

Init ==
  /\ call \in ZRandCalls \cup ZPTestCalls
  /\ pc = (IF call.routine = "zrand" THEN "zrand" ELSE "zptest") /\ result = "none"
  /\ r = 0 /\ max = call.n /\ fd = "closed" /\ left = 0
  /\ t = (IF call.routine = "zptest" THEN call.tries ELSE 0)
  /\ x = 0 /\ i = 0 /\ sq = 0 /\ rest = 0 /\ base = 0 /\ witness = 0 /\ lost = {}

Goto(l)   == pc' = l /\ UNCHANGED <<call, result>>
Return(v) == pc' = "returned" /\ result' = v /\ UNCHANGED call

\* libzahl_failure: nobody closes the device.
Fail(error) == Return(error) /\ UNCHANGED <<drawing, testing>>

\* r is given a value; if max is the same integer it gets it too.
Draw(v) == r' = v /\ max' = IF call.same THEN v ELSE max

Choose ==
  /\ pc = "zrand"
  /\ IF call.dev = "invalid" THEN Fail("EINVAL")
     ELSE /\ Goto(IF max = 0 THEN "drawn" ELSE IF call.dev = "device" THEN "open" ELSE "sign")
          /\ IF max = 0 THEN Draw(0) ELSE UNCHANGED <<r, max>>
          /\ UNCHANGED <<fd, left, testing>>

Open ==
  /\ pc = "open"
  /\ \/ Fail("cannot open")
     \/ fd' = "open" /\ Goto("sign") /\ UNCHANGED <<r, max, left, testing>>

\* RANDOM_UNIFORM begins: the characters are counted by the maximum.
Sign ==
  /\ pc = "sign"
  /\ \/ call.dist = "invalid" /\ Fail("EINVAL")
     \/ call.dist # "invalid" /\ max < 0 /\ Fail("NEGATIVE")
     \/ /\ call.dist # "invalid" /\ max >= 0
        /\ left' = Ceiling(BitsOf(max)) /\ Goto("fill") /\ UNCHANGED <<r, max, fd, testing>>

\* zrand_libc_rand, zrand_libc_rand48, zrand_libc_random: all characters at once.
LibcFills ==
  /\ pc = "fill" /\ call.dev = "libc"
  /\ left' = 0 /\ Goto("mask") /\ UNCHANGED <<r, max, fd, testing>>

\* zrand_fd: a read delivers some, none or an error.
Read ==
  /\ pc = "fill" /\ call.dev = "device"
  /\ IF left = 0 THEN Goto("mask") /\ UNCHANGED <<drawing, testing>>
     ELSE \/ Fail("cannot read")
          \/ \E n \in 0 .. left : left' = left - n /\ Goto("fill")
             /\ UNCHANGED <<r, max, fd, testing>>

\* ENSURE_SIZE(r, chars).
MemoryFails == pc = "fill" /\ Fail("memory")

\* The last character is cut to the bits modulo its width: to none if it is whole.
Drawable ==
  [bits \in 1 .. MaxBits |->
     LET below == BaseOf(Ceiling(bits) - 1)
         last  == {w % Two[bits % CharBits] : w \in 0 .. BaseOf(1) - 1}
     IN {low + high * below : low \in 0 .. below - 1, high \in last}]

Mask ==
  /\ pc = "mask"
  /\ \E v \in Drawable[BitsOf(max)] : Draw(v)
  /\ Goto("masked") /\ UNCHANGED <<fd, left, testing>>

\* Of a history: what becomes wrong with a product p of v and w.
Wrong(name, p, v, w) == IF p = v * w THEN {} ELSE {name}

\* zadd, zmul and zrsh, by the bits the maximum had.
Scale ==
  LET m == IF call.same THEN r + 1 ELSE max
  IN \E p \in ZMul(r + 1, m) :
       Draw(p \div Two[BitsOf(call.n)]) /\ lost' = Wrong("number", p, r + 1, m)

\* Mutant: a number that is too large is not drawn again.
Distribute_First ==
  /\ pc = "masked" /\ Goto("drawn")
  /\ IF call.dist = "QUASIUNIFORM" THEN Scale ELSE UNCHANGED <<r, max, lost>>
  /\ UNCHANGED <<fd, left, t, x, i, sq, rest, base, witness>>

Distribute ==
  /\ pc = "masked"
  /\ \/ call.dist = "QUASIUNIFORM" /\ Goto("drawn") /\ Scale
     \/ /\ call.dist = "MODUNIFORM" /\ Goto("drawn")
        /\ Draw(IF r > max THEN r - max ELSE r) /\ UNCHANGED lost
     \/ /\ call.dist = "UNIFORM" /\ Goto(IF r > max THEN "again" ELSE "drawn")
        /\ UNCHANGED <<r, max, lost>>
  /\ UNCHANGED <<fd, left, t, x, i, sq, rest, base, witness>>

Again ==
  /\ pc = "again"
  /\ left' = Ceiling(BitsOf(max)) /\ Goto("fill") /\ UNCHANGED <<r, max, fd, testing>>

\* Mutant: only the way out that has drawn a number remembers the device.
Drawn_KeepsDevice ==
  /\ pc = "drawn" /\ UNCHANGED fd
  /\ IF call.routine = "zrand" THEN Return("ok") /\ UNCHANGED testing
     ELSE base' = r + 2 /\ Goto("power") /\ UNCHANGED <<t, x, i, sq, rest, witness, lost>>
  /\ UNCHANGED <<r, max, left>>

\* The device is closed if it is open; zptest goes on with a number between 2 and n - 2.
Drawn ==
  /\ pc = "drawn" /\ fd' = "closed"
  /\ IF call.routine = "zrand" THEN Return("ok") /\ UNCHANGED testing
     ELSE base' = r + 2 /\ Goto("power") /\ UNCHANGED <<t, x, i, sq, rest, witness, lost>>
  /\ UNCHANGED <<r, max, left>>

------------------------------------------------------------------------------
(* zptest.                                                                  *)

N == call.n
Verdict(v, w) == Return(v) /\ witness' = w /\ UNCHANGED <<drawing, t, x, i, sq, rest, base>>
Certain(v, w) == Verdict(v, w) /\ UNCHANGED lost

\* The answer without a test.
Small ==
  /\ pc = "zptest" /\ N <= 3
  /\ IF N <= 1 THEN Certain("NONPRIME", N) ELSE Certain("PRIME", witness)

Even ==
  /\ pc = "zptest" /\ N > 3 /\ N % 2 = 0
  /\ Certain("NONPRIME", 2)

\* n - 1 = d * 2^s with d odd; in the code, s is r.
S == CHOOSE k \in 0 .. MaxBits : (N - 1) % Two[k] = 0 /\ ((N - 1) \div Two[k]) % 2 = 1
D == (N - 1) \div Two[S]

\* zsub_unsigned(n4, n, 4): where the borrow ends at a character that is one, below
\* the top, zsub_impl takes the top character off instead.
N4 ==
  LET top  == Ceiling(BitsOf(N)) - 1
      ends == {k \in 1 .. top - 1 : (N \div BaseOf(k)) % BaseOf(1) = 1 /\ N % BaseOf(k) < 4}
  IN IF ends = {} THEN N - 4 ELSE (N % BaseOf(top)) - 4 + BaseOf(CHOOSE k \in ends : TRUE)

\* Mutant: the tries are not counted down.
Round_NotCounted ==
  /\ \/ pc = "zptest" /\ N > 3 /\ N % 2 = 1
     \/ pc = "round"
  /\ IF t = 0 THEN Certain("PROBABLY_PRIME", witness)
     ELSE max' = N4 /\ Goto("zrand") /\ UNCHANGED <<r, fd, left, testing>>

\* A round begins: zrand(a, DEFAULT_RANDOM, UNIFORM, n - 4).
Round ==
  /\ \/ pc = "zptest" /\ N > 3 /\ N % 2 = 1
     \/ pc = "round"
  /\ IF t = 0 THEN Certain("PROBABLY_PRIME", witness)
     ELSE t' = t - 1 /\ max' = N4 /\ Goto("zrand")
          /\ UNCHANGED <<r, fd, left, x, i, sq, rest, base, witness, lost>>

\* The character zmodpow may read above d.
Above == IF BitsOf(D) % CharBits = 0 THEN {c * Two[BitsOf(D)] : c \in 0 .. Two[CharBits] - 1}
                                     ELSE {0}

\* zmodpow(x, a, d, n) begins.
ModPow ==
  /\ pc = "power"
  /\ \E above \in Above : rest' = D + above
  /\ x' = 1 /\ sq' = base /\ lost' = {}
  /\ Goto("bits") /\ UNCHANGED <<drawing, t, i, base, witness>>

\* zmodmul if the bit is set, and zmodsqr.
Bit ==
  /\ pc = "bits" /\ rest # 0
  /\ \E s \in ZSqr(sq) :
       LET wrong == lost \cup Wrong("base", s, sq, sq)
       IN /\ sq' = s % N
          /\ IF rest % 2 = 0 THEN x' = x /\ lost' = wrong
             ELSE \E p \in ZMul(x, sq) :
                    /\ x' = p % N
                    /\ lost' = wrong \cup Wrong("power", p, x, sq)
                                    \cup (IF "base" \in lost THEN {"power"} ELSE {})
  /\ rest' = rest \div 2
  /\ Goto("bits") /\ UNCHANGED <<drawing, t, i, base, witness>>

\* Mutant: one of the two values a prime may leave is forgotten.
Compare_OneOnly ==
  /\ pc = "bits" /\ rest = 0
  /\ i' = 1
  /\ Goto(IF x = 1 THEN "round" ELSE "square")
  /\ UNCHANGED <<drawing, t, x, sq, rest, base, witness, lost>>

Compare ==
  /\ pc = "bits" /\ rest = 0
  /\ i' = 1
  /\ Goto(IF x \in {1, N - 1} THEN "round" ELSE "square")
  /\ UNCHANGED <<drawing, t, x, sq, rest, base, witness, lost>>

\* Neither 1 nor n - 1 so far: if the squares are used up n is composite.
SquaresUsedUp == pc = "square" /\ i = S /\ Certain("NONPRIME", base)

Square ==
  /\ pc = "square" /\ i # S
  /\ \E p \in ZSqr(x) :
       /\ lost' = lost \cup Wrong("power", p, x, x)
       /\ IF p % N = 1 THEN Verdict("NONPRIME", base)
          ELSE /\ x' = p % N /\ i' = i + 1
               /\ Goto(IF x' = N - 1 THEN "round" ELSE "square")
               /\ UNCHANGED <<drawing, t, sq, rest, base, witness>>

ZRandStep  == Choose \/ Open \/ Sign \/ LibcFills \/ Read \/ Mask \/ Distribute \/ Again \/ Drawn
ZPTestStep == Small \/ Even \/ Round \/ ModPow \/ Bit \/ Compare \/ SquaresUsedUp \/ Square
Next == ZRandStep \/ ZPTestStep \/ MemoryFails

\* A routine that has something to do does it; a read may deliver nothing for ever.
Spec == Init /\ [][Next]_vars /\ WF_vars(pc # "fill" /\ Next) /\ WF_vars(LibcFills)
             /\ WF_vars(left = 0 /\ Read)

------------------------------------------------------------------------------
(* Properties.                                                              *)

Full(bits) == bits % CharBits = 0
Successful == pc = "returned" /\ result = "ok"

\* zrand: a number is in the range and any of the range is drawn, whatever the bits
\* are.  Not so if the result is the maximum, or if this has a whole number of
\* characters: then the last one is always zero; nor, perhaps, if it is scaled by a
\* product zmul_ll got wrong.
RandomInRange ==
  /\ Successful /\ "number" \notin lost =>
       /\ ~call.same => r \in 0 .. call.n
       /\ call.same /\ call.n > 0 => r \in 0 .. Two[BitsOf(call.n)]
  /\ pc = "mask" /\ ~call.same =>
       LET drawn == Drawable[BitsOf(max)]
       IN /\ 0 .. max \subseteq drawn <=> ~Full(BitsOf(max))
          /\ Full(BitsOf(max)) => drawn = 0 .. Two[BitsOf(max) - CharBits] - 1

\* zrand closes the device before it returns, but not when an error takes it away
\* after the device was opened: a distribution or a maximum that is not allowed, no
\* memory, no bits.
DeviceClosed ==
  pc = "returned" =>
    (fd = "open" <=>
      /\ call.dev = "device" /\ call.n # 0
      /\ result \in {"EINVAL", "NEGATIVE", "memory", "cannot read"})

IsPrime(n) == n > 1 /\ \A k \in 2 .. n - 1 : n % k # 0

PowerMod(b, n) ==
  LET f[k \in 0 .. n] ==
        IF k = 0 THEN 1
        ELSE IF k % 2 = 1 THEN (f[k - 1] * b) % N
        ELSE LET root == f[k \div 2] IN (root * root) % N
  IN f[n]

\* b shows that n is composite.
IsWitness(b) ==
  \/ N % b = 0 /\ b \in 2 .. N - 1
  \/ /\ PowerMod(b, D) # 1
     /\ \A k \in 0 .. S - 1 : PowerMod(b, D * Two[k]) # N - 1

\* NONPRIME and PRIME are certain, and NONPRIME comes with a witness: unless the
\* odd part of n - 1 fills its characters, when zmodpow may give another power, or a
\* product that zmul_ll or zsqr_ll got wrong has gone into the power.
VerdictIsCertain ==
  pc = "returned" /\ call.routine = "zptest" =>
    /\ result = "PRIME" <=> N \in {2, 3}
    /\ result = "NONPRIME" /\ N <= 1 => witness = N
    /\ result = "NONPRIME" /\ N > 1 =>
         IF N % 2 = 1 /\ (Full(BitsOf(D)) \/ "power" \in lost) THEN witness \in 2 .. N - 2
                                         ELSE ~IsPrime(N) /\ IsWitness(witness)
    /\ result = "PROBABLY_PRIME" => N > 3 /\ N % 2 = 1

\* Every call returns, unless zrand waits for a device that delivers nothing or
\* draws numbers above the maximum for ever; zptest has a bounded number of rounds.
EndsOrWaits ==
  \/ <>(pc = "returned")
  \/ <>[](pc = "fill" /\ left > 0)
  \/ []<>(pc = "again")
==============================================================================
