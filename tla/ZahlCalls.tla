------------------------------- MODULE ZahlCalls -------------------------------
(***************************************************************************)
(* A client that calls the routines of ZahlArithmetic, ZahlBitwise and     *)
(* ZahlMarshal.  ZahlProducts calls zmul and zsqr.                         *)
(*                                                                         *)
(* A behaviour is one call, from any state the calls before it may have    *)
(* left the integers in: any magnitude, zeros above it, any block, stale   *)
(* characters everywhere else.  LegalStays closes the circle: what a call  *)
(* leaves is such a state again, so the other properties hold of every     *)
(* sequence of calls.                                                      *)
(***************************************************************************)
EXTENDS ZahlBitwise, ZahlMarshal

CONSTANTS
  Routines,   \* the routines the client calls
  Operands,   \* the integers that have a value, of "b" and "c"
  Magnitudes, \* the magnitudes of these
  Slack,      \* may they have zeros above it and blocks larger than needed?
  MaxUsed,    \* characters of an operand, its bound
  MaxBits     \* bits of a shift and index of a bit, its bound

ASSUME CallsAssumption ==
  /\ Operands \subseteq {"b", "c"}
  /\ MaxUsed \in Nat \ {0} /\ MaxBits \in Nat
  /\ Magnitudes \subseteq 1 .. Power(Base, MaxUsed) - 1 /\ Slack \in BOOLEAN

\* The model has the characters of the largest block a call asks for.
MostChars == MaxUsed + MaxBits \div Bits + 1
ASSUME RoomAssumption ==
  MostChars <= 2 * Room /\ RoundedUp[MostChars] + Fluff <= Room

VARIABLES
  num,        \* the integers
  call        \* the routine that was called, with what, and what it returned

vars == <<num, call>>

Var == {"a", "b", "c", "tmp_sub"}

\* How the parameters of a routine coincide: a result and two operands, a result
\* and one operand, an operand that is the result and another one.
Triples == {<<"a", "b", "c">>, <<"b", "b", "c">>, <<"c", "b", "c">>,
            <<"a", "b", "b">>, <<"b", "b", "b">>}
Pairs   == {<<"a", "b">>, <<"b", "b">>}
Assigned == {<<"b", "c">>}

NoCall == [routine |-> "none"]

------------------------------------------------------------------------------
(* What the integers may be before a call.                                  *)

Filled(sign, used, size, digits) ==
  [sign |-> sign, used |-> used, alloced |-> size,
   chars |-> [i \in Index |-> IF i \notin Block(size) THEN Foreign
                              ELSE IF i < used /\ sign # 0 THEN digits[i] ELSE Stale]]

Sizes   == {RoundedUp[n] : n \in 1 .. MaxUsed}
Cleared == Filled(0, 0, 0, <<>>)

\* A zero has any .used, for no routine sets it.
Zeros == {Filled(0, used, size, <<>>) : used \in {0, MaxUsed}, size \in Sizes \cup {0}}
Digits(v) == [i \in 0 .. MaxUsed - 1 |-> (v \div Power(Base, i)) % Base]
Chars(v)  == Min({n \in 1 .. MaxUsed : v < Power(Base, n)})
Nonzeros ==
  UNION {{Filled(sign, q[2], size, Digits(q[1])) :
            size \in IF Slack THEN {k \in Sizes : k >= q[2]} ELSE {RoundedUp[q[2]]},
            sign \in {-1, 1}} :
         q \in {w \in Magnitudes \X (1 .. MaxUsed) :
                  IF Slack THEN w[2] >= Chars(w[1]) ELSE w[2] = Chars(w[1])}}

\* A result was initialised, and maybe used before; nothing it holds is looked at.
Results == {Filled(0, MaxUsed, 0, <<>>), Filled(0, 0, 1, <<>>),
            Filled(-1, MaxUsed, RoundedUp[MaxUsed], [i \in 0 .. MaxUsed - 1 |-> Base - 1])}

Given(v) == IF v \in Operands THEN Zeros \cup Nonzeros ELSE {Cleared}

Init ==
  /\ \E a \in Results, b \in Given("b"), c \in Given("c") :
       num = [v \in Var |-> CASE v = "a" -> a [] v = "b" -> b [] v = "c" -> c
                              [] OTHER -> Cleared]
  /\ call = NoCall

\* The client calls a routine with the parameters p and the number n; it leaves
\* the integers as in s.
Calls(routine, p, n, s, returned) ==
  /\ call = NoCall
  /\ routine \in Routines
  /\ num'  = s
  /\ call' = [routine |-> routine, p |-> p, n |-> n, returned |-> returned]

Stores(routine, p, n, s)         == Calls(routine, p, n, s, 0)
Answers(routine, p, n, s, value) == Calls(routine, p, n, s, value)

Shift == 0 .. MaxBits
Int64 == -(Base \div 2) .. (Base \div 2) - 1

------------------------------------------------------------------------------
(* One action per routine.                                                  *)

CallZSet  == \E p \in Pairs : Stores("zset", p, 0, ZSet(num, p[1], p[2]))
CallZNeg  == \E p \in Pairs : Stores("zneg", p, 0, ZNeg(num, p[1], p[2]))
CallZAbs  == \E p \in Pairs : Stores("zabs", p, 0, ZAbs(num, p[1], p[2]))
CallZSetU == \E n \in Digit : Stores("zsetu", <<"b">>, n, ZSetU(num, "b", n))
CallZSetI == \E n \in Int64 : Stores("zseti", <<"b">>, n, ZSetI(num, "b", n))

\* An integer is saved in a buffer of the size zsave asks for, and loaded from it.
CallZSaveZLoad ==
  \E p \in Pairs :
    LET buffer == Saved(num[p[2]])
        loaded == ZLoad(ZSave(num, p[2]), p[1], buffer)
    IN Calls("zload", p, 0, loaded,
             [chars |-> buffer.chars, read |-> SavedSize(loaded[p[1]])])

CallZCmpMag == Answers("zcmpmag", <<"b", "c">>, 0, Compared(num, "b", "c"),
                       ZCmpMag(num, "b", "c"))
CallZCmp    == Answers("zcmp", <<"b", "c">>, 0, ComparedSigned(num, "b", "c"),
                       ZCmp(num, "b", "c"))
CallZCmpU   == \E n \in Digit :
                 Answers("zcmpu", <<"b">>, n, ComparedU(num, "b", n), ZCmpU(num, "b", n))
CallZCmpI   == \E n \in Int64 :
                 Answers("zcmpi", <<"b">>, n, ComparedI(num, "b", n), ZCmpI(num, "b", n))
CallZBits   == Answers("zbits", <<"b">>, 0, Counted(num, "b"), ZBits(num, "b"))
CallZLsb    == \E build \in Builds :
                 Answers("zlsb", <<"b">>, build, num, ZLsb(num, "b", build))
CallZBTest  == \E n \in Shift : Answers("zbtest", <<"b">>, n, num, ZBTest(num, "b", n))

CallZAdd == \E p \in Triples : Stores("zadd", p, 0, ZAdd(num, p[1], p[2], p[3]))
CallZSub == \E p \in Triples : Stores("zsub", p, 0, ZSub(num, p[1], p[2], p[3]))
CallZAddUnsigned ==
  \E p \in Triples : Stores("zadd_unsigned", p, 0, ZAddUnsigned(num, p[1], p[2], p[3]))
CallZSubUnsigned ==
  \E p \in Triples : Stores("zsub_unsigned", p, 0, ZSubUnsigned(num, p[1], p[2], p[3]))

\* The library's own: zmul adds and subtracts in place what it knows the order of,
\* zgcd subtracts the smaller from the greater after it compared them.
CallZAddUnsignedAssign ==
  /\ num["b"].sign >= 0 /\ num["c"].sign >= 0
  /\ Stores("zadd_unsigned_assign", <<"b", "c">>, 0, ZAddUnsignedAssign(num, "b", "c"))
CallZSubNonnegativeAssign ==
  /\ num["b"].sign >= 0 /\ num["c"].sign >= 0
  /\ Value(num["b"]) >= Value(num["c"])
  /\ Stores("zsub_nonnegative_assign", <<"b", "c">>, 0, ZSubNonnegativeAssign(num, "b", "c"))
CallZSubPositiveAssign ==
  /\ num["b"].sign = 1 /\ num["c"].sign = 1
  /\ ZCmpMag(num, "b", "c") = 1
  /\ Stores("zsub_positive_assign", <<"b", "c">>, 0,
            ZSubPositiveAssign(Compared(num, "b", "c"), "b", "c"))

CallZLsh   == \E p \in Pairs, n \in Shift : Stores("zlsh", p, n, ZLsh(num, p[1], p[2], n))
CallZRsh   == \E p \in Pairs, n \in Shift : Stores("zrsh", p, n, ZRsh(num, p[1], p[2], n))
CallZTrunc == \E p \in Pairs, n \in Shift : Stores("ztrunc", p, n, ZTrunc(num, p[1], p[2], n))

\* zsplit(high, low, b): both parts elsewhere, the high one or the low one over b.
CallZSplit == \E p \in {<<"a", "c", "b">>, <<"b", "c", "b">>, <<"a", "b", "b">>}, n \in Shift :
                Stores("zsplit", p, n, ZSplit(num, p[1], p[2], p[3], n))

CallZAnd == \E p \in Triples : Stores("zand", p, 0, ZAnd(num, p[1], p[2], p[3]))
CallZOr  == \E p \in Triples : Stores("zor", p, 0, ZOr(num, p[1], p[2], p[3]))
CallZXor == \E p \in Triples : Stores("zxor", p, 0, ZXor(num, p[1], p[2], p[3]))
CallZNot == \E p \in Pairs : Stores("znot", p, 0, ZNot(num, p[1], p[2]))

CallZBSet ==
  \E p \in Pairs, n \in Shift, action \in {SetBit, ClearBit, FlipBit}, constant \in BOOLEAN :
    Calls("zbset", p, n, ZBSet(num, p[1], p[2], n, action, constant),
          [action |-> action, constant |-> constant])

Next ==
  \/ CallZSaveZLoad
  \/ CallZSet \/ CallZNeg \/ CallZAbs \/ CallZSetU \/ CallZSetI
  \/ CallZCmpMag \/ CallZCmp \/ CallZCmpU \/ CallZCmpI
  \/ CallZBits \/ CallZLsb \/ CallZBTest
  \/ CallZAdd \/ CallZSub \/ CallZAddUnsigned \/ CallZSubUnsigned
  \/ CallZAddUnsignedAssign \/ CallZSubNonnegativeAssign \/ CallZSubPositiveAssign
  \/ CallZLsh \/ CallZRsh \/ CallZTrunc \/ CallZSplit
  \/ CallZAnd \/ CallZOr \/ CallZXor \/ CallZNot \/ CallZBSet

Spec == Init /\ [][Next]_vars

------------------------------------------------------------------------------
(* What the code does not do.  Each of these names the calls on which a     *)
(* routine departs from its manual: no fewer and no more, for the properties *)
(* below are equivalences.                                                  *)

\* zsub_impl: the borrow out of the smaller magnitude's n characters ends at a
\* character that is 1 and has others above it; the top is dropped instead.
BorrowEndsInside(s, x, y) ==
  LET t == Compared(s, x, y)
      big   == IF ZCmpMag(s, x, y) > 0 THEN x ELSE y
      small == IF big = x THEN y ELSE x
      above == Magnitude(t[big]) \div Power(Base, t[small].used)
  IN /\ s[x].sign # 0 /\ s[y].sign # 0
     /\ Magnitude(t[big]) % Power(Base, t[small].used) < Magnitude(t[small])
     /\ \E i \in 0 .. MaxUsed : above % Power(Base, i + 1) = Power(Base, i) /\ above > Power(Base, i)

\* libzahl_zadd_unsigned: the copy of the longer operand's upper characters runs
\* over the zero put above them, and the sum carries into it.
CarryIsStale(s, a, x, y) ==
  LET size == Largest(s[x].used, s[y].used)
      n    == Smallest(s[x].used, s[y].used)
  IN /\ a \notin {x, y} /\ s[x].sign # 0 /\ s[y].sign # 0
     /\ Copied(size - n) > size - n
     /\ Magnitude(s[x]) + Magnitude(s[y]) >= Power(Base, size)

\* ZMEM_2OP_PRECISE: the last group of several is not reached.  These are its bits.
SkippedBits(k, s) ==
  LET x == s[k.p[2]]  y == s[k.p[3]]
      n == Smallest(x.used, y.used)
  IN IF k.routine \in {"zor", "zxor"} /\ k.p[1] \in {k.p[2], k.p[3]} /\ x.sign # 0 /\ y.sign # 0
     THEN Bits * Reached(n) .. Bits * n - 1 ELSE {}

\* zbset_ll_clear looks for a bit of zero, by a .used that nothing has set.
ClearsBitOfZero(k, s) ==
  /\ k.routine = "zbset" /\ k.returned = [action |-> ClearBit, constant |-> FALSE]
  /\ s[k.p[2]].sign = 0
  /\ k.n \div Bits < s[k.p[1]].used /\ k.n \div Bits \notin Block(s[k.p[1]].alloced)

\* zlsb, built by neither GCC nor Clang.
CountsOnes(k, s) == k.routine = "zlsb" /\ k.n = "C" /\ s["b"].sign # 0

Subtracts(k, s) ==
  LET x == s[k.p[2]].sign  y == s[k.p[3]].sign
  IN \/ k.routine = "zsub_unsigned"
     \/ k.routine = "zadd" /\ x * y < 0
     \/ k.routine = "zsub" /\ x * y > 0
Adds(k, s) ==
  LET x == s[k.p[2]].sign  y == s[k.p[3]].sign
  IN \/ k.routine = "zadd_unsigned"
     \/ k.routine = "zadd" /\ x * y > 0
     \/ k.routine = "zsub" /\ x * y < 0

\* The differences zsub_impl gets wrong, and the sums that depend on stale memory.
WrongDifference(k, s) ==
  \/ Subtracts(k, s) /\ BorrowEndsInside(s, k.p[2], k.p[3])
  \/ /\ k.routine \in {"zsub_nonnegative_assign", "zsub_positive_assign"}
     /\ BorrowEndsInside(s, k.p[1], k.p[2])
StaleSum(k, s) == Adds(k, s) /\ CarryIsStale(s, k.p[1], k.p[2], k.p[3])

------------------------------------------------------------------------------
(* What the routines promise, on the values before and after.               *)

AbsOf(n) == IF n < 0 THEN -n ELSE n

Sums == {"zset", "zload", "zneg", "zabs", "zsetu", "zseti", "zadd", "zsub", "zadd_unsigned",
         "zsub_unsigned", "zadd_unsigned_assign", "zsub_nonnegative_assign",
         "zsub_positive_assign"}
Sum(k, s) ==
  LET v(i) == Value(s[k.p[i]])
  IN CASE k.routine \in {"zset", "zload"} -> v(2)
       [] k.routine = "zneg" -> -v(2)
       [] k.routine = "zabs" -> AbsOf(v(2))
       [] k.routine \in {"zsetu", "zseti"} -> k.n
       [] k.routine = "zadd" -> v(2) + v(3)
       [] k.routine = "zsub" -> v(2) - v(3)
       [] k.routine = "zadd_unsigned" -> AbsOf(v(2)) + AbsOf(v(3))
       [] k.routine = "zsub_unsigned" -> AbsOf(v(2)) - AbsOf(v(3))
       [] k.routine = "zadd_unsigned_assign" -> AbsOf(v(1)) + AbsOf(v(2))
       [] k.routine \in {"zsub_nonnegative_assign", "zsub_positive_assign"} -> v(1) - v(2)

\* Shifts and cuts work on the magnitude and keep the sign.
Shifts == {"zlsh", "zrsh", "ztrunc"}
Shifted(k, s) ==
  LET v == Value(s[k.p[2]])
  IN Sign(v) * (CASE k.routine = "zlsh"   -> AbsOf(v) * Power(2, k.n)
                  [] k.routine = "zrsh"   -> AbsOf(v) \div Power(2, k.n)
                  [] k.routine = "ztrunc" -> AbsOf(v) % Power(2, k.n))

\* The bitwise operations are set operations on the ones of the magnitude; the
\* sign takes part as a bit of its own that is set in negative numbers.
Bitwise2 == {"zand", "zor", "zxor"}
Width   == Bits * (MaxUsed + 1) + MaxBits
Ones(v) == OnesIn(AbsOf(v), Width)
CombinedOnes(k, x, y) ==
  CASE k.routine = "zand" -> Ones(x) \cap Ones(y)
    [] k.routine = "zor"  -> Ones(x) \cup Ones(y)
    [] k.routine = "zxor" -> (Ones(x) \cup Ones(y)) \ (Ones(x) \cap Ones(y))
CombinedSign(k, x, y) ==
  IF \/ k.routine = "zand" /\ x < 0 /\ y < 0
     \/ k.routine = "zor"  /\ (x < 0 \/ y < 0)
     \/ k.routine = "zxor" /\ (x < 0) # (y < 0) THEN -1 ELSE 1

\* All of the bits but the skipped ones, which stay what they were.
Combined(k, s, skipped) ==
  LET x == Value(s[k.p[2]])  y == Value(s[k.p[3]])
  IN CombinedSign(k, x, y) * FromOnes((CombinedOnes(k, x, y) \ skipped)
                                        \cup (skipped \cap Ones(Value(s[k.p[1]]))))

\* znot flips the bits zbits counts and the sign; zbset works on one bit, and what
\* it sets in zero is positive.
Single == {"znot", "zbset"}
Flipped(k, s) ==
  LET v == Value(s[k.p[2]])
      kept == Ones(v) \ {k.n}
      sign == IF v < 0 THEN -1 ELSE 1
  IN CASE k.routine = "znot" ->
            IF v = 0 THEN 0
            ELSE -Sign(v) * FromOnes((0 .. Max(Ones(v))) \ Ones(v))
       [] OTHER ->
            sign * FromOnes(CASE k.returned.action = SetBit   -> kept \cup {k.n}
                              [] k.returned.action = ClearBit -> kept
                              [] k.returned.action = FlipBit  ->
                                   kept \cup ({k.n} \ Ones(v)))

\* znot stores a result in a block that has no room for it: the result is longer
\* than the block, or the loop that makes it runs over the block's end.
NotWithoutRoom(k, s) ==
  k.routine = "znot" /\ s[k.p[2]].sign # 0 /\ AbsOf(Flipped(k, s)) >= Power(Base, s[k.p[1]].alloced)
NotOverruns(k, s) ==
  /\ k.routine = "znot" /\ s[k.p[2]].sign # 0
  /\ Chunks(Trim(s[k.p[2]]).used) - 1 \notin Block(s[k.p[1]].alloced)

Answered == {"zcmpmag", "zcmp", "zcmpu", "zcmpi", "zbits", "zlsb", "zbtest"}
Answer(k, s) ==
  LET x == Value(s["b"])  y == Value(s["c"])
  IN CASE k.routine = "zcmpmag" -> Sign(AbsOf(x) - AbsOf(y))
       [] k.routine = "zcmp"    -> Sign(x - y)
       [] k.routine \in {"zcmpu", "zcmpi"} -> Sign(x - k.n)
       [] k.routine = "zbits"   -> IF x = 0 THEN 1 ELSE Max(Ones(x)) + 1
       [] k.routine = "zlsb"    -> IF x = 0 THEN SizeMax ELSE Min(Ones(x))
       [] k.routine = "zbtest"  -> IF k.n \in Ones(x) THEN 1 ELSE 0

\* The integers a call is to change; it may drop zeros of the others.
Stored(k) ==
  CASE k.routine \in Answered -> {}
    [] k.routine = "zsplit"   -> {k.p[1], k.p[2]}
    [] OTHER                  -> {k.p[1]}

Is(r, value) == Legal(r) /\ Value(r) = value

------------------------------------------------------------------------------
(* Properties.                                                              *)

\* An assignment, a sum or a difference is the integer it should be, whichever of
\* the parameters of zset, zadd, zsub, ... are the same integer, whatever zeros
\* are above their magnitudes and wherever carries and borrows go: unless a borrow
\* of zsub_impl ends inside or the carry of zadd.c meets a stale character.
SumsExact ==
  [][call'.routine \in Sums =>
       (Is(num'[call'.p[1]], Sum(call', num))
          <=> ~(WrongDifference(call', num) \/ StaleSum(call', num)))]_vars

\* zlsh multiplies by a power of two, zrsh divides by one and ztrunc gives the
\* remainder, in place too, and the parts zsplit gives make up what it split; zand,
\* zor, zxor, znot and zbset act on each bit by itself and on nothing above their
\* operands.  But zor and zxor in place skip a group of characters, and znot stores
\* where there is no room.
BitsExact ==
  [][LET Gives(i, value) == Is(num'[call'.p[i]], value)
         Part(routine) == Shifted([call' EXCEPT !.routine = routine, !.p = <<"a", @[3]>>], num)
     IN /\ call'.routine \in Shifts => Gives(1, Shifted(call', num))
        /\ call'.routine = "zsplit" => Gives(1, Part("zrsh")) /\ Gives(2, Part("ztrunc"))
        /\ call'.routine \in Bitwise2 =>
             Gives(1, Combined(call', num, SkippedBits(call', num)))
        /\ call'.routine \in Single =>
             (Gives(1, Flipped(call', num)) <=> ~NotWithoutRoom(call', num))]_vars

\* Comparisons, zbits, zlsb and zbtest answer what holds of the values, even where
\* magnitudes have zeros above them, but zlsb never does where the bits of its lowest
\* character are counted by the loop in C; and zload reads as much as zsave has written,
\* which is all of the buffer but the rest of a group, and nothing behind it.
AnswersRight ==
  [][ /\ call'.routine \in Answered =>
           (call'.returned = Answer(call', num) <=> ~CountsOnes(call', num))
      /\ call'.routine = "zload" =>
           LET given == num[call'.p[2]]
               held  == {i \in Index : call'.returned.chars[i] # Foreign}
           IN /\ held = 0 .. call'.returned.read - 1
              /\ given.sign # 0 => Cardinality(held) \in given.used .. given.used + Fluff - 1
              /\ given.sign = 0 => held = {} ]_vars

\* An integer that is not the result keeps its value; and what a call leaves in the
\* integers may be given to the next call, with nothing written outside their blocks: unless
\* the carry of a sum is stale, or znot or zbset writes where there is no block.
LegalStays ==
  [][ /\ \A v \in Var \ (Stored(call') \cup {"tmp_sub"}) : Value(num'[v]) = Value(num[v])
      /\ (\A v \in Var : Legal(num'[v]) /\ WithinBlock(num'[v]))
           <=> ~(\/ StaleSum(call', num)
                 \/ NotWithoutRoom(call', num) \/ NotOverruns(call', num)
                 \/ ClearsBitOfZero(call', num)) ]_vars
==============================================================================
