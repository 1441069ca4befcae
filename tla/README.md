# A TLA+ development of libzahl

libzahl is a C library for integers of unlimited size. It is sequential: there
are no threads, no messages and no files of its own. Its difficulty lies
elsewhere: in memory that is pooled, grown and swapped under integers that must
not notice; in errors that leave any depth of recursion by `longjmp`; in
operations that must work when their operands are the same variable; and in
arithmetic on arrays of 64-bit "characters" written with unrolled loops, carries
and cached copies, where the wrong case shows for one input in 2^64.

The modules here are translated from the C code, checked with TLC on small
instances, and the most important statements are proved for every instance with
TLAPS. References of the form `zsub.c:18` are to `src/` of the repository.

## 1. The system

### Components

| Component | State | Operations | What makes it correct, and hard | Module |
|---|---|---|---|---|
| **Memory** (`allocator.c`, `zfree.c`, `zsetup.c`, `zunsetup.c`, first part of `internals.h`) | `.chars`/`.alloced` of every `z_t`; the pool (`libzahl_pool`, `_n`, `_alloc`); the temporary stack; `libzahl_temp_allocation`; `libzahl_set_up` | `zinit`, `zfree`, `libzahl_realloc`, `zswap`, `zinit_temp`, `zfree_temp`, `libzahl_failure`, `zsetup`, `zunsetup` | one owner per block, of the size the owner believes; every call may fail in its middle and `longjmp` | `ZahlMemory` |
| **Representation and loops** (`zahl/internals.h`, `memory.h`, end of `internals.h`) | `.sign`, `.used`, `.chars`, stale characters above `.used` | `zmemcpy`, `zmemset`, `ZMEM_2OP`, ... | loops unrolled by four stay inside the blocks, and what they write past the end is not read as part of a number | `ZahlDigits` |
| **Sums** (`zadd.c`, `zsub.c`, `inlines.h`) | characters | `zset*`, `zneg`, `zabs`, `zcmp*`, `zadd*`, `zsub*` | carries and borrows, aliased operands | `ZahlArithmetic` |
| **Shifts and bits** (`zlsh.c`, `zrsh.c`, `ztrunc.c`, `zand.c`, `zor.c`, `zxor.c`, `znot.c`, `zbset.c`, `inlines.h`) | characters | shifts, cuts, `zsplit`, logic, `zbset`, `zbtest`, `zbits`, `zlsb` | shifts by multiples of the width, in-place variants, `.used` of zero | `ZahlBitwise` |
| **Marshalling** (`zsave`, `zload.c`) | the buffer | `zsave`, `zload` | inverse, and agree on the size | `ZahlMarshal` |
| **Multiplication** (`zmul.c`, `zsqr.c`) | recursive frames with temporaries; halves that are windows on the operand's block | `zmul`, `zsqr` | the product is exact although the result may be a factor and signs are overwritten meanwhile | `ZahlProducts` |
| **Division** (`zdivmod.c`, `zdiv.c`, `zmod.c`) | shifted divisor, remainder, partial quotient; the cached shifts `libzahl_tmp_divmod_ds` | `zdivmod`, `zdiv`, `zmod` | two loops that must agree, signs, aliasing, memory failing on the way | `ZahlDivision` |
| **Powers** (`zpow.c`, `zpowu.c`, `zmodpow.c`, `zmodpowu.c`, `zmodmul.c`, `zmodsqr.c`) | base, accumulator, exponent read character by character | square and multiply, modular products | the exponent's top character, errors before any write, a modulus that is the result | `ZahlPower` |
| **Greatest common divisor** (`zgcd.c`) | `u`, `v` with moved and swapped `.chars` | binary GCD | termination; `.chars` restored; the lost borrow of `zsub_impl` | `ZahlGcd` |
| **Random numbers** (`zrand.c`) and **primality** (`zptest.c`) | descriptor, number drawn; witnesses, tries | `zrand` in three distributions, `zptest` | results in range, rejection ends, descriptor closed; primes are never called composite | `ZahlNumbers` |
| **Strings** (`zstr.c`, `zstr_length.c`, `zsets.c`) and **errors** (`zerror.c`, `zperror.c`) | buffer, write position, overridden byte; `libzahl_error` | conversion to and from decimal; description of an error | writes stay in the buffer; the two conversions are inverse; every code that is raised has a description | `ZahlStrings` |
| Instruction-level variants, tests, benchmarks, manuals | - | - | - | not modelled |

### How they interact

The client calls one routine at a time. Almost every routine first makes room
with `ENSURE_SIZE`, which is where **Memory** may fail: `libzahl_failure` frees
what the temporary stack lists, and long-jumps to the `setjmp` the client passed
to `zsetup`. **Division** and **Powers** keep their intermediate results in
static temporaries that live from `zsetup` to `zunsetup`, and **Division** hands
its results out with `zswap`: the client's integer and the temporary exchange
blocks. **Multiplication** recurses, so its temporaries are in C frames and must
be on the temporary stack. `zfree` never gives memory back: it feeds the pool
that `ENSURE_SIZE` draws from. **Sums** and **Shifts** are the only routines that
work on characters; everything above them is built from them, **Powers** from
products and division, `zptest` from powers, `zrand` and division, `zgcd` from
shifts and subtraction, **Strings** from division and products. A borrow that
`zsub_impl` loses therefore reaches all of them but division.

### What could go wrong

`PROJECT.json` lists the hazards at their lines, with the properties that would
catch each one. In short: a block with two owners; an error that leaves something
behind or takes something of the client's; a bookkeeping array at its limit; a
carry or a borrow that ends where no test ends it; stale characters read as if
they were part of a number; an operand overwritten because it is also the result;
halves of an operand that are windows on the block of the result; pointers moved
in a loop and put back only behind it; cached values that are stale after one turn
of a loop; a size in bits or digits that is exactly a multiple of a character; a
loop that must end.

## 2. Modules

| Module | Models | Theorems |
|---|---|---|
| `ZahlMemory` | memory; implements `ZahlRegisters` | `ZahlMemoryProofs` |
| `ZahlRegisters` | what memory promises: separate registers | |
| `ZahlDigits` | the representation and the loops over characters | |
| `ZahlArithmetic`, `ZahlBitwise`, `ZahlMarshal` | the routines on characters, as operators | |
| `ZahlCalls` | a client calling these, one action per routine | `ZahlCallsProofs` |
| `ZahlProducts` | `zmul` and `zsqr` over these, frame by frame | |
| `ZahlKaratsuba` | what `zmul` and `zsqr` store, as a function of the values | |
| `ZahlDivision` | `zdivmod`, `zdiv`, `zmod`; implements `ZahlQuotients` | `ZahlDivisionProofs` |
| `ZahlQuotients` | what division promises | |
| `ZahlPower` | powers, modular powers and modular products | `ZahlPowerProofs` |
| `ZahlGcd` | `zgcd` | `ZahlGcdProofs` |
| `ZahlNumbers` | `zrand`, and `zptest` that draws from it | `ZahlNumbersProofs` |
| `ZahlStrings` | `zstr`, `zsets`, `zstr_length`, `zerror`, `zperror` | `ZahlStringsProofs` |
| `ZahlLemmas` | nothing: arithmetic the proofs share | |
| `MC...` | values, families of routines and symmetry for TLC | |

They form three layers. `ZahlMemory` knows blocks and no numbers. `ZahlDigits` to
`ZahlProducts` know characters, and the blocks they are in only by their size; what
`ZahlMemory` shows is what makes it right to give every integer a block of its own
there. The modules above have integers as values. What justifies that is written in
each of them: they rest on what the runs of the layer below show of the routines
they call. Where a routine below is not exact they have its error in the model
instead: `zgcd` and `zptest` the difference `zsub_impl` leaves, `zptest` the exponent
`zmodpow` reads, and powers, random numbers, the test of primality and strings the
products `zmul` and `zsqr` store. These two are operators that are constants of the
modules: in the runs they are those of `ZahlKaratsuba`, in the proofs nothing at all is
assumed of them. A variable `lost` remembers that a product has come out wrong and
what it has gone into; it is a history, which no step of the code depends on.

### ZahlMemory

One variable per piece of C state (`chars`, `alloced`, `pool`, `poolCap`,
`tempStack`, `stackCap`, `tempAllocation`, `setUp`), plus the C heap (`heap`:
what each block is allocated as; `data`: what its characters are), the set of
variables between `zinit` and `zfree` (`live`), the strings the client holds, and
`mode`: whether nobody, the client, a library routine or `libzahl_failure` runs.

Sizes are abstracted to their binary logarithm (class): `libzahl_realloc` rounds
every request to a power of two, the pool is indexed by the logarithm, and
`alloced < need` is decided by it. `NoSize` is `.alloced = 0`.

| Action | Code |
|---|---|
| `ZInit`, `ZFree`, `ZSwap` | `zinit`, `zfree`, `zswap` called by the client (the last also by `zdivmod` and `zptest`) |
| `EnsureFromPool`, `EnsureFromHeap`, `EnsureFails` | `ENSURE_SIZE` with `libzahl_realloc`: a cached block, the C heap's `realloc` in place or moving, its failure |
| `Release` = `NothingToFree`, `Push`, `DropBucket` | the body of `zfree`, used by four actions |
| `Assign` | a routine writes its result |
| `ZInitTemp`, `ZInitTempFails`, `ZFreeTemp` | `zinit_temp` with the doubling of the stack, `zfree_temp` |
| `ZStrAlloc`, `ZStrReturn`, `FreeString` | the string `zstr` allocates, returns, and the client frees |
| `Fail`, `UnwindTemp`, `LongJmp` | `libzahl_failure`, one turn of its loop per step |
| `ZSetup`, `ZSetupFails`, `ZSetupAgain`, `ZUnsetup` | `zsetup` and `zunsetup` |

Left out: what the client must not do (use a variable before `zinit` or after
`zfree`), and what would be a dereference of NULL after a failed `realloc`
(`Usable`); the fields of dead variables and the characters of blocks nobody owns
are forgotten, since nothing may read them.

`zsetup` sets `libzahl_set_up` before it has its memory, so that after it failed a
second call succeeds without a temporary stack (`stackMem`). `zinit_temp` looks at
nothing but `head == end`: it then grows a stack of no size, writes past it, or,
after a `zunsetup`, where `head` and `end` are those of an array that is gone,
writes there (`GrowStack`, `WriteEntry`). Where the model chooses what undefined
behaviour does: a request as large as a stale `end` is refused, and an entry that is
written outside spoils the characters of at most one integer, and nothing of the
heap itself. An error then frees nothing, and the long jump leaves the temporaries'
blocks behind (`Abandon`). `RetriedInVain` names these states.

`ZahlRegisters` states what this machinery promises: separate registers, each
keeping its contents until it is written, swapped or released, except that an
error may cost the contents of one, and so may a new temporary if the library is not
`intact`, that is, in `RetriedInVain`. `ImplementsRegisters` is the refinement; the
mapping reads a register through `.chars`.

### ZahlDigits, ZahlArithmetic, ZahlBitwise, ZahlMarshal, ZahlCalls

An integer is the record `[sign, used, alloced, chars]` of the C structure.
`chars` covers the block and its margin (`ZAHL_FLUFF`). A character that no call
has given a value is `Stale`; one outside the block is `Foreign`; an operation on
either gives `Stale` or `Spoilt`. So a routine that reads a character it should
not leaves a mark in its result, and one that writes outside its block is seen by
`WithinBlock` (part of `LegalStays`), without any assumption on what memory holds.

Each routine is an operator on the state of all integers, `ZAdd(s, a, b, c)`, in
which `a`, `b` and `c` are names: the same name is the same integer, as in C. The
operator follows the C function statement by statement where the order matters
(`SubFrom` saves the subtrahend before it copies the minuend over it); loops over
characters are functions on ranges, with the groups of four (`Group`) they run in.
The width of a character, the size of a group and the number of characters that
`libzahl_memcpy` copies exactly (`SmallCases`: 20, or 0 where
`ZAHL_ISA_MISSING_INDIRECT_JUMP` is set) are constants. `ZahlMarshal` adds the
buffer `zsave` fills and `zload` reads: whole groups of characters, and nothing
else than the size for a zero.

`ZahlCalls` makes one call from any legal state: any magnitude, zeros above it
(the code leaves them), any block that is large enough, any `.used` of a zero.
`LegalStays` says that the state after the call is such a state again, so what
holds of one call holds of every sequence of calls. It is checked in all three runs,
that is, of every routine.

`ZAHL_ADD_CTZ` is the one place where a build's variant computes something else: the
loop in C for compilers other than GCC and Clang counts ones where the builtins
count zeros (`AddCtz`). The client calls `zlsb` in either build (`Builds`).

### ZahlProducts

`zmul` and `zsqr` recur on themselves and on each other. `stack` holds the frames
of `zmul_ll` and `zsqr_ll`, innermost first, and one step is what the innermost
does up to its next call or its return (`MulSplit`, `MulLow`, `MulMiddle`,
`MulHigh`; `SqrSplit`, `SqrLow`, `SqrCross`, `SqrHigh`). The temporaries of a frame
are integers of `ZahlCalls` under names of their own. The halves of `zsqr_ll` are
not integers: they are windows on the block of its operand (`zsqr.c:45`), and the
operand may be the result. `zmul` takes the signs of its operands away while it
runs (`Unsigned`, `SignsRestored`); `ZInitTempFails` is an error in any frame,
which leaves `zmul` by `longjmp`.

### ZahlKaratsuba

The recursion of `ZahlProducts` over values: `Multiplied` and `Squared` are the sets of
what `zmul_ll` and `zsqr_ll` may store. `ZSubImpl` is a difference that may have lost its
top; the character then stands above the magnitude, and the next subtraction may borrow
from it, or, having none left, from stale characters, which is why these are sets. They
have one member for nearly all factors. `ProductsExact` checks that what `ZahlProducts`
stores, with every character and frame, is a member.

### ZahlDivision

One variable per C variable: `ta`, `tb`, `td`, `tds` (static, so they keep what
the last call left), `bit`, `i`, and `pc`, the place in the code. Integers are
values here. That is justified by `ZahlCalls` for `zlsh`, `zrsh`, `zbset`,
`zcmpmag` and `zabs`, and for `zsub_unsigned` except where `BorrowEndsInside`;
`BorrowStaysAtTop` shows that division never subtracts in that case.

| Action | Code |
|---|---|
| `ZDivMod`, `ZDiv`, `ZMod` | the call, with any coincidence of parameters but quotient = remainder |
| `NoQuotient`, `ZeroDividend`, `EqualMagnitudes`, `SmallerDividend` | the cases `zdivmod` decides by itself |
| `Align`, `Copy` | the divisor shifted to the dividend's top; quotient 0, remainder = dividend |
| `Single` | the loop that shifts the divisor for each bit |
| `Cache`, `Cached`, `Many`, `ShiftCache` | the loop over `BITS_PER_CHAR` cached shifts, with `zrsh_taint` after each turn |
| `Store` | `zswap` of both results, signs |
| `MemoryFails` | `ENSURE_SIZE` failing in any of these; `RemainderLost` where `SET(b, c)` does, after it has given b the sign and `.used` of c |

`zbits(v) = n` is the relation `HasBits(v, n)`, and powers of two are a constant
function `Power` with the recurrence as assumption: neither needs `^`, which the
provers know nothing of.

### ZahlPower

One call of one of six routines. `call.p` says which of the client's integers each
parameter is, in every way they can coincide; `num` is what these hold and `given`
what they held. `Exceptional` are the cases that return before anything is
written. `Base`, `CopyExponent`, `CopyModulus` and `One` are the assignments to the
temporaries; `NextChar`, `WholeChar` and `LastChar` the two loops of `zpow` and
`zmodpow`, `Shift` the loop of `zpowu` and `zmodpowu`. The copy of the exponent is
a row of characters, because the code goes by the number of bits and reads one more
character than there may be: what is above the exponent is anything
(`CopyExponent` chooses it). `SaveModulus`, `Product`, `Reduce` are `zmodmul` and
`zmodsqr`. Products are what `ZMul` and `ZSqr` allow (`Times`, `SquareOf`), and `lost`
says whether the base or the power has been made of a wrong one. `MemoryFails` may come
wherever an integer is given a value. `Promised` has what the manuals say, a negative
exponent of 1 included, which the code does not do (`InverseOfOne`).

### ZahlGcd

`u` and `v` are the magnitudes of the two temporaries; `uAt` and `vAt` are where
their `.chars` points: into whose block, and how far from its start. A `Turn` swaps
them if need be, subtracts, and shifts the zeros out, which moves `.chars` up.
`Difference` is what `zsub_impl` leaves: the difference, or, where the borrow ends
at a character 1 below the top (`LosesTop`), what is left without the top one.
`lost` remembers that this has happened.

### ZahlNumbers

`zrand`: `Choose`, `Open`, `Sign`, `Read` (a device delivers some, none, or an
error) or `LibcFills`, `Mask` (any bits, cut as the code cuts them), `Distribute` (the
number is accepted, wrapped, or scaled by what `zmul` stores), `Again`, `Drawn`. `zptest`
runs `Round`s, each calls `zrand` for a base, with the maximum n - 4 as `zsub_unsigned`
stores it (`N4`); then `ModPow` and `Bit` are `zmodpow`, with the longer exponent it may
read (`Above`) and the products `zmul` and `zsqr` store, and `Compare`, `Square` and
`SquaresUsedUp` the loop over the squares.

### ZahlStrings

`zstr` writes groups of digits from the right to where it reckons they will be,
keeps the digit its terminator overwrites, and moves everything down at the end
(`Begin`, `Group`, `FirstGroup`). A buffer is a function on addresses, with
`Outside` beyond its end, so that what is written there can be seen. `zstr_length`
(`Measure`, `Radical`, `Square`, `Cut`) and `zsets` (`Parse`, `FirstDigits`,
`NextDigits`, `SetSign`) follow the loops of the code, with the products `zmul` and `zsqr`
store (`Stored`). A call that fails is followed
by `zerror` or `zperror`.

## 3. Where the code departs from its manuals

The code does not do what its manuals say in the following cases. Where the property
is an equivalence (=), the predicate is the exact set of calls on which this happens:
the result is right if and only if it is false. So the passing run shows the departure,
its extent, and that the property finds no other. Where it is an implication (>), the
property promises nothing if the predicate holds: what a wrong product has gone into
may be right all the same, after a division for instance. The findings of
`PROJECT.json` quote the sentences concerned.

| Predicate | | Module | Where | What happens |
|---|---|---|---|---|
| `BorrowEndsInside` | = | `ZahlCalls` | `zsub.c:21` | a borrow that ends at a character 1 with others above drops the top of the difference |
| `CarryIsStale` | = | `ZahlCalls` | `zadd.c:137` | the zero put on top of the sum is overwritten by the copy in groups |
| `SkippedBits` | = | `ZahlCalls` | `internals.h:364` | in-place `zor` and `zxor` leave out the last of several whole groups |
| `NotWithoutRoom`, `NotOverruns` | = | `ZahlCalls` | `znot.c:19` | the result is stored in a block never made large enough |
| `ClearsBitOfZero` | = | `ZahlCalls` | `zbset.c:18` | clearing a bit of zero looks at characters by a `.used` nothing has set |
| `CountsOnes` | = | `ZahlCalls` | `zahl/internals.h:86` | built by neither GCC nor Clang, `zlsb` counts the ones of a character instead of the zeros below them: wrong for all but zero |
| `WrongProduct` | = | `ZahlProducts` | `zmul.c:66` | the borrow above, in the recursion: the product is wrong |
| `Spill` | = | `ZahlPower` | `zmodpow.c:53`, `zpow.c:55` | of an exponent with a whole number of characters, the character above it counts too |
| `InverseOfOne` | = | `ZahlPower` | `zmodpow.c:27`, `zpow.c:31` | 1 to a negative exponent is 0 instead of 1 |
| `"power" \in lost` | > | `ZahlPower` | `zmodmul.c:12`, `zmodsqr.c:10` | the wrong products above, in a product, a square or on the way to a power |
| `Full(BitsOf(max))` | = | `ZahlNumbers` | `zrand.c:124` | of a maximum with a whole number of characters, the last character is never drawn |
| `call.same` | > | `ZahlNumbers` | `zrand.c:149` | if the result is the maximum, the number drawn is compared with itself |
| `"number" \in lost` | > | `ZahlNumbers` | `zrand.c:197` | the wrong products above, by which `QUASIUNIFORM` scales: a number above the maximum |
| the errors in `DeviceClosed` | = | `ZahlNumbers` | `zrand.c:188` | an error after the device was opened leaves it open |
| `Full(BitsOf(D))` | > | `ZahlNumbers` | `zptest.c:44` | `zmodpow`'s exponent above, in the test of a prime: NONPRIME without a witness |
| `"power" \in lost` | > | `ZahlNumbers` | `zptest.c:50` | the wrong products above, in the power or its squares: NONPRIME of a prime |
| `lost` | > | `ZahlGcd` | `zgcd.c:46` | the borrow above, in the loop: another divisor, though the loop still ends |
| `Tight`, `Garbled` | = | `ZahlStrings` | `zstr.c:76` | no place is reckoned for the sign: a write past the buffer, one digit lost |
| `lost` | > | `ZahlStrings` | `zsets.c:36`, `zstr_length.c:22` | the wrong products above, when a numeral of several groups is read or the length is measured |
| `ErrorsDescribed` | = | `ZahlStrings` | `zerror.c:5` | `ZERROR_INVALID_RADIX` has no description: `zerror` aborts |

`RetriedInVain` (`zsetup.c:35`) is a departure of the same kind in `ZahlMemory`: there the
array of temporaries overflows and the error path frees none of them. The properties
of that module hold but for it, and what may happen then is in the model.

One more has a run of its own, because it refutes a sentence on the
representation that no operation reports: `memory_failed_growth`, a failed
`realloc` leaves `.alloced` without `.chars` (`allocator.c:24`).

## 4. Runs

| Run | Instance | Shows |
|---|---|---|
| `memory_errors` | 2 client integers, 1 static and 2 local temporaries, 3 blocks, 2 classes, 2 contents; every allocation may fail, `zsetup` too, and is tried again | ownership, sizes, the temporary stack, the error path, the refinement |
| `memory_no_errors` | 1 client integer, 3 blocks; allocations succeed; fairness on the unwinding | nothing leaks, arrays grow in time, every error reaches the client |
| `memory_failed_growth` | 1 client integer, 2 blocks; expects a violation | `.alloced` without `.chars` |
| `calls_sums` | operands of up to 3 characters of 2 bits, groups of 2, `SmallCases` 0; assignments but `zsetu` and `zseti`, saving and loading, sums and differences | sums and differences are exact, results legal again, nothing outside the blocks |
| `calls_unary` | the same sizes, `SmallCases` 2, shifts of up to 7 bits; shifts, cuts, `zsplit`, `znot`, `zbset`, all assignments, and the questions, `zlsb` in both builds | exact, right answers, results legal again, nothing outside the blocks |
| `calls_binary` | operands of up to 4 characters of 1 bit | logic and comparisons over two groups, results legal again, nothing outside the blocks |
| `products` | 13 magnitudes of up to 4 characters of 2 bits, both signs, all coincidences | products and squares are exact where no borrow is lost, factors stay, the recursion ends soon, an error at any depth |
| `division` | 2 client integers, 19 values of up to 5 bits, characters of 2 bits, 2 calls in a row | the truncated quotient and remainder by both loops, the loop invariants, the return of every call |
| `powers` | 13 values, characters of 2 bits, exponents of up to 2 characters, all coincidences | the power of the exponent that is read, and which errors are raised before what |
| `gcd` | every pair from -9 to 127, characters of 2 bits | the divisor, the loop's invariant, `.chars` restored, the return of every call |
| `numbers` | maxima of up to 6 bits and 535, characters of 3; `zptest` of numbers up to 97, up to 2 tries | ranges, the device, certain verdicts, the two ways `zrand` may not end |
| `strings` | groups of 2 digits, characters of 7 bits, buffers of every promised size and up to 5 more; all strings of up to 5 characters out of 6, and numerals of up to 9 digits some of which lose a borrow | buffers, both conversions, the length in several radices, the words for every error |

### Bounds

Memory. `PoolInit = 2` and `StackInit = 1` replace 128 and 256, so that growth
happens within three blocks and two temporaries. Two classes are enough for a
block to be exchanged for a larger one while both buckets are in use. Symmetry
(client integers, blocks, contents) is used only without liveness. `SetupRetried`
is whether the client calls `zsetup` again after it failed, and goes on without a
temporary stack.

Characters. With `Group = 2` operands of 3 or 4 characters already have a whole
group, a partial one and two groups; two bits distinguish the values a carry or
borrow treats differently (0, 1, all ones, and one that is none of these).
`SmallCases` is below the operands' sizes in some runs and not in others, so that
both kinds of copy occur. `zsetu` and `zseti` are left out of `calls_sums`: they look at
nothing but `.alloced`, and with the values they are given beside two operands
the run would be several times as long. Their legality is checked in `calls_unary`, and
`SumsAreExact` has them for every width. `MaxUsed` and `MaxBits` bound operands and shifts;
`Room` is large enough for every result, which `RoomAssumption` says: it has the
characters of the largest block a call asks for, and its margin.

Products. Factors of one to four characters take `zmul_ll` and `zsqr_ll` through
every branch: halves that are zero, halves below and above one character, squares
split in the array of the frame and in place, and recursions at least three frames
deep. The 13 magnitudes include those whose recursion loses a borrow and some, like
255, whose sums of halves carry.

Division. With characters of 2 bits a quotient of 5 bits takes the cached loop
through two whole turns and one in which only a part of the cache is shifted; the
other loop is taken by shorter quotients. Two calls (`MaxCalls`) are enough to
see what the first one leaves in the temporaries. In the run only `libzahl_tmp_div` can be the
remainder when `SET(b, c)` fails for memory, for both integers of the client are operands;
the theorem has any number of them. Three names for four
parameters (two integers and a static temporary) still give every way in which a
result can be an operand.

Powers. Exponents are in turn shorter than a character (1), as long as one (2, 3),
longer (5) and as long as two (9, 12). `Powered` keeps `zpow` and `zpowu`,
which have no modulus, within TLC's integers, whatever is above the exponent. Among the
factors are those of which a borrow is lost: 11 * 13 (`zmodmul`), 103 * 103 (`zmodsqr`),
13^4 * 13 (`zpow`, `zpowu`) and 11 * (11^2 mod 18) (the modular powers).

Divisors. Seven bits in characters of two: a borrow that ends inside needs three
characters; shifts within a character, by one and by several occur.

Numbers. Characters of three bits, maxima that fill one (7 is 111, 4 to 7) or two
(32 to 63) of them and maxima that do not, and 535, by which some numbers drawn are
multiplied wrongly and exceed it. `MaxChars = 4` and the powers `Two` up to 2^12 cover
every maximum and number. Among the numbers tested are primes and
composites whose odd part fills its characters and ones whose does not; 11 is a prime that
the exponent above makes composite, 97 one that a wrong product does, and 73
loses its top when 4 is taken away.

Strings. `Digits = 2` and characters of 7 bits keep the proportions that matter:
one character may have one digit more than a group (20 and 19 in the code), so that
the reckoning of `zstr` is met exactly; numbers have up to four groups. `Room` is the
number of addresses in the model, above every buffer, so that a write past the end
falls on one of them; `RoomAssumption` demands that. `RadixPower` has the powers of ten.
Of the long numerals some have first digits that `zmul` multiplies wrongly (2112159 is
stored as 31391), by themselves and after other groups, and some are next to these. That a
length may be wrong after a wrong square does not occur in the run: with
characters of 7 bits no square root that `zstr_length` needs there loses a borrow, and
larger ones exceed TLC's integers. The theorem has it.

Products above `ZahlProducts`. The modules take `ZahlKaratsuba`'s products, and
`ProductsExact` checks against `zmul_ll` and `zsqr_ll`, frame by frame, that these
sets have what is stored.

Deadlock is not checked where a behaviour is one call (or two) and then over.

### Fairness

Straight-line code of one thread proceeds once it is entered: there is weak
fairness on the unwinding of `libzahl_failure`, on division, on `zgcd`, and on
`zrand` and `zptest`. It is not assumed where the code depends on others: the client
need not call anything, the allocator may succeed or fail for ever (its
failure is in no fairness condition), and a device may deliver nothing for ever: the loop of `zrand_fd` has
fairness only when no character is left to be read. `EndsOrWaits` therefore names
the two ways a call may not end. For products there is no need of fairness:
`RecursionHalves` bounds the depth of the recursion by the bits of the operands.

## 5. Proofs

Proved statements hold for every value of the constants: every width of
characters, every operand, every number of integers and blocks. They use no
assumptions but the `ASSUME`s of the modules, which TLC evaluates in the runs. Of
`ZMul` and `ZSqr`, the products that powers, random numbers, the test of primality and
strings are given, nothing is assumed: the theorems hold whatever these store, and say
what does where a product was wrong.

### Arithmetic (`ZahlLemmas`)

Not about the code, and from no assumptions. The provers know `\div`, `%` and
products of variables only a little, and no induction; the module is there to make up
for that. `LeastNumber`, `Inductive` and `CompletelyInductive` are induction
over a *set* of numbers, which needs no operator as a parameter. `Quotients`,
`QuotientOfQuotient`, `QuotientOfPart` and `ReducedFactor` are the laws of quotients
and remainders. `PowersOf` are powers as a recursive function, and `Raised(b, n)` is
the n-th. `RunningSums` and `RunningCarries` are that the recursive functions exist by
which the modules describe loops. `BitsAre(v, S, n)` says that the bits of v below the n-th
are those in S; `BitAbove` adds one, `SameBits` is that there is only one such number, and
`BitMasks` has those of the masks.

Its second part proves what an answer of `zptest` rests on. `PrimeDivides` is Euclid's
lemma. `Fermat` is Fermat's little theorem, by a walk over residues: the powers of b
form a set of as many numbers as b has powers (`Order`), its multiples (`Coset`)
fill 1 .. p - 1 without overlapping, so that their number divides p - 1
(`OrderDivides`). `RootsOfOne` is that a prime modulus has no roots of one but 1
and -1. `PrimesHaveNoWitness` puts both together: whatever the base, the repeated
squares of its odd power either begin with 1 or meet -1.

### Memory (`ZahlMemoryProofs`)

From `MemoryAssumption` (the kinds of variables are disjoint, bounds are natural
numbers, and a bucket starts with more than one slot: from one, `j * 3 >> 1` would
not grow).
`IndInv` joins the type invariant with ownership, sizes, the arrays' capacities
and `Bookkeeping`: which variables may be live in which mode. It is needed
because ownership alone is not inductive: `zfree` runs in the middle of
`libzahl_realloc`, on a pool that has just given a block away, so the lemmas
about `Push` and `DropBucket` are stated for any pool and any heap.

Proved for every number of integers, blocks, classes and contents, with any
allocation failing: `TypeCorrectness`, `BlocksHaveOneOwner`,
`BlocksFitTheirOwners`, `ArraysNeverOverflow`, `StackTracksTemporaries`,
`ErrorsSpareTheClient` (an action property) and `MemoryImplementsRegisters`, the
refinement. For the last one every action is mapped to a step of `ZahlRegisters`
or a stutter; it also needs `Forgotten`, that variables which are not live hold
nothing. All of these have the retried `zsetup` in them: `EntryHasRoom` is that
`zinit_temp` writes its entry inside the array unless `RetriedInVain`, and
`NewTempContents` that an entry written outside costs one register at most.

`ErrorsLeaveNothing` adds `TextOwned`: a block that is a string belongs to the client
or to `libzahl_temp_allocation`. `NothingLeaks` is proved under `~MallocMayFail`, for a
failure does lose blocks; its invariant is `AllHeld`, that every allocated block is
held by a variable, a bucket or as a string, with `PoolWhileSetUp`: no block is in the
pool while the library is not set up, where nobody would look for it.

### Characters (`ZahlCallsProofs`)

From `DigitsAssumption` and `MarkersAssumption` (a stale or foreign character is no
digit), `CallsAssumption` and `RoomAssumption`: any width, any size of groups, any
number of characters that are copied exactly, operands and blocks of any size.

The value of an integer is the recursive function `Lowest` over its characters.
`Places` are the weights of the characters; `LowestSteps`, `LowestPlaces`,
`LowestSplit` and `LowestTop` say what the lowest n of them amount to, by induction
over a set of positions. On these rest the two loops that carry: the sum of the
lowest n characters is the sum of both operands' less the carry times its place
(`CarriesAdd`), and the difference likewise (`BorrowsSubtract`). Where the loops have no
bound of their own, the first character that ends them is the least of a set that is
not empty (`CarryEnds`), for sums because of the character that was cleared, for
differences because the minuend is the larger. `SumCharsExact` and
`DifferenceCharsExact` put a loop and its end together.

Every routine has a lemma of its own, stated for parameters that may be the same
integer (`ZAddUnsignedIs`, `ZSubUnsignedIs`, ...). `Held(r)` is what a routine needs of an
operand, `Clean(r)` what it leaves of the characters outside the magnitude: that none
of them is a digit. That is what makes the property an equivalence: a carry that
meets a character which is not clean is never a sum by chance, and a borrow that ends
inside always costs the top, so that the difference is too small. `ZSubImplIs` and
`SummedIs` have both cases. The operator `Only(t, s, a)` says that a call
changes one integer; with it the copies that go through `tmp_sub`, or through a
result that is an operand, are put together.

`SumsAreExact` then needs only one invariant, `Before`: until the call, the integers are
`Ready`, that is, the operands `Held` and clean (`InitReady`). `Exact` is the
property for one call. `StepIs` has one case per action, for this property and for the
two that follow.

`AnswersAreRight` has in addition the bits: `OnesAre` shows that the bits of a magnitude
are the bits of its characters (`OnesOf`), each so many places up, for any function of
digits; so `zlsb` and `zbits`, which look at one character, see the lowest and the
highest (`ZLsbIs` also that the loop in C is right for no number but zero: it counts
a one at least if the number is odd, and none if it is even), and `zbtest` finds its
bit by a quotient and a remainder. Comparisons go by the highest character that differs (`ZCmpMagIs`), after zeros above the
magnitudes have been dropped on both sides at once (`Compared`). `ZSaveIs` and `ZLoadIs` are the
buffer: filled in whole groups, of the size that `zload` computes again from
what it has read.

`BitsAreExact` needs two views of an integer. For shifts it is a number: 2 to the n-th is
a place and a power of two below the base (`TwoPlaces`), and a character that goes up
or down splits into a part that stays and one the neighbour gets (`CharUp`, `CharDown`),
so that the loops over characters multiply and divide like the loops that carry
(`RaisedByIs`, `LoweredByIs`, then `ZLshIs`, `ZRshIs`, `ZTruncIs`, `ZSplitIs`).
For bitwise operations it is a set of bits: `FromOnes(S)` has exactly the bits in S
(`FromOnesIs`), and no other number has (`SameBits`), so two
magnitudes whose characters have the bits `OnesOf` says are equal (`CharsMake`). `MergedOnes`
and `MergedIs` are the loop over two operands with the characters of the longer one above,
where `Skips` is the group that is left out in place; `Masks` and `OnBitIs` change one bit.
`ZBSetIs` has the case in which a cleared bit was the top of the magnitude, and `ZNotIs`
that the result is right exactly if it fits the block `znot` does not make larger.

### Division (`ZahlDivisionProofs`)

From `DivisionAssumption`. The lemmas about `Power` (positive, monotone,
`Power[m + n] = Power[m] * Power[n]`) are proved by taking a least counterexample,
which exists because `<` is well-founded on the natural numbers. `ExactShift`
and `FreshBit` are the facts about `\div` and `%` that the loops use.

`IndInv` adds to the checked invariants `Engaged` (the dividend is larger while
the loops run), `Aligned` (dividend between the aligned divisor and its double),
`CacheFills` and `CacheHolds` (entry k is the divisor k bits behind the bit at
which the turn began). The heart is `OneBit`: subtracting where it fits keeps
dividend = quotient * divisor + rest and halves the bound on the rest;
`ShiftCacheKeeps` shows that a whole turn of the cache, or the wanted part of it,
is again the divisor shifted to the next bits.

Proved for every width of characters and integers: `LoopsDivide`, `LoopsAgree`,
`BitsOnce`, `BorrowsAtTop` and `DivisionImplements`: as the caller sees it,
`zdivmod`, `zdiv` and `zmod` are one step that stores the truncated quotient and
the remainder, or an error that changes nothing but, where the dividend is the smaller
and no operand is the remainder, the remainder's old value (`NoMemory`).

### Powers (`ZahlPowerProofs`)

From `PowerAssumption`. `ErrorsAreExact` needs to know at each place of the code
what was found out of the operands before (`Checked`), that nothing is written
before the loops (`Untouched`), and that the modulus of `zmodmul` is still at hand
when the product is stored over it (`ModulusKept`).

`PowersAreExact` says that what is stored is the power, for any exponent and any
parameters the same integer: but for a negative exponent of 1 (`InverseOfOne`) exactly
then not, and unless a wrong product went into it. Its invariant `PowerInv` adds:

* `Operand`: only the result differs from what was given;
* `Started`: base, modulus and characters are copies of the operands;
* `Looping`: the predicate `Stands(P, Total, tb, A, rest)`: there are a step e > 0
  and an r such that the base is power e, the product so far is power r, and the
  exponent `Total` is r + e * rest. It claims nothing of a base or a product that
  `lost` names: products may store anything (`SquareGoesOn`, `MultiplyGoesOn`). What
  the rest is depends on the place: `Tail(i)`, all characters from i on, before a character is read; the bits of it
  that are left, in front of the next tail, in the loop over whole characters; the
  bits left, in the loop over the last one.

The power itself is the recursive function of the property. That such a function
exists, that two of them agree and that exponents add up (`PowersMultiply`) is shown
by least counterexample; with a modulus they add up because reducing a factor does
not change the remainder (`RemFactor`, with signs), except for the exponent 0, whose
1 is not reduced: hence e > 0. `WholeDigit` and `LastDigit` are the facts about the
characters of the exponent: `Tail(k)` is character k and, a character's width
higher, `Tail(k + 1)`. The last character may be above the exponent, and then is the
whole of the last tail: that is `Spill`.

### Greatest common divisor (`ZahlGcdProofs`)

From `GcdAssumption`. `IndInv` is a checked conjunction: `OddAndPositive` (what a lost
character leaves is still positive, so the loop goes on, with a wrong number), `Stripped`, `InRange`, `SameDivisors` and the place of the
pointers. The lemmas are about divisors: of a difference, of a number without its
zeros if the divisor is odd. Proved: `LoopKeepsDivisors`, `PointersAreRestored`,
`StoresGcd`: while nothing is lost, the result is a common divisor of the operands
and no greater number is.

### Random numbers and primality (`ZahlNumbersProofs`)

From `NumbersAssumption`: characters have bits, `Two` are the powers of two as far as
`MaxBits`, and no number that is asked about has more bits than that. `MaxBits`
may be any size, so this excludes nothing. A character has at least three bits, so
that the 4 `zptest` subtracts has one character.

`DeviceIsClosed`: the invariant `Device` says at each place whether the device is
open; `zptest` never opens one.

`NumbersAreInRange`: `RangeInv` adds `Limits` (what the maximum is at each place: the
client's, or n - 4 of an odd n above 3) and `InRange` (the number drawn, before it is
handed out). For the mask, `MaskedIs` shows that what is left of any characters is
their remainder by a power of two, or by the power a character lower where the
maximum fills its characters: so that all of the range can be drawn in the one case
and nothing above the lower characters in the other (`DrawableIs`). A scaled number is at
most the maximum because the number drawn is below the power it is divided by, if the product is
right (`ScaledRange`); wrapping takes one subtraction
because that power is at most twice the maximum. `N4Range` is that what is left of n - 4
when its top is lost is a maximum below it, so that bases stay in their range.

`VerdictsAreCertain`: `VerdictInv` adds `Bases` (a base is in 2 .. n - 2, by the range of
`zrand` with a maximum of at most n - 4), `Bits` (in `zmodpow`, x is base^g and the square
base^e, modulo n, and d is g + e times the bits that are left, by `BitVerdict`) and
`Squares`: x is base^(d * 2^(i-1)) modulo n, the first of
these was not 1 and none so far was n - 1. `OddPart` shows that n - 1 = d * 2^s with d
odd and s at least 1, `PowerModExact` that the power of the property, which squares and
multiplies in another order, is the same.
So NONPRIME is said when the squares are used up, or are 1 from now on,
without having met n - 1, and then `PrimesHaveNoWitness` gives that n is composite. If
d fills its characters, or a product that went into the power was wrong, nothing is
known of x, and only the range of the base is claimed.

### Strings (`ZahlStringsProofs`)

From `StringsAssumption`: any radix above 1, any size of groups and characters, as long as
a character holds a group and at most one digit more, and two characters not two more
(10^19 < 2^64 < 10^20 and 2^128 < 10^39 in the code); and `RoomAssumption`, that the
array of addresses covers what is printed. `RadixPower` is a constant function.

`Numeral` is a recursive function into sequences; `NumeralDigits` gives its digits as
quotients and remainders, `QuotientLength` the digits of a number without its last
ones. `Guessed` and `DigitsOfChars` are the reckoning of `zstr.c:76`: numbers of so
many characters have at most so many digits, which is where the bound on two
characters is needed; `Reckoning` makes `Tight` exactly the calls in which the sign
has no place.

`IndInv` has one part for each routine. `Grouping`: the digits done stand at their
places to the right of `last`, the digit the terminator of the next group will
overwrite is kept in `overridden`, and `num` has the others. `PrintedRight` is what
stands in the buffer when `FirstGroup` has moved everything down; the group that is
moved may overlap where it goes, and `Places` keeps these apart. `Parsing`: the number so
far is that of the digits read, and what is unread is whole groups; `NumberSum` is that
a group shifts the number by a power of the radix, if the product is right. `Measuring`: the digits counted and
those of `num` are one more than there are (`Counted`), and `div` is a square root of
`mag`, as long as no square was wrong (`lost`).

Proved for every radix, width, integer, string and buffer: `BuffersAlwaysSuffice`,
`StringsAreExact`, `ErrorsAreDescribed`.

### Only model-checked

* Liveness: `UnwindTerminates`, `CallsReturn` of division and of `zgcd`,
  `EndsOrWaits`. The prover has no rules for fairness at hand.
* `LegalStays`: what it says of values follows from the same lemmas as
  `SumsAreExact` and `BitsAreExact`, but for the block it needs the reach of every loop of
  29 routines, which is left to the runs.
* `ProductsExact`, `FactorsStay`, `RecursionHalves`: frames and the set of wrong
  products are defined by recursion in `ZahlProducts`, for which the prover has no backend.

## 6. Observations

Met while modelling, part of the models, and not findings: no sentence of the manuals
is about them, or the code is right in its own terms.

* A bucket of the pool that cannot grow is dropped with all its blocks
  (`DropBucket`).
* `zmul` left by an error has made its operands positive (`FactorsStay`).
* `zgcd` left by an error of its last shift leaves `.chars` of its temporaries inside
  their blocks (`PointersRestored`).
* `zmodmul` and `zmodsqr` with a modulus 0 raise their error after they have stored
  the product; the powers raise it before they store anything
  (`ErrorsLeaveOperands`).
* `zmodpow(a, b, 0, 1)` is 1, not 0: the 1 of an exponent 0 is not reduced.
* `zxor` keeps `.chars` of its operands in locals across `ENSURE_SIZE` of the
  result, which may be one of them, but only uses the one that is not.
* `zdivmod` with a smaller dividend gives its remainder the sign of the dividend before
  `SET` asks for room; its quotient 0, by `zseti`, asks before it writes, and only if the
  quotient never had a block (`RemainderLost`).
* A device that is at its end keeps `zrand` waiting for ever (`EndsOrWaits`).

## 7. Plan

Everything with a state of its own is modelled. What could follow:

1. A proof that no routine touches a character outside its block, for every width,
   group and size (`LegalStays`), from the lemmas about copies in `ZahlCallsProofs`.
2. A proof that `ZahlProducts`' recursion is exact over values where nothing is
   lost, in a module that has the set of wrong products as a constant.

## 8. Not modelled

Inline assembly behind `#if` (the C alternative is). Of the compiler builtins,
those that count trailing zeros (`ZAHL_ADD_CTZ`) have an alternative in C that computes
something else: `zlsb` is modelled with both, while `zgcd` and `zptest`, which use it, are
modelled as GCC and Clang build them. The alternative of `ZAHL_SUB_CLZ` computes what the
builtins do, and those for carries (`libzahl_add_overflow`) and highest bits
(`libzahl_msb_nz_zu`) likewise. Also
builds with `ZAHL_UNSAFE`, which drop the checks of arguments; the quality of random
numbers and the probability that Miller-Rabin errs; undefined uses that the
manuals forbid (integers before `zinit` or after `zfree`, quotient = remainder);
the output of `zperror`; tests, benchmarks and documents.
