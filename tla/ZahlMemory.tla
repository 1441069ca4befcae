----------------------------- MODULE ZahlMemory -----------------------------
(***************************************************************************)
(* The memory discipline of libzahl: who owns which heap block, from       *)
(* zsetup to zunsetup, through growth, caching, swapping, temporaries and  *)
(* the long jump every error ends in.                                      *)
(*                                                                         *)
(* An integer variable (z_t) owns at most one block, .chars.  zfree does   *)
(* not return a block to the C heap: it pushes it on the bucket of its     *)
(* size class, where libzahl_realloc looks before it asks the C heap.      *)
(* Temporaries that live on the C stack are recorded on a temporary stack, *)
(* so that libzahl_failure can release them before it long-jumps.          *)
(*                                                                         *)
(* Sizes are abstracted to their binary logarithm, which is all the code   *)
(* compares: every allocation made by libzahl_realloc holds a power of two *)
(* of characters (and the four of fluff), and `alloced < need' holds       *)
(* exactly when the logarithm is below that of the rounded-up need.        *)
(*                                                                         *)
(* What nobody may read is forgotten: the fields of a variable that is not *)
(* live (it must not be used again until zinit) and the characters of a    *)
(* block no variable owns.                                                 *)
(***************************************************************************)
EXTENDS Integers, Sequences, SequencesExt, FiniteSets

CONSTANTS
  User,           \* the client's integers
  Temp,           \* libzahl's static temporaries (LIST_TEMPS, divmod_ds)
  Local,          \* temporaries in the frames of recursive calls
  Block,          \* the blocks the C heap can hand out
  Value,          \* the magnitudes a block can hold
  MaxClass,       \* the largest size class of the model
  PoolInit,       \* slots of a new bucket array; 128 in the code
  StackInit,      \* slots of a new temporary stack; 256 in the code
  MallocMayFail,  \* whether malloc and realloc may return NULL
  SetupRetried,   \* whether the client calls zsetup after a zsetup that failed
  NULL, Junk

Var   == User \cup Temp \cup Local
Class == 0 .. MaxClass

ASSUME MemoryAssumption ==
  /\ User \cap Temp = {} /\ User \cap Local = {} /\ Temp \cap Local = {}
  /\ MaxClass \in Nat
  /\ PoolInit \in Nat /\ PoolInit > 1   \* the growth j * 3 >> 1 stalls at 1
  /\ StackInit \in Nat \ {0}
  /\ MallocMayFail \in BOOLEAN /\ SetupRetried \in BOOLEAN
  /\ NULL \notin Block /\ Junk \notin Value

Unallocated == -1   \* a block the C heap owns
Text        == -2   \* a block that holds a string made by zstr
NoSize      == -1   \* .alloced = 0

VARIABLES
  setUp,           \* libzahl_set_up
  stackMem,        \* libzahl_temp_stack: "held", or NULL or freed, with its head
                   \* and end NULL too ("never") or those of an array now gone ("stale")
  mode,            \* who runs: nobody ("off"), the client, a call, the unwinding
  live,            \* the variables between zinit and zfree
  chars, alloced,  \* the fields of the variables
  heap,            \* what each block is allocated as
  data,            \* what the characters of each block are
  pool, poolCap,   \* libzahl_pool with libzahl_pool_n, libzahl_pool_alloc
  tempStack,       \* what was written up to libzahl_temp_stack_head
  stackCap,        \* libzahl_temp_stack_end less the place of the first of these
  tempAllocation,  \* libzahl_temp_allocation
  strings          \* the strings zstr gave to the client

libVars   == <<setUp, stackMem>>
fieldVars == <<chars, alloced>>
heapVars  == <<heap, data>>
poolVars  == <<pool, poolCap>>
tempVars  == <<tempStack, stackCap>>
textVars  == <<tempAllocation, strings>>
vars == <<libVars, mode, live, fieldVars, heapVars, poolVars, tempVars, textVars>>

NoPool == [i \in Class |-> <<>>]
NoCap  == [i \in Class |-> 0]

Init ==
  /\ setUp = FALSE /\ stackMem = "never" /\ mode = "off"
  /\ live = {}
  /\ chars = [v \in Var |-> NULL] /\ alloced = [v \in Var |-> NoSize]
  /\ heap = [b \in Block |-> Unallocated] /\ data = [b \in Block |-> Junk]
  /\ pool = NoPool /\ poolCap = NoCap
  /\ tempStack = <<>> /\ stackCap = 0
  /\ tempAllocation = NULL /\ strings = {}

\* zinit: no memory yet.
Clear(V) ==
  /\ chars' = [v \in Var |-> IF v \in V THEN NULL ELSE chars[v]]
  /\ alloced' = [v \in Var |-> IF v \in V THEN NoSize ELSE alloced[v]]

\* The fields and the blocks after the variables of V have gone.
Forget(V) ==
  /\ Clear(V)
  /\ data' = [b \in Block |-> IF \E v \in V : b = chars[v] THEN Junk ELSE data[b]]

ContentOf(v) == IF chars[v] = NULL THEN Junk ELSE data[chars[v]]

\* Mutant: libzahl_realloc hands out the new block without copying into it.
Moved_NoCopy(v, b) == [c \in Block |-> IF c = b \/ c = chars[v] THEN Junk ELSE data[c]]

\* The characters of v move to the block b.
Moved(v, b) == [c \in Block |-> CASE c = b                 -> ContentOf(v)
                                  [] c # b /\ c = chars[v] -> Junk
                                  [] OTHER                 -> data[c]]

\* After a failed realloc .alloced promises memory that .chars does not
\* point to; the code would dereference NULL, so nothing uses the variable.
Usable(v) == v \in live /\ (chars[v] = NULL => alloced[v] = NoSize)

-----------------------------------------------------------------------------
(* zsetup and zunsetup                                                     *)

ZSetup ==
  /\ mode = "off" /\ ~setUp
  /\ setUp' = TRUE /\ stackMem' = "held" /\ mode' = "user"
  /\ live' = live \cup Temp
  /\ Clear(Temp)
  /\ pool' = NoPool /\ poolCap' = NoCap
  /\ tempStack' = <<>> /\ stackCap' = StackInit
  /\ UNCHANGED <<heapVars, textVars>>

\* The allocation of the temporary stack fails: libzahl_set_up is 1 already,
\* and head and end are what the last zunsetup left, if there was one.
ZSetupFails ==
  /\ mode = "off" /\ ~setUp /\ MallocMayFail
  /\ setUp' = TRUE
  /\ live' = live \cup Temp
  /\ Clear(Temp)
  /\ pool' = NoPool /\ poolCap' = NoCap
  /\ UNCHANGED <<stackMem, mode, heapVars, tempVars, textVars>>

\* A zsetup that finds libzahl_set_up only records the jump buffer: the client
\* goes on without a temporary stack.
ZSetupAgain ==
  /\ mode = "off" /\ setUp /\ SetupRetried
  /\ mode' = "user"
  /\ UNCHANGED <<libVars, live, fieldVars, heapVars, poolVars, tempVars, textVars>>

\* Mutant: zunsetup forgets the static temporaries.
ZUnsetup_KeepsTemps ==
  /\ mode \in {"user", "off"} /\ setUp
  /\ LET freed == UNION {ToSet(pool[i]) : i \in Class}
     IN  heap' = [b \in Block |-> IF b \in freed THEN Unallocated ELSE heap[b]]
  /\ setUp' = FALSE /\ mode' = "off"
  /\ stackMem' = IF stackMem = "held" THEN "stale" ELSE stackMem
  /\ live' = live \ Temp
  /\ pool' = NoPool /\ poolCap' = NoCap
  /\ Forget(Temp)
  /\ UNCHANGED <<tempVars, textVars>>

\* The characters of the temporaries, what the buckets cache, the buckets
\* and the temporary stack go back to the C heap.
ZUnsetup ==
  /\ mode \in {"user", "off"} /\ setUp
  /\ LET freed == {chars[t] : t \in Temp} \cup UNION {ToSet(pool[i]) : i \in Class}
     IN  heap' = [b \in Block |-> IF b \in freed THEN Unallocated ELSE heap[b]]
  /\ setUp' = FALSE /\ mode' = "off"
  /\ stackMem' = IF stackMem = "held" THEN "stale" ELSE stackMem
  /\ live' = live \ Temp
  /\ pool' = NoPool /\ poolCap' = NoCap
  /\ Forget(Temp)
  /\ UNCHANGED <<tempVars, textVars>>

-----------------------------------------------------------------------------
(* zfree, shared by the client, libzahl_realloc, zfree_temp and            *)
(* libzahl_failure: what it does to the heap and to buckets that hold p    *)
(* before.  NULL is left alone; a block goes on the bucket of its class,   *)
(* which grows when full; a bucket that cannot grow is thrown away.        *)

BucketFull(p, i) == Len(p[i]) = poolCap[i]

\* Mutant: no first size for a bucket without an array.
GrownBucket_NoInit(n) == (n * 3) \div 2

GrownBucket(n) == IF n = 0 THEN PoolInit ELSE (n * 3) \div 2

NothingToFree(v, p) == chars[v] = NULL /\ pool' = p /\ UNCHANGED <<heap, poolCap>>

Push(v, p) ==
  LET i == alloced[v] IN
    /\ chars[v] # NULL
    /\ pool' = [p EXCEPT ![i] = Append(@, chars[v])]
    /\ poolCap' = IF BucketFull(p, i) THEN [poolCap EXCEPT ![i] = GrownBucket(@)]
                                      ELSE poolCap
    /\ UNCHANGED heap

DropBucket(v, p) ==
  LET i == alloced[v] IN
    /\ chars[v] # NULL /\ BucketFull(p, i) /\ MallocMayFail
    /\ heap' = [heap EXCEPT ![chars[v]] = Unallocated]
    /\ pool' = [p EXCEPT ![i] = <<>>]
    /\ poolCap' = [poolCap EXCEPT ![i] = 0]

Release(v, p) == NothingToFree(v, p) \/ Push(v, p) \/ DropBucket(v, p)

-----------------------------------------------------------------------------
(* What the client does between calls                                      *)

ZInit(u) ==
  /\ mode = "user" /\ u \notin live
  /\ live' = live \cup {u}
  /\ Clear({u})
  /\ UNCHANGED <<libVars, mode, heapVars, poolVars, tempVars, textVars>>

ZFree(u) ==
  /\ mode = "user" /\ u \in live
  /\ live' = live \ {u}
  /\ Release(u, pool)
  /\ Forget({u})
  /\ UNCHANGED <<libVars, mode, tempVars, textVars>>

FreeString(b) ==
  /\ mode = "user" /\ b \in strings
  /\ strings' = strings \ {b}
  /\ heap' = [heap EXCEPT ![b] = Unallocated]
  /\ UNCHANGED <<libVars, mode, live, fieldVars, data, poolVars, tempVars, tempAllocation>>

Call ==
  /\ mode = "user"
  /\ mode' = "call"
  /\ UNCHANGED <<libVars, live, fieldVars, heapVars, poolVars, tempVars, textVars>>

-----------------------------------------------------------------------------
(* What a library routine does: it returns with its temporaries freed.     *)

Return ==
  /\ mode = "call" /\ tempStack = <<>> /\ tempAllocation = NULL
  /\ mode' = "user"
  /\ UNCHANGED <<libVars, live, fieldVars, heapVars, poolVars, tempVars, textVars>>

\* The routine writes its result into characters it has made room for.
Assign(v, d) ==
  /\ mode = "call" /\ Usable(v) /\ chars[v] # NULL
  /\ data' = [data EXCEPT ![chars[v]] = d]
  /\ UNCHANGED <<libVars, mode, live, fieldVars, heap, poolVars, tempVars, textVars>>

\* Mutant: zswap forgets .alloced.
ZSwap_KeepsAlloced(v, w) ==
  /\ \/ mode = "user" /\ {v, w} \subseteq User
     \/ mode = "call" /\ {v, w} \cap Local = {}
  /\ v \in live /\ w \in live /\ v # w
  /\ chars' = [chars EXCEPT ![v] = chars[w], ![w] = chars[v]]
  /\ UNCHANGED <<libVars, mode, live, alloced, heapVars, poolVars, tempVars, textVars>>

\* zswap exchanges the structures; zdivmod hands its results out with it,
\* and the client may call it too (it neither allocates nor fails).
ZSwap(v, w) ==
  /\ \/ mode = "user" /\ {v, w} \subseteq User
     \/ mode = "call" /\ {v, w} \cap Local = {}
  /\ v \in live /\ w \in live /\ v # w
  /\ chars' = [chars EXCEPT ![v] = chars[w], ![w] = chars[v]]
  /\ alloced' = [alloced EXCEPT ![v] = alloced[w], ![w] = alloced[v]]
  /\ UNCHANGED <<libVars, mode, live, heapVars, poolVars, tempVars, textVars>>

\* Mutant: libzahl_realloc does not decrement libzahl_pool_n.
EnsureFromPool_KeepsEntry(v, need) ==
  /\ mode = "call" /\ Usable(v) /\ alloced[v] < need /\ pool[need] # <<>>
  /\ LET new == Last(pool[need]) IN
       /\ data' = Moved(v, new)
       /\ chars' = [chars EXCEPT ![v] = new]
  /\ Release(v, pool)
  /\ alloced' = [alloced EXCEPT ![v] = need]
  /\ UNCHANGED <<libVars, mode, live, tempVars, textVars>>

\* ENSURE_SIZE finds too little memory, libzahl_realloc finds a cached block:
\* the old characters are copied before the old block is cached by zfree.
EnsureFromPool(v, need) ==
  /\ mode = "call" /\ Usable(v) /\ alloced[v] < need /\ pool[need] # <<>>
  /\ LET new == Last(pool[need]) IN
       /\ data' = Moved(v, new)
       /\ chars' = [chars EXCEPT ![v] = new]
  /\ Release(v, [pool EXCEPT ![need] = Front(@)])
  /\ alloced' = [alloced EXCEPT ![v] = need]
  /\ UNCHANGED <<libVars, mode, live, tempVars, textVars>>

\* No cached block: realloc extends the block where it is, or moves it.
EnsureFromHeap(v, need, b) ==
  /\ mode = "call" /\ Usable(v) /\ alloced[v] < need /\ pool[need] = <<>>
  /\ heap[b] = Unallocated \/ b = chars[v]
  /\ heap' = [c \in Block |-> CASE c = b        -> need
                                [] c # b /\ c = chars[v] -> Unallocated
                                [] OTHER        -> heap[c]]
  /\ data' = Moved(v, b)
  /\ chars' = [chars EXCEPT ![v] = b]
  /\ alloced' = [alloced EXCEPT ![v] = need]
  /\ UNCHANGED <<libVars, mode, live, poolVars, tempVars, textVars>>

\* realloc fails: .chars is overwritten by its NULL, .alloced is not.
EnsureFails(v, need) ==
  /\ mode = "call" /\ Usable(v) /\ alloced[v] < need /\ pool[need] = <<>>
  /\ MallocMayFail
  /\ chars' = [chars EXCEPT ![v] = NULL]
  /\ data' = [b \in Block |-> IF b = chars[v] THEN Junk ELSE data[b]]
  /\ mode' = "unwind"
  /\ UNCHANGED <<libVars, live, alloced, heap, poolVars, tempVars, textVars>>

\* A routine detects an error in its arguments (0 / 0, a bad radix, ...).
Fail ==
  /\ mode = "call"
  /\ mode' = "unwind"
  /\ UNCHANGED <<libVars, live, fieldVars, heapVars, poolVars, tempVars, textVars>>

\* The entries libzahl_temp_stack has memory for.
TempRoom == IF stackMem = "held" THEN stackCap ELSE 0

\* zinit_temp doubles the stack when it is full.  Twice nothing is nothing:
\* realloc may return a block all the same, and head and end are then equal
\* until the entry is written past it.  With a stale end the request is as
\* large as an address, and is refused.
GrowStack ==
  IF Len(tempStack) = stackCap
    THEN stackMem # "stale" /\ stackMem' = "held" /\ stackCap' = 2 * stackCap
    ELSE UNCHANGED <<stackMem, stackCap>>

\* An entry written where there is no room for it may be written into the
\* characters of any integer.  (Of what it can do to the heap itself nothing
\* is modelled.)
WriteEntry ==
  IF Len(tempStack) < TempRoom'
    THEN UNCHANGED data
    ELSE \E b \in Block : data' \in {data, [data EXCEPT ![b] = Junk]}

\* Mutant: a routine registers its destination as a temporary.
ZInitTemp_Destination(l) ==
  /\ mode = "call" /\ l \notin live
  /\ \E u \in User \cap live :
       /\ u \notin ToSet(tempStack)
       /\ tempStack' = Append(tempStack, u)
  /\ GrowStack /\ WriteEntry
  /\ UNCHANGED <<setUp, mode, live, fieldVars, heap, poolVars, textVars>>

ZInitTemp(l) ==
  /\ mode = "call" /\ l \notin live
  /\ Clear({l})
  /\ live' = live \cup {l}
  /\ tempStack' = Append(tempStack, l)
  /\ GrowStack /\ WriteEntry
  /\ UNCHANGED <<setUp, mode, heap, poolVars, textVars>>

\* The stack stays as it is; l has not been entered.
ZInitTempFails(l) ==
  /\ mode = "call" /\ l \notin live
  /\ Len(tempStack) = stackCap /\ MallocMayFail
  /\ Clear({l})
  /\ mode' = "unwind"
  /\ UNCHANGED <<libVars, live, heapVars, poolVars, tempVars, textVars>>

\* Mutant: zfree_temp and libzahl_failure leave libzahl_temp_stack_head.
PopTemp_KeepsHead ==
  /\ tempStack # <<>>
  /\ live' = live \ {Last(tempStack)}
  /\ Release(Last(tempStack), pool)
  /\ Forget({Last(tempStack)})
  /\ UNCHANGED <<libVars, tempStack, stackCap, textVars>>

\* Pop the youngest temporary and free it: zfree_temp, and one turn of the
\* loop of libzahl_failure.
PopTemp ==
  /\ tempStack # <<>>
  /\ live' = live \ {Last(tempStack)}
  /\ Release(Last(tempStack), pool)
  /\ Forget({Last(tempStack)})
  /\ tempStack' = Front(tempStack)
  /\ UNCHANGED <<libVars, stackCap, textVars>>

ZFreeTemp == mode = "call" /\ PopTemp /\ UNCHANGED mode

\* zstr allocates the string it was not given; it is the temporary
\* allocation until zstr returns it.
ZStrAlloc(b) ==
  /\ mode = "call" /\ tempAllocation = NULL /\ heap[b] = Unallocated
  /\ heap' = [heap EXCEPT ![b] = Text]
  /\ tempAllocation' = b
  /\ UNCHANGED <<libVars, mode, live, fieldVars, data, poolVars, tempVars, strings>>

\* Mutant: zstr returns without having allocated a string.
ZStrReturn_Unchecked ==
  /\ mode = "call"
  /\ strings' = strings \cup {tempAllocation}
  /\ tempAllocation' = NULL
  /\ UNCHANGED <<libVars, mode, live, fieldVars, heapVars, poolVars, tempVars>>

ZStrReturn ==
  /\ mode = "call" /\ tempAllocation # NULL
  /\ strings' = strings \cup {tempAllocation}
  /\ tempAllocation' = NULL
  /\ UNCHANGED <<libVars, mode, live, fieldVars, heapVars, poolVars, tempVars>>

-----------------------------------------------------------------------------
(* libzahl_failure                                                         *)

\* The loop over the temporary stack, if there is one.
UnwindTemp ==
  mode = "unwind" /\ stackMem = "held" /\ PopTemp /\ UNCHANGED mode

\* The frames with the temporaries go away.  Those that could not be freed
\* for want of a stack keep their blocks, and head keeps its place.
Abandon ==
  /\ live' = live \ ToSet(tempStack)
  /\ Forget(ToSet(tempStack))
  /\ tempStack' = <<>> /\ stackCap' = stackCap - Len(tempStack)

\* Mutant: libzahl_failure clears libzahl_temp_allocation without freeing it.
LongJmp_KeepsString ==
  /\ mode = "unwind" /\ (stackMem = "held" => tempStack = <<>>)
  /\ Abandon
  /\ tempAllocation' = NULL
  /\ mode' = "user"
  /\ UNCHANGED <<libVars, heap, poolVars, strings>>

LongJmp ==
  /\ mode = "unwind" /\ (stackMem = "held" => tempStack = <<>>)
  /\ Abandon
  /\ heap' = [b \in Block |-> IF b = tempAllocation THEN Unallocated ELSE heap[b]]
  /\ tempAllocation' = NULL
  /\ mode' = "user"
  /\ UNCHANGED <<libVars, poolVars, strings>>

Unwind == UnwindTemp \/ LongJmp

ClientStep ==
  \/ ZSetup \/ ZSetupFails \/ ZSetupAgain \/ ZUnsetup
  \/ \E u \in User : ZInit(u) \/ ZFree(u)
  \/ \E b \in Block : FreeString(b)
  \/ Call

LibraryStep ==
  \/ Return \/ Fail \/ ZFreeTemp \/ ZStrReturn
  \/ \E v \in Var, d \in Value : Assign(v, d)
  \/ \E v, w \in Var : ZSwap(v, w)
  \/ \E v \in Var, need \in Class :
       \/ EnsureFromPool(v, need)
       \/ \E b \in Block : EnsureFromHeap(v, need, b)
       \/ EnsureFails(v, need)
  \/ \E l \in Local : ZInitTemp(l) \/ ZInitTempFails(l)
  \/ \E b \in Block : ZStrAlloc(b)

Next == ClientStep \/ LibraryStep \/ Unwind

Spec == Init /\ [][Next]_vars

\* libzahl_failure runs to its longjmp without giving up the thread.
FairSpec == Spec /\ WF_vars(Unwind)

-----------------------------------------------------------------------------
(* Properties                                                              *)

\* Every variable of the model holds a value of its kind.
TypeOK ==
  /\ setUp \in BOOLEAN /\ stackMem \in {"never", "held", "stale"}
  /\ mode \in {"off", "user", "call", "unwind"}
  /\ live \subseteq Var
  /\ chars \in [Var -> Block \cup {NULL}]
  /\ alloced \in [Var -> Class \cup {NoSize}]
  /\ heap \in [Block -> Class \cup {Unallocated, Text}]
  /\ data \in [Block -> Value \cup {Junk}]
  /\ pool \in [Class -> Seq(Block)] /\ poolCap \in [Class -> Nat]
  /\ tempStack \in Seq(Local) /\ stackCap \in Nat
  /\ tempAllocation \in Block \cup {NULL} /\ strings \subseteq Block

\* No two live integers share characters: writing one never changes another
\* (libzahl_realloc and zfree hand blocks over, zswap exchanges them).
LiveDistinct ==
  \A v, w \in live : v # w /\ chars[v] = chars[w] => chars[v] = NULL

\* The pool caches no block twice, in one bucket or in two.
PoolDistinct ==
  \A i, j \in Class : \A m \in 1 .. Len(pool[i]), n \in 1 .. Len(pool[j]) :
    pool[i][m] = pool[j][n] => i = j /\ m = n

\* A cached block is nobody's, so libzahl_realloc may hand it out.
CachedIsFree ==
  \A v \in live, i \in Class : \A n \in 1 .. Len(pool[i]) : pool[i][n] # chars[v]

\* A block has one owner, whatever the calls, the failures and the unwinding.
ExclusiveOwnership == LiveDistinct /\ PoolDistinct /\ CachedIsFree

\* What is owned is allocated, as large as its owner believes: .alloced is
\* the size of .chars, a bucket holds blocks of its class (zfree recomputes
\* the class from .alloced), and strings were allocated as strings.
SizesAgree ==
  /\ \A v \in live : chars[v] # NULL => alloced[v] \in Class /\ heap[chars[v]] = alloced[v]
  /\ \A i \in Class : \A n \in 1 .. Len(pool[i]) : heap[pool[i][n]] = i
  /\ \A b \in strings : heap[b] = Text
  /\ tempAllocation # NULL => heap[tempAllocation] = Text /\ tempAllocation \notin strings

\* A zsetup that failed is tried again, and what it did not get is missing.
RetriedInVain == MallocMayFail /\ SetupRetried /\ TempRoom = 0

\* zfree writes inside the bucket's array and zinit_temp inside the stack: the
\* growth steps really make room.  Only where a zsetup that failed for memory
\* has been retried is every entry of zinit_temp outside.
ArraysHoldTheirEntries ==
  /\ \A i \in Class : Len(pool[i]) <= poolCap[i]
  /\ Len(tempStack) <= TempRoom \/ RetriedInVain

\* The temporary stack lists the temporaries in use once each, which is what
\* libzahl_failure relies on to free each of them and nothing else.
TempsTracked ==
  /\ ToSet(tempStack) = live \cap Local
  /\ \A m, n \in 1 .. Len(tempStack) : tempStack[m] = tempStack[n] => m = n

\* What the code around the steps relies on: static temporaries exist between
\* zsetup and zunsetup, there is a temporary stack unless zsetup could not get
\* one, the client runs with it empty, and the arrays are never so small that
\* growing them makes no room.
Bookkeeping ==
  /\ IF setUp THEN Temp \subseteq live ELSE Temp \cap live = {}
  /\ IF mode = "off" THEN setUp => MallocMayFail
                     ELSE setUp /\ (TempRoom > 0 \/ RetriedInVain)
  /\ stackMem # "held" => Len(tempStack) <= stackCap
  /\ mode \in {"off", "user"} => tempStack = <<>> /\ tempAllocation = NULL
  /\ \A i \in Class : poolCap[i] # 1

\* The inductive invariant: the properties above hold each other up.
IndInv ==
  TypeOK /\ ExclusiveOwnership /\ SizesAgree /\ ArraysHoldTheirEntries
    /\ TempsTracked /\ Bookkeeping

\* A variable that is not live has been forgotten (see the introduction).
Forgotten == \A v \in Var \ live : chars[v] = NULL

Owned == {chars[v] : v \in live} \cup (UNION {ToSet(pool[i]) : i \in Class})
           \cup strings \cup {tempAllocation}

\* As long as the C heap does not fail, no block is lost: realloc, zfree,
\* zunsetup and the error path keep every allocation reachable.
NoLeak == \A b \in Block : heap[b] # Unallocated => b \in Owned

\* ".alloced holds the allocation size of .chars" (doc/libzahls-design.tex):
\* a variable that promises memory has it.
PromisedMemoryExists == \A v \in live : alloced[v] # NoSize => chars[v] # NULL

\* libzahl_failure leaves the client's integers as the error found them.
UnwindSparesClient ==
  [][mode = "unwind" =>
       \A u \in User : /\ u \in live <=> u \in live'
                       /\ chars'[u] = chars[u] /\ ContentOf(u)' = ContentOf(u)]_vars

\* When the long jump is made every temporary has been freed, unless they were
\* not in the stack, and when it lands no unfinished string is left.
ErrorsLeaveNothingBehind ==
  [][mode = "unwind" /\ mode' = "user" =>
       /\ live \cap Local = {} \/ RetriedInVain
       /\ tempAllocation' = NULL
       /\ \A b \in Block : heap'[b] = Text => b \in strings']_vars

\* The unwinding of an error ends in the client's hands.
UnwindTerminates == mode = "unwind" ~> mode = "user"

\* The client's view: separate registers, of which an error may cost one, and
\* so may any new temporary once a failed zsetup has been retried.
Registers == INSTANCE ZahlRegisters WITH
  Register <- Var, Scratch <- Local, Contents <- Value, Lost <- Junk,
  val <- [v \in Var |-> ContentOf(v)], failing <- mode = "unwind",
  intact <- ~RetriedInVain

ImplementsRegisters == Registers!Spec
=============================================================================
