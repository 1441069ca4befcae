-------------------------- MODULE ZahlMemoryProofs --------------------------
(* For every number of integers, blocks and classes: libzahl's blocks have *)
(* one owner each, are as large as the owner believes, and the arrays that *)
(* list them hold their entries; while the C heap delivers no block is     *)
(* lost; and an error leaves no temporary and no unfinished string behind. *)
EXTENDS ZahlMemory, SequenceTheorems, TLAPS

(* The parts of the invariant that speak of the pool, as predicates on any *)
(* value p of libzahl_pool and h of the heap: zfree is also called in the  *)
(* middle of libzahl_realloc, on a pool that has just given a block away.  *)

PoolsOf(p)     == p \in [Class -> Seq(Block)]
Distinct(p)    == \A i, j \in Class : \A m \in 1 .. Len(p[i]), n \in 1 .. Len(p[j]) :
                    p[i][m] = p[j][n] => i = j /\ m = n
Fits(p, h)     == \A i \in Class : \A n \in 1 .. Len(p[i]) : h[p[i][n]] = i
Without(p, b)  == \A i \in Class : \A n \in 1 .. Len(p[i]) : p[i][n] # b
HeapOf(h)      == h \in [Block -> Class \cup {Unallocated, Text}]
Caps(p, c)     == /\ c \in [Class -> Nat]
                  /\ \A i \in Class : Len(p[i]) <= c[i] /\ c[i] # 1

-----------------------------------------------------------------------------

(* The bucket array grows by at least one slot when it is full, so zfree   *)
(* stores the block inside it (the size 1, from which j * 3 >> 1 does not  *)
(* grow, never occurs).                                                    *)
LEMMA GrowthMakesRoom ==
  ASSUME NEW n \in Nat, n # 1
  PROVE  GrownBucket(n) \in Nat /\ GrownBucket(n) > n /\ GrownBucket(n) # 1
<1>1. CASE n = 0
  BY <1>1, MemoryAssumption DEF GrownBucket
<1>2. CASE n > 1
  BY <1>2 DEF GrownBucket
<1> QED BY <1>1, <1>2

LEMMA FrontDropsLast ==
  ASSUME NEW S, NEW s \in Seq(S), s # <<>>
  PROVE  /\ Len(s) \in Nat \ {0} /\ Last(s) \in S
         /\ Front(s) \in Seq(S) /\ Len(Front(s)) = Len(s) - 1
         /\ \A n \in 1 .. Len(s) - 1 : Front(s)[n] = s[n]
<1>1. Len(s) \in Nat \ {0} /\ Last(s) \in S
  <2>1. Len(s) \in Nat \ {0}
    BY EmptySeq
  <2>2. Len(s) \in 1 .. Len(s)
    BY <2>1
  <2>3. s[Len(s)] \in S
    BY <2>2, ElementOfSeq
  <2> QED BY <2>1, <2>3 DEF Last
<1>2. \A n \in 1 .. Len(s) - 1 : s[n] \in S
  BY <1>1
<1>3. /\ SubSeq(s, 1, Len(s) - 1) \in Seq(S)
      /\ Len(SubSeq(s, 1, Len(s) - 1)) = Len(s) - 1
      /\ \A n \in 1 .. Len(s) - 1 : SubSeq(s, 1, Len(s) - 1)[n] = s[n]
  <2> DEFINE k == Len(s) - 1
  <2>1. k \in Int /\ k \in Nat /\ 1 \in Int /\ \A i \in 1 .. k : s[i] \in S
    BY <1>1, <1>2
  <2> HIDE DEF k
  <2>2. /\ SubSeq(s, 1, k) \in Seq(S)
        /\ Len(SubSeq(s, 1, k)) = IF 1 <= k THEN k - 1 + 1 ELSE 0
        /\ \A i \in 1 .. k - 1 + 1 : SubSeq(s, 1, k)[i] = s[1 + i - 1]
    BY <2>1, SubSeqProperties, SMTT(30)
  <2>3. /\ SubSeq(s, 1, k) \in Seq(S) /\ Len(SubSeq(s, 1, k)) = k
        /\ \A n \in 1 .. k : SubSeq(s, 1, k)[n] = s[n]
    BY <2>1, <2>2
  <2> QED BY <2>3 DEF k
<1> QED BY <1>1, <1>3 DEF Front

(* zfree keeps a well-formed pool well formed and touches no other block.  *)
LEMMA ReleaseKeepsPool ==
  ASSUME NEW v \in Var, NEW STATE p, PoolsOf(p), Distinct(p), Fits(p, heap), HeapOf(heap),
         Caps(p, poolCap), chars \in [Var -> Block \cup {NULL}],
         chars[v] # NULL => /\ alloced[v] \in Class /\ heap[chars[v]] = alloced[v]
                            /\ Without(p, chars[v]),
         Release(v, p)
  PROVE  /\ PoolsOf(pool') /\ Distinct(pool') /\ Fits(pool', heap') /\ HeapOf(heap')
         /\ Caps(pool', poolCap')
         /\ \A b \in Block : b # chars[v] =>
              heap'[b] = heap[b] /\ (Without(p, b) => Without(pool', b))
<1>1. CASE NothingToFree(v, p)
  BY <1>1 DEF NothingToFree
<1>2. CASE Push(v, p)
  <2> DEFINE i == alloced[v]
  <2>1. /\ i \in Class /\ chars[v] \in Block /\ heap[chars[v]] = i
        /\ Without(p, chars[v])
    BY <1>2 DEF Push
  <2>2. /\ pool' = [p EXCEPT ![i] = Append(p[i], chars[v])] /\ heap' = heap
        /\ poolCap' = IF BucketFull(p, i) THEN [poolCap EXCEPT ![i] = GrownBucket(@)]
                                          ELSE poolCap
    BY <1>2 DEF Push
  <2> HIDE DEF i
  <2>3. /\ p[i] \in Seq(Block) /\ Len(pool'[i]) = Len(p[i]) + 1
        /\ \A n \in 1 .. Len(p[i]) : pool'[i][n] = p[i][n]
        /\ pool'[i][Len(p[i]) + 1] = chars[v]
        /\ \A j \in Class : j # i => pool'[j] = p[j]
    BY <2>1, <2>2 DEF PoolsOf
  <2>9. \A l \in Class : \A q \in 1 .. Len(pool'[l]) :
          \/ q \in 1 .. Len(p[l]) /\ pool'[l][q] = p[l][q]
          \/ l = i /\ q = Len(p[i]) + 1 /\ pool'[l][q] = chars[v]
    BY <2>1, <2>3 DEF PoolsOf
  <2>4. PoolsOf(pool')
    BY <2>1, <2>2 DEF PoolsOf
  <2>5. Distinct(pool')
    <3> SUFFICES ASSUME NEW j \in Class, NEW k \in Class,
                        NEW m \in 1 .. Len(pool'[j]), NEW n \in 1 .. Len(pool'[k]),
                        pool'[j][m] = pool'[k][n]
                 PROVE  j = k /\ m = n
      BY DEF Distinct
    <3>1. CASE m \in 1 .. Len(p[j]) /\ pool'[j][m] = p[j][m]
      <4>1. CASE n \in 1 .. Len(p[k]) /\ pool'[k][n] = p[k][n]
        <5>1. p[j][m] = p[k][n]
          BY <3>1, <4>1
        <5> QED BY <3>1, <4>1, <5>1 DEF Distinct
      <4>2. CASE pool'[k][n] = chars[v]
        BY <2>1, <3>1, <4>2 DEF Without
      <4> QED BY <2>9, <4>1, <4>2
    <3>2. CASE j = i /\ m = Len(p[i]) + 1 /\ pool'[j][m] = chars[v]
      <4>1. CASE n \in 1 .. Len(p[k]) /\ pool'[k][n] = p[k][n]
        <5>1. p[k][n] = chars[v]
          BY <3>2, <4>1
        <5> QED BY <2>1, <4>1, <5>1 DEF Without
      <4>2. CASE k = i /\ n = Len(p[i]) + 1
        BY <3>2, <4>2
      <4> QED BY <2>9, <4>1, <4>2
    <3> QED BY <2>9, <3>1, <3>2
  <2>6. Fits(pool', heap')
    BY <2>1, <2>2, <2>9 DEF Fits
  <2>7. Caps(pool', poolCap')
    BY <2>1, <2>2, <2>3, GrowthMakesRoom DEF Caps, BucketFull, PoolsOf
  <2>8. \A b \in Block : b # chars[v] =>
          heap'[b] = heap[b] /\ (Without(p, b) => Without(pool', b))
    BY <2>2, <2>9 DEF Without
  <2> QED BY <2>2, <2>4, <2>5, <2>6, <2>7, <2>8
<1>3. CASE DropBucket(v, p)
  <2> DEFINE i == alloced[v]
  <2>1. /\ i \in Class /\ chars[v] \in Block /\ Without(p, chars[v])
        /\ pool' = [p EXCEPT ![i] = <<>>] /\ heap' = [heap EXCEPT ![chars[v]] = Unallocated]
        /\ poolCap' = [poolCap EXCEPT ![i] = 0]
    BY <1>3 DEF DropBucket
  <2> HIDE DEF i
  <2>2. /\ Len(pool'[i]) = 0
        /\ \A j \in Class : j # i => pool'[j] = p[j]
    BY <2>1 DEF PoolsOf
  <2>3. PoolsOf(pool') /\ HeapOf(heap')
    BY <2>1 DEF PoolsOf, HeapOf
  <2>4. Distinct(pool')
    BY <2>2 DEF Distinct
  <2>5. Fits(pool', heap')
    BY <2>1, <2>2 DEF Fits, Without, HeapOf, PoolsOf
  <2>6. Caps(pool', poolCap')
    BY <2>1, <2>2 DEF Caps
  <2>7. \A b \in Block : b # chars[v] =>
          heap'[b] = heap[b] /\ (Without(p, b) => Without(pool', b))
    BY <2>1, <2>2 DEF Without, HeapOf
  <2> QED BY <2>3, <2>4, <2>5, <2>6, <2>7
<1> QED BY <1>1, <1>2, <1>3 DEF Release

-----------------------------------------------------------------------------
(* The invariant holds initially and every action keeps it.                *)

LEMMA InitEstablishesIndInv == Init => IndInv
<1> SUFFICES ASSUME Init PROVE IndInv
  OBVIOUS
<1> USE MemoryAssumption DEF Init, NoPool, NoCap
<1>1. TypeOK
  <2>1. <<>> \in Seq(Block) /\ <<>> \in Seq(Local)
    OBVIOUS
  <2>2. pool \in [Class -> Seq(Block)] /\ tempStack \in Seq(Local)
    BY <2>1
  <2> QED BY <2>2 DEF TypeOK
<1>2. ExclusiveOwnership /\ SizesAgree
  BY DEF ExclusiveOwnership, LiveDistinct, PoolDistinct, CachedIsFree, SizesAgree
<1>3. ArraysHoldTheirEntries /\ Bookkeeping
  BY DEF ArraysHoldTheirEntries, Bookkeeping, RetriedInVain, TempRoom
<1>4. TempsTracked
  BY DEF TempsTracked, ToSet
<1> QED BY <1>1, <1>2, <1>3, <1>4 DEF IndInv

LEMMA PoolOfIndInv ==
  ASSUME IndInv
  PROVE  /\ PoolsOf(pool) /\ Distinct(pool) /\ Fits(pool, heap) /\ HeapOf(heap)
         /\ Caps(pool, poolCap)
         /\ \A v \in live : chars[v] # NULL =>
              /\ alloced[v] \in Class /\ heap[chars[v]] = alloced[v]
              /\ Without(pool, chars[v])
BY DEF IndInv, TypeOK, ExclusiveOwnership, PoolDistinct, CachedIsFree, SizesAgree,
       ArraysHoldTheirEntries, Bookkeeping, RetriedInVain, TempRoom, PoolsOf, Distinct, Fits, HeapOf, Caps, Without

(* Steps that move neither blocks nor variables.                           *)
LEMMA ModeSteps ==
  ASSUME IndInv, ZSetupAgain \/ Call \/ Return \/ Fail \/ (\E v \in Var, d \in Value : Assign(v, d))
  PROVE  IndInv'
<1>1. CASE ZSetupAgain \/ Call \/ Return \/ Fail
  BY <1>1
  DEF IndInv, TypeOK, ExclusiveOwnership, LiveDistinct, PoolDistinct, CachedIsFree,
      SizesAgree, ArraysHoldTheirEntries, TempsTracked, Bookkeeping, RetriedInVain, TempRoom, ZSetupAgain, Call,
      Return, Fail, libVars, fieldVars, heapVars, poolVars, tempVars, textVars
<1>2. CASE \E v \in Var, d \in Value : Assign(v, d)
  BY <1>2
  DEF IndInv, TypeOK, ExclusiveOwnership, LiveDistinct, PoolDistinct, CachedIsFree,
      SizesAgree, ArraysHoldTheirEntries, TempsTracked, Bookkeeping, RetriedInVain, TempRoom, Assign, Usable,
      libVars, fieldVars, heapVars, poolVars, tempVars, textVars
<1> QED BY <1>1, <1>2

LEMMA StutterStep ==
  ASSUME IndInv, UNCHANGED vars
  PROVE  IndInv'
BY DEF vars, IndInv, TypeOK, ExclusiveOwnership, LiveDistinct, PoolDistinct, CachedIsFree,
       SizesAgree, ArraysHoldTheirEntries, TempsTracked, Bookkeeping, RetriedInVain, TempRoom,
       libVars, fieldVars, heapVars, poolVars, tempVars, textVars

LEMMA ZInitStep ==
  ASSUME IndInv, NEW u \in User, ZInit(u)
  PROVE  IndInv'
<1> USE DEF ZInit, Clear, IndInv, libVars, heapVars, poolVars, tempVars, textVars
<1>1. TypeOK'
  BY DEF TypeOK, Var
<1>2. LiveDistinct'
  BY DEF TypeOK, ExclusiveOwnership, LiveDistinct, Var
<1>3. PoolDistinct'
  BY DEF TypeOK, ExclusiveOwnership, PoolDistinct
<1>4. CachedIsFree'
  <2> SUFFICES ASSUME NEW v \in live', NEW i \in Class, NEW n \in 1 .. Len(pool[i])
               PROVE  pool[i][n] # chars'[v]
    BY DEF CachedIsFree
  <2>1. pool[i][n] \in Block
    BY DEF TypeOK
  <2>2. CASE v = u
    BY <2>1, <2>2, MemoryAssumption DEF TypeOK, Var
  <2>3. CASE v # u
    BY <2>3 DEF TypeOK, ExclusiveOwnership, CachedIsFree, Var
  <2> QED BY <2>2, <2>3
<1>5. SizesAgree'
  BY DEF TypeOK, SizesAgree, Var
<1>6. TempsTracked' /\ ArraysHoldTheirEntries' /\ Bookkeeping'
  BY MemoryAssumption DEF TypeOK, TempsTracked, ArraysHoldTheirEntries, Bookkeeping, RetriedInVain, TempRoom
<1> QED BY <1>1, <1>2, <1>3, <1>4, <1>5, <1>6 DEF ExclusiveOwnership

LEMMA ZSwapStep ==
  ASSUME IndInv, NEW v \in Var, NEW w \in Var, ZSwap(v, w)
  PROVE  IndInv'
<1> USE DEF ZSwap, IndInv, libVars, heapVars, poolVars, tempVars, textVars
<1>1. TypeOK'
  BY DEF TypeOK
<1>2. ExclusiveOwnership'
  BY DEF TypeOK, ExclusiveOwnership, LiveDistinct, PoolDistinct, CachedIsFree
<1>3. SizesAgree'
  BY DEF TypeOK, SizesAgree
<1>4. TempsTracked' /\ ArraysHoldTheirEntries' /\ Bookkeeping'
  BY DEF TypeOK, TempsTracked, ArraysHoldTheirEntries, Bookkeeping, RetriedInVain, TempRoom
<1> QED BY <1>1, <1>2, <1>3, <1>4

(* A variable goes: its block leaves it and enters the pool or the C heap. *)
LEMMA DiscardKeepsOwnership ==
  ASSUME IndInv, NEW u \in live, live' = live \ {u}, Release(u, pool), Forget({u}),
         UNCHANGED textVars
  PROVE  /\ PoolsOf(pool') /\ HeapOf(heap') /\ Caps(pool', poolCap')
         /\ live' \subseteq Var
         /\ chars' \in [Var -> Block \cup {NULL}] /\ alloced' \in [Var -> Class \cup {NoSize}]
         /\ data' \in [Block -> Value \cup {Junk}]
         /\ ExclusiveOwnership' /\ SizesAgree'
<1> USE DEF Forget, Clear, textVars
<1>1. TypeOK /\ u \in Var
  BY DEF IndInv, TypeOK
<1>2. /\ PoolsOf(pool') /\ Distinct(pool') /\ Fits(pool', heap') /\ HeapOf(heap')
      /\ Caps(pool', poolCap')
      /\ \A b \in Block : b # chars[u] =>
           heap'[b] = heap[b] /\ (Without(pool, b) => Without(pool', b))
  BY <1>1, PoolOfIndInv, ReleaseKeepsPool DEF TypeOK
<1>3. /\ live' \subseteq Var /\ data' \in [Block -> Value \cup {Junk}]
      /\ chars' \in [Var -> Block \cup {NULL}] /\ alloced' \in [Var -> Class \cup {NoSize}]
  BY <1>1 DEF TypeOK
<1>4. \A v \in live' : /\ v \in live /\ v # u /\ chars'[v] = chars[v] /\ alloced'[v] = alloced[v]
                       /\ chars[v] # NULL => chars[v] # chars[u]
  BY <1>1 DEF TypeOK, IndInv, ExclusiveOwnership, LiveDistinct
<1>5. LiveDistinct' /\ PoolDistinct'
  BY <1>2, <1>4 DEF IndInv, ExclusiveOwnership, LiveDistinct, PoolDistinct, Distinct
<1>6. CachedIsFree'
  <2> SUFFICES ASSUME NEW v \in live', NEW i \in Class, NEW n \in 1 .. Len(pool'[i])
               PROVE  pool'[i][n] # chars'[v]
    BY DEF CachedIsFree
  <2>1. pool'[i][n] \in Block
    BY <1>2 DEF PoolsOf
  <2>2. CASE chars[v] = NULL
    BY <1>4, <2>1, <2>2, MemoryAssumption
  <2>3. CASE chars[v] # NULL
    <3>1. chars[v] \in Block /\ chars[v] # chars[u] /\ Without(pool, chars[v])
      BY <1>1, <1>4, <2>3, PoolOfIndInv DEF TypeOK
    <3>2. Without(pool', chars[v])
      BY <1>2, <3>1
    <3> QED BY <1>4, <3>2 DEF Without
  <2> QED BY <2>2, <2>3
<1>7. SizesAgree'
  <2>1. ASSUME NEW v \in live', chars'[v] # NULL
        PROVE  alloced'[v] \in Class /\ heap'[chars'[v]] = alloced'[v]
    <3>1. /\ v \in live /\ chars'[v] = chars[v] /\ alloced'[v] = alloced[v]
          /\ chars[v] # NULL /\ chars[v] # chars[u]
      BY <1>4, <2>1
    <3>2. chars[v] \in Block /\ alloced[v] \in Class /\ heap[chars[v]] = alloced[v]
      BY <1>1, <3>1, PoolOfIndInv DEF TypeOK
    <3> QED BY <1>2, <3>1, <3>2
  <2>2. chars[u] # NULL => heap[chars[u]] # Text
    BY <1>1, PoolOfIndInv DEF Class, Text
  <2>3. \A b \in strings' : heap'[b] = Text
    BY <1>1, <1>2, <2>2, MemoryAssumption DEF IndInv, SizesAgree, TypeOK
  <2>4. tempAllocation' # NULL => heap'[tempAllocation'] = Text /\ tempAllocation' \notin strings'
    BY <1>1, <1>2, <2>2, MemoryAssumption DEF IndInv, SizesAgree, TypeOK
  <2> QED BY <1>2, <2>1, <2>3, <2>4 DEF SizesAgree, Fits
<1> QED BY <1>2, <1>3, <1>5, <1>6, <1>7 DEF ExclusiveOwnership

LEMMA ZFreeStep ==
  ASSUME IndInv, NEW u \in User, ZFree(u)
  PROVE  IndInv'
<1> USE DEF ZFree, libVars, tempVars
<1>1. /\ PoolsOf(pool') /\ HeapOf(heap') /\ Caps(pool', poolCap')
      /\ live' \subseteq Var
      /\ chars' \in [Var -> Block \cup {NULL}] /\ alloced' \in [Var -> Class \cup {NoSize}]
      /\ data' \in [Block -> Value \cup {Junk}]
      /\ ExclusiveOwnership' /\ SizesAgree'
  BY DiscardKeepsOwnership
<1>2. TypeOK'
  BY <1>1 DEF IndInv, TypeOK, PoolsOf, HeapOf, Caps, textVars
<1>3. ArraysHoldTheirEntries' /\ Bookkeeping'
  BY <1>1, MemoryAssumption DEF IndInv, ArraysHoldTheirEntries, Bookkeeping, RetriedInVain, TempRoom, Caps, textVars
<1>4. TempsTracked'
  BY MemoryAssumption DEF IndInv, TempsTracked
<1> QED BY <1>1, <1>2, <1>3, <1>4 DEF IndInv

(* The youngest temporary goes: the rest of the stack still lists the      *)
(* temporaries in use, once each.                                          *)
LEMMA PopTempStep ==
  ASSUME IndInv, mode \in {"call", "unwind"}, PopTemp, UNCHANGED mode
  PROVE  IndInv'
<1>1. PICK l \in Local : l = Last(tempStack) /\ l \in live
  BY DEF PopTemp, IndInv, TypeOK, TempsTracked, ToSet, Last
<1>2. /\ tempStack # <<>> /\ tempStack \in Seq(Local) /\ tempStack' = Front(tempStack)
      /\ live' = live \ {l} /\ Release(l, pool) /\ Forget({l})
      /\ UNCHANGED <<libVars, mode, stackCap, textVars>>
  BY <1>1 DEF PopTemp, IndInv, TypeOK
<1>3. /\ PoolsOf(pool') /\ HeapOf(heap') /\ Caps(pool', poolCap')
      /\ live' \subseteq Var
      /\ chars' \in [Var -> Block \cup {NULL}] /\ alloced' \in [Var -> Class \cup {NoSize}]
      /\ data' \in [Block -> Value \cup {Junk}]
      /\ ExclusiveOwnership' /\ SizesAgree'
  BY <1>1, <1>2, DiscardKeepsOwnership
<1>4. /\ tempStack' \in Seq(Local) /\ Len(tempStack) > 0
      /\ Len(tempStack') = Len(tempStack) - 1
      /\ \A n \in 1 .. Len(tempStack) - 1 : tempStack'[n] = tempStack[n]
  BY <1>2, FrontDropsLast
<1>5. TypeOK'
  BY <1>2, <1>3, <1>4 DEF IndInv, TypeOK, PoolsOf, HeapOf, Caps, libVars, textVars
<1>6. TempsTracked'
  <2>1. \A m, n \in 1 .. Len(tempStack') : tempStack'[m] = tempStack'[n] => m = n
    BY <1>4 DEF IndInv, TempsTracked
  <2>2. ToSet(tempStack') = ToSet(tempStack) \ {l}
    BY <1>1, <1>2, <1>4 DEF IndInv, TempsTracked, ToSet, Last
  <2> QED BY <1>2, <2>1, <2>2 DEF IndInv, TempsTracked
<1>7. ArraysHoldTheirEntries' /\ Bookkeeping'
  BY <1>1, <1>2, <1>3, <1>4, MemoryAssumption
  DEF IndInv, TypeOK, ArraysHoldTheirEntries, Bookkeeping, RetriedInVain, TempRoom, Caps, libVars, textVars
<1> QED BY <1>3, <1>5, <1>6, <1>7 DEF IndInv

(* libzahl_realloc with a cached block: the block leaves the bucket before *)
(* the old one enters another, so neither is counted twice.                *)
LEMMA EnsureFromPoolStep ==
  ASSUME IndInv, NEW v \in Var, NEW need \in Class, EnsureFromPool(v, need)
  PROVE  IndInv'
<1> DEFINE new == Last(pool[need])
           p   == [pool EXCEPT ![need] = Front(@)]
<1>1. /\ v \in live /\ pool[need] # <<>> /\ pool[need] \in Seq(Block) /\ new \in Block
      /\ data' = Moved(v, new) /\ chars' = [chars EXCEPT ![v] = new]
      /\ alloced' = [alloced EXCEPT ![v] = need] /\ Release(v, p)
      /\ UNCHANGED <<libVars, mode, live, tempVars, textVars>>
  BY FrontDropsLast DEF IndInv, TypeOK, EnsureFromPool, Usable
<1>2. /\ p[need] \in Seq(Block) /\ Len(p[need]) = Len(pool[need]) - 1
      /\ Len(pool[need]) \in Nat \ {0}
      /\ \A n \in 1 .. Len(pool[need]) - 1 : p[need][n] = pool[need][n]
      /\ \A i \in Class : i # need => p[i] = pool[i]
      /\ PoolsOf(p)
  BY <1>1, FrontDropsLast, PoolOfIndInv DEF PoolsOf
<1> HIDE DEF p
<1>3. \A i \in Class : \A n \in 1 .. Len(p[i]) :
        n \in 1 .. Len(pool[i]) /\ p[i][n] = pool[i][n]
                               /\ (i = need => n # Len(pool[need]))
  BY <1>2, PoolOfIndInv DEF PoolsOf
<1>4. /\ Distinct(p) /\ Fits(p, heap) /\ Without(p, new)
      /\ \A b : Without(pool, b) => Without(p, b)
  <2>1. Distinct(p) /\ Fits(p, heap)
    BY <1>3, PoolOfIndInv DEF Distinct, Fits
  <2>2. Without(p, new)
    <3> SUFFICES ASSUME NEW i \in Class, NEW n \in 1 .. Len(p[i]), p[i][n] = new
                 PROVE  FALSE
      BY DEF Without
    <3>1. /\ n \in 1 .. Len(pool[i]) /\ pool[i][n] = pool[need][Len(pool[need])]
          /\ i = need => n # Len(pool[need])
      BY <1>3 DEF Last
    <3>2. Len(pool[need]) \in 1 .. Len(pool[need])
      BY <1>2
    <3> QED BY <3>1, <3>2, PoolOfIndInv DEF Distinct
  <2>3. \A b : Without(pool, b) => Without(p, b)
    BY <1>3 DEF Without
  <2> QED BY <2>1, <2>2, <2>3
<1>5. Caps(p, poolCap)
  <2>1. \A i \in Class : Len(p[i]) \in Nat /\ Len(pool[i]) \in Nat /\ Len(p[i]) <= Len(pool[i])
    BY <1>2, PoolOfIndInv DEF PoolsOf
  <2> QED BY <2>1, PoolOfIndInv DEF Caps
<1>6. heap[new] = need /\ \A w \in live : new # chars[w]
  BY <1>2, PoolOfIndInv, MemoryAssumption, <1>1 DEF Fits, Without, Last, IndInv, ExclusiveOwnership, CachedIsFree
<1> HIDE DEF new
<1>7. /\ PoolsOf(pool') /\ Distinct(pool') /\ Fits(pool', heap') /\ HeapOf(heap')
      /\ Caps(pool', poolCap')
      /\ \A b \in Block : b # chars[v] =>
           heap'[b] = heap[b] /\ (Without(p, b) => Without(pool', b))
  BY <1>1, <1>2, <1>4, <1>5, PoolOfIndInv, ReleaseKeepsPool DEF IndInv, TypeOK
<1>8. heap'[new] = need /\ Without(pool', new)
  BY <1>1, <1>4, <1>6, <1>7
<1>9. TypeOK'
  BY <1>1, <1>7
  DEF IndInv, TypeOK, PoolsOf, HeapOf, Caps, Moved, ContentOf, libVars, tempVars, textVars
<1>10. \A w \in live : w # v =>
         /\ chars'[w] = chars[w] /\ alloced'[w] = alloced[w] /\ chars[w] # new
         /\ chars[w] # NULL => /\ chars[w] # chars[v] /\ heap'[chars[w]] = alloced[w]
                               /\ alloced[w] \in Class /\ Without(pool', chars[w])
  <2> SUFFICES ASSUME NEW w \in live, w # v
               PROVE  /\ chars'[w] = chars[w] /\ alloced'[w] = alloced[w] /\ chars[w] # new
                      /\ chars[w] # NULL => /\ chars[w] # chars[v] /\ heap'[chars[w]] = alloced[w]
                                            /\ alloced[w] \in Class /\ Without(pool', chars[w])
    OBVIOUS
  <2>1. chars'[w] = chars[w] /\ alloced'[w] = alloced[w] /\ chars[w] # new
    BY <1>1, <1>6 DEF IndInv, TypeOK
  <2>2. ASSUME chars[w] # NULL
        PROVE  /\ chars[w] # chars[v] /\ heap'[chars[w]] = alloced[w]
               /\ alloced[w] \in Class /\ Without(pool', chars[w])
    <3>1. chars[w] \in Block /\ chars[w] # chars[v]
      BY <1>1, <2>2 DEF IndInv, TypeOK, ExclusiveOwnership, LiveDistinct
    <3>2. alloced[w] \in Class /\ heap[chars[w]] = alloced[w] /\ Without(p, chars[w])
      BY <1>4, <2>2, PoolOfIndInv
    <3> QED BY <1>7, <3>1, <3>2
  <2> QED BY <2>1, <2>2
<1>11. chars'[v] = new /\ alloced'[v] = need
  BY <1>1 DEF IndInv, TypeOK
<1>12. LiveDistinct' /\ PoolDistinct' /\ CachedIsFree'
  <2>1. LiveDistinct'
    <3> SUFFICES ASSUME NEW w \in live, NEW x \in live, w # x, chars'[w] = chars'[x]
                 PROVE  chars'[w] = NULL
      BY <1>1 DEF LiveDistinct
    <3>1. w # v /\ x # v
      BY <1>10, <1>11
    <3> QED BY <1>10, <3>1 DEF IndInv, ExclusiveOwnership, LiveDistinct
  <2>2. PoolDistinct'
    BY <1>7 DEF PoolDistinct, Distinct
  <2>3. CachedIsFree'
    <3> SUFFICES ASSUME NEW w \in live, NEW i \in Class, NEW n \in 1 .. Len(pool'[i])
                 PROVE  pool'[i][n] # chars'[w]
      BY <1>1 DEF CachedIsFree
    <3>1. pool'[i][n] \in Block
      BY <1>7 DEF PoolsOf
    <3> QED BY <1>8, <1>10, <1>11, <3>1, MemoryAssumption DEF Without
  <2> QED BY <2>1, <2>2, <2>3
<1>13. SizesAgree'
  <2>1. \A w \in live : chars'[w] # NULL => alloced'[w] \in Class /\ heap'[chars'[w]] = alloced'[w]
    BY <1>8, <1>10, <1>11
  <2>2. chars[v] # NULL => heap[chars[v]] # Text
    BY <1>1, PoolOfIndInv DEF Class, Text
  <2>3. \A b \in strings : heap'[b] = Text
    BY <1>7, <2>2, MemoryAssumption DEF IndInv, SizesAgree, TypeOK
  <2>4. tempAllocation # NULL => heap'[tempAllocation] = Text /\ tempAllocation \notin strings
    BY <1>7, <2>2, MemoryAssumption DEF IndInv, SizesAgree, TypeOK
  <2> QED BY <1>1, <1>7, <2>1, <2>3, <2>4 DEF SizesAgree, Fits, textVars
<1>14. ArraysHoldTheirEntries' /\ Bookkeeping' /\ TempsTracked'
  BY <1>1, <1>7
  DEF IndInv, ArraysHoldTheirEntries, Bookkeeping, RetriedInVain, TempRoom, TempsTracked, Caps, libVars, tempVars, textVars
<1> QED BY <1>9, <1>12, <1>13, <1>14 DEF IndInv, ExclusiveOwnership

(* libzahl_realloc with the C heap's realloc: the block stays, or a block  *)
(* that was nobody's takes its place.                                      *)
LEMMA EnsureFromHeapStep ==
  ASSUME IndInv, NEW v \in Var, NEW need \in Class, NEW b \in Block, EnsureFromHeap(v, need, b)
  PROVE  IndInv'
<1> USE DEF libVars, poolVars, tempVars, textVars
<1>1. /\ v \in live /\ (heap[b] = Unallocated \/ b = chars[v])
      /\ data' = Moved(v, b) /\ chars' = [chars EXCEPT ![v] = b]
      /\ alloced' = [alloced EXCEPT ![v] = need]
      /\ UNCHANGED <<libVars, mode, live, poolVars, tempVars, textVars>>
  BY DEF EnsureFromHeap, Usable
<1>0. /\ v \in live
      /\ chars[v] # NULL => /\ alloced[v] \in Class /\ heap[chars[v]] = alloced[v]
                            /\ Without(pool, chars[v])
  <2>1. v \in live
    BY <1>1
  <2> QED BY <2>1, PoolOfIndInv
<1>2. /\ HeapOf(heap') /\ heap'[b] = need
      /\ \A c \in Block : c # b /\ c # chars[v] => heap'[c] = heap[c]
  BY PoolOfIndInv DEF EnsureFromHeap, HeapOf
<1>3. b = chars[v] \/ (Without(pool, b) /\ \A w \in live : chars[w] # b)
  BY <1>1, PoolOfIndInv, MemoryAssumption DEF Fits, Without, Class, Unallocated
<1>4. Without(pool, b)
  <2>1. b = chars[v] => chars[v] # NULL /\ Without(pool, chars[v])
    BY <1>0, MemoryAssumption
  <2> QED BY <1>3, <2>1
<1>5. \A w \in live : w # v =>
        /\ chars'[w] = chars[w] /\ alloced'[w] = alloced[w] /\ chars[w] # b
        /\ chars[w] # NULL => /\ heap'[chars[w]] = alloced[w] /\ alloced[w] \in Class
                              /\ Without(pool, chars[w])
  <2> SUFFICES ASSUME NEW w \in live, w # v
               PROVE  /\ chars'[w] = chars[w] /\ alloced'[w] = alloced[w] /\ chars[w] # b
                      /\ chars[w] # NULL => /\ heap'[chars[w]] = alloced[w] /\ alloced[w] \in Class
                                            /\ Without(pool, chars[w])
    OBVIOUS
  <2>1. chars'[w] = chars[w] /\ alloced'[w] = alloced[w]
    BY <1>1 DEF IndInv, TypeOK
  <2>2. chars[w] # NULL => chars[w] \in Block /\ chars[w] # chars[v]
    <3>1. chars[w] # NULL => chars[w] \in Block
      BY DEF IndInv, TypeOK
    <3>2. chars[w] # NULL => chars[w] # chars[v]
      BY <1>0 DEF IndInv, ExclusiveOwnership, LiveDistinct
    <3> QED BY <3>1, <3>2
  <2>3. chars[w] # b
    BY <1>3, <2>2, MemoryAssumption
  <2> QED BY <1>2, <2>1, <2>2, <2>3, PoolOfIndInv
<1>6. chars'[v] = b /\ alloced'[v] = need
  BY <1>1 DEF IndInv, TypeOK
<1>7. TypeOK'
  BY <1>1, <1>2 DEF IndInv, TypeOK, HeapOf, Moved, ContentOf
<1>8. LiveDistinct'
  <2> SUFFICES ASSUME NEW w \in live, NEW x \in live, w # x, chars'[w] = chars'[x]
               PROVE  chars'[w] = NULL
    BY <1>1 DEF LiveDistinct
  <2>1. w # v /\ x # v
    BY <1>5, <1>6
  <2> QED BY <1>5, <2>1 DEF IndInv, ExclusiveOwnership, LiveDistinct
<1>9. PoolDistinct'
  BY <1>1 DEF IndInv, ExclusiveOwnership, PoolDistinct
<1>10. CachedIsFree'
  BY <1>1, <1>4, <1>5, <1>6 DEF CachedIsFree, Without, IndInv, ExclusiveOwnership
<1>11. SizesAgree'
  <2>1. \A w \in live : chars'[w] # NULL => alloced'[w] \in Class /\ heap'[chars'[w]] = alloced'[w]
    BY <1>2, <1>5, <1>6
  <2>2. \A i \in Class : \A n \in 1 .. Len(pool[i]) : heap'[pool[i][n]] = i
    <3> SUFFICES ASSUME NEW i \in Class, NEW n \in 1 .. Len(pool[i])
                 PROVE  heap'[pool[i][n]] = i
      OBVIOUS
    <3>1. pool[i][n] \in Block /\ heap[pool[i][n]] = i
      BY PoolOfIndInv DEF PoolsOf, Fits
    <3>2. pool[i][n] # b /\ pool[i][n] # chars[v]
      BY <1>1, <1>4 DEF Without, IndInv, ExclusiveOwnership, CachedIsFree
    <3> QED BY <1>2, <3>1, <3>2
  <2>3. heap[b] # Text /\ (chars[v] # NULL => heap[chars[v]] # Text)
    <3>1. chars[v] # NULL => heap[chars[v]] \in Class
      BY <1>0
    <3>2. \A i \in Class : i # Text
      BY MemoryAssumption DEF Class, Text
    <3>3. heap[b] # Text
      BY <1>1, <3>1, <3>2, MemoryAssumption DEF Text, Unallocated
    <3> QED BY <3>1, <3>2, <3>3
  <2>4. \A c \in Block : heap[c] = Text => heap'[c] = Text
    <3>1. \A c \in Block : c = chars[v] => chars[v] # NULL
      BY MemoryAssumption
    <3> QED BY <1>2, <2>3, <3>1
  <2>5. \A c \in strings : heap'[c] = Text
    BY <2>4 DEF IndInv, SizesAgree, TypeOK
  <2>6. tempAllocation # NULL => heap'[tempAllocation] = Text /\ tempAllocation \notin strings
    BY <2>4 DEF IndInv, SizesAgree, TypeOK
  <2> QED BY <1>1, <2>1, <2>2, <2>5, <2>6 DEF SizesAgree
<1>12. ArraysHoldTheirEntries' /\ Bookkeeping' /\ TempsTracked'
  BY <1>1 DEF IndInv, ArraysHoldTheirEntries, Bookkeeping, RetriedInVain, TempRoom, TempsTracked
<1> QED BY <1>7, <1>8, <1>9, <1>10, <1>11, <1>12 DEF IndInv, ExclusiveOwnership

LEMMA EnsureFailsStep ==
  ASSUME IndInv, NEW v \in Var, NEW need \in Class, EnsureFails(v, need)
  PROVE  IndInv'
<1> USE DEF EnsureFails, Usable, IndInv, libVars, poolVars, tempVars, textVars
<1>1. TypeOK'
  BY DEF TypeOK
<1>2. LiveDistinct' /\ PoolDistinct'
  BY DEF TypeOK, ExclusiveOwnership, LiveDistinct, PoolDistinct
<1>3. CachedIsFree'
  <2> SUFFICES ASSUME NEW w \in live, NEW i \in Class, NEW n \in 1 .. Len(pool[i])
               PROVE  pool[i][n] # chars'[w]
    BY DEF CachedIsFree
  <2>1. pool[i][n] \in Block
    BY DEF TypeOK
  <2>2. chars'[w] = chars[w] \/ chars'[w] = NULL
    BY DEF TypeOK
  <2> QED BY <2>1, <2>2, MemoryAssumption DEF ExclusiveOwnership, CachedIsFree
<1>4. SizesAgree'
  BY DEF TypeOK, SizesAgree
<1>5. ArraysHoldTheirEntries' /\ Bookkeeping' /\ TempsTracked'
  BY DEF ArraysHoldTheirEntries, Bookkeeping, RetriedInVain, TempRoom, TempsTracked
<1> QED BY <1>1, <1>2, <1>3, <1>4, <1>5 DEF ExclusiveOwnership

(* zinit_temp: the doubled stack has room, and lists the newcomer last.    *)
LEMMA ZInitTempStep ==
  ASSUME IndInv, NEW l \in Local, ZInitTemp(l) \/ ZInitTempFails(l)
  PROVE  IndInv'
<1> USE DEF Clear, poolVars, textVars
<1>1. /\ l \in Var /\ l \notin live /\ mode = "call" /\ mode' \in {"call", "unwind"}
      /\ Clear({l}) /\ UNCHANGED <<setUp, heap, poolVars, textVars>>
      /\ data' \in [Block -> Value \cup {Junk}]
      /\ stackMem' \in {"never", "held", "stale"}
      /\ \/ live' = live /\ UNCHANGED <<stackMem, tempStack, stackCap>>
         \/ live' = live \cup {l} /\ tempStack' = Append(tempStack, l) /\ GrowStack
  <2>1. /\ data \in [Block -> Value \cup {Junk}] /\ stackMem \in {"never", "held", "stale"}
        /\ l \in Var
    BY DEF IndInv, TypeOK, Var
  <2>2. CASE ZInitTemp(l)
    <3>1. data' \in [Block -> Value \cup {Junk}]
      BY <2>1, <2>2 DEF ZInitTemp, WriteEntry
    <3>2. stackMem' \in {"never", "held", "stale"}
      BY <2>1, <2>2 DEF ZInitTemp, GrowStack
    <3> QED BY <2>1, <2>2, <3>1, <3>2 DEF ZInitTemp
  <2>3. CASE ZInitTempFails(l)
    BY <2>1, <2>3 DEF ZInitTempFails, libVars, heapVars, tempVars
  <2> QED BY <2>2, <2>3
<1>2. /\ setUp /\ (TempRoom > 0 \/ RetriedInVain) /\ tempStack \in Seq(Local)
      /\ stackCap \in Nat /\ Len(tempStack) \in Nat
      /\ stackMem # "held" => Len(tempStack) <= stackCap
      /\ Len(tempStack) <= TempRoom \/ RetriedInVain
  BY <1>1 DEF IndInv, Bookkeeping, TypeOK, ArraysHoldTheirEntries
<1>3. /\ tempStack' \in Seq(Local) /\ stackCap' \in Nat
      /\ Len(tempStack') <= TempRoom' \/ RetriedInVain'
      /\ stackMem' # "held" => Len(tempStack') <= stackCap'
      /\ TempRoom' > 0 \/ RetriedInVain'
  <2>1. CASE UNCHANGED <<stackMem, tempStack, stackCap>>
    <3>1. TempRoom' = TempRoom /\ RetriedInVain' = RetriedInVain
      BY <2>1 DEF TempRoom, RetriedInVain
    <3> QED BY <1>2, <2>1, <3>1
  <2>2. CASE tempStack' = Append(tempStack, l) /\ GrowStack
    <3>1. tempStack' \in Seq(Local) /\ Len(tempStack') = Len(tempStack) + 1
      BY <1>2, <2>2
    <3>2. CASE Len(tempStack) = stackCap
      <4>1. stackMem' = "held" /\ stackCap' = 2 * stackCap /\ TempRoom' = 2 * stackCap
        BY <2>2, <3>2 DEF GrowStack, TempRoom
      <4>2. CASE stackCap > 0
        BY <1>2, <3>1, <3>2, <4>1, <4>2
      <4>3. CASE stackCap = 0
        <5>1. TempRoom = 0 /\ TempRoom' = 0
          BY <4>1, <4>3 DEF TempRoom
        <5> QED BY <1>2, <3>1, <4>1, <5>1 DEF RetriedInVain
      <4> QED BY <1>2, <4>2, <4>3
    <3>3. CASE Len(tempStack) # stackCap
      <4>1. UNCHANGED <<stackMem, stackCap>> /\ TempRoom' = TempRoom /\ RetriedInVain' = RetriedInVain
        BY <2>2, <3>3 DEF GrowStack, TempRoom, RetriedInVain
      <4>2. TempRoom = 0 \/ (stackMem = "held" /\ TempRoom = stackCap)
        BY DEF TempRoom
      <4> QED BY <1>2, <3>1, <3>3, <4>1, <4>2 DEF RetriedInVain
    <3> QED BY <3>2, <3>3
  <2> QED BY <1>1, <2>1, <2>2
<1>10. TypeOK'
  <2>1. chars' \in [Var -> Block \cup {NULL}] /\ alloced' \in [Var -> Class \cup {NoSize}]
    BY <1>1 DEF IndInv, TypeOK
  <2>2. live' \subseteq Var
    BY <1>1 DEF IndInv, TypeOK
  <2> QED BY <1>1, <1>3, <2>1, <2>2 DEF IndInv, TypeOK
<1>4. chars'[l] = NULL /\ \A w \in live : chars'[w] = chars[w] /\ alloced'[w] = alloced[w]
  BY <1>1 DEF IndInv, TypeOK
<1>5. LiveDistinct' /\ PoolDistinct'
  <2>1. pool' = pool /\ \A w \in live' : w \in live \/ w = l
    BY <1>1
  <2> QED BY <1>4, <2>1 DEF IndInv, ExclusiveOwnership, LiveDistinct, PoolDistinct
<1>6. CachedIsFree'
  <2> SUFFICES ASSUME NEW w \in live', NEW i \in Class, NEW n \in 1 .. Len(pool[i])
               PROVE  pool[i][n] # chars'[w]
    BY <1>1 DEF CachedIsFree
  <2>1. pool[i][n] \in Block
    BY DEF IndInv, TypeOK
  <2>2. w \in live \/ w = l
    BY <1>1
  <2> QED BY <1>4, <2>1, <2>2, MemoryAssumption DEF IndInv, ExclusiveOwnership, CachedIsFree
<1>7. SizesAgree'
  BY <1>1, <1>4 DEF IndInv, SizesAgree
<1>8. TempsTracked'
  <2>1. CASE live' = live /\ tempStack' = tempStack
    BY <1>1, <2>1 DEF IndInv, TempsTracked
  <2>2. CASE live' = live \cup {l} /\ tempStack' = Append(tempStack, l)
    <3>1. /\ Len(tempStack') = Len(tempStack) + 1
          /\ \A n \in 1 .. Len(tempStack) : tempStack'[n] = tempStack[n]
          /\ tempStack'[Len(tempStack) + 1] = l
      BY <1>2, <2>2
    <3>2. ToSet(tempStack') = ToSet(tempStack) \cup {l}
      BY <1>2, <2>2, <3>1 DEF ToSet
    <3>3. \A n \in 1 .. Len(tempStack) : tempStack[n] # l
      BY <1>1, <3>1 DEF IndInv, TempsTracked, ToSet
    <3> QED BY <1>1, <1>2, <2>2, <3>1, <3>2, <3>3 DEF IndInv, TempsTracked
  <2> QED BY <1>1, <2>1, <2>2
<1>9. ArraysHoldTheirEntries' /\ Bookkeeping'
  BY <1>1, <1>2, <1>3, MemoryAssumption DEF IndInv, ArraysHoldTheirEntries, Bookkeeping
<1> QED BY <1>5, <1>6, <1>7, <1>8, <1>9, <1>10 DEF IndInv, ExclusiveOwnership

(* With a temporary stack there is room for what zinit_temp writes.        *)
LEMMA EntryHasRoom ==
  ASSUME IndInv, NEW l \in Local, ZInitTemp(l), ~RetriedInVain
  PROVE  UNCHANGED data
<1>1. /\ TempRoom > 0 /\ stackMem = "held" /\ TempRoom = stackCap
      /\ Len(tempStack) \in Nat /\ stackCap \in Nat /\ Len(tempStack) <= stackCap
  <2>1. Len(tempStack) \in Nat /\ stackCap \in Nat
    BY DEF IndInv, TypeOK
  <2>2. TempRoom > 0 /\ Len(tempStack) <= TempRoom
    BY DEF IndInv, Bookkeeping, ArraysHoldTheirEntries, ZInitTemp
  <2> QED BY <2>1, <2>2 DEF TempRoom
<1>2. GrowStack /\ WriteEntry
  BY DEF ZInitTemp
<1>3. Len(tempStack) < TempRoom'
  BY <1>1, <1>2 DEF GrowStack, TempRoom
<1> QED BY <1>2, <1>3 DEF WriteEntry

(* Strings are allocated and freed behind the back of the pool: a block    *)
(* changes hands without being a size class before or after.               *)
LEMMA TextStepKeepsSizes ==
  ASSUME IndInv, HeapOf(heap'),
         \A b \in Block : heap[b] \in Class => heap'[b] = heap[b],
         UNCHANGED <<live, fieldVars, poolVars>>
  PROVE  /\ ExclusiveOwnership'
         /\ \A v \in live' : chars'[v] # NULL =>
               alloced'[v] \in Class /\ heap'[chars'[v]] = alloced'[v]
         /\ \A i \in Class : \A n \in 1 .. Len(pool'[i]) : heap'[pool'[i][n]] = i
<1> USE DEF fieldVars, poolVars
<1>1. ExclusiveOwnership'
  BY DEF IndInv, ExclusiveOwnership, LiveDistinct, PoolDistinct, CachedIsFree
<1>2. ASSUME NEW v \in live, chars[v] # NULL
      PROVE  alloced[v] \in Class /\ heap'[chars[v]] = alloced[v]
  <2>1. alloced[v] \in Class /\ heap[chars[v]] = alloced[v]
    BY <1>2, PoolOfIndInv
  <2>2. chars[v] \in Block
    BY <1>2 DEF IndInv, TypeOK
  <2> QED BY <2>1, <2>2
<1>3. ASSUME NEW i \in Class, NEW n \in 1 .. Len(pool[i])
      PROVE  heap'[pool[i][n]] = i
  <2>1. pool[i][n] \in Block /\ heap[pool[i][n]] = i
    BY PoolOfIndInv DEF PoolsOf, Fits
  <2> QED BY <2>1
<1> QED BY <1>1, <1>2, <1>3

LEMMA NoSpecialSize == \A i \in Class : i # Text /\ i # Unallocated
BY MemoryAssumption DEF Class, Text, Unallocated

LEMMA TextSteps ==
  ASSUME IndInv,
         (\E b \in Block : ZStrAlloc(b) \/ FreeString(b)) \/ ZStrReturn
  PROVE  IndInv'
<1> USE DEF libVars, tempVars
<1>1. /\ HeapOf(heap') /\ UNCHANGED <<libVars, live, fieldVars, data, poolVars, tempVars>>
      /\ \A b \in Block : heap[b] \in Class => heap'[b] = heap[b]
  <2>1. ASSUME NEW b \in Block, ZStrAlloc(b)
        PROVE  <1>1!:
    BY <2>1, NoSpecialSize, PoolOfIndInv DEF ZStrAlloc, HeapOf
  <2>2. ASSUME NEW b \in Block, FreeString(b)
        PROVE  <1>1!:
    <3>1. heap[b] = Text
      BY <2>2 DEF FreeString, IndInv, SizesAgree
    <3> QED BY <2>2, <3>1, NoSpecialSize, PoolOfIndInv DEF FreeString, HeapOf
  <2>3. CASE ZStrReturn
    BY <2>3, PoolOfIndInv DEF ZStrReturn, heapVars
  <2> QED BY <2>1, <2>2, <2>3
<1>2. /\ mode # "off" /\ mode' \in {"call", "user"} /\ strings' \subseteq Block
      /\ tempAllocation' \in Block \cup {NULL}
      /\ \A b \in strings' : heap'[b] = Text
      /\ tempAllocation' # NULL => heap'[tempAllocation'] = Text /\ tempAllocation' \notin strings'
      /\ mode' = "user" => tempStack = <<>> /\ tempAllocation' = NULL
  <2> USE PoolOfIndInv, MemoryAssumption DEF IndInv, TypeOK, SizesAgree, Bookkeeping, RetriedInVain, TempRoom, HeapOf
  <2>1. ASSUME NEW b \in Block, ZStrAlloc(b)
        PROVE  <1>2!:
    <3>1. b \notin strings
      BY <2>1 DEF ZStrAlloc, Text, Unallocated
    <3> QED BY <2>1, <3>1 DEF ZStrAlloc
  <2>2. ASSUME NEW b \in Block, FreeString(b)
        PROVE  <1>2!:
    BY <2>2 DEF FreeString
  <2>3. CASE ZStrReturn
    BY <2>3 DEF ZStrReturn, heapVars
  <2> QED BY <2>1, <2>2, <2>3
<1>3. TypeOK'
  BY <1>1, <1>2 DEF IndInv, TypeOK, HeapOf, fieldVars, poolVars
<1>4. ExclusiveOwnership' /\ SizesAgree'
  BY <1>1, <1>2, TextStepKeepsSizes DEF SizesAgree
<1>5. ArraysHoldTheirEntries' /\ TempsTracked' /\ Bookkeeping'
  BY <1>1, <1>2 DEF IndInv, ArraysHoldTheirEntries, TempsTracked, Bookkeeping, RetriedInVain, TempRoom, poolVars
<1> QED BY <1>3, <1>4, <1>5 DEF IndInv

(* The long jump: the temporaries that are still there take their blocks   *)
(* along, which nobody holds any more.                                     *)
LEMMA LongJmpStep ==
  ASSUME IndInv, LongJmp
  PROVE  IndInv'
<1> USE DEF libVars, poolVars
<1>1. /\ TypeOK /\ tempStack \in Seq(Local) /\ tempStack' = <<>> /\ mode = "unwind" /\ mode' = "user"
      /\ live' = live \ ToSet(tempStack) /\ Forget(ToSet(tempStack))
      /\ stackCap' = stackCap - Len(tempStack) /\ tempAllocation' = NULL
      /\ stackMem = "held" => tempStack = <<>>
      /\ heap' = [b \in Block |-> IF b = tempAllocation THEN Unallocated ELSE heap[b]]
      /\ UNCHANGED <<libVars, poolVars, strings>>
      /\ live' \subseteq live
  BY DEF LongJmp, Abandon, IndInv, TypeOK
<1>2. /\ stackCap' \in Nat /\ TempRoom' = TempRoom /\ RetriedInVain' = RetriedInVain
      /\ Len(tempStack') = 0 /\ tempStack' \in Seq(Local)
  <2>1. Len(tempStack) \in Nat /\ stackCap \in Nat
    BY <1>1 DEF TypeOK
  <2>2. CASE stackMem = "held"
    BY <1>1, <2>1, <2>2 DEF TempRoom, RetriedInVain
  <2>3. CASE stackMem # "held"
    BY <1>1, <2>1, <2>3 DEF TempRoom, RetriedInVain, IndInv, Bookkeeping
  <2> QED BY <2>2, <2>3
<1>3. \A v \in live' : v \in live /\ chars'[v] = chars[v] /\ alloced'[v] = alloced[v]
  BY <1>1 DEF Forget, Clear, TypeOK
<1>4. /\ HeapOf(heap')
      /\ \A b \in Block : heap[b] \in Class => heap'[b] = heap[b]
      /\ \A b \in strings : heap'[b] = Text
  <2>1. tempAllocation # NULL => heap[tempAllocation] = Text /\ tempAllocation \notin strings
    BY DEF IndInv, SizesAgree
  <2>2. \A b \in strings : b \in Block /\ heap[b] = Text
    BY <1>1 DEF IndInv, SizesAgree, TypeOK
  <2>3. HeapOf(heap')
    BY <1>1, PoolOfIndInv DEF HeapOf
  <2>4. \A b \in Block : heap[b] \in Class => heap'[b] = heap[b]
    BY <1>1, <2>1, NoSpecialSize, MemoryAssumption
  <2>5. \A b \in strings : heap'[b] = Text
    BY <1>1, <2>1, <2>2, MemoryAssumption
  <2> QED BY <2>3, <2>4, <2>5
<1>5. TypeOK'
  <2>1. /\ chars' \in [Var -> Block \cup {NULL}] /\ alloced' \in [Var -> Class \cup {NoSize}]
        /\ data' \in [Block -> Value \cup {Junk}] /\ live' \subseteq Var
    BY <1>1 DEF Forget, Clear, TypeOK
  <2> QED BY <1>1, <1>2, <1>4, <2>1 DEF TypeOK, HeapOf
<1>6. LiveDistinct' /\ PoolDistinct' /\ CachedIsFree'
  BY <1>1, <1>3 DEF IndInv, ExclusiveOwnership, LiveDistinct, PoolDistinct, CachedIsFree
<1>7. SizesAgree'
  <2>1. ASSUME NEW v \in live', chars'[v] # NULL
        PROVE  alloced'[v] \in Class /\ heap'[chars'[v]] = alloced'[v]
    <3>1. v \in live /\ chars[v] # NULL /\ chars[v] \in Block
      BY <1>1, <1>3, <2>1 DEF TypeOK
    <3> QED BY <1>3, <1>4, <3>1, PoolOfIndInv
  <2>2. ASSUME NEW i \in Class, NEW n \in 1 .. Len(pool[i])
        PROVE  heap'[pool[i][n]] = i
    BY <1>4, PoolOfIndInv DEF PoolsOf, Fits
  <2> QED BY <1>1, <1>4, <2>1, <2>2 DEF SizesAgree
<1>8. TempsTracked'
  <2>1. live' \cap Local = {} /\ ToSet(tempStack') = {}
    BY <1>1 DEF IndInv, TempsTracked, ToSet
  <2> QED BY <1>2, <2>1 DEF TempsTracked
<1>9. ArraysHoldTheirEntries' /\ Bookkeeping'
  <2>1. Temp \subseteq live => Temp \subseteq live'
    BY <1>1, MemoryAssumption DEF ToSet
  <2>2. setUp /\ (TempRoom > 0 \/ RetriedInVain) /\ Len(tempStack') <= TempRoom'
    BY <1>1, <1>2 DEF IndInv, Bookkeeping, TempRoom, TypeOK
  <2> QED BY <1>1, <1>2, <2>1, <2>2 DEF IndInv, TypeOK, ArraysHoldTheirEntries, Bookkeeping
<1> QED BY <1>5, <1>6, <1>7, <1>8, <1>9 DEF IndInv, ExclusiveOwnership

(* zsetup starts with an empty pool and temporaries without memory.        *)
LEMMA ZSetupSteps ==
  ASSUME IndInv, ZSetup \/ ZSetupFails
  PROVE  IndInv'
<1> USE DEF heapVars, textVars
<1>1. /\ mode = "off" /\ mode' \in {"off", "user"} /\ setUp' = TRUE
      /\ stackMem' \in {"never", "held", "stale"}
      /\ live' = live \cup Temp /\ Clear(Temp)
      /\ pool' = NoPool /\ poolCap' = NoCap /\ UNCHANGED <<heapVars, textVars>>
      /\ tempStack = <<>> /\ tempStack' = <<>> /\ stackCap' \in Nat
      /\ IF mode' = "off" THEN MallocMayFail ELSE TempRoom' > 0
  <2>1. mode = "off" => tempStack = <<>>
    BY DEF IndInv, Bookkeeping
  <2>2. CASE ZSetup
    BY <2>1, <2>2, MemoryAssumption DEF ZSetup, TempRoom
  <2>3. CASE ZSetupFails
    BY <2>1, <2>3 DEF ZSetupFails, IndInv, TypeOK, tempVars
  <2> QED BY <2>2, <2>3
<1>2. /\ pool' \in [Class -> Seq(Block)] /\ poolCap' = [i \in Class |-> 0]
      /\ \A i \in Class : Len(pool'[i]) = 0
  <2>1. <<>> \in Seq(Block) /\ Len(<<>>) = 0
    OBVIOUS
  <2> QED BY <1>1, <2>1 DEF NoPool, NoCap
<1>3. \A v \in live' : chars'[v] = NULL \/ (v \in live /\ chars'[v] = chars[v] /\ alloced'[v] = alloced[v])
  BY <1>1 DEF Clear, IndInv, TypeOK, Var
<1>4. TypeOK'
  <2>1. tempStack' \in Seq(Local)
    BY <1>1
  <2> QED BY <1>1, <1>2, <2>1 DEF IndInv, TypeOK, Clear, Var
<1>5. LiveDistinct' /\ PoolDistinct' /\ CachedIsFree'
  <2>1. LiveDistinct'
    BY <1>3 DEF IndInv, ExclusiveOwnership, LiveDistinct
  <2> QED BY <1>2, <2>1 DEF PoolDistinct, CachedIsFree
<1>6. SizesAgree'
  BY <1>1, <1>2, <1>3 DEF IndInv, SizesAgree
<1>7. TempsTracked' /\ ArraysHoldTheirEntries' /\ Bookkeeping'
  <2>1. live' \cap Local = live \cap Local
    BY <1>1, MemoryAssumption
  <2>2. ToSet(<<>>) = {} /\ Len(<<>>) = 0
    BY DEF ToSet
  <2> QED BY <1>1, <1>2, <2>1, <2>2 DEF IndInv, TempsTracked, ArraysHoldTheirEntries, Bookkeeping, RetriedInVain, TempRoom
<1> QED BY <1>4, <1>5, <1>6, <1>7 DEF IndInv, ExclusiveOwnership

(* zunsetup gives back what the temporaries own and the pool caches, which *)
(* is never what a client's integer or string owns.                        *)
LEMMA ZUnsetupStep ==
  ASSUME IndInv, ZUnsetup
  PROVE  IndInv'
<1> DEFINE freed == {chars[t] : t \in Temp} \cup UNION {ToSet(pool[i]) : i \in Class}
<1> USE DEF textVars
<1>1. /\ setUp /\ mode \in {"off", "user"} /\ mode' = "off" /\ setUp' = FALSE
      /\ stackMem' \in {"never", "held", "stale"}
      /\ heap' = [b \in Block |-> IF b \in freed THEN Unallocated ELSE heap[b]]
      /\ live' = live \ Temp /\ Forget(Temp)
      /\ pool' = NoPool /\ poolCap' = NoCap /\ UNCHANGED textVars
      /\ tempStack = <<>> /\ tempStack' = <<>> /\ stackCap' \in Nat
      /\ tempAllocation = NULL /\ Temp \subseteq live
  BY DEF ZUnsetup, IndInv, TypeOK, Bookkeeping, tempVars
<1>2. /\ pool' \in [Class -> Seq(Block)] /\ poolCap' = [i \in Class |-> 0]
      /\ \A i \in Class : Len(pool'[i]) = 0
  <2>1. <<>> \in Seq(Block) /\ Len(<<>>) = 0
    OBVIOUS
  <2> QED BY <1>1, <2>1 DEF NoPool, NoCap
<1>3. \A b \in Block : b \in freed => heap[b] \in Class
  <2> SUFFICES ASSUME NEW b \in Block, b \in freed PROVE heap[b] \in Class
    OBVIOUS
  <2>1. CASE \E t \in Temp : b = chars[t]
    BY <1>1, <2>1, PoolOfIndInv, MemoryAssumption
  <2>2. CASE \E i \in Class : b \in ToSet(pool[i])
    BY <2>2, PoolOfIndInv DEF ToSet, Fits, PoolsOf
  <2> QED BY <2>1, <2>2
<1>4. \A v \in live' : /\ v \in live /\ chars'[v] = chars[v] /\ alloced'[v] = alloced[v]
                       /\ chars[v] # NULL => chars[v] \notin freed
  <2> SUFFICES ASSUME NEW v \in live'
               PROVE  /\ v \in live /\ chars'[v] = chars[v] /\ alloced'[v] = alloced[v]
                      /\ chars[v] # NULL => chars[v] \notin freed
    OBVIOUS
  <2>1. v \in live /\ v \notin Temp /\ chars'[v] = chars[v] /\ alloced'[v] = alloced[v]
    BY <1>1 DEF Forget, Clear, IndInv, TypeOK
  <2>2. ASSUME chars[v] # NULL, NEW t \in Temp PROVE chars[v] # chars[t]
    BY <1>1, <2>1, <2>2 DEF IndInv, ExclusiveOwnership, LiveDistinct
  <2>3. ASSUME NEW i \in Class PROVE chars[v] \notin ToSet(pool[i])
    BY <2>1, PoolOfIndInv DEF IndInv, ExclusiveOwnership, CachedIsFree, ToSet, PoolsOf
  <2> QED BY <2>1, <2>2, <2>3
<1> HIDE DEF freed
<1>5. TypeOK'
  <2>1. tempStack' \in Seq(Local) /\ stackCap' \in Nat
    BY <1>1
  <2>2. heap' \in [Block -> Class \cup {Unallocated, Text}]
    BY <1>1 DEF IndInv, TypeOK
  <2>3. /\ chars' \in [Var -> Block \cup {NULL}] /\ alloced' \in [Var -> Class \cup {NoSize}]
        /\ data' \in [Block -> Value \cup {Junk}]
    BY <1>1 DEF Forget, Clear, IndInv, TypeOK
  <2>4. live' \subseteq Var /\ tempAllocation' \in Block \cup {NULL} /\ strings' \subseteq Block
    BY <1>1 DEF IndInv, TypeOK
  <2>5. setUp' \in BOOLEAN
    BY <1>1
  <2>6. poolCap' \in [Class -> Nat]
    BY <1>2
  <2> QED BY <1>1, <1>2, <2>1, <2>2, <2>3, <2>4, <2>5, <2>6 DEF TypeOK
<1>6. LiveDistinct' /\ PoolDistinct' /\ CachedIsFree'
  BY <1>2, <1>4 DEF IndInv, ExclusiveOwnership, LiveDistinct, PoolDistinct, CachedIsFree
<1>7. SizesAgree'
  <2>1. \A v \in live' : chars'[v] # NULL => alloced'[v] \in Class /\ heap'[chars'[v]] = alloced'[v]
    BY <1>1, <1>4, PoolOfIndInv DEF IndInv, TypeOK
  <2>2. \A b \in strings : heap'[b] = Text
    BY <1>1, <1>3, NoSpecialSize DEF IndInv, SizesAgree, TypeOK
  <2> QED BY <1>1, <1>2, <2>1, <2>2 DEF SizesAgree
<1>8. TempsTracked' /\ ArraysHoldTheirEntries' /\ Bookkeeping'
  <2>1. live' \cap Local = live \cap Local
    BY <1>1, MemoryAssumption
  <2>2. ToSet(<<>>) = {} /\ Len(<<>>) = 0
    BY DEF ToSet
  <2> QED BY <1>1, <1>2, <2>1, <2>2 DEF IndInv, TempsTracked, ArraysHoldTheirEntries, Bookkeeping, RetriedInVain, TempRoom
<1> QED BY <1>5, <1>6, <1>7, <1>8 DEF IndInv, ExclusiveOwnership

-----------------------------------------------------------------------------
(* The theorems.                                                           *)

THEOREM IndInvHolds == Spec => []IndInv
<1>1. IndInv /\ [Next]_vars => IndInv'
  <2> SUFFICES ASSUME IndInv, [Next]_vars PROVE IndInv'
    OBVIOUS
  <2>1. CASE ClientStep
    <3>1. CASE ZSetup \/ ZSetupFails
      BY <3>1, ZSetupSteps
    <3>2. CASE ZSetupAgain \/ Call
      BY <3>2, ModeSteps
    <3>3. CASE ZUnsetup
      BY <3>3, ZUnsetupStep
    <3>4. CASE \E u \in User : ZInit(u) \/ ZFree(u)
      BY <3>4, ZInitStep, ZFreeStep
    <3>5. CASE \E b \in Block : FreeString(b)
      BY <3>5, TextSteps
    <3> QED BY <2>1, <3>1, <3>2, <3>3, <3>4, <3>5 DEF ClientStep
  <2>2. CASE LibraryStep
    <3>1. CASE Return \/ Fail \/ \E v \in Var, d \in Value : Assign(v, d)
      BY <3>1, ModeSteps
    <3>2. CASE ZFreeTemp
      BY <3>2, PopTempStep DEF ZFreeTemp
    <3>3. CASE ZStrReturn \/ \E b \in Block : ZStrAlloc(b)
      BY <3>3, TextSteps
    <3>4. CASE \E v, w \in Var : ZSwap(v, w)
      BY <3>4, ZSwapStep
    <3>5. CASE \E v \in Var, need \in Class :
                 \/ EnsureFromPool(v, need)
                 \/ \E b \in Block : EnsureFromHeap(v, need, b)
                 \/ EnsureFails(v, need)
      BY <3>5, EnsureFromPoolStep, EnsureFromHeapStep, EnsureFailsStep
    <3>6. CASE \E l \in Local : ZInitTemp(l) \/ ZInitTempFails(l)
      BY <3>6, ZInitTempStep
    <3> QED BY <2>2, <3>1, <3>2, <3>3, <3>4, <3>5, <3>6 DEF LibraryStep
  <2>3. CASE Unwind
    BY <2>3, PopTempStep, LongJmpStep DEF Unwind, UnwindTemp
  <2>4. CASE UNCHANGED vars
    BY <2>4, StutterStep
  <2> QED BY <2>1, <2>2, <2>3, <2>4 DEF Next
<1> QED BY <1>1, InitEstablishesIndInv, PTL DEF Spec

(* Every variable of the memory model keeps its type.                      *)
THEOREM TypeCorrectness == Spec => []TypeOK
BY IndInvHolds, PTL DEF IndInv

(* A block never has two owners: integers do not alias, the pool caches no *)
(* block twice, and what libzahl_realloc takes from it nobody else holds.  *)
THEOREM BlocksHaveOneOwner == Spec => []ExclusiveOwnership
BY IndInvHolds, PTL DEF IndInv

(* A block is as large as .alloced of its owner, or the bucket it is in.   *)
THEOREM BlocksFitTheirOwners == Spec => []SizesAgree
BY IndInvHolds, PTL DEF IndInv

(* No bucket and no temporary stack is written past its end, unless a      *)
(* zsetup that failed for memory was retried: zinit_temp then always is.   *)
THEOREM ArraysNeverOverflow == Spec => []ArraysHoldTheirEntries
BY IndInvHolds, PTL DEF IndInv

(* The temporary stack lists exactly the temporaries in use.               *)
THEOREM StackTracksTemporaries == Spec => []TempsTracked
BY IndInvHolds, PTL DEF IndInv

-----------------------------------------------------------------------------
(* What a step may do to the contents of the integers.                     *)

LEMMA ForgottenInvariant == Spec => []Forgotten
<1>1. Init => Forgotten
  BY DEF Init, Forgotten
<1>2. IndInv /\ Forgotten /\ [Next]_vars => Forgotten'
  <2> SUFFICES ASSUME IndInv, Forgotten, [Next]_vars PROVE Forgotten'
    OBVIOUS
  <2> USE DEF Forgotten, Forget, Clear, libVars, fieldVars, heapVars, poolVars, tempVars, textVars
  <2>0. TypeOK
    BY DEF IndInv
  <2>1. CASE ClientStep
    <3>1. CASE ZSetup \/ ZSetupFails \/ ZUnsetup
      BY <2>0, <3>1 DEF TypeOK, ZSetup, ZSetupFails, ZUnsetup
    <3>2. CASE ZSetupAgain \/ Call \/ \E b \in Block : FreeString(b)
      BY <3>2 DEF ZSetupAgain, Call, FreeString
    <3>3. CASE \E u \in User : ZInit(u) \/ ZFree(u)
      BY <2>0, <3>3 DEF TypeOK, ZInit, ZFree
    <3> QED BY <2>1, <3>1, <3>2, <3>3 DEF ClientStep
  <2>2. CASE LibraryStep
    <3>1. CASE Return \/ Fail \/ ZStrReturn \/ \E b \in Block : ZStrAlloc(b)
      BY <3>1 DEF Return, Fail, ZStrReturn, ZStrAlloc
    <3>2. CASE ZFreeTemp
      BY <2>0, <3>2 DEF TypeOK, ZFreeTemp, PopTemp
    <3>3. CASE \E v \in Var, d \in Value : Assign(v, d)
      BY <3>3 DEF Assign
    <3>4. CASE \E v, w \in Var : ZSwap(v, w)
      BY <2>0, <3>4 DEF TypeOK, ZSwap
    <3>5. CASE \E v \in Var, need \in Class :
                 \/ EnsureFromPool(v, need)
                 \/ \E b \in Block : EnsureFromHeap(v, need, b)
                 \/ EnsureFails(v, need)
      BY <2>0, <3>5 DEF TypeOK, EnsureFromPool, EnsureFromHeap, EnsureFails, Usable
    <3>6. CASE \E l \in Local : ZInitTemp(l) \/ ZInitTempFails(l)
      BY <2>0, <3>6 DEF TypeOK, ZInitTemp, ZInitTempFails
    <3> QED BY <2>2, <3>1, <3>2, <3>3, <3>4, <3>5, <3>6 DEF LibraryStep
  <2>3. CASE Unwind
    BY <2>0, <2>3 DEF TypeOK, Unwind, UnwindTemp, PopTemp, LongJmp, Abandon
  <2>4. CASE UNCHANGED vars
    BY <2>4 DEF vars
  <2> QED BY <2>1, <2>2, <2>3, <2>4 DEF Next
<1> QED BY <1>1, <1>2, IndInvHolds, PTL DEF Spec

(* Distinct variables own distinct blocks, so a block of one is never read *)
(* through another.                                                        *)
LEMMA OthersBlocks ==
  ASSUME IndInv, Forgotten, NEW v \in Var, NEW w \in Var, v # w, chars[v] # NULL
  PROVE  chars[w] # chars[v]
<1>1. v \in live
  BY DEF Forgotten
<1>2. CASE w \in live
  BY <1>1, <1>2 DEF IndInv, ExclusiveOwnership, LiveDistinct
<1>3. CASE w \notin live
  BY <1>3 DEF Forgotten
<1> QED BY <1>2, <1>3

(* zinit, and zfree of a set of variables: only their contents are lost.   *)
LEMMA ForgetContents ==
  ASSUME IndInv, Forgotten, NEW V, V \subseteq Var,
         Forget(V) \/ (Clear(V) /\ UNCHANGED data)
  PROVE  \A w \in Var : ContentOf(w)' = IF w \in V THEN Junk ELSE ContentOf(w)
<1> SUFFICES ASSUME NEW w \in Var
             PROVE  ContentOf(w)' = IF w \in V THEN Junk ELSE ContentOf(w)
  OBVIOUS
<1>1. chars'[w] = IF w \in V THEN NULL ELSE chars[w]
  BY DEF Forget, Clear
<1>2. ASSUME w \notin V, chars[w] # NULL
      PROVE  data'[chars[w]] = data[chars[w]]
  <2>1. chars[w] \in Block
    BY <1>2 DEF IndInv, TypeOK
  <2>2. ~ \E v \in V : chars[w] = chars[v]
    BY <1>2, OthersBlocks
  <2> QED BY <2>1, <2>2 DEF Forget
<1> QED BY <1>1, <1>2 DEF ContentOf

(* libzahl_realloc: the contents survive the move, and nothing else moves. *)
LEMMA MoveContents ==
  ASSUME IndInv, Forgotten, NEW v \in Var, NEW b \in Block,
         b = chars[v] \/ \A w \in Var : chars[w] # b,
         data' = Moved(v, b), chars' = [chars EXCEPT ![v] = b]
  PROVE  \A w \in Var : ContentOf(w)' = ContentOf(w)
<1> SUFFICES ASSUME NEW w \in Var PROVE ContentOf(w)' = ContentOf(w)
  OBVIOUS
<1>1. chars \in [Var -> Block \cup {NULL}] /\ b # NULL
  BY MemoryAssumption DEF IndInv, TypeOK
<1>2. CASE w = v
  <2>1. chars'[v] = b /\ data'[b] = ContentOf(v)
    BY <1>1 DEF Moved
  <2> QED BY <1>1, <1>2, <2>1 DEF ContentOf
<1>3. CASE w # v
  <2>1. chars'[w] = chars[w]
    BY <1>1, <1>3
  <2>2. chars[w] # NULL => chars[w] \in Block /\ chars[w] # chars[v] /\ chars[w] # b
    BY <1>1, <1>3, OthersBlocks
  <2>3. chars[w] # NULL => data'[chars[w]] = data[chars[w]]
    BY <2>2 DEF Moved
  <2> QED BY <2>1, <2>3 DEF ContentOf
<1> QED BY <1>2, <1>3

LEMMA AssignContents ==
  ASSUME IndInv, Forgotten, NEW v \in Var, NEW d, Assign(v, d)
  PROVE  \A w \in Var : ContentOf(w)' = IF w = v THEN d ELSE ContentOf(w)
<1> SUFFICES ASSUME NEW w \in Var
             PROVE  ContentOf(w)' = IF w = v THEN d ELSE ContentOf(w)
  OBVIOUS
<1>1. /\ chars[v] \in Block /\ chars[v] # NULL /\ chars' = chars
      /\ data' = [data EXCEPT ![chars[v]] = d] /\ DOMAIN data = Block
  BY DEF Assign, fieldVars, IndInv, TypeOK
<1>2. w # v => chars[w] # chars[v]
  BY <1>1, OthersBlocks
<1>3. chars[w] # NULL => chars[w] \in Block
  BY DEF IndInv, TypeOK
<1> QED BY <1>1, <1>2, <1>3 DEF ContentOf

(* zinit_temp: nothing but the new temporary, unless its entry is written  *)
(* outside the stack, and then one integer besides.                        *)
LEMMA NewTempContents ==
  ASSUME IndInv, Forgotten, NEW l \in Local, ZInitTemp(l)
  PROVE  \/ \A w \in Var : ContentOf(w)' = IF w \in {l} THEN Junk ELSE ContentOf(w)
         \/ /\ RetriedInVain
            /\ \E r \in live : \A w \in Var :
                 ContentOf(w)' = IF w \in {l} \cup {r} THEN Junk ELSE ContentOf(w)
<1>1. Clear({l}) /\ {l} \subseteq Var /\ l \notin live
  BY DEF ZInitTemp, Var
<1>2. CASE UNCHANGED data
  BY <1>1, <1>2, ForgetContents
<1>3. CASE ~UNCHANGED data
  <2>1. RetriedInVain
    BY <1>3, EntryHasRoom
  <2>2. PICK b \in Block : data' = [data EXCEPT ![b] = Junk]
    BY <1>3 DEF ZInitTemp, WriteEntry
  <2>3. /\ \A w \in Var : chars'[w] = IF w = l THEN NULL ELSE chars[w]
        /\ DOMAIN data = Block /\ \A w \in Var : chars[w] # NULL => chars[w] \in Block
    BY <1>1 DEF Clear, IndInv, TypeOK
  <2>4. ASSUME NEW w \in Var
        PROVE  ContentOf(w)' = IF w = l \/ chars[w] = b THEN Junk ELSE ContentOf(w)
    BY <2>2, <2>3, MemoryAssumption DEF ContentOf
  <2>5. CASE \E r \in live : chars[r] = b
    <3>1. PICK r \in live : chars[r] = b
      BY <2>5
    <3>2. r \in Var /\ chars[r] # NULL
      BY <3>1, MemoryAssumption DEF IndInv, TypeOK
    <3>3. \A w \in Var : w # r => chars[w] # b
      BY <3>1, <3>2, OthersBlocks
    <3>4. \A w \in Var : ContentOf(w)' = IF w \in {l} \cup {r} THEN Junk ELSE ContentOf(w)
      BY <2>4, <3>1, <3>3
    <3> QED BY <2>1, <3>4
  <2>6. CASE ~ \E r \in live : chars[r] = b
    <3>1. \A w \in Var : chars[w] # b
      BY <2>6, MemoryAssumption DEF Forgotten
    <3> QED BY <2>4, <3>1
  <2> QED BY <2>5, <2>6
<1> QED BY <1>2, <1>3

LEMMA FailedGrowthContents ==
  ASSUME IndInv, Forgotten, NEW v \in Var, NEW need, EnsureFails(v, need)
  PROVE  \A w \in Var : ContentOf(w)' = IF w = v THEN Junk ELSE ContentOf(w)
<1> SUFFICES ASSUME NEW w \in Var
             PROVE  ContentOf(w)' = IF w = v THEN Junk ELSE ContentOf(w)
  OBVIOUS
<1>1. chars'[w] = IF w = v THEN NULL ELSE chars[w]
  BY DEF EnsureFails, IndInv, TypeOK
<1>2. ASSUME w # v, chars[w] # NULL
      PROVE  data'[chars[w]] = data[chars[w]]
  <2>1. chars[w] \in Block /\ chars[w] # chars[v]
    BY <1>2, OthersBlocks DEF IndInv, TypeOK
  <2> QED BY <2>1 DEF EnsureFails
<1> QED BY <1>1, <1>2 DEF ContentOf

-----------------------------------------------------------------------------
(* Every step of the memory is a step of the registers, or none.           *)

RegisterContents == [v \in Var |-> ContentOf(v)]

LEMMA QuietSteps ==
  ASSUME live' = live, (mode' = "unwind") <=> (mode = "unwind"),
         \A w \in Var : ContentOf(w)' = ContentOf(w)
  PROVE  UNCHANGED Registers!regVars
BY DEF Registers!regVars

LEMMA ClientSimulation ==
  ASSUME IndInv, Forgotten, ClientStep
  PROVE  [Registers!Next]_(Registers!regVars)
<1>1. CASE ZSetup \/ ZSetupFails
  <2>1. /\ Temp \cap live = {} /\ live' = live \cup Temp /\ Clear(Temp) /\ UNCHANGED data
        /\ mode # "unwind" /\ mode' # "unwind" /\ Temp \subseteq Var
    BY <1>1 DEF ZSetup, ZSetupFails, IndInv, Bookkeeping, RetriedInVain, TempRoom, heapVars, Var
  <2>2. \A w \in Var : ContentOf(w)' = IF w \in Temp THEN Junk ELSE ContentOf(w)
    BY <2>1, ForgetContents
  <2>3. Registers!Create(Temp)
    BY <2>1, <2>2 DEF Registers!Create, Registers!Forgetting
  <2> QED BY <2>1, <2>3 DEF Registers!Next
<1>2. CASE ZUnsetup
  <2>1. /\ Temp \subseteq live /\ live' = live \ Temp /\ Forget(Temp)
        /\ mode # "unwind" /\ mode' # "unwind" /\ Temp \subseteq Var
    BY <1>2 DEF ZUnsetup, IndInv, Bookkeeping, RetriedInVain, TempRoom, Var
  <2>2. \A w \in Var : ContentOf(w)' = IF w \in Temp THEN Junk ELSE ContentOf(w)
    BY <2>1, ForgetContents
  <2>3. Registers!Destroy(Temp)
    BY <2>1, <2>2 DEF Registers!Destroy, Registers!Forgetting
  <2> QED BY <2>1, <2>3 DEF Registers!Next
<1>3. ASSUME NEW u \in User, ZInit(u)
      PROVE  [Registers!Next]_(Registers!regVars)
  <2>1. /\ {u} \cap live = {} /\ live' = live \cup {u} /\ Clear({u}) /\ UNCHANGED data
        /\ mode # "unwind" /\ mode' # "unwind" /\ {u} \subseteq Var
    BY <1>3 DEF ZInit, heapVars, Var
  <2>2. \A w \in Var : ContentOf(w)' = IF w \in {u} THEN Junk ELSE ContentOf(w)
    BY <2>1, ForgetContents
  <2>3. Registers!Create({u})
    BY <2>1, <2>2 DEF Registers!Create, Registers!Forgetting
  <2> QED BY <2>1, <2>3 DEF Registers!Next
<1>4. ASSUME NEW u \in User, ZFree(u)
      PROVE  [Registers!Next]_(Registers!regVars)
  <2>1. /\ {u} \subseteq live /\ live' = live \ {u} /\ Forget({u})
        /\ mode # "unwind" /\ mode' # "unwind" /\ {u} \subseteq Var
    BY <1>4 DEF ZFree, Var
  <2>2. \A w \in Var : ContentOf(w)' = IF w \in {u} THEN Junk ELSE ContentOf(w)
    BY <2>1, ForgetContents
  <2>3. Registers!Destroy({u})
    BY <2>1, <2>2 DEF Registers!Destroy, Registers!Forgetting
  <2> QED BY <2>1, <2>3 DEF Registers!Next
<1>5. CASE ZSetupAgain \/ Call \/ \E b \in Block : FreeString(b)
  <2>1. /\ live' = live /\ mode # "unwind" /\ mode' # "unwind"
        /\ UNCHANGED <<chars, data>>
    BY <1>5 DEF ZSetupAgain, Call, FreeString, fieldVars, heapVars
  <2>2. \A w \in Var : ContentOf(w)' = ContentOf(w)
    BY <2>1 DEF ContentOf
  <2> QED BY <2>1, <2>2, QuietSteps
<1> QED BY <1>1, <1>2, <1>3, <1>4, <1>5 DEF ClientStep

LEMMA PopSimulation ==
  ASSUME IndInv, Forgotten, PopTemp, UNCHANGED mode
  PROVE  Registers!Next
<1>1. PICK l \in Local : l = Last(tempStack) /\ l \in live
  BY FrontDropsLast DEF PopTemp, IndInv, TypeOK, TempsTracked, ToSet, Last
<1>2. /\ {l} \subseteq live /\ {l} \subseteq Local /\ {l} \subseteq Var
      /\ live' = live \ {l} /\ Forget({l}) /\ UNCHANGED mode
  BY <1>1 DEF PopTemp, Var
<1>3. \A w \in Var : ContentOf(w)' = IF w \in {l} THEN Junk ELSE ContentOf(w)
  BY <1>2, ForgetContents
<1>4. Registers!Destroy({l})
  BY <1>2, <1>3 DEF Registers!Destroy, Registers!Forgetting
<1> QED BY <1>2, <1>4 DEF Registers!Next

LEMMA LibrarySimulation ==
  ASSUME IndInv, Forgotten, LibraryStep
  PROVE  [Registers!Next]_(Registers!regVars)
<1>1. CASE Return \/ ZStrReturn \/ \E b \in Block : ZStrAlloc(b)
  <2>1. /\ live' = live /\ mode # "unwind" /\ mode' # "unwind" /\ UNCHANGED <<chars, data>>
    BY <1>1 DEF Return, ZStrReturn, ZStrAlloc, fieldVars, heapVars
  <2>2. \A w \in Var : ContentOf(w)' = ContentOf(w)
    BY <2>1 DEF ContentOf
  <2> QED BY <2>1, <2>2, QuietSteps
<1>2. CASE Fail
  <2>1. live' = live /\ mode # "unwind" /\ mode' = "unwind" /\ UNCHANGED <<chars, data>>
    BY <1>2 DEF Fail, fieldVars, heapVars
  <2>2. RegisterContents' = RegisterContents
    BY <2>1 DEF RegisterContents, ContentOf
  <2>3. Registers!Raise
    BY <2>1, <2>2 DEF Registers!Raise, RegisterContents
  <2> QED BY <2>3 DEF Registers!Next
<1>3. CASE ZFreeTemp
  BY <1>3, PopSimulation DEF ZFreeTemp
<1>4. ASSUME NEW v \in Var, NEW d \in Value, Assign(v, d)
      PROVE  [Registers!Next]_(Registers!regVars)
  <2>1. v \in live /\ live' = live /\ mode # "unwind" /\ mode' # "unwind"
    BY <1>4 DEF Assign, Usable
  <2>2. \A w \in Var : ContentOf(w)' = IF w = v THEN d ELSE ContentOf(w)
    BY <1>4, AssignContents
  <2>3. Registers!Store(v, d)
    BY <2>1, <2>2 DEF Registers!Store
  <2> QED BY <2>3 DEF Registers!Next
<1>5. ASSUME NEW v \in Var, NEW w \in Var, ZSwap(v, w)
      PROVE  [Registers!Next]_(Registers!regVars)
  <2>1. /\ v \in live /\ w \in live /\ live' = live /\ mode # "unwind" /\ mode' # "unwind"
        /\ UNCHANGED data /\ chars' = [chars EXCEPT ![v] = chars[w], ![w] = chars[v]]
    BY <1>5 DEF ZSwap, heapVars
  <2>2. \A x \in Var : ContentOf(x)' = IF x = v THEN ContentOf(w)
                                       ELSE IF x = w THEN ContentOf(v) ELSE ContentOf(x)
    BY <2>1 DEF ContentOf, IndInv, TypeOK
  <2>3. Registers!Exchange(v, w)
    BY <2>1, <2>2 DEF Registers!Exchange
  <2> QED BY <2>3 DEF Registers!Next
<1>6. ASSUME NEW v \in Var, NEW need \in Class, EnsureFromPool(v, need)
      PROVE  [Registers!Next]_(Registers!regVars)
  <2> DEFINE new == Last(pool[need])
  <2>1. /\ live' = live /\ mode # "unwind" /\ mode' # "unwind"
        /\ data' = Moved(v, new) /\ chars' = [chars EXCEPT ![v] = new]
        /\ pool[need] \in Seq(Block) /\ pool[need] # <<>>
    BY <1>6 DEF EnsureFromPool, IndInv, TypeOK
  <2>2. new \in Block /\ Len(pool[need]) \in 1 .. Len(pool[need])
    BY <2>1, FrontDropsLast
  <2>3. \A w \in Var : chars[w] # new
    BY <2>2, MemoryAssumption DEF Last, Forgotten, IndInv, ExclusiveOwnership, CachedIsFree
  <2> HIDE DEF new
  <2>4. PICK b \in Block : b = new
    BY <2>2
  <2>5. data' = Moved(v, b) /\ chars' = [chars EXCEPT ![v] = b] /\ \A w \in Var : chars[w] # b
    BY <2>1, <2>3, <2>4
  <2>6. \A w \in Var : ContentOf(w)' = ContentOf(w)
    BY <2>5, MoveContents
  <2> QED BY <2>1, <2>6, QuietSteps
<1>7. ASSUME NEW v \in Var, NEW need \in Class, NEW b \in Block, EnsureFromHeap(v, need, b)
      PROVE  [Registers!Next]_(Registers!regVars)
  <2>1. /\ live' = live /\ mode # "unwind" /\ mode' # "unwind"
        /\ data' = Moved(v, b) /\ chars' = [chars EXCEPT ![v] = b]
        /\ heap[b] = Unallocated \/ b = chars[v]
    BY <1>7 DEF EnsureFromHeap
  <2>2. b = chars[v] \/ \A w \in Var : chars[w] # b
    BY <2>1, PoolOfIndInv, NoSpecialSize, MemoryAssumption DEF Forgotten
  <2>3. \A w \in Var : ContentOf(w)' = ContentOf(w)
    BY <2>1, <2>2, MoveContents
  <2> QED BY <2>1, <2>3, QuietSteps
<1>8. ASSUME NEW v \in Var, NEW need \in Class, EnsureFails(v, need)
      PROVE  [Registers!Next]_(Registers!regVars)
  <2>1. v \in live /\ live' = live /\ mode # "unwind" /\ mode' = "unwind"
    BY <1>8 DEF EnsureFails, Usable
  <2>2. \A w \in Var : ContentOf(w)' = IF w = v THEN Junk ELSE ContentOf(w)
    BY <1>8, FailedGrowthContents
  <2>3. Registers!Raise
    BY <2>1, <2>2 DEF Registers!Raise
  <2> QED BY <2>3 DEF Registers!Next
<1>9. ASSUME NEW l \in Local, ZInitTemp(l)
      PROVE  [Registers!Next]_(Registers!regVars)
  <2>1. /\ {l} \cap live = {} /\ live' = live \cup {l} /\ mode # "unwind" /\ mode' # "unwind"
        /\ {l} \subseteq Var
    BY <1>9 DEF ZInitTemp, Var
  <2>2. \/ \A w \in Var : ContentOf(w)' = IF w \in {l} THEN Junk ELSE ContentOf(w)
        \/ /\ RetriedInVain
           /\ \E r \in live : \A w \in Var :
                ContentOf(w)' = IF w \in {l} \cup {r} THEN Junk ELSE ContentOf(w)
    BY <1>9, NewTempContents
  <2>3. Registers!Create({l})
    BY <2>1, <2>2 DEF Registers!Create, Registers!Forgetting
  <2> QED BY <2>1, <2>3 DEF Registers!Next
<1>10. ASSUME NEW l \in Local, ZInitTempFails(l)
       PROVE  [Registers!Next]_(Registers!regVars)
  <2>1. /\ l \notin live /\ live' = live /\ Clear({l}) /\ UNCHANGED data
        /\ mode # "unwind" /\ mode' = "unwind" /\ {l} \subseteq Var /\ l \in Var
    BY <1>10 DEF ZInitTempFails, heapVars, Var
  <2>2. \A w \in Var : ContentOf(w)' = IF w \in {l} THEN Junk ELSE ContentOf(w)
    BY <2>1, ForgetContents
  <2>3. ContentOf(l) = Junk
    BY <2>1 DEF ContentOf, Forgotten
  <2>4. RegisterContents' = RegisterContents
    BY <2>2, <2>3 DEF RegisterContents
  <2>5. Registers!Raise
    BY <2>1, <2>4 DEF Registers!Raise, RegisterContents
  <2> QED BY <2>5 DEF Registers!Next
<1> QED BY <1>1, <1>2, <1>3, <1>4, <1>5, <1>6, <1>7, <1>8, <1>9, <1>10 DEF LibraryStep

(* The long jump leaves the client's integers as the error found them.     *)
THEOREM ErrorsSpareTheClient == Spec => UnwindSparesClient
<1>1. IndInv /\ Forgotten /\ [Next]_vars =>
        [mode = "unwind" =>
           \A u \in User : /\ u \in live <=> u \in live'
                           /\ chars'[u] = chars[u] /\ ContentOf(u)' = ContentOf(u)]_vars
  <2> SUFFICES ASSUME IndInv, Forgotten, [Next]_vars, vars' # vars, mode = "unwind",
                      NEW u \in User
               PROVE  /\ u \in live <=> u \in live'
                      /\ chars'[u] = chars[u] /\ ContentOf(u)' = ContentOf(u)
    OBVIOUS
  <2>1. ~ LibraryStep
    BY DEF LibraryStep, Return, Fail, ZFreeTemp, ZStrReturn, Assign, ZSwap, EnsureFromPool,
           EnsureFromHeap, EnsureFails, ZInitTemp, ZInitTempFails, ZStrAlloc
  <2>2. ~ ClientStep
    BY DEF ClientStep, ZSetup, ZSetupFails, ZSetupAgain, ZUnsetup, ZInit, ZFree, FreeString, Call
  <2>3. CASE UnwindTemp
    <3>1. PICK l \in Local : l = Last(tempStack) /\ l \in live
      BY <2>3, FrontDropsLast DEF UnwindTemp, PopTemp, IndInv, TypeOK, TempsTracked, ToSet, Last
    <3>2. /\ {l} \subseteq Var /\ live' = live \ {l} /\ Forget({l}) /\ u # l /\ u \in Var
      BY <2>3, <3>1, MemoryAssumption DEF UnwindTemp, PopTemp, Var
    <3>3. \A w \in Var : ContentOf(w)' = IF w \in {l} THEN Junk ELSE ContentOf(w)
      BY <3>2, ForgetContents
    <3> QED BY <3>2, <3>3 DEF Forget, Clear
  <2>4. CASE LongJmp
    <3>1. /\ ToSet(tempStack) \subseteq Var /\ live' = live \ ToSet(tempStack)
          /\ Forget(ToSet(tempStack)) /\ u \notin ToSet(tempStack) /\ u \in Var
      BY <2>4, MemoryAssumption DEF LongJmp, Abandon, IndInv, TypeOK, TempsTracked, Var
    <3>2. \A w \in Var : ContentOf(w)' = IF w \in ToSet(tempStack) THEN Junk ELSE ContentOf(w)
      BY <3>1, ForgetContents
    <3> QED BY <3>1, <3>2 DEF Forget, Clear
  <2> QED BY <2>1, <2>2, <2>3, <2>4 DEF Next, Unwind
<1> QED BY <1>1, IndInvHolds, ForgottenInvariant, PTL DEF Spec, UnwindSparesClient

(* The memory management implements separate registers of which an error   *)
(* may cost one, and once a failed zsetup has been retried every temporary. *)
THEOREM MemoryImplementsRegisters == Spec => ImplementsRegisters
<1>1. Init => Registers!Init
  BY DEF Init, Registers!Init, ContentOf
<1>2. IndInv /\ Forgotten /\ [Next]_vars => [Registers!Next]_(Registers!regVars)
  <2> SUFFICES ASSUME IndInv, Forgotten, [Next]_vars
               PROVE  [Registers!Next]_(Registers!regVars)
    OBVIOUS
  <2>1. CASE UnwindTemp
    BY <2>1, PopSimulation DEF UnwindTemp
  <2>2. CASE LongJmp
    <3> DEFINE T == ToSet(tempStack)
    <3>1. /\ T \subseteq Local \cap live /\ T \subseteq Var /\ live' = live \ T /\ Forget(T)
          /\ mode = "unwind" /\ mode' # "unwind"
      BY <2>2 DEF LongJmp, Abandon, IndInv, TypeOK, TempsTracked
    <3> HIDE DEF T
    <3>2. \A w \in Var : ContentOf(w)' = IF w \in T THEN Junk ELSE ContentOf(w)
      BY <3>1, ForgetContents
    <3>3. Registers!Recover(T)
      BY <3>1, <3>2 DEF Registers!Recover, Registers!Forgetting
    <3> QED BY <3>1, <3>3 DEF Registers!Next
  <2>3. CASE UNCHANGED vars
    <3>1. live' = live /\ mode' = mode /\ UNCHANGED <<chars, data>>
      BY <2>3 DEF vars, fieldVars, heapVars
    <3>2. \A w \in Var : ContentOf(w)' = ContentOf(w)
      BY <3>1 DEF ContentOf
    <3> QED BY <3>1, <3>2, QuietSteps
  <2> QED BY <2>1, <2>2, <2>3, ClientSimulation, LibrarySimulation DEF Next, Unwind
<1> QED BY <1>1, <1>2, IndInvHolds, ForgottenInvariant, PTL
        DEF Spec, ImplementsRegisters, Registers!Spec

-----------------------------------------------------------------------------
(* Strings.                                                                  *)

\* A block allocated as a string is the client's or what zstr is working on.
TextOwned == \A b \in Block : heap[b] = Text => b \in strings \/ b = tempAllocation

LEMMA TextIsNoClass == Text # Unallocated /\ \A i \in Class : i # Text /\ i # Unallocated
BY NoSpecialSize DEF Text, Unallocated

\* zfree deals with no strings and makes none.
LEMMA ReleaseKeepsTexts ==
  ASSUME TypeOK, NEW v \in Var, NEW STATE p, Release(v, p), NEW b \in Block, heap'[b] = Text
  PROVE  heap[b] = Text
BY TextIsNoClass DEF Release, NothingToFree, Push, DropBucket, TypeOK

LEMMA TextOwnedInvariant == Spec => []TextOwned
<1>1. Init => TextOwned
  BY TextIsNoClass DEF Init, TextOwned
<1>2. IndInv /\ TextOwned /\ [Next]_vars => TextOwned'
  <2> SUFFICES ASSUME IndInv, TextOwned, [Next]_vars PROVE TextOwned'
    OBVIOUS
  <2> USE DEF TextOwned, libVars, fieldVars, heapVars, poolVars, tempVars, textVars
  <2>0. TypeOK
    BY DEF IndInv
  <2>1. CASE ClientStep
    <3>1. CASE ZSetup \/ ZSetupFails \/ ZSetupAgain \/ Call
      BY <3>1 DEF ZSetup, ZSetupFails, ZSetupAgain, Call
    <3>2. CASE ZUnsetup
      BY <3>2, TextIsNoClass DEF ZUnsetup
    <3>3. CASE \E u \in User : ZInit(u) \/ ZFree(u)
      BY <2>0, <3>3, ReleaseKeepsTexts DEF ZInit, ZFree, Var
    <3>4. CASE \E b \in Block : FreeString(b)
      BY <2>0, <3>4, TextIsNoClass DEF FreeString, TypeOK
    <3> QED BY <2>1, <3>1, <3>2, <3>3, <3>4 DEF ClientStep
  <2>2. CASE LibraryStep
    <3>1. CASE Return \/ Fail \/ \E v \in Var, d \in Value : Assign(v, d)
      BY <3>1 DEF Return, Fail, Assign
    <3>9. CASE ZStrReturn
      <4>1. heap' = heap /\ \A b \in Block : b \in strings \/ b = tempAllocation => b \in strings'
        BY <3>9 DEF ZStrReturn
      <4> QED BY <4>1
    <3>2. CASE \E b \in Block : ZStrAlloc(b)
      <4>1. PICK a \in Block : heap' = [heap EXCEPT ![a] = Text] /\ tempAllocation' = a
                              /\ tempAllocation = NULL /\ strings' = strings
        BY <3>2 DEF ZStrAlloc
      <4>2. NULL \notin Block
        BY MemoryAssumption
      <4> QED BY <2>0, <4>1, <4>2 DEF TypeOK
    <3>3. CASE ZFreeTemp
      <4>1. Last(tempStack) \in Var
        BY <2>0, <3>3, FrontDropsLast DEF ZFreeTemp, PopTemp, TypeOK, Var
      <4> QED BY <2>0, <3>3, <4>1, ReleaseKeepsTexts DEF ZFreeTemp, PopTemp
    <3>4. CASE \E v, w \in Var : ZSwap(v, w)
      BY <3>4 DEF ZSwap
    <3>5. ASSUME NEW v \in Var, NEW need \in Class, EnsureFromPool(v, need) PROVE TextOwned'
      BY <2>0, <3>5, ReleaseKeepsTexts DEF EnsureFromPool
    <3>6. ASSUME NEW v \in Var, NEW need \in Class, NEW b \in Block, EnsureFromHeap(v, need, b)
          PROVE  TextOwned'
      BY <2>0, <3>6, TextIsNoClass DEF EnsureFromHeap, TypeOK
    <3>7. CASE \E v \in Var, need \in Class : EnsureFails(v, need)
      BY <3>7 DEF EnsureFails
    <3>8. CASE \E l \in Local : ZInitTemp(l) \/ ZInitTempFails(l)
      BY <3>8 DEF ZInitTemp, ZInitTempFails
    <3> QED BY <2>2, <3>1, <3>2, <3>3, <3>4, <3>5, <3>6, <3>7, <3>8, <3>9 DEF LibraryStep
  <2>3. CASE UnwindTemp
    <3>1. Last(tempStack) \in Var
      BY <2>0, <2>3, FrontDropsLast DEF UnwindTemp, PopTemp, TypeOK, Var
    <3> QED BY <2>0, <2>3, <3>1, ReleaseKeepsTexts DEF UnwindTemp, PopTemp
  <2>4. CASE LongJmp
    BY <2>0, <2>4, TextIsNoClass DEF LongJmp, TypeOK
  <2>5. CASE UNCHANGED vars
    BY <2>5 DEF vars
  <2> QED BY <2>1, <2>2, <2>3, <2>4, <2>5 DEF Next, Unwind
<1> QED BY <1>1, <1>2, IndInvHolds, PTL DEF Spec

\* When libzahl_failure jumps to the client the temporaries of all the frames it
\* leaves have been freed, if there is a temporary stack to find them by, and the
\* string zstr was working on.
THEOREM ErrorsLeaveNothing == Spec => ErrorsLeaveNothingBehind
<1>1. IndInv /\ TextOwned /\ [Next]_vars =>
        [mode = "unwind" /\ mode' = "user" =>
           /\ live \cap Local = {} \/ RetriedInVain
           /\ tempAllocation' = NULL
           /\ \A b \in Block : heap'[b] = Text => b \in strings']_vars
  <2> SUFFICES ASSUME IndInv, TextOwned, Next, mode = "unwind", mode' = "user"
               PROVE  /\ live \cap Local = {} \/ RetriedInVain
                      /\ tempAllocation' = NULL
                      /\ \A b \in Block : heap'[b] = Text => b \in strings'
    BY DEF vars
  <2>1. LongJmp
    BY DEF Next, ClientStep, LibraryStep, Unwind, UnwindTemp,
           ZSetup, ZSetupFails, ZSetupAgain, ZUnsetup, ZInit, ZFree, FreeString, Call,
           Return, Fail, ZFreeTemp, ZStrReturn, Assign, ZSwap, EnsureFromPool,
           EnsureFromHeap, EnsureFails, ZInitTemp, ZInitTempFails, ZStrAlloc
  <2>2. live \cap Local = {} \/ RetriedInVain
    <3>1. CASE stackMem = "held"
      <4>1. tempStack = <<>> /\ ToSet(<<>>) = {}
        BY <2>1, <3>1 DEF LongJmp, ToSet
      <4> QED BY <4>1 DEF IndInv, TempsTracked
    <3>2. CASE stackMem # "held"
      BY <3>2 DEF IndInv, Bookkeeping, TempRoom
    <3> QED BY <3>1, <3>2
  <2>3. \A b \in Block : heap'[b] = Text => b \in strings'
    BY <2>1, TextIsNoClass DEF LongJmp, TextOwned
  <2> QED BY <2>1, <2>2, <2>3 DEF LongJmp
<1> QED BY <1>1, IndInvHolds, TextOwnedInvariant, PTL DEF Spec, ErrorsLeaveNothingBehind

-----------------------------------------------------------------------------
(* Blocks, while the C heap delivers.                                        *)

\* There is a pool only between zsetup and zunsetup.
PoolWhileSetUp ==
  /\ mode # "off" => setUp
  /\ ~setUp => pool = NoPool

LEMMA PoolWhileSetUpInvariant == Spec => []PoolWhileSetUp
<1>1. Init => PoolWhileSetUp
  BY DEF Init, PoolWhileSetUp
<1>2. PoolWhileSetUp /\ [Next]_vars => PoolWhileSetUp'
  <2> SUFFICES ASSUME PoolWhileSetUp, [Next]_vars PROVE PoolWhileSetUp'
    OBVIOUS
  <2> USE DEF PoolWhileSetUp, libVars, poolVars
  <2>1. CASE ClientStep
    BY <2>1 DEF ClientStep, ZSetup, ZSetupFails, ZSetupAgain, ZUnsetup, ZInit, ZFree,
                FreeString, Call
  <2>2. CASE LibraryStep
    BY <2>2 DEF LibraryStep, Return, Fail, ZFreeTemp, PopTemp, ZStrReturn, Assign, ZSwap,
                EnsureFromPool, EnsureFromHeap, EnsureFails, ZInitTemp, ZInitTempFails, ZStrAlloc
  <2>3. CASE Unwind
    BY <2>3 DEF Unwind, UnwindTemp, PopTemp, LongJmp, Abandon
  <2>4. CASE UNCHANGED vars
    BY <2>4 DEF vars
  <2> QED BY <2>1, <2>2, <2>3, <2>4 DEF Next
<1> QED BY <1>1, <1>2, PTL DEF Spec

\* NoLeak, block by block, of any pool: libzahl_realloc frees in the midst of a change.
Held(b) == (\E v \in live : chars[v] = b) \/ ~Without(pool, b)
             \/ b \in strings \/ b = tempAllocation
AllHeld == \A b \in Block : heap[b] # Unallocated => Held(b)

LEMMA NoLeakIsAllHeld == TypeOK => (NoLeak <=> AllHeld)
<1> SUFFICES ASSUME TypeOK, NEW b \in Block PROVE b \in Owned <=> Held(b)
  BY DEF NoLeak, AllHeld
<1>1. ASSUME NEW i \in Class
      PROVE  b \in ToSet(pool[i]) <=> \E n \in 1 .. Len(pool[i]) : pool[i][n] = b
  <2>1. pool[i] \in Seq(Block)
    BY DEF TypeOK
  <2> QED BY <2>1 DEF ToSet
<1>2. b \in UNION {ToSet(pool[i]) : i \in Class} <=> ~Without(pool, b)
  BY <1>1 DEF Without
<1>3. b \in {chars[v] : v \in live} <=> \E v \in live : chars[v] = b
  OBVIOUS
<1> QED BY <1>2, <1>3 DEF Owned, Held

\* zfree gives the block to a bucket and takes none out of it.
LEMMA ReleaseHolds ==
  ASSUME ~MallocMayFail, NEW v \in Var, NEW STATE p, PoolsOf(p), Release(v, p),
         chars[v] # NULL => alloced[v] \in Class /\ chars[v] \in Block
  PROVE  /\ heap' = heap
         /\ \A b \in Block : ~Without(p, b) \/ b = chars[v] => ~Without(pool', b)
<1>1. CASE NothingToFree(v, p)
  BY <1>1, MemoryAssumption DEF NothingToFree
<1>2. CASE Push(v, p)
  <2> DEFINE i == alloced[v]
  <2>1. /\ i \in Class /\ chars[v] \in Block /\ heap' = heap
        /\ pool' = [p EXCEPT ![i] = Append(p[i], chars[v])]
    BY <1>2 DEF Push
  <2> HIDE DEF i
  <2>2. /\ p[i] \in Seq(Block) /\ Len(pool'[i]) = Len(p[i]) + 1
        /\ \A n \in 1 .. Len(p[i]) : pool'[i][n] = p[i][n]
        /\ pool'[i][Len(p[i]) + 1] = chars[v]
        /\ \A j \in Class : j # i => pool'[j] = p[j]
    BY <2>1 DEF PoolsOf
  <2>3. ~Without(pool', chars[v])
    BY <2>1, <2>2 DEF Without
  <2>4. ASSUME NEW b \in Block, NEW j \in Class, NEW n \in 1 .. Len(p[j]), p[j][n] = b
        PROVE  ~Without(pool', b)
    <3>1. n \in 1 .. Len(pool'[j]) /\ pool'[j][n] = b
      BY <2>1, <2>2, <2>4 DEF PoolsOf
    <3> QED BY <3>1 DEF Without
  <2> QED BY <2>1, <2>3, <2>4 DEF Without
<1>3. ~DropBucket(v, p)
  BY DEF DropBucket
<1> QED BY <1>1, <1>2, <1>3 DEF Release

\* A variable goes, and its block is cached.
LEMMA DiscardHolds ==
  ASSUME ~MallocMayFail, IndInv, AllHeld, NEW u \in live, live' = live \ {u},
         Release(u, pool), Forget({u}), UNCHANGED textVars
  PROVE  AllHeld'
<1>1. TypeOK /\ u \in Var
  BY DEF IndInv, TypeOK
<1>2. /\ heap' = heap
      /\ \A b \in Block : ~Without(pool, b) \/ b = chars[u] => ~Without(pool', b)
  BY <1>1, PoolOfIndInv, ReleaseHolds DEF TypeOK
<1>3. \A v \in live : v # u => v \in live' /\ chars'[v] = chars[v]
  BY <1>1 DEF Forget, Clear, TypeOK
<1> QED BY <1>2, <1>3 DEF AllHeld, Held, textVars

\* Integers, pool and strings stay, or those that are new take no block from another.
LEMMA KeepsHeld ==
  ASSUME AllHeld, \A v \in live : chars[v] # NULL => v \in live' /\ chars'[v] = chars[v],
         pool' = pool, strings \subseteq strings', UNCHANGED heap,
         tempAllocation # NULL => tempAllocation \in strings' \/ tempAllocation' = tempAllocation
  PROVE  AllHeld'
BY MemoryAssumption DEF AllHeld, Held, Without

LEMMA SetupHolds ==
  ASSUME ~MallocMayFail, IndInv, AllHeld, PoolWhileSetUp,
         ZSetup \/ ZSetupFails \/ ZSetupAgain \/ ZUnsetup
  PROVE  AllHeld'
<1> USE DEF libVars, fieldVars, heapVars, poolVars, tempVars, textVars
<1>1. CASE ZSetup
  <2>1. /\ live' = live \cup Temp /\ Temp \cap live = {} /\ pool' = pool /\ strings' = strings
        /\ tempAllocation' = tempAllocation /\ heap' = heap
        /\ \A v \in Var : v \notin Temp => chars'[v] = chars[v]
    BY <1>1 DEF ZSetup, IndInv, Bookkeeping, RetriedInVain, TempRoom, PoolWhileSetUp, Clear
  <2>2. live \subseteq Var
    BY DEF IndInv, TypeOK
  <2> QED BY <2>1, <2>2, KeepsHeld
<1>2. CASE ZSetupAgain
  BY <1>2, KeepsHeld DEF ZSetupAgain
<1>3. CASE ZUnsetup
  <2>1. /\ live' = live \ Temp /\ strings' = strings /\ tempAllocation' = tempAllocation
        /\ \A v \in Var : v \notin Temp => chars'[v] = chars[v]
    BY <1>3 DEF ZUnsetup, Forget, Clear
  <2>2. ASSUME NEW b \in Block, heap'[b] # Unallocated
        PROVE  heap[b] = heap'[b] /\ (\A t \in Temp : chars[t] # b) /\ Without(pool, b)
    <3> DEFINE freed == {chars[t] : t \in Temp} \cup UNION {ToSet(pool[i]) : i \in Class}
    <3>1. b \notin freed /\ heap[b] = heap'[b]
      BY <1>3, <2>2 DEF ZUnsetup
    <3>2. \A i \in Class : b \notin ToSet(pool[i])
      BY <3>1
    <3>3. \A i \in Class : pool[i] \in Seq(Block)
      BY DEF IndInv, TypeOK
    <3>4. Without(pool, b)
      BY <3>2, <3>3 DEF Without, ToSet
    <3> QED BY <3>1, <3>4
  <2>3. live \subseteq Var
    BY DEF IndInv, TypeOK
  <2> QED BY <2>1, <2>2, <2>3 DEF AllHeld, Held
<1>4. ~ZSetupFails
  BY DEF ZSetupFails
<1> QED BY <1>1, <1>2, <1>3, <1>4

LEMMA EnsureHolds ==
  ASSUME ~MallocMayFail, IndInv, AllHeld, NEW v \in Var, NEW need \in Class,
         \/ EnsureFromPool(v, need)
         \/ \E b \in Block : EnsureFromHeap(v, need, b)
         \/ EnsureFails(v, need)
  PROVE  AllHeld'
<1> USE DEF libVars, fieldVars, heapVars, poolVars, tempVars, textVars
<1>0. TypeOK
  BY DEF IndInv
<1>1. CASE EnsureFromPool(v, need)
  <2> DEFINE new == Last(pool[need])
             p   == [pool EXCEPT ![need] = Front(@)]
  <2>1. /\ v \in live /\ live' = live /\ pool[need] # <<>> /\ pool[need] \in Seq(Block)
        /\ chars' = [chars EXCEPT ![v] = new] /\ Release(v, p)
        /\ strings' = strings /\ tempAllocation' = tempAllocation
    BY <1>0, <1>1 DEF EnsureFromPool, Usable, TypeOK
  <2>2. /\ p[need] \in Seq(Block) /\ Len(p[need]) = Len(pool[need]) - 1
        /\ Len(pool[need]) \in Nat \ {0}
        /\ \A n \in 1 .. Len(pool[need]) - 1 : p[need][n] = pool[need][n]
        /\ \A i \in Class : i # need => p[i] = pool[i]
        /\ PoolsOf(p)
    BY <2>1, FrontDropsLast, PoolOfIndInv DEF PoolsOf
  <2> HIDE DEF p
  <2>3. ASSUME NEW b \in Block, ~Without(pool, b) PROVE b = new \/ ~Without(p, b)
    <3>1. PICK i \in Class : \E n \in 1 .. Len(pool[i]) : pool[i][n] = b
      BY <2>3 DEF Without
    <3>4. PICK n \in 1 .. Len(pool[i]) : pool[i][n] = b
      BY <3>1
    <3>2. CASE i = need /\ n = Len(pool[need])
      BY <3>4, <3>2 DEF Last
    <3>3. CASE ~(i = need /\ n = Len(pool[need]))
      <4>1. n \in 1 .. Len(p[i]) /\ p[i][n] = b
        BY <2>1, <2>2, <3>4, <3>3
      <4> QED BY <4>1 DEF Without
    <3> QED BY <3>2, <3>3
  <2> HIDE DEF new
  <2>4. /\ heap' = heap
        /\ \A b \in Block : ~Without(p, b) \/ b = chars[v] => ~Without(pool', b)
    BY <1>0, <2>1, <2>2, PoolOfIndInv, ReleaseHolds DEF TypeOK
  <2>5. chars'[v] = new /\ \A w \in live : w # v => chars'[w] = chars[w]
    BY <1>0, <2>1 DEF TypeOK
  <2> QED BY <2>1, <2>3, <2>4, <2>5 DEF AllHeld, Held
<1>2. ASSUME NEW b \in Block, EnsureFromHeap(v, need, b) PROVE AllHeld'
  <2>1. /\ v \in live /\ live' = live /\ pool' = pool /\ strings' = strings
        /\ tempAllocation' = tempAllocation /\ chars' = [chars EXCEPT ![v] = b]
        /\ \A c \in Block : heap'[c] = IF c = b THEN need
                                       ELSE IF c = chars[v] THEN Unallocated ELSE heap[c]
    BY <1>2 DEF EnsureFromHeap, Usable
  <2>2. chars'[v] = b /\ \A w \in live : w # v => chars'[w] = chars[w]
    BY <1>0, <2>1 DEF TypeOK
  <2> QED BY <2>1, <2>2 DEF AllHeld, Held
<1>3. ~EnsureFails(v, need)
  BY DEF EnsureFails
<1> QED BY <1>1, <1>2, <1>3

LEMMA TextsHold ==
  ASSUME ~MallocMayFail, IndInv, AllHeld,
         \/ \E b \in Block : (FreeString(b) \/ ZStrAlloc(b))
         \/ ZStrReturn \/ LongJmp
  PROVE  AllHeld'
<1> USE DEF libVars, fieldVars, heapVars, poolVars, tempVars, textVars
<1>0. heap \in [Block -> Class \cup {Unallocated, Text}] /\ NULL \notin Block
  BY MemoryAssumption DEF IndInv, TypeOK
<1>1. ASSUME NEW b \in Block, FreeString(b) PROVE AllHeld'
  BY <1>0, <1>1 DEF FreeString, AllHeld, Held
<1>2. ASSUME NEW b \in Block, ZStrAlloc(b) PROVE AllHeld'
  BY <1>0, <1>2 DEF ZStrAlloc, AllHeld, Held
<1>3. CASE ZStrReturn
  BY <1>3, KeepsHeld DEF ZStrReturn
<1>4. CASE LongJmp
  <2>1. tempStack = <<>> /\ ToSet(<<>>) = {}
    BY <1>4 DEF LongJmp, IndInv, Bookkeeping, RetriedInVain, TempRoom, ToSet
  <2>2. live' = live /\ \A v \in live : chars'[v] = chars[v]
    BY <1>4, <2>1 DEF LongJmp, Abandon, Forget, Clear, IndInv, TypeOK
  <2> QED BY <1>0, <1>4, <2>2 DEF LongJmp, AllHeld, Held
<1> QED BY <1>1, <1>2, <1>3, <1>4

LEMMA PopHolds ==
  ASSUME ~MallocMayFail, IndInv, AllHeld, PopTemp
  PROVE  AllHeld'
<1>1. PICK l \in Local : l = Last(tempStack) /\ l \in live
  BY DEF PopTemp, IndInv, TypeOK, TempsTracked, ToSet, Last
<1> QED BY <1>1, DiscardHolds DEF PopTemp

\* As long as the C heap delivers every block libzahl has allocated is an integer's,
\* cached, or a string that is the client's or in the making.
THEOREM NothingLeaks == ~MallocMayFail => (Spec => []NoLeak)
<1> SUFFICES ASSUME ~MallocMayFail PROVE Spec => []NoLeak
  OBVIOUS
<1>1. Init => AllHeld
  BY DEF Init, AllHeld
<1>2. IndInv /\ PoolWhileSetUp /\ AllHeld /\ [Next]_vars => AllHeld'
  <2> SUFFICES ASSUME IndInv, PoolWhileSetUp, AllHeld, [Next]_vars PROVE AllHeld'
    OBVIOUS
  <2>0. TypeOK /\ live \subseteq Var
    BY DEF IndInv, TypeOK
  <2> USE DEF libVars, fieldVars, heapVars, poolVars, tempVars, textVars
  <2>1. CASE ClientStep
    <3>1. CASE ZSetup \/ ZSetupFails \/ ZSetupAgain \/ ZUnsetup
      BY <3>1, SetupHolds
    <3>2. CASE Call
      BY <3>2, KeepsHeld DEF Call
    <3>3. ASSUME NEW u \in User, ZInit(u) PROVE AllHeld'
      BY <2>0, <3>3, KeepsHeld DEF ZInit, Clear
    <3>4. ASSUME NEW u \in User, ZFree(u) PROVE AllHeld'
      BY <3>4, DiscardHolds DEF ZFree
    <3>5. CASE \E b \in Block : FreeString(b)
      BY <3>5, TextsHold
    <3> QED BY <2>1, <3>1, <3>2, <3>3, <3>4, <3>5 DEF ClientStep
  <2>2. CASE LibraryStep
    <3>1. CASE Return \/ Fail
      BY <3>1, KeepsHeld DEF Return, Fail
    <3>2. ASSUME NEW v \in Var, NEW d \in Value, Assign(v, d) PROVE AllHeld'
      BY <3>2, KeepsHeld DEF Assign
    <3>3. CASE ZFreeTemp
      BY <3>3, PopHolds DEF ZFreeTemp
    <3>4. CASE ZStrReturn \/ \E b \in Block : ZStrAlloc(b)
      BY <3>4, TextsHold
    <3>5. ASSUME NEW v \in Var, NEW w \in Var, ZSwap(v, w) PROVE AllHeld'
      <4>1. /\ chars'[v] = chars[w] /\ chars'[w] = chars[v] /\ v \in live /\ w \in live
            /\ \A z \in Var : z # v /\ z # w => chars'[z] = chars[z]
            /\ UNCHANGED <<heap, live, pool, strings, tempAllocation>>
        BY <2>0, <3>5 DEF ZSwap, TypeOK
      <4>2. \A z \in live : \E y \in live : chars'[y] = chars[z]
        BY <2>0, <4>1
      <4> QED BY <4>1, <4>2 DEF AllHeld, Held
    <3>6. ASSUME NEW v \in Var, NEW need \in Class,
                 \/ EnsureFromPool(v, need)
                 \/ \E b \in Block : EnsureFromHeap(v, need, b)
                 \/ EnsureFails(v, need)
          PROVE  AllHeld'
      BY <3>6, EnsureHolds
    <3>7. ASSUME NEW l \in Local, ZInitTemp(l) PROVE AllHeld'
      BY <2>0, <3>7, KeepsHeld DEF ZInitTemp, Clear
    <3>8. ASSUME NEW l \in Local PROVE ~ZInitTempFails(l)
      BY DEF ZInitTempFails
    <3> QED BY <2>2, <3>1, <3>2, <3>3, <3>4, <3>5, <3>6, <3>7, <3>8 DEF LibraryStep
  <2>3. CASE Unwind
    BY <2>3, PopHolds, TextsHold DEF Unwind, UnwindTemp
  <2>4. CASE UNCHANGED vars
    BY <2>4, KeepsHeld DEF vars
  <2> QED BY <2>1, <2>2, <2>3, <2>4 DEF Next
<1>3. IndInv /\ AllHeld => NoLeak
  BY NoLeakIsAllHeld DEF IndInv
<1> QED BY <1>1, <1>2, <1>3, IndInvHolds, PoolWhileSetUpInvariant, PTL DEF Spec
=============================================================================
