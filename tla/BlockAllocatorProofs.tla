------------------------ MODULE BlockAllocatorProofs ------------------------
(***************************************************************************)
(* The circular scan of BlockAllocator is first fit, for every device.     *)
(* IInv strengthens the safety invariants with GotAscends, which says why  *)
(* the blocks a running allocate_many has collected cannot be met again.   *)
(***************************************************************************)
EXTENDS BlockAllocator, FiniteSetTheorems, TLAPS

IInv == TypeOK /\ NoFreeBelowHint /\ LoopHasRoom /\ GotAscends

\* One wrap-around is all a probe can do.
LEMMA Wrap ==
  ASSUME NEW h \in Blocks, NEW s \in Blocks
  PROVE  (h + s) % BlockCount = IF h + s < BlockCount THEN h + s
                                ELSE (h + s) - BlockCount
BY SizeAssumption DEF Blocks

\* The hint moves to the next block, and from the last block to block 0.
LEMMA NextHint ==
  ASSUME NEW b \in Blocks
  PROVE  (b + 1) % BlockCount = IF b + 1 = BlockCount THEN 0 ELSE b + 1
BY SizeAssumption DEF Blocks

\* The scan reaches every block from wherever it starts.
LEMMA ProbeReaches ==
  ASSUME TypeOK, NEW b \in Blocks
  PROVE  \E step \in Blocks : Probe(step) = b
<1> DEFINE s == IF hint <= b THEN b - hint ELSE (b + BlockCount) - hint
<1>1. s \in Blocks /\ hint \in Blocks
  BY SizeAssumption DEF TypeOK, Blocks
<1>2. Probe(s) = IF hint + s < BlockCount THEN hint + s
                 ELSE (hint + s) - BlockCount
  <2> HIDE DEF s
  <2> QED BY <1>1, Wrap DEF Probe
<1>3. Probe(s) = b
  BY <1>1, <1>2, SizeAssumption DEF Blocks
<1> QED BY <1>1, <1>3

\* The block the scan finds is free and every lower block is allocated.
LEMMA FoundIsLowest ==
  ASSUME TypeOK, NoFreeBelowHint, NEW b \in Blocks, Found(b)
  PROVE  b \in FreeBlocks /\ \A c \in FreeBlocks : b <= c
<1>1. b \in FreeBlocks
  BY DEF Found, FreeBlocks
<1>2. PICK s \in Blocks : /\ b = Probe(s)
                          /\ \A e \in 0 .. s - 1 : IsAllocated(Probe(e))
  BY DEF Found
<1>3. hint <= b /\ hint \in Blocks
  BY <1>1 DEF NoFreeBelowHint, TypeOK
<1>4. b = hint + s
  BY <1>2, <1>3, Wrap, SizeAssumption DEF Probe, Blocks
<1>5. ASSUME NEW c \in FreeBlocks, c < b PROVE FALSE
  <2>1. c \in Blocks /\ hint <= c
    BY <1>5 DEF FreeBlocks, NoFreeBelowHint
  <2>2. c - hint \in 0 .. s - 1 /\ c - hint \in Blocks
    BY <2>1, <1>3, <1>4, <1>5, <1>2, SizeAssumption DEF Blocks
  <2> DEFINE e == c - hint
  <2>3. Probe(e) = IF hint + e < BlockCount THEN hint + e
                   ELSE (hint + e) - BlockCount
    <3>1. e \in Blocks BY <2>2
    <3> HIDE DEF e
    <3> QED BY <3>1, <1>3, Wrap DEF Probe
  <2>4. Probe(c - hint) = c
    BY <2>1, <2>3, <1>3, SizeAssumption DEF Blocks
  <2>5. IsAllocated(c)
    BY <2>2, <2>4, <1>2
  <2> QED BY <2>5 DEF FreeBlocks
<1> QED BY <1>1, <1>5 DEF FreeBlocks, Blocks

\* Claiming a block takes exactly that block out of the free ones.
LEMMA ClaimFree ==
  ASSUME TypeOK, NEW b \in Blocks, Claim(b)
  PROVE  /\ FreeBlocks' = FreeBlocks \ {b}
         /\ FreeCount' = FreeCount - 1
         /\ FreeCount \in Nat /\ FreeCount' \in Nat
<1>0. ~IsAllocated(b) /\ bits' = bits \cup {b} /\ b < BlockCount
  BY SizeAssumption DEF Claim, Found, Blocks
<1>1. FreeBlocks' = FreeBlocks \ {b} /\ b \in FreeBlocks
  BY <1>0 DEF FreeBlocks, IsAllocated
<1>2. IsFiniteSet(Blocks)
  BY SizeAssumption, FS_Interval DEF Blocks
<1>3. IsFiniteSet(FreeBlocks)
  BY <1>2, FS_Subset DEF FreeBlocks
<1> QED BY <1>1, <1>3, FS_RemoveElement, FS_CardinalityType DEF FreeCount

\* allocate() keeps the hint at or below every free block.
LEMMA ClaimHint ==
  ASSUME TypeOK, NoFreeBelowHint, NEW b \in Blocks, Claim(b)
  PROVE  NoFreeBelowHint' /\ hint' \in Blocks
<1>1. \A c \in FreeBlocks : b <= c
  BY FoundIsLowest DEF Claim
<1>2. FreeBlocks' = FreeBlocks \ {b}
  BY ClaimFree
<1>3. hint' = IF b + 1 = BlockCount THEN 0 ELSE b + 1
  BY NextHint DEF Claim
<1> QED BY <1>1, <1>2, <1>3, SizeAssumption
        DEF NoFreeBelowHint, FreeBlocks, Blocks

LEMMA InitInv == Init => IInv
BY SizeAssumption
   DEF Init, Calls, IInv, TypeOK, NoFreeBelowHint, LoopHasRoom, GotAscends, Blocks,
       Positions, FreeBlocks, Granted

\* What an operation can return.
LEMMA ReplyType ==
  /\ Refusal \in [ok : BOOLEAN, blocks : Seq(Blocks)]
  /\ \A q \in Seq(Blocks) : Granted(q) \in [ok : BOOLEAN, blocks : Seq(Blocks)]
BY DEF Refusal, Granted

\* The calls that return.
LEMMA CallType ==
  /\ \A n \in 0 .. BlockCount + 1 : <<"allocate", n>> \in Calls
  /\ \A b \in 0 .. BlockCount : /\ <<"reserve", b>> \in Calls
                               /\ <<"release", b>> \in Calls
  /\ \A bitmap \in SUBSET Positions : <<"load", bitmap>> \in Calls
  /\ <<"start", 0>> \in Calls
BY DEF Calls

LEMMA TypeStep == IInv /\ [Next]_vars => TypeOK'
<1> SUFFICES ASSUME IInv, [Next]_vars PROVE TypeOK'
  OBVIOUS
<1> DEFINE Replies == [ok : BOOLEAN, blocks : Seq(Blocks)]
<1>0. /\ Blocks \subseteq Positions /\ 0 \in Blocks /\ <<>> \in Seq(Blocks)
      /\ \A b \in 0 .. BlockCount : b < BlockCount => b \in Blocks
      /\ Refusal \in Replies /\ \A q \in Seq(Blocks) : Granted(q) \in Replies
  BY ReplyType, SizeAssumption DEF Blocks, Positions
<1> HIDE DEF Replies
<1>c. /\ \A n \in 0 .. BlockCount + 1 : <<"allocate", n>> \in Calls
      /\ \A b \in 0 .. BlockCount : /\ <<"reserve", b>> \in Calls
                                   /\ <<"release", b>> \in Calls
      /\ \A bitmap \in SUBSET Positions : <<"load", bitmap>> \in Calls
      /\ 1 \in 0 .. BlockCount + 1
      /\ \A n \in 0 .. BlockCount : n \in 0 .. BlockCount + 1
  BY CallType, SizeAssumption
<1>t. /\ bits \in SUBSET Positions /\ hint \in Blocks
      /\ want \in 0 .. BlockCount /\ got \in Seq(Blocks) /\ reply \in Replies
      /\ request \in Calls
  BY DEF IInv, TypeOK, Replies
<1> SUFFICES /\ bits' \in SUBSET Positions /\ hint' \in Blocks
             /\ want' \in 0 .. BlockCount /\ got' \in Seq(Blocks)
             /\ request' \in Calls /\ reply' \in Replies
  BY DEF TypeOK, Replies, Calls, Blocks, Positions
<1>1. CASE Allocate
  <2>1. PICK b \in Blocks : Claim(b) /\ Returns("allocate", 1, Granted(<<b>>))
    BY <1>1 DEF Allocate
  <2>2. hint' \in Blocks
    BY <2>1, ClaimHint DEF IInv
  <2>3. <<b>> \in Seq(Blocks)
    OBVIOUS
  <2> QED BY <1>0, <1>c, <1>t, <1>1, <2>1, <2>2, <2>3
          DEF Allocate, Claim, Returns
<1>2. CASE AllocateNoSpace
  BY <1>0, <1>c, <1>t, <1>2 DEF AllocateNoSpace, Returns
<1>3. CASE \E n \in 0 .. BlockCount + 1 : ManyNoSpace(n)
  BY <1>0, <1>c, <1>t, <1>3 DEF ManyNoSpace, Returns
<1>4. CASE \E n \in 0 .. BlockCount : StartMany(n)
  BY <1>0, <1>c, <1>t, <1>4, SizeAssumption DEF StartMany, Returns
<1>5. CASE ManyStep
  <2>1. PICK b \in Blocks :
          /\ Claim(b)
          /\ \/ /\ Returns("allocate", want, Granted(Append(got, b)))
                /\ want' = 0 /\ got' = <<>>
             \/ /\ got' = Append(got, b)
                /\ UNCHANGED <<want, request, reply>>
    BY <1>5 DEF ManyStep
  <2>2. Append(got, b) \in Seq(Blocks)
    BY <1>t
  <2>3. hint' \in Blocks
    BY <2>1, ClaimHint DEF IInv
  <2>4. 0 \in 0 .. BlockCount
    BY SizeAssumption
  <2> QED BY <1>0, <1>c, <1>t, <2>1, <2>2, <2>3, <2>4 DEF Claim, Returns
<1>6. CASE \E b \in 0 .. BlockCount : Reserve(b)
  <2>1. PICK b \in 0 .. BlockCount : Reserve(b)
    BY <1>6
  <2>2. CASE b < BlockCount
    BY <1>0, <1>c, <1>t, <2>1, <2>2 DEF Reserve, Returns
  <2>3. CASE b >= BlockCount
    BY <1>0, <1>c, <1>t, <2>1, <2>3 DEF Reserve, Returns
  <2> QED BY <2>2, <2>3, SizeAssumption
<1>7. CASE \E b \in 0 .. BlockCount : Release(b)
  BY <1>0, <1>c, <1>t, <1>7 DEF Release, Returns, IsAllocated, LoweredHint
<1>8. CASE \E bitmap \in SUBSET Positions : Load(bitmap)
  BY <1>0, <1>c, <1>t, <1>8 DEF Load, Returns
<1>9. CASE UNCHANGED vars
  BY <1>t, <1>9 DEF vars
<1> QED BY <1>1, <1>2, <1>3, <1>4, <1>5, <1>6, <1>7, <1>8, <1>9 DEF Next

LEMMA HintStep == IInv /\ [Next]_vars => NoFreeBelowHint'
<1> SUFFICES ASSUME IInv, [Next]_vars PROVE NoFreeBelowHint'
  OBVIOUS
<1> USE SizeAssumption DEF IInv
<1>1. CASE Allocate
  BY <1>1, ClaimHint DEF Allocate
<1>2. CASE AllocateNoSpace
  BY <1>2 DEF AllocateNoSpace, NoFreeBelowHint, FreeBlocks, IsAllocated
<1>3. CASE \E n \in 0 .. BlockCount + 1 : ManyNoSpace(n)
  BY <1>3 DEF ManyNoSpace, NoFreeBelowHint, FreeBlocks, IsAllocated
<1>4. CASE \E n \in 0 .. BlockCount : StartMany(n)
  BY <1>4 DEF StartMany, NoFreeBelowHint, FreeBlocks, IsAllocated
<1>5. CASE ManyStep
  BY <1>5, ClaimHint DEF ManyStep
<1>6. CASE \E b \in 0 .. BlockCount : Reserve(b)
  BY <1>6 DEF Reserve, NoFreeBelowHint, FreeBlocks, IsAllocated
<1>7. CASE \E b \in 0 .. BlockCount : Release(b)
  BY <1>7 DEF Release, NoFreeBelowHint, FreeBlocks, IsAllocated, LoweredHint,
              TypeOK, Blocks
<1>8. CASE \E bitmap \in SUBSET Positions : Load(bitmap)
  BY <1>8 DEF Load, NoFreeBelowHint, FreeBlocks, Blocks
<1>9. CASE UNCHANGED vars
  BY <1>9 DEF vars, NoFreeBelowHint, FreeBlocks, IsAllocated
<1> QED BY <1>1, <1>2, <1>3, <1>4, <1>5, <1>6, <1>7, <1>8, <1>9 DEF Next

\* A turn of the loop leaves room for the turns after it.
LEMMA RoomStep == IInv /\ [Next]_vars => LoopHasRoom'
<1> SUFFICES ASSUME IInv, [Next]_vars PROVE LoopHasRoom'
  OBVIOUS
<1>t. /\ want \in 0 .. BlockCount /\ got \in Seq(Blocks) /\ Len(got) \in Nat
      /\ (want = 0 => got = <<>>)
  BY DEF IInv, TypeOK, GotAscends
<1>1. CASE ManyStep
  <2>1. PICK b \in Blocks :
          /\ Claim(b)
          /\ IF LastTurn
             THEN want' = 0 /\ got' = <<>>
             ELSE got' = Append(got, b) /\ want' = want
    BY <1>1 DEF ManyStep
  <2>2. FreeCount' = FreeCount - 1 /\ FreeCount \in Nat
    BY <2>1, ClaimFree DEF IInv
  <2>3. CASE LastTurn
    BY <2>1, <2>3 DEF LoopHasRoom
  <2>4. CASE ~LastTurn
    <3>1. Len(got') = Len(got) + 1 /\ want' = want /\ want > 0
      BY <2>1, <2>4, <1>t, <1>1 DEF ManyStep
    <3>2. want - Len(got) \in 1 .. FreeCount /\ want - Len(got) # 1
      BY <3>1, <2>4, <1>t DEF IInv, LoopHasRoom, LastTurn
    <3> QED BY <3>1, <3>2, <2>2, <1>t, SizeAssumption DEF LoopHasRoom
  <2> QED BY <2>3, <2>4
<1>2. CASE \E n \in 0 .. BlockCount : StartMany(n)
  <2>1. PICK n \in 0 .. BlockCount : StartMany(n)
    BY <1>2
  <2>2. got' = <<>> /\ want' = n /\ n <= FreeCount
    BY <2>1, <1>t DEF StartMany, Fits
  <2>3. FreeCount' = FreeCount
    BY <2>1 DEF StartMany, FreeCount, FreeBlocks, IsAllocated
  <2>4. FreeCount \in Nat
    <3>1. IsFiniteSet(Blocks)
      BY SizeAssumption, FS_Interval DEF Blocks
    <3>2. IsFiniteSet(FreeBlocks)
      BY <3>1, FS_Subset DEF FreeBlocks
    <3> QED BY <3>2, FS_CardinalityType DEF FreeCount
  <2> QED BY <2>2, <2>3, <2>4, SizeAssumption DEF LoopHasRoom
<1>3. CASE UNCHANGED vars
  BY <1>3 DEF vars, IInv, LoopHasRoom, FreeCount, FreeBlocks, IsAllocated
<1>4. ASSUME want' = 0 PROVE LoopHasRoom'
  BY <1>4 DEF LoopHasRoom
<1> QED BY <1>1, <1>2, <1>3, <1>4
        DEF Next, Allocate, AllocateNoSpace, ManyNoSpace, Reserve, Release, Load

\* The blocks of a running loop ascend.
LEMMA AscendStep == IInv /\ [Next]_vars => GotAscends'
<1> SUFFICES ASSUME IInv, [Next]_vars PROVE GotAscends'
  OBVIOUS
<1>t. /\ got \in Seq(Blocks) /\ (want = 0 => got = <<>>)
      /\ \A i, j \in 1 .. Len(got) : i < j => got[i] < got[j]
      /\ \A i \in 1 .. Len(got) :
           \A b \in Blocks : b <= got[i] => IsAllocated(b)
  BY DEF IInv, TypeOK, GotAscends
<1>1. CASE ManyStep
  <2>1. PICK b \in Blocks :
          /\ Claim(b)
          /\ \/ got' = <<>> /\ want' = 0
             \/ got' = Append(got, b) /\ want' = want /\ want > 0
    BY <1>1 DEF ManyStep
  <2>2. bits' = bits \cup {b} /\ b \in FreeBlocks /\ \A c \in FreeBlocks : b <= c
    BY <2>1, FoundIsLowest DEF Claim, IInv
  <2>3. CASE got' = <<>> /\ want' = 0
    BY <2>3 DEF GotAscends
  <2>4. CASE got' = Append(got, b) /\ want' = want /\ want > 0
    <3>1. /\ Len(got') = Len(got) + 1 /\ got'[Len(got) + 1] = b
          /\ \A i \in 1 .. Len(got) : got'[i] = got[i] /\ got[i] \in Blocks
          /\ Len(got) \in Nat
      BY <2>4, <1>t
    <3>2. \A i \in 1 .. Len(got) : got[i] < b
      BY <3>1, <2>2, <1>t, SizeAssumption DEF FreeBlocks, Blocks
    <3>3. \A c \in Blocks : c <= b => IsAllocated(c)'
      BY <2>2, SizeAssumption DEF FreeBlocks, IsAllocated, Blocks
    <3>4. \A i, j \in 1 .. Len(got') : i < j => got'[i] < got'[j]
      BY <3>1, <3>2, <1>t
    <3>5. \A i \in 1 .. Len(got') :
            \A c \in Blocks : c <= got'[i] => IsAllocated(c)'
      BY <3>1, <3>3, <1>t, <2>2 DEF IsAllocated
    <3> QED BY <2>4, <3>4, <3>5 DEF GotAscends
  <2> QED BY <2>1, <2>3, <2>4
<1>2. CASE \E n \in 0 .. BlockCount : StartMany(n)
  BY <1>2, <1>t DEF StartMany, GotAscends
<1>3. CASE UNCHANGED vars
  BY <1>3 DEF vars, IInv, GotAscends, IsAllocated
<1>4. ASSUME want = 0, got' = got PROVE GotAscends'
  BY <1>4, <1>t DEF GotAscends
<1> QED BY <1>1, <1>2, <1>3, <1>4
        DEF Next, Allocate, AllocateNoSpace, ManyNoSpace, Reserve, Release, Load

\* IInv is inductive.
LEMMA Invariance == Spec => []IInv
<1>1. IInv /\ [Next]_vars => IInv'
  BY TypeStep, HintStep, RoomStep, AscendStep DEF IInv
<1> QED BY <1>1, InitInv, PTL DEF Spec

\* The allocator's state stays well typed: the hint always names a block.
THEOREM TypeCorrect == Spec => []TypeOK
BY Invariance, PTL DEF IInv

\* No free block ever lies below search_hint_ (block.cc:150-157, 209-210).
THEOREM FirstFitHint == Spec => []NoFreeBelowHint
BY Invariance, PTL DEF IInv

\* The unwinding branch of allocate_many never runs (block.cc:175-180).
THEOREM LoopNeverFails == Spec => []LoopHasRoom
BY Invariance, PTL DEF IInv

-----------------------------------------------------------------------------
(* The refinement of FirstFit. *)

\* Outside the loop the abstract pool is the bitmap.
LEMMA IdlePool ==
  ASSUME got = <<>>
  PROVE  UsedByCallers = bits \cap Blocks /\ Pool!Free = FreeBlocks
BY SizeAssumption
   DEF UsedByCallers, GotSoFar, Pool!Free, Pool!Blocks, FreeBlocks,
       IsAllocated, Blocks

LEMMA IdlePoolPrime ==
  ASSUME got' = <<>>
  PROVE  UsedByCallers' = bits' \cap Blocks
BY SizeAssumption DEF UsedByCallers, GotSoFar

\* FirstFit counts as this module does.
LEMMA SameCount == \A S : Pool!Cardinality(S) = Cardinality(S)
BY DEF Pool!Cardinality, Cardinality

\* Whatever the callers use, the free blocks can be counted.
LEMMA FreeIsFinite ==
  IsFiniteSet(Pool!Free) /\ Cardinality(Pool!Free) \in Nat
  /\ Pool!Free \subseteq Blocks
<1>1. Pool!Free \subseteq Blocks
  BY DEF Pool!Free, Pool!Blocks, Blocks
<1>2. IsFiniteSet(Blocks)
  BY SizeAssumption, FS_Interval DEF Blocks
<1> QED BY <1>1, <1>2, FS_Subset, FS_CardinalityType

\* A request for more than the free blocks cannot be met.
LEMMA TooManyRefused ==
  ASSUME NEW n \in Nat, n > Cardinality(Pool!Free)
  PROVE  ~ \E q \in [1 .. n -> Pool!Free] : Pool!LowestFree(q, n)
<1>1. SUFFICES ASSUME NEW q \in [1 .. n -> Pool!Free], Pool!LowestFree(q, n)
               PROVE  FALSE
  OBVIOUS
<1>2. IsFiniteSet(1 .. n) /\ Cardinality(1 .. n) = n
  BY FS_Interval
<1>3. PICK i \in 1 .. n, j \in 1 .. n : i # j /\ q[i] = q[j]
  BY <1>1, <1>2, FreeIsFinite, FS_PigeonHole
<1>4. q[i] < q[j] \/ q[j] < q[i]
  BY <1>1, <1>3 DEF Pool!LowestFree
<1>5. q[i] \in Nat /\ q[j] \in Nat
  <2>1. q[i] \in Pool!Free /\ q[j] \in Pool!Free
    BY <1>1, <1>3
  <2>2. q[i] \in Blocks /\ q[j] \in Blocks
    BY <2>1, FreeIsFinite
  <2> QED BY <2>2, SizeAssumption DEF Blocks
<1> QED BY <1>3, <1>4, <1>5

\* The last turn of the loop is the moment the abstract pool takes them all.
LEMMA LastTurnTakes ==
  ASSUME IInv, NEW b \in Blocks, Claim(b), want > 0, LastTurn,
         Returns("allocate", want, Granted(Append(got, b))), got' = <<>>
  PROVE  Pool!Next
<1> DEFINE q == Append(got, b)
<1>t. /\ got \in Seq(Blocks) /\ Len(got) \in Nat /\ want \in 0 .. BlockCount
      /\ \A i, j \in 1 .. Len(got) : i < j => got[i] < got[j]
      /\ \A i \in 1 .. Len(got) :
           \A c \in Blocks : c <= got[i] => IsAllocated(c)
  BY DEF IInv, TypeOK, GotAscends
<1>1. bits' = bits \cup {b} /\ b \in FreeBlocks /\ \A c \in FreeBlocks : b <= c
  BY FoundIsLowest DEF Claim, IInv
<1>2. /\ want = Len(got) + 1 /\ q[want] = b /\ DOMAIN q = 1 .. want
      /\ \A i \in 1 .. Len(got) : q[i] = got[i] /\ got[i] \in Blocks
      /\ \A i \in 1 .. want : i \in 1 .. Len(got) \/ i = want
      /\ \A i \in 1 .. Len(got) : i \in 1 .. want
      /\ want \in 1 .. want
      /\ q \in Seq(Blocks)
  BY <1>t DEF LastTurn
<1>3. \A i \in 1 .. Len(got) : got[i] < b /\ IsAllocated(got[i])
  BY <1>1, <1>2, <1>t, SizeAssumption DEF FreeBlocks, Blocks
<1>4. Pool!Free = FreeBlocks \cup GotSoFar
  <2>1. GotSoFar \subseteq Blocks
    BY <1>2 DEF GotSoFar
  <2>2. FreeBlocks = Blocks \ bits
    BY SizeAssumption DEF FreeBlocks, IsAllocated, Blocks
  <2>3. Pool!Free = Blocks \ UsedByCallers
    BY DEF Pool!Free, Pool!Blocks, Blocks
  <2> QED BY <2>1, <2>2, <2>3 DEF UsedByCallers
<1>5. \A i \in 1 .. want : q[i] \in Pool!Free
  BY <1>1, <1>2, <1>4 DEF GotSoFar
<1>6. q \in [1 .. want -> Pool!Free]
  <2>1. Len(q) = want
    BY <1>2, <1>t
  <2>2. q \in [1 .. want -> Blocks]
    <3> HIDE DEF q
    <3> QED BY <1>2, <2>1
  <2> HIDE DEF q
  <2> QED BY <1>5, <2>2
<1>7. \A i, j \in 1 .. want : i < j => q[i] < q[j]
  BY <1>2, <1>3, <1>t
<1>8. \A c \in Pool!Free, i \in 1 .. want :
        c < q[i] => \E k \in 1 .. want : q[k] = c
  <2>1. ASSUME NEW c \in FreeBlocks, NEW i \in 1 .. want, c < q[i] PROVE FALSE
    BY <2>1, <1>1, <1>2, <1>3, SizeAssumption DEF FreeBlocks, Blocks
  <2>2. ASSUME NEW c \in GotSoFar PROVE \E k \in 1 .. want : q[k] = c
    BY <1>2 DEF GotSoFar
  <2> QED BY <2>1, <2>2, <1>4
<1>9. UsedByCallers' = UsedByCallers \cup {q[i] : i \in 1 .. want}
  <2>1. {q[i] : i \in 1 .. want} = GotSoFar \cup {b}
    BY <1>2 DEF GotSoFar
  <2>2. UsedByCallers' = (bits \cup {b}) \cap Blocks
    BY <1>1, IdlePoolPrime
  <2>3. GotSoFar \subseteq bits \cap Blocks
    BY <1>2, <1>3 DEF GotSoFar, IsAllocated
  <2> QED BY <2>1, <2>2, <2>3 DEF UsedByCallers
<1>10. reply' = Pool!Granted(q)
  BY DEF Returns, Granted, Pool!Granted
<1>11. Pool!Take(want)
  <2> HIDE DEF q
  <2>1. Pool!LowestFree(q, want)
    BY <1>6, <1>7, <1>8 DEF Pool!LowestFree
  <2>2. \E p \in [1 .. want -> Pool!Free] :
          /\ Pool!LowestFree(p, want)
          /\ UsedByCallers' = UsedByCallers \cup {p[i] : i \in 1 .. want}
          /\ reply' = Pool!Granted(p)
    BY <1>6, <1>9, <1>10, <2>1, Zenon
  <2> QED BY <2>2, Zenon DEF Pool!Take
<1>12. want \in 0 .. BlockCount + 1
  BY <1>t, SizeAssumption
<1>13. want <= Cardinality(Pool!Free)
  <2>1. IsFiniteSet(Pool!Free) /\ Cardinality(Pool!Free) \in Nat /\ want \in Nat
    BY <1>t, FreeIsFinite, SizeAssumption
  <2>2. want > Cardinality(Pool!Free) => FALSE
    <3> HIDE DEF q
    <3>1. Pool!LowestFree(q, want)
      BY <1>6, <1>7, <1>8 DEF Pool!LowestFree
    <3> QED BY <2>1, <3>1, <1>6, TooManyRefused
  <2> QED BY <2>1, <2>2
<1>14. request' = <<"allocate", want>>
  BY DEF Returns
<1>15. Pool!Allocate(want)
  BY <1>11, <1>12, <1>13, <1>14, SameCount DEF Pool!Allocate
<1> QED BY <1>12, <1>15 DEF Pool!Next

\* An earlier turn of the loop changes nothing a caller can see.
LEMMA EarlierTurnStutters ==
  ASSUME IInv, NEW b \in Blocks, Claim(b), got' = Append(got, b)
  PROVE  UsedByCallers' = UsedByCallers
<1>1. got \in Seq(Blocks)
  BY DEF IInv, TypeOK
<1>2. GotSoFar' = GotSoFar \cup {b}
  <2>1. /\ Len(got') = Len(got) + 1 /\ got'[Len(got) + 1] = b
        /\ \A i \in 1 .. Len(got) : got'[i] = got[i]
        /\ \A i \in 1 .. Len(got) + 1 : i \in 1 .. Len(got) \/ i = Len(got) + 1
        /\ \A i \in 1 .. Len(got) : i \in 1 .. Len(got) + 1
        /\ Len(got) + 1 \in 1 .. Len(got) + 1
    BY <1>1
  <2> QED BY <2>1 DEF GotSoFar
<1>3. b \notin bits /\ bits' = bits \cup {b}
  BY SizeAssumption DEF Claim, Found, IsAllocated, Blocks
<1> QED BY <1>2, <1>3 DEF UsedByCallers

\* A single allocate() takes the lowest free block.
LEMMA AllocateTakes == IInv /\ Allocate => Pool!Next
<1> SUFFICES ASSUME IInv, Allocate PROVE Pool!Next
  OBVIOUS
<1>1. PICK b \in Blocks : Claim(b) /\ Returns("allocate", 1, Granted(<<b>>))
  BY DEF Allocate
<1>2. got = <<>> /\ got' = <<>>
  BY DEF Allocate, IInv, GotAscends
<1>3. b \in FreeBlocks /\ \A c \in FreeBlocks : b <= c
  BY <1>1, FoundIsLowest DEF Claim, IInv
<1>4. Pool!Free = FreeBlocks /\ UsedByCallers' = UsedByCallers \cup {b}
  BY <1>1, <1>2, IdlePool, IdlePoolPrime DEF Claim
<1> DEFINE q == <<b>>
<1>5. q \in [1 .. 1 -> Pool!Free] /\ q[1] = b /\ {q[i] : i \in 1 .. 1} = {b}
  BY <1>3, <1>4
<1>6. Pool!LowestFree(q, 1)
  <2>1. \A c \in Pool!Free, i \in 1 .. 1 : ~(c < q[i])
    BY <1>3, <1>4, <1>5, SizeAssumption DEF FreeBlocks, Blocks
  <2>2. \A i, j \in 1 .. 1 : ~(i < j)
    OBVIOUS
  <2> HIDE DEF q
  <2> QED BY <1>5, <2>1, <2>2 DEF Pool!LowestFree
<1>7. reply' = Pool!Granted(q)
  BY <1>1 DEF Returns, Granted, Pool!Granted
<1>8. Pool!Take(1)
  <2> HIDE DEF q
  <2> QED BY <1>4, <1>5, <1>6, <1>7 DEF Pool!Take
<1>9. 1 <= Cardinality(Pool!Free)
  <2>1. Cardinality(Pool!Free) # 0
    BY <1>3, <1>4, FreeIsFinite, FS_EmptySet
  <2> QED BY <2>1, FreeIsFinite
<1>10. request' = <<"allocate", 1>> /\ 1 \in 0 .. BlockCount + 1
  BY <1>1, SizeAssumption DEF Returns
<1>11. Pool!Allocate(1)
  BY <1>8, <1>9, <1>10, SameCount DEF Pool!Allocate
<1> QED BY <1>10, <1>11 DEF Pool!Next

\* A full device refuses to allocate a block.
LEMMA NoSpaceRefuses == IInv /\ AllocateNoSpace => Pool!Next
<1> SUFFICES ASSUME IInv, AllocateNoSpace PROVE Pool!Next
  OBVIOUS
<1>1. /\ got = <<>> /\ UNCHANGED <<bits, got>>
      /\ reply' = Refusal /\ request' = <<"allocate", 1>>
  BY DEF AllocateNoSpace, Returns, IInv, GotAscends
<1>2. FreeBlocks = {}
  BY ProbeReaches DEF AllocateNoSpace, IInv, FreeBlocks
<1>3. 1 > Cardinality(Pool!Free)
  BY <1>1, <1>2, IdlePool, FS_EmptySet
<1>4. Pool!Refuse
  BY <1>1, IdlePool, IdlePoolPrime DEF Pool!Refuse, Pool!Refusal, Refusal
<1>5. 1 \in 0 .. BlockCount + 1
  BY SizeAssumption
<1>6. Pool!Allocate(1)
  BY <1>1, <1>3, <1>4, <1>5, SameCount DEF Pool!Allocate
<1> QED BY <1>5, <1>6 DEF Pool!Next

\* allocate_many returns an empty vector for 0 blocks, and stutters otherwise.
LEMMA StartRefines ==
  ASSUME IInv, NEW n \in 0 .. BlockCount, StartMany(n)
  PROVE  Pool!Next \/ UNCHANGED <<UsedByCallers, request, reply>>
<1>1. got = <<>> /\ UNCHANGED <<bits, got>>
  BY DEF StartMany, IInv, GotAscends
<1>2. UsedByCallers' = UsedByCallers
  BY <1>1, IdlePool, IdlePoolPrime
<1>3. CASE n = 0
  <2>1. <<>> \in [1 .. 0 -> Pool!Free] /\ {<<>>[i] : i \in 1 .. 0} = {}
    OBVIOUS
  <2>2. Pool!LowestFree(<<>>, 0)
    BY DEF Pool!LowestFree
  <2>3. reply' = Pool!Granted(<<>>) /\ request' = <<"allocate", 0>>
    BY <1>3 DEF StartMany, Returns, Granted, Pool!Granted
  <2>4. Pool!Take(0)
    BY <1>2, <2>1, <2>2, <2>3 DEF Pool!Take
  <2>5. 0 \in 0 .. BlockCount + 1 /\ 0 <= Cardinality(Pool!Free)
    BY SizeAssumption, FreeIsFinite
  <2>6. Pool!Allocate(0)
    BY <2>3, <2>4, <2>5, SameCount DEF Pool!Allocate
  <2> QED BY <2>5, <2>6 DEF Pool!Next
<1>4. CASE n # 0
  BY <1>2, <1>4 DEF StartMany
<1> QED BY <1>3, <1>4

\* reserve() marks a free block and refuses any other number.
LEMMA ReserveRefines ==
  ASSUME IInv, NEW b \in 0 .. BlockCount, Reserve(b)
  PROVE  Pool!Next
<1>1. got = <<>> /\ got' = <<>>
  BY DEF Reserve, IInv, GotAscends
<1>2. Pool!Free = FreeBlocks /\ UsedByCallers = bits \cap Blocks
  BY <1>1, IdlePool
<1>3. UsedByCallers' = bits' \cap Blocks
  BY <1>1, IdlePoolPrime
<1>4. CASE b >= BlockCount \/ IsAllocated(b)
  <2>1. b \notin Pool!Free
    BY <1>2, <1>4, SizeAssumption DEF FreeBlocks, Blocks
  <2>2. Pool!Refuse
    BY <1>2, <1>3, <1>4
       DEF Reserve, Returns, Pool!Refuse, Pool!Refusal, Refusal
  <2>3. request' = <<"reserve", b>>
    BY <1>4 DEF Reserve, Returns
  <2> QED BY <2>1, <2>2, <2>3 DEF Pool!Next, Pool!Reserve
<1>5. CASE ~(b >= BlockCount \/ IsAllocated(b))
  <2>1. b \in Blocks /\ b \in FreeBlocks
    BY <1>5, SizeAssumption DEF FreeBlocks, Blocks
  <2>2. Pool!Reserve(b)
    BY <1>2, <1>3, <1>5, <2>1
       DEF Reserve, Returns, Pool!Reserve, Pool!Granted, Granted
  <2> QED BY <2>2 DEF Pool!Next
<1> QED BY <1>4, <1>5

\* release() puts an allocated block back and refuses any other number.
LEMMA ReleaseRefines ==
  ASSUME IInv, NEW b \in 0 .. BlockCount, Release(b)
  PROVE  Pool!Next
<1>1. got = <<>> /\ got' = <<>>
  BY DEF Release, IInv, GotAscends
<1>2. UsedByCallers = bits \cap Blocks /\ UsedByCallers' = bits' \cap Blocks
  BY <1>1, IdlePool, IdlePoolPrime
<1>3. CASE IsAllocated(b)
  <2>1. b \in Blocks /\ b \in UsedByCallers
    BY <1>2, <1>3, SizeAssumption DEF IsAllocated, Blocks
  <2>2. Pool!Release(b)
    BY <1>2, <1>3, <2>1
       DEF Release, Returns, Pool!Release, Pool!Granted, Granted
  <2> QED BY <2>2 DEF Pool!Next
<1>4. CASE ~IsAllocated(b)
  <2>1. b \notin UsedByCallers
    BY <1>2, <1>4, SizeAssumption DEF IsAllocated, Blocks
  <2>2. Pool!Refuse
    BY <1>2, <1>4 DEF Release, Returns, Pool!Refuse, Pool!Refusal, Refusal
  <2>3. request' = <<"release", b>>
    BY <1>4 DEF Release, Returns
  <2> QED BY <2>1, <2>2, <2>3 DEF Pool!Next, Pool!Release
<1> QED BY <1>3, <1>4

\* load() replaces the pool.
LEMMA LoadRefines ==
  ASSUME IInv, NEW bitmap \in SUBSET Positions, Load(bitmap)
  PROVE  Pool!Next
<1>1. got = <<>> /\ got' = <<>>
  BY DEF Load, IInv, GotAscends
<1>2. UsedByCallers' = bitmap \cap Pool!Blocks
  BY <1>1, IdlePoolPrime DEF Load, Pool!Blocks, Blocks
<1>3. /\ request' = <<"load", bitmap>>
      /\ reply' = IF bitmap \subseteq Pool!Blocks THEN Pool!Granted(<<>>)
                  ELSE Pool!Refusal
  BY DEF Load, Returns, Pool!Granted, Pool!Refusal, Granted, Refusal,
         Pool!Blocks, Blocks
<1>4. bitmap \in SUBSET Pool!Positions
  BY DEF Pool!Positions, Positions
<1>5. Pool!Load(bitmap)
  BY <1>2, <1>3 DEF Pool!Load
<1> QED BY <1>4, <1>5 DEF Pool!Next

\* Every step of the allocator is a step of the pool or changes nothing there.
LEMMA PoolStep ==
  IInv /\ [Next]_vars => [Pool!Next]_<<UsedByCallers, request, reply>>
<1> SUFFICES ASSUME IInv, [Next]_vars
             PROVE  Pool!Next \/ UNCHANGED <<UsedByCallers, request, reply>>
  OBVIOUS
<1>1. CASE Allocate
  BY <1>1, AllocateTakes
<1>2. CASE AllocateNoSpace
  BY <1>2, NoSpaceRefuses
<1>3. CASE \E n \in 0 .. BlockCount + 1 : ManyNoSpace(n)
  <2>1. PICK n \in 0 .. BlockCount + 1 : ManyNoSpace(n)
    BY <1>3
  <2>2. /\ got = <<>> /\ UNCHANGED <<bits, got>>
        /\ reply' = Refusal /\ request' = <<"allocate", n>>
    BY <2>1 DEF ManyNoSpace, Returns, IInv, GotAscends
  <2>3. n > Cardinality(Pool!Free)
    <3>1. IsFiniteSet(Blocks)
      BY SizeAssumption, FS_Interval DEF Blocks
    <3>2. FreeCount \in Nat
      BY <3>1, FS_Subset, FS_CardinalityType DEF FreeCount, FreeBlocks
    <3>3. n \in Nat /\ n > FreeCount
      BY <3>2, <2>1, SizeAssumption DEF ManyNoSpace, Fits
    <3> QED BY <3>3, <2>2, IdlePool DEF FreeCount
  <2>4. Pool!Refuse
    BY <2>2, IdlePool, IdlePoolPrime DEF Pool!Refuse, Pool!Refusal, Refusal
  <2>5. Pool!Allocate(n)
    BY <2>2, <2>3, <2>4, SameCount DEF Pool!Allocate
  <2> QED BY <2>5 DEF Pool!Next
<1>4. CASE \E n \in 0 .. BlockCount : StartMany(n)
  BY <1>4, StartRefines
<1>5. CASE ManyStep
  BY <1>5, LastTurnTakes, EarlierTurnStutters DEF ManyStep
<1>6. CASE \E b \in 0 .. BlockCount : Reserve(b)
  BY <1>6, ReserveRefines
<1>7. CASE \E b \in 0 .. BlockCount : Release(b)
  BY <1>7, ReleaseRefines
<1>8. CASE \E bitmap \in SUBSET Positions : Load(bitmap)
  BY <1>8, LoadRefines
<1>9. CASE UNCHANGED vars
  BY <1>9 DEF vars, UsedByCallers, GotSoFar
<1> QED BY <1>1, <1>2, <1>3, <1>4, <1>5, <1>6, <1>7, <1>8, <1>9 DEF Next

\* For every device, the bitmap, the hint and the loop of allocate_many
\* implement a first-fit pool with all-or-nothing requests.
THEOREM ImplementsFirstFit == Spec => FirstFitPool
<1>1. Init => Pool!Init
  BY SizeAssumption
     DEF Init, Pool!Init, UsedByCallers, GotSoFar, Pool!Blocks, Blocks,
         Granted, Pool!Granted
<1> QED BY <1>1, PoolStep, Invariance, PTL DEF Spec, FirstFitPool, Pool!Spec

=============================================================================
