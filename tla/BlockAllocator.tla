--------------------------- MODULE BlockAllocator ---------------------------
(***************************************************************************)
(* BlockAllocator of src/src/block.cc: a bitmap and a search hint.         *)
(*                                                                         *)
(* allocate() scans the blocks circularly from search_hint_ and moves the  *)
(* hint past the block it took; release() lowers the hint.  allocate_many  *)
(* is a loop over allocate() and is modelled one turn at a time (StartMany *)
(* is its precheck, ManyStep one turn), so that the state between two      *)
(* turns can be talked about.  The program has one thread: no other        *)
(* operation starts while the loop runs.                                   *)
(*                                                                         *)
(* The bitmap is a whole number of bytes, so it has more bits than there   *)
(* are blocks; load() assigns all of them before it looks at the excess.   *)
(***************************************************************************)
EXTENDS Naturals, FiniteSets, Sequences

CONSTANTS BlockCount,   \* block_count_
          BitmapBits    \* bits_.size() * 8

ASSUME SizeAssumption ==
  /\ BlockCount \in Nat \ {0}
  /\ BitmapBits \in Nat
  /\ BitmapBits >= BlockCount

VARIABLES bits,    \* bits_: the set of positions that are 1
          hint,    \* search_hint_
          want,    \* count of the allocate_many in progress, 0 when none is
          got,     \* its local vector result
          request, \* the last finished call, <<operation, argument>>
          reply    \* what it returned

vars == <<bits, hint, want, got, request, reply>>

Blocks == 0 .. BlockCount - 1
Positions == 0 .. BitmapBits - 1

IsAllocated(b) == b < BlockCount /\ b \in bits
FreeBlocks == {b \in Blocks : ~IsAllocated(b)}
FreeCount == Cardinality(FreeBlocks)

Refusal == [ok |-> FALSE, blocks |-> <<>>]
Granted(q) == [ok |-> TRUE, blocks |-> q]

\* The call <<op, arg>> has returned r.
Returns(op, arg, r) == request' = <<op, arg>> /\ reply' = r

\* initialize() reserves a caller's set of blocks, load() takes a bitmap.
Init == /\ bits \in SUBSET Blocks
        /\ hint = 0
        /\ want = 0
        /\ got = <<>>
        /\ request = <<"start", 0>>
        /\ reply = Granted(<<>>)

-----------------------------------------------------------------------------
\* The block allocate() stops at: the first free one in circular order.
Probe(step) == (hint + step) % BlockCount

Found(b) ==
  \E step \in Blocks :
    /\ b = Probe(step)
    /\ ~IsAllocated(b)
    /\ \A earlier \in 0 .. step - 1 : IsAllocated(Probe(earlier))

\* allocate()'s effect on the allocator when it finds block b.
Claim(b) == /\ Found(b)
            /\ bits' = bits \cup {b}
            /\ hint' = (b + 1) % BlockCount

Allocate == /\ want = 0
            /\ \E b \in Blocks : Claim(b) /\ Returns("allocate", 1, Granted(<<b>>))
            /\ UNCHANGED <<want, got>>

AllocateNoSpace == /\ want = 0
                   /\ \A step \in Blocks : IsAllocated(Probe(step))
                   /\ Returns("allocate", 1, Refusal)
                   /\ UNCHANGED <<bits, hint, want, got>>

\* Mutant of Fits: one block too many.
FitsOneMore(n) == n <= FreeCount + 1

\* allocate_many() up to its loop.
Fits(n) == n <= FreeCount

ManyNoSpace(n) == /\ want = 0
                  /\ ~Fits(n)
                  /\ Returns("allocate", n, Refusal)
                  /\ UNCHANGED <<bits, hint, want, got>>

StartMany(n) == /\ want = 0
                /\ Fits(n)
                /\ want' = n
                /\ IF n = 0 THEN Returns("allocate", 0, Granted(<<>>))
                            ELSE UNCHANGED <<request, reply>>
                /\ UNCHANGED <<bits, hint, got>>

\* One turn of its loop; the last one returns the vector.  The branch that
\* unwinds when allocate() fails is not here: LoopHasRoom shows it is dead.
LastTurn == Len(got) + 1 = want

ManyStep == /\ want > 0
            /\ \E b \in Blocks :
                 /\ Claim(b)
                 /\ IF LastTurn
                    THEN /\ Returns("allocate", want, Granted(Append(got, b)))
                         /\ want' = 0 /\ got' = <<>>
                    ELSE /\ got' = Append(got, b)
                         /\ UNCHANGED <<want, request, reply>>

Reserve(b) ==
  /\ want = 0
  /\ IF b >= BlockCount \/ IsAllocated(b)
     THEN Returns("reserve", b, Refusal) /\ UNCHANGED bits
     ELSE Returns("reserve", b, Granted(<<>>)) /\ bits' = bits \cup {b}
  /\ UNCHANGED <<hint, want, got>>

\* Mutant of LoweredHint: the hint stays.
SameHint(b) == hint

LoweredHint(b) == IF b < hint THEN b ELSE hint

Release(b) ==
  /\ want = 0
  /\ IF ~IsAllocated(b)
     THEN Returns("release", b, Refusal) /\ UNCHANGED <<bits, hint>>
     ELSE /\ Returns("release", b, Granted(<<>>))
          /\ bits' = bits \ {b}
          /\ hint' = LoweredHint(b)
  /\ UNCHANGED <<want, got>>

\* A bitmap with excess bits is refused, but it has been assigned by then.
Load(bitmap) ==
  /\ want = 0
  /\ bits' = bitmap
  /\ hint' = 0
  /\ Returns("load", bitmap,
             IF bitmap \subseteq Blocks THEN Granted(<<>>) ELSE Refusal)
  /\ UNCHANGED <<want, got>>

Next == \/ Allocate
        \/ AllocateNoSpace
        \/ \E n \in 0 .. BlockCount + 1 : ManyNoSpace(n)
        \/ \E n \in 0 .. BlockCount : StartMany(n)
        \/ ManyStep
        \/ \E b \in 0 .. BlockCount : Reserve(b)
        \/ \E b \in 0 .. BlockCount : Release(b)
        \/ \E bitmap \in SUBSET Positions : Load(bitmap)

Spec == Init /\ [][Next]_vars

-----------------------------------------------------------------------------
Calls == ({"start"} \X {0}) \cup ({"allocate"} \X (0 .. BlockCount + 1))
           \cup ({"reserve", "release"} \X (0 .. BlockCount))
           \cup ({"load"} \X (SUBSET Positions))

\* The state is well typed; in particular the hint always names a block.
TypeOK == /\ bits \in SUBSET Positions
          /\ hint \in Blocks
          /\ want \in 0 .. BlockCount
          /\ got \in Seq(Blocks)
          /\ request \in Calls
          /\ reply \in [ok : BOOLEAN, blocks : Seq(Blocks)]

\* However reserve, release, allocate and load are mixed, no free block lies
\* below search_hint_: the scan that starts at the hint is first fit.
NoFreeBelowHint == \A b \in FreeBlocks : hint <= b

\* While the loop of allocate_many runs there are free blocks for all the
\* turns it has left, so its unwinding branch (block.cc:175-180) cannot run.
LoopHasRoom == want > 0 => want - Len(got) \in 1 .. FreeCount

\* Outside the loop got is empty.  Inside, the blocks got so far ascend and
\* no block up to any of them is free: the next turn can only go up.
GotAscends ==
  /\ want = 0 => got = <<>>
  /\ \A i, j \in 1 .. Len(got) : i < j => got[i] < got[j]
  /\ \A i \in 1 .. Len(got) : \A b \in Blocks : b <= got[i] => IsAllocated(b)

\* To its callers the allocator is a first-fit pool: every call returns what
\* the pool returns to that call and leaves the blocks used that the pool
\* leaves used.  A request for many blocks is all or nothing, and refused only
\* when the free blocks are too few; the blocks a running loop has got do not
\* count as used until it returns.
GotSoFar == {got[i] : i \in 1 .. Len(got)}
UsedByCallers == (bits \cap Blocks) \ GotSoFar

Pool == INSTANCE FirstFit WITH used <- UsedByCallers, answer <- reply
FirstFitPool == Pool!Spec
=============================================================================
