------------------------------ MODULE FirstFit ------------------------------
(***************************************************************************)
(* What the block allocator promises its callers: a pool of blocks from    *)
(* which a request takes the LOWEST free blocks, in ascending order, or is *)
(* refused as a whole exactly when there are fewer free blocks than it     *)
(* asks for.  There is no search hint here and no loop: an allocation of   *)
(* several blocks happens at once.  Each call determines what it returns   *)
(* and which blocks are used after it.                                     *)
(***************************************************************************)
EXTENDS Naturals, FiniteSets, Sequences

CONSTANTS BlockCount,   \* number of blocks of the device
          BitmapBits    \* number of bits of the bitmaps that are loaded

VARIABLES used,       \* the allocated blocks
          request,    \* the last finished call, <<operation, argument>>
          answer      \* what it returned

Blocks == 0 .. BlockCount - 1
Positions == 0 .. BitmapBits - 1

Free == Blocks \ used

Refusal == [ok |-> FALSE, blocks |-> <<>>]
Granted(q) == [ok |-> TRUE, blocks |-> q]

Init == /\ used \in SUBSET Blocks
        /\ request = <<"start", 0>>
        /\ answer = Granted(<<>>)

Refuse == answer' = Refusal /\ UNCHANGED used

\* The n blocks of q are free, ascending, and leave no lower block free.
LowestFree(q, n) ==
  /\ \A i, j \in 1 .. n : i < j => q[i] < q[j]
  /\ \A b \in Free, i \in 1 .. n : b < q[i] => \E k \in 1 .. n : q[k] = b

Take(n) ==
  \E q \in [1 .. n -> Free] :
    /\ LowestFree(q, n)
    /\ used' = used \cup {q[i] : i \in 1 .. n}
    /\ answer' = Granted(q)

Allocate(n) == /\ request' = <<"allocate", n>>
               /\ \/ n <= Cardinality(Free) /\ Take(n)
                  \/ n > Cardinality(Free) /\ Refuse

Reserve(b) ==
  /\ request' = <<"reserve", b>>
  /\ \/ b \in Free /\ used' = used \cup {b} /\ answer' = Granted(<<>>)
     \/ b \notin Free /\ Refuse

Release(b) ==
  /\ request' = <<"release", b>>
  /\ \/ b \in used /\ used' = used \ {b} /\ answer' = Granted(<<>>)
     \/ b \notin used /\ Refuse

\* A bitmap with bits beyond the last block is refused, but is in force.
Load(bitmap) ==
  /\ request' = <<"load", bitmap>>
  /\ used' = bitmap \cap Blocks
  /\ answer' = IF bitmap \subseteq Blocks THEN Granted(<<>>) ELSE Refusal

Next == \/ \E n \in 0 .. BlockCount + 1 : Allocate(n)
        \/ \E b \in 0 .. BlockCount : Reserve(b) \/ Release(b)
        \/ \E bitmap \in SUBSET Positions : Load(bitmap)

Spec == Init /\ [][Next]_<<used, request, answer>>
=============================================================================
