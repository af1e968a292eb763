--------------------------- MODULE FileStoreProofs ---------------------------
(***************************************************************************)
(* For every device, block size and limit: blocks are owned once and leak  *)
(* nowhere, no file shows stale data, and files behave as those of module  *)
(* FlatFiles, which know no blocks; the checker takes for leaked the       *)
(* blocks of the inodes that do not verify, and no others.                 *)
(***************************************************************************)
EXTENDS BlockChecker, FiniteSetTheorems, WellFoundedInduction, TLAPS

\* What BlockOwnership says of one inode.
Single(i) ==
  /\ 0 \notin Owned(i)
  /\ \A l, k \in Logical : i.map[l] = i.map[k] /\ i.map[l] >= 0 => l = k
  /\ MappedBlocks(i) \cap StrayBlocks(i) = {}
  /\ \A s, t \in i.stray : s.block = t.block => s = t

\* The blocks of pushed extents are still as resize_inode has zeroed them.
StrayIsZero(i, d) == \A s \in i.stray, c \in Cells : d[s.block][c] = 0

\* A list that is canonical fits its limit and allocated_bytes.
Accounted(i) == i.live /\ i.stray = {} => Encodable(i) /\ i.allocated = PhysicalCount(i)

\* A file that is not there owns nothing, and what normalize() may yet put in a
\* file's map is free of old data.
IInv == /\ TypeOK /\ BlockOwnership /\ NoStaleTail
        /\ \A f \in Files : /\ inode[f].live \/ inode[f] = Blank
                            /\ StrayIsZero(inode[f], disk)
                            /\ Accounted(inode[f])

-----------------------------------------------------------------------------
(* Bytes and blocks. *)

LEMMA TimesMonotone ==
  ASSUME NEW a \in Nat, NEW b \in Nat, NEW c \in Nat, a <= b
  PROVE  a * c <= b * c
<1> DEFINE d == b - a
<1>1. d \in Nat /\ b = a + d
  OBVIOUS
<1>2. b * c = a * c + d * c
  BY <1>1
<1>3. d * c \in Nat /\ a * c \in Nat
  BY <1>1
<1> QED
  BY <1>2, <1>3

LEMMA TimesCancels ==
  ASSUME NEW a \in Nat, NEW b \in Nat, NEW c \in Nat, a * c < b * c
  PROVE  a < b
<1>1. b * c \in Nat /\ a * c \in Nat
  OBVIOUS
<1>2. CASE b <= a
  BY <1>1, <1>2, TimesMonotone
<1> QED
  BY <1>2

\* n bytes take BlocksFor(n) blocks.
LEMMA BlocksForFacts ==
  ASSUME NEW n \in Nat
  PROVE  /\ BlocksFor(n) \in Nat
         /\ n <= BlocksFor(n) * BlockSize
         /\ BlocksFor(n) * BlockSize < n + BlockSize
<1> DEFINE m == n + BlockSize - 1
<1>1. BlockSize \in Nat \ {0} /\ m \in Nat
  BY FileStoreAssumption
<1> HIDE DEF m
<1> DEFINE k == m \div BlockSize
<1>2. k \in Nat /\ BlockSize * k <= m /\ m < BlockSize * k + BlockSize
  BY <1>1
<1>3. BlocksFor(n) = k
  BY DEF BlocksFor, m
<1> HIDE DEF k
<1> DEFINE g == k * BlockSize
<1>4. g \in Nat /\ g = BlockSize * k
  BY <1>1, <1>2
<1> HIDE DEF g
<1>5. n <= g /\ g < n + BlockSize
  BY <1>1, <1>2, <1>4 DEF m
<1> QED
  BY <1>2, <1>3, <1>5 DEF g

LEMMA BlocksForMonotone ==
  ASSUME NEW m \in Nat, NEW n \in Nat, m <= n
  PROVE  BlocksFor(m) <= BlocksFor(n)
<1> DEFINE a == BlocksFor(m)
           b == BlocksFor(n)
<1>1. /\ a \in Nat /\ b \in Nat /\ BlockSize \in Nat
      /\ a * BlockSize < m + BlockSize /\ n <= b * BlockSize
  BY BlocksForFacts, FileStoreAssumption
<1> HIDE DEF a, b
<1>2. (b + 1) * BlockSize = b * BlockSize + BlockSize
  BY <1>1
<1>3. a * BlockSize \in Nat /\ b * BlockSize \in Nat
  BY <1>1
<1>4. a * BlockSize < (b + 1) * BlockSize
  BY <1>1, <1>2, <1>3
<1>5. a < b + 1
  BY <1>1, <1>4, TimesCancels
<1> QED
  BY <1>1, <1>5 DEF a, b

\* A file takes no more blocks than there are logical ones.
LEMMA LogicalFacts ==
  /\ MaxFileBytes \div BlockSize \in Nat
  /\ MaxFileBytes = (MaxFileBytes \div BlockSize) * BlockSize
  /\ Logical \subseteq Nat
  /\ IsFiniteSet(Logical) /\ Cardinality(Logical) = MaxFileBytes \div BlockSize
<1> DEFINE k == MaxFileBytes \div BlockSize
<1>1. /\ BlockSize \in Nat \ {0} /\ MaxFileBytes \in Nat /\ MaxFileBytes % BlockSize = 0
  BY FileStoreAssumption
<1>2. k \in Nat /\ MaxFileBytes = BlockSize * k
  BY <1>1
<1>3. k \in Nat /\ MaxFileBytes = k * BlockSize
  BY <1>1, <1>2
<1>4. Logical = 0 .. k - 1
  BY DEF Logical
<1> HIDE DEF k
<1>5. /\ IsFiniteSet(Logical) /\ Cardinality(Logical) = k
  BY <1>3, <1>4, FS_Interval
<1>6. Logical \subseteq Nat
  BY <1>3, <1>4
<1> QED
  BY <1>3, <1>5, <1>6 DEF k

LEMMA EnoughLogical ==
  ASSUME NEW n \in 0 .. MaxFileBytes, NEW l \in Nat, l < BlocksFor(n)
  PROVE  l \in Logical
<1> DEFINE k == MaxFileBytes \div BlockSize
<1>1. n \in Nat /\ MaxFileBytes \in Nat /\ BlockSize \in Nat
  BY FileStoreAssumption
<1>2. /\ k \in Nat /\ MaxFileBytes = k * BlockSize
      /\ BlocksFor(n) \in Nat /\ BlocksFor(n) * BlockSize < n + BlockSize
  BY <1>1, BlocksForFacts, LogicalFacts
<1> HIDE DEF k
<1>3. (k + 1) * BlockSize = k * BlockSize + BlockSize
  BY <1>1, <1>2
<1>4. BlocksFor(n) * BlockSize \in Nat /\ k * BlockSize \in Nat
  BY <1>1, <1>2
<1>5. BlocksFor(n) * BlockSize < (k + 1) * BlockSize
  BY <1>1, <1>2, <1>3, <1>4
<1>6. BlocksFor(n) < k + 1
  BY <1>1, <1>2, <1>5, TimesCancels
<1> QED
  BY <1>2, <1>6 DEF Logical, k

-----------------------------------------------------------------------------
(* One inode as it grows. *)

LEMMA NewInodeFacts ==
  /\ NewInode \in Inode /\ Blank \in Inode
  /\ Owned(NewInode) = {} /\ Owned(Blank) = {}
  /\ Single(NewInode) /\ Single(Blank)
<1>1. 0 \in 0 .. MaxFileBytes /\ Hole = -1
  BY FileStoreAssumption DEF Hole
<1>2. NewInode \in Inode /\ Blank \in Inode
  BY <1>1 DEF NewInode, Blank, Inode
<1>3. Owned(NewInode) = {} /\ Owned(Blank) = {}
  BY DEF NewInode, Blank, Owned, MappedBlocks, StrayBlocks
<1>4. Single(NewInode) /\ Single(Blank)
  BY <1>1, <1>3 DEF NewInode, Blank, Single, Owned, MappedBlocks, StrayBlocks
<1> QED
  BY <1>2, <1>3, <1>4

\* The blocks that are granted are free and differ.
LEMMA GrantFacts ==
  ASSUME used \subseteq Blocks, NEW n \in Nat, NEW q \in Grants(n)
  PROVE  /\ q \in [1 .. n -> Free] /\ DOMAIN q = 1 .. n
         /\ BlocksOf(q) \subseteq Free /\ Free \subseteq Blocks
         /\ \A j, k \in 1 .. n : q[j] = q[k] => j = k
         /\ q = <<>> <=> n = 0
<1>1. q \in [1 .. n -> Free] /\ \A j, k \in 1 .. n : j < k => q[j] < q[k]
  BY DEF Grants, Pool!LowestFree
<1>2. Free \subseteq Blocks /\ Blocks \subseteq Nat
  BY FileStoreAssumption DEF Free, Blocks
<1>3. ASSUME NEW j \in 1 .. n, NEW k \in 1 .. n, q[j] = q[k]
      PROVE  j = k
  <2>1. q[j] \in Nat /\ q[k] \in Nat
    BY <1>1, <1>2
  <2>2. ~(j < k) /\ ~(k < j)
    BY <1>1, <1>3, <2>1
  <2> QED
    BY <2>2
<1>4. q = <<>> <=> n = 0
  <2>1. CASE n = 0
    BY <1>1, <2>1
  <2>2. CASE n # 0
    <3>1. 1 \in DOMAIN q
      BY <1>1, <2>2
    <3> QED
      BY <2>2, <3>1
  <2> QED
    BY <2>1, <2>2
<1> QED
  BY <1>1, <1>2, <1>3, <1>4 DEF BlocksOf

LEMMA NeededFacts ==
  ASSUME NEW i \in Inode, NEW end \in 0 .. MaxFileBytes
  PROVE  /\ Needed(i, end) \in Nat /\ BlocksFor(i.size) \in Nat
         /\ i.size <= MaxFileBytes /\ i.size \in Nat /\ end \in Nat
         /\ end <= i.size => Needed(i, end) = 0
         /\ end > i.size => BlocksFor(i.size) + Needed(i, end) = BlocksFor(end)
<1>1. /\ i.size \in Nat /\ end \in Nat /\ i.size <= MaxFileBytes
  BY FileStoreAssumption DEF Inode
<1>2. BlocksFor(i.size) \in Nat /\ BlocksFor(end) \in Nat
  BY <1>1, BlocksForFacts
<1>3. Needed(i, end) \in Nat
  BY <1>2 DEF Needed, Larger
<1>4. CASE end <= i.size
  <2>1. BlocksFor(end) <= BlocksFor(i.size)
    BY <1>1, <1>4, BlocksForMonotone
  <2> QED
    BY <1>1, <1>2, <1>3, <1>4, <2>1 DEF Needed, Larger
<1>5. CASE end > i.size
  <2>1. BlocksFor(i.size) <= BlocksFor(end)
    BY <1>1, <1>5, BlocksForMonotone
  <2> QED
    BY <1>1, <1>2, <1>3, <1>5, <2>1 DEF Needed, Larger
<1> QED
  BY <1>1, <1>4, <1>5

\* One extent is pushed for each block.
LEMMA PushedFacts ==
  ASSUME used \subseteq Blocks, 0 \in used,
         NEW i \in Inode, Single(i), Owned(i) \subseteq used,
         NEW end \in 0 .. MaxFileBytes, NEW q \in Grants(Needed(i, end))
  PROVE  /\ Pushed(i, q) \in Inode /\ Single(Pushed(i, q))
         /\ Owned(Pushed(i, q)) = Owned(i) \cup BlocksOf(q)
         /\ Pushed(i, q).map = i.map /\ Pushed(i, q).size = i.size
         /\ Pushed(i, q).live = i.live /\ Pushed(i, q).allocated = i.allocated
         /\ \A s \in Pushed(i, q).stray : s \in i.stray \/ s.block \in BlocksOf(q)
<1> DEFINE n == Needed(i, end)
           new == {[logical |-> BlocksFor(i.size) + k - 1, block |-> q[k]] : k \in 1 .. n}
           p == Pushed(i, q)
<1>1. /\ n \in Nat /\ BlocksFor(i.size) \in Nat /\ end \in Nat /\ i.size \in Nat
      /\ end <= i.size => n = 0
      /\ end > i.size => BlocksFor(i.size) + n = BlocksFor(end)
  BY NeededFacts
<1>2. /\ q \in [1 .. n -> Free] /\ DOMAIN q = 1 .. n
      /\ BlocksOf(q) \subseteq Free /\ Free \subseteq Blocks
      /\ \A j, k \in 1 .. n : q[j] = q[k] => j = k
  BY <1>1, GrantFacts
<1>3. p = [i EXCEPT !.stray = i.stray \cup new]
  <2>1. new = {[logical |-> BlocksFor(i.size) + k - 1, block |-> q[k]] : k \in DOMAIN q}
    BY <1>2
  <2> HIDE DEF new
  <2> QED
    BY <2>1 DEF Pushed
<1>3b. BlocksOf(q) = {s.block : s \in new}
  <2> HIDE DEF n
  <2>1. ASSUME NEW b \in BlocksOf(q) PROVE b \in {s.block : s \in new}
    <3>1. PICK k \in 1 .. n : b = q[k]
      BY <1>2 DEF BlocksOf
    <3>2. [logical |-> BlocksFor(i.size) + k - 1, block |-> q[k]] \in new
      OBVIOUS
    <3> HIDE DEF new
    <3> QED
      BY <3>1, <3>2
  <2>2. ASSUME NEW s \in new PROVE s.block \in BlocksOf(q)
    BY <1>2 DEF BlocksOf
  <2> HIDE DEF new
  <2> QED
    BY <2>1, <2>2
<1>4. ASSUME NEW k \in 1 .. n
      PROVE  BlocksFor(i.size) + k - 1 \in Logical /\ q[k] \in Free
  <2>1. end > i.size
    BY <1>1
  <2>2. BlocksFor(i.size) + k - 1 \in Nat /\ BlocksFor(i.size) + k - 1 < BlocksFor(end)
    BY <1>1, <2>1
  <2> QED
    BY <1>2, <2>2, EnoughLogical
<1>5. new \subseteq [logical : Logical, block : Free]
  BY <1>4
<1> HIDE DEF n, new, p
<1>6. /\ p.stray = i.stray \cup new /\ p.map = i.map /\ p.size = i.size
      /\ p.live = i.live /\ p.allocated = i.allocated
  BY <1>3 DEF Inode
<1>7. p \in Inode
  BY <1>2, <1>3, <1>5 DEF Inode
<1>8. StrayBlocks(p) = StrayBlocks(i) \cup BlocksOf(q) /\ MappedBlocks(p) = MappedBlocks(i)
  BY <1>6, <1>3b DEF StrayBlocks, MappedBlocks
<1>9. Owned(p) = Owned(i) \cup BlocksOf(q)
  BY <1>8 DEF Owned
<1>10. Single(p)
  <2>1. 0 \notin Owned(p) /\ MappedBlocks(p) \cap StrayBlocks(p) = {}
    BY <1>2, <1>8, <1>9 DEF Single, Owned, Free
  <2>2. ASSUME NEW s \in p.stray, NEW t \in p.stray, s.block = t.block
        PROVE  s = t
    <3>1. ASSUME NEW u \in i.stray, NEW v \in new PROVE u.block # v.block
      BY <1>5 DEF Owned, StrayBlocks, Free
    <3>2. CASE s \in new /\ t \in new
      BY <1>2, <2>2, <3>2 DEF new
    <3> QED
      BY <1>6, <2>2, <3>1, <3>2 DEF Single
  <2> QED
    BY <1>6, <2>1, <2>2 DEF Single
<1> QED
  BY <1>6, <1>7, <1>9, <1>10, <1>3b DEF p

\* normalize() puts each pushed extent where nothing was.
LEMMA NormalizedMap ==
  ASSUME NEW j \in Inode, NoOverlap(j)
  PROVE  LET n == Normalized(j) IN
         /\ n \in Inode /\ n.stray = {} /\ n.size = j.size /\ n.live = j.live
         /\ n.allocated = j.allocated
         /\ \A s \in j.stray : /\ s.logical \in Logical /\ s.block \in Blocks
                               /\ j.map[s.logical] = Hole /\ n.map[s.logical] = s.block
         /\ \A l \in Logical : (\A s \in j.stray : s.logical # l) => n.map[l] = j.map[l]
<1> DEFINE n == Normalized(j)
<1>1. /\ j.stray \subseteq [logical : Logical, block : Blocks]
      /\ j.map \in [Logical -> Blocks \cup {Hole, Sparse}]
  BY DEF Inode
<1>2. n.map = [l \in Logical |-> IF \E s \in j.stray : s.logical = l
                                THEN (CHOOSE s \in j.stray : s.logical = l).block
                                ELSE j.map[l]]
  BY DEF Normalized, Inode
<1>3. n.stray = {} /\ n.size = j.size /\ n.live = j.live /\ n.allocated = j.allocated
  BY DEF Normalized, Inode
<1>4. ASSUME NEW s \in j.stray
      PROVE  /\ s.logical \in Logical /\ s.block \in Blocks
             /\ j.map[s.logical] = Hole /\ n.map[s.logical] = s.block
  <2> DEFINE t == CHOOSE t \in j.stray : t.logical = s.logical
  <2>1. t \in j.stray /\ t.logical = s.logical
    OBVIOUS
  <2>2. t = s
    BY <2>1 DEF NoOverlap
  <2>3. s.logical \in Logical /\ s.block \in Blocks /\ j.map[s.logical] = Hole
    BY <1>1 DEF NoOverlap
  <2>4. n.map[s.logical] = t.block
    <3> HIDE DEF n
    <3> QED
      BY <1>2, <2>3
  <2> HIDE DEF t, n
  <2> QED
    BY <2>2, <2>3, <2>4
<1>5. ASSUME NEW l \in Logical, \A s \in j.stray : s.logical # l
      PROVE  n.map[l] = j.map[l]
  <2> HIDE DEF n
  <2> QED
    BY <1>2, <1>5
<1>6. n \in Inode
  <2>1. ASSUME NEW l \in Logical PROVE n.map[l] \in Blocks \cup {Hole, Sparse}
    <3> HIDE DEF n
    <3>1. CASE \E s \in j.stray : s.logical = l
      BY <1>4, <3>1
    <3>2. CASE ~\E s \in j.stray : s.logical = l
      BY <1>1, <1>5, <3>2
    <3> QED
      BY <3>1, <3>2
  <2>2. n.map \in [Logical -> Blocks \cup {Hole, Sparse}]
    <3> HIDE DEF n
    <3> QED
      BY <1>2, <2>1
  <2>3. n = [j EXCEPT !.map = n.map, !.stray = {}]
    BY DEF Normalized, Inode
  <2> HIDE DEF n
  <2> QED
    BY <2>2, <2>3 DEF Inode
<1> HIDE DEF n
<1> QED
  BY <1>3, <1>4, <1>5, <1>6 DEF n

\* The inode then owns what it owned.
LEMMA NormalizedOwns ==
  ASSUME NEW j \in Inode, NoOverlap(j), Single(j)
  PROVE  Single(Normalized(j)) /\ Owned(Normalized(j)) = Owned(j)
<1> DEFINE n == Normalized(j)
<1> HIDE DEF n
<1>1. /\ n \in Inode /\ n.stray = {}
      /\ \A s \in j.stray : /\ s.logical \in Logical /\ s.block \in Blocks
                            /\ j.map[s.logical] = Hole /\ n.map[s.logical] = s.block
      /\ \A l \in Logical : (\A s \in j.stray : s.logical # l) => n.map[l] = j.map[l]
  BY NormalizedMap DEF n
<1>2. /\ Blocks \subseteq Nat /\ Hole = -1 /\ Sparse = -2
      /\ \A l \in Logical : j.map[l] \in Blocks \cup {Hole, Sparse}
  BY FileStoreAssumption DEF Blocks, Hole, Sparse, Inode
<1>3. Owned(n) \subseteq Owned(j)
  <2>1. SUFFICES ASSUME NEW b \in Owned(n) PROVE b \in Owned(j)
    OBVIOUS
  <2>2. PICK l \in Logical : b = n.map[l] /\ b \notin {Hole, Sparse}
    BY <1>1 DEF Owned, MappedBlocks, StrayBlocks
  <2>3. CASE \E s \in j.stray : s.logical = l
    BY <1>1, <2>2, <2>3 DEF Owned, StrayBlocks
  <2>4. CASE ~\E s \in j.stray : s.logical = l
    BY <1>1, <2>2, <2>4 DEF Owned, MappedBlocks
  <2> QED
    BY <2>3, <2>4
<1>4. Owned(j) \subseteq Owned(n)
  <2>1. ASSUME NEW s \in j.stray PROVE s.block \in Owned(n)
    <3>1. s.block = n.map[s.logical] /\ s.block \notin {Hole, Sparse} /\ s.logical \in Logical
      BY <1>1, <1>2
    <3> QED
      BY <3>1 DEF Owned, MappedBlocks
  <2>2. ASSUME NEW l \in Logical, j.map[l] \notin {Hole, Sparse} PROVE j.map[l] \in Owned(n)
    <3>1. n.map[l] = j.map[l]
      BY <1>1, <2>2
    <3> QED
      BY <2>2, <3>1 DEF Owned, MappedBlocks
  <2> QED
    BY <2>1, <2>2 DEF Owned, MappedBlocks, StrayBlocks
<1>5. ASSUME NEW l \in Logical, NEW k \in Logical, n.map[l] = n.map[k], n.map[l] >= 0
      PROVE  l = k
  <2>1. ASSUME NEW s \in j.stray, NEW m \in Logical, j.map[m] >= 0
        PROVE  j.map[m] # s.block
    <3>1. j.map[m] \notin {Hole, Sparse}
      BY <1>2, <2>1
    <3> QED
      BY <3>1 DEF Single, MappedBlocks, StrayBlocks
  <2>2. CASE \E s \in j.stray : s.logical = l
    <3>1. PICK s \in j.stray : s.logical = l
      BY <2>2
    <3>2. CASE \E t \in j.stray : t.logical = k
      BY <1>1, <1>5, <3>1, <3>2 DEF Single
    <3>3. CASE ~\E t \in j.stray : t.logical = k
      <4>1. n.map[k] = j.map[k] /\ n.map[l] = s.block
        BY <1>1, <3>1, <3>3
      <4> QED
        BY <1>5, <2>1, <4>1
    <3> QED
      BY <3>2, <3>3
  <2>3. CASE ~\E s \in j.stray : s.logical = l
    <3>1. n.map[l] = j.map[l]
      BY <1>1, <2>3
    <3>2. CASE \E t \in j.stray : t.logical = k
      <4>1. PICK t \in j.stray : t.logical = k
        BY <3>2
      <4>2. n.map[k] = t.block
        BY <1>1, <4>1
      <4> QED
        BY <1>5, <2>1, <3>1, <4>2
    <3>3. CASE ~\E t \in j.stray : t.logical = k
      BY <1>1, <1>5, <3>1, <3>3 DEF Single
    <3> QED
      BY <3>2, <3>3
  <2> QED
    BY <2>2, <2>3
<1>6. Owned(n) = Owned(j)
  BY <1>3, <1>4
<1> QED
  BY <1>1, <1>5, <1>6 DEF Single, StrayBlocks, n

\* The extents of an inode can be counted.
LEMMA CountFacts ==
  ASSUME NEW i \in Inode, Single(i)
  PROVE  /\ IsFiniteSet(i.stray) /\ Cardinality(i.stray) \in Nat
         /\ PhysicalCount(i) \in Nat
         /\ IsFiniteSet({l \in Logical : i.map[l] # Hole /\ ~Continues(i.map, l)})
         /\ Runs(i.map) \in Nat /\ ExtentCount(i) \in Nat
<1>1. IsFiniteSet(Blocks)
  BY FileStoreAssumption, FS_Interval DEF Blocks
<1> DEFINE f == [s \in i.stray |-> s.block]
<1>2. f \in Injection(i.stray, Blocks)
  BY DEF Injection, IsInjective, Inode, Single
<1>3. IsFiniteSet(i.stray) /\ Cardinality(i.stray) \in Nat
  BY <1>1, <1>2, FS_Injection, FS_CardinalityType
<1>4. ASSUME NEW S, S \subseteq Logical
      PROVE  IsFiniteSet(S) /\ Cardinality(S) \in Nat
  BY <1>4, LogicalFacts, FS_Subset, FS_CardinalityType
<1> DEFINE M == {l \in Logical : i.map[l] >= 0}
           R == {l \in Logical : i.map[l] # Hole /\ ~Continues(i.map, l)}
<1>5. M \subseteq Logical /\ R \subseteq Logical
  OBVIOUS
<1>6. PhysicalCount(i) = Cardinality(M) + Cardinality(i.stray)
  BY DEF PhysicalCount
<1>7. Runs(i.map) = Cardinality(R) /\ ExtentCount(i) = Cardinality(R) + Cardinality(i.stray)
  BY DEF Runs, ExtentCount
<1> HIDE DEF M, R
<1>8. IsFiniteSet(R) /\ Cardinality(R) \in Nat /\ Cardinality(M) \in Nat
  BY <1>4, <1>5
<1>9. PhysicalCount(i) \in Nat /\ Runs(i.map) \in Nat /\ ExtentCount(i) \in Nat
  BY <1>3, <1>6, <1>7, <1>8
<1> QED
  BY <1>3, <1>8, <1>9 DEF R

\* What resize_inode makes of an inode when it succeeds: the new blocks and
\* those of pushed extents go where there were none.
LEMMA ResizedFacts ==
  ASSUME used \subseteq Blocks, 0 \in used,
         NEW i \in Inode, Single(i), Owned(i) \subseteq used,
         NEW end \in 0 .. MaxFileBytes, NEW q \in Grants(Needed(i, end)), GrowOK(i, q)
  PROVE  LET r == Resized(i, end, q) IN
         /\ r \in Inode /\ Single(r) /\ Owned(r) = Owned(i) \cup BlocksOf(q)
         /\ r.live = i.live /\ r.size = Larger(i.size, end)
         /\ r.stray \subseteq i.stray
         /\ \A l \in Logical : \/ r.map[l] = i.map[l]
                               \/ i.map[l] = Hole /\ r.map[l] \in StrayBlocks(i) \cup BlocksOf(q)
<1> DEFINE p == Pushed(i, q)
           n == IF q = <<>> THEN i ELSE Normalized(p)
           r == Resized(i, end, q)
<1>1. /\ p \in Inode /\ Single(p) /\ Owned(p) = Owned(i) \cup BlocksOf(q)
      /\ p.map = i.map /\ p.size = i.size /\ p.live = i.live
      /\ \A s \in p.stray : s \in i.stray \/ s.block \in BlocksOf(q)
  BY PushedFacts
<1>2. end \in Nat /\ i.size \in Nat /\ Needed(i, end) \in Nat
      /\ i.size <= MaxFileBytes /\ (end <= i.size => Needed(i, end) = 0)
  BY NeededFacts
<1>3. q = <<>> => BlocksOf(q) = {}
  BY DEF BlocksOf
<1>4. /\ n \in Inode /\ Single(n) /\ Owned(n) = Owned(i) \cup BlocksOf(q)
      /\ n.live = i.live /\ n.size = i.size /\ n.stray \subseteq i.stray
      /\ \A l \in Logical : \/ n.map[l] = i.map[l]
                            \/ i.map[l] = Hole /\ n.map[l] \in StrayBlocks(i) \cup BlocksOf(q)
  <2>1. CASE q = <<>>
    <3>1. n = i
      BY <2>1
    <3> HIDE DEF n, p
    <3> QED
      BY <1>3, <2>1, <3>1
  <2>2. CASE q # <<>>
    <3>1. NoOverlap(p)
      BY <2>2 DEF GrowOK, CanNormalize
    <3>2. n = Normalized(p)
      BY <2>2
    <3> HIDE DEF n, p
    <3>3. /\ n \in Inode /\ n.stray = {} /\ n.size = p.size /\ n.live = p.live
          /\ \A s \in p.stray : s.logical \in Logical /\ p.map[s.logical] = Hole
                                /\ n.map[s.logical] = s.block
          /\ \A l \in Logical : (\A s \in p.stray : s.logical # l) => n.map[l] = p.map[l]
      BY <1>1, <3>1, <3>2, NormalizedMap
    <3>4. Single(n) /\ Owned(n) = Owned(p)
      BY <1>1, <3>1, <3>2, NormalizedOwns
    <3>5. ASSUME NEW l \in Logical
          PROVE  \/ n.map[l] = i.map[l]
                 \/ i.map[l] = Hole /\ n.map[l] \in StrayBlocks(i) \cup BlocksOf(q)
      <4>1. CASE \E s \in p.stray : s.logical = l
        <5>1. PICK s \in p.stray : s.logical = l
          BY <4>1
        <5>2. n.map[l] = s.block /\ i.map[l] = Hole
          BY <1>1, <3>3, <5>1
        <5> QED
          BY <1>1, <5>2 DEF StrayBlocks
      <4>2. CASE ~\E s \in p.stray : s.logical = l
        BY <1>1, <3>3, <4>2
      <4> QED
        BY <4>1, <4>2
    <3>6. n.stray \subseteq i.stray
      BY <3>3
    <3> QED
      BY <1>1, <3>3, <3>4, <3>5, <3>6
  <2> HIDE DEF n, p
  <2> QED
    BY <2>1, <2>2
<1>5. CASE end > i.size
  <2>1. r = [n EXCEPT !.size = end, !.allocated = PhysicalCount(n)]
    BY <1>5 DEF Resized, Grown
  <2> HIDE DEF n, r
  <2>2. PhysicalCount(n) \in Nat
    BY <1>4, CountFacts
  <2>3. r \in Inode /\ r.map = n.map /\ r.stray = n.stray /\ r.size = end /\ r.live = n.live
    BY <1>2, <1>4, <2>1, <2>2 DEF Inode
  <2>4. Single(r) /\ Owned(r) = Owned(n)
    BY <1>4, <2>3 DEF Single, Owned, MappedBlocks, StrayBlocks
  <2>5. r.size = Larger(i.size, end)
    BY <1>2, <1>5, <2>3 DEF Larger
  <2> QED
    BY <1>4, <2>3, <2>4, <2>5 DEF r
<1>6. CASE end <= i.size
  <2>1. r = i /\ q = <<>>
    BY <1>2, <1>6, GrantFacts DEF Resized
  <2>2. Owned(r) = Owned(i) \cup BlocksOf(q)
    BY <1>3, <2>1
  <2>3. r.size = Larger(i.size, end)
    BY <1>2, <1>6, <2>1 DEF Larger
  <2> HIDE DEF r, n, p
  <2> QED
    BY <2>1, <2>2, <2>3 DEF r
<1> HIDE DEF r, n, p
<1> QED
  BY <1>2, <1>5, <1>6 DEF r

\* Merging the pushed extents does not make a list longer: a run of blocks starts
\* where one started before or at a pushed extent.
LEMMA RunsAfter ==
  ASSUME NEW p \in Inode, Single(p), NoOverlap(p)
  PROVE  ExtentCount(Normalized(p)) <= ExtentCount(p)
<1> DEFINE n == Normalized(p)
           old == {l \in Logical : p.map[l] # Hole /\ ~Continues(p.map, l)}
           new == {l \in Logical : n.map[l] # Hole /\ ~Continues(n.map, l)}
           at == {s.logical : s \in p.stray}
           g == [s \in p.stray |-> s.logical]
<1>1. /\ n \in Inode /\ n.stray = {}
      /\ \A s \in p.stray : s.logical \in Logical /\ p.map[s.logical] = Hole
      /\ \A l \in Logical : (\A s \in p.stray : s.logical # l) => n.map[l] = p.map[l]
  BY NormalizedMap
<1>2. ExtentCount(p) = Cardinality(old) + Cardinality(p.stray)
  BY DEF ExtentCount, Runs
<1>3. ExtentCount(n) = Cardinality(new) + Cardinality({})
  <2>1. ExtentCount(n) = Cardinality(new) + Cardinality(n.stray)
    BY DEF ExtentCount, Runs
  <2> HIDE DEF n, new
  <2> QED
    BY <1>1, <2>1
<1>4. /\ IsFiniteSet(p.stray) /\ Cardinality(p.stray) \in Nat
      /\ IsFiniteSet(old) /\ Cardinality(old) \in Nat
  BY CountFacts, FS_CardinalityType
<1>5. IsFiniteSet(at) /\ Cardinality(at) <= Cardinality(p.stray) /\ Cardinality(at) \in Nat
  <2>1. g \in Surjection(p.stray, at)
    BY DEF Surjection
  <2> QED
    BY <1>4, <2>1, FS_Surjection, FS_CardinalityType
<1>6. new \subseteq old \cup at
  <2>1. SUFFICES ASSUME NEW l \in Logical, n.map[l] # Hole, ~Continues(n.map, l), l \notin at
                 PROVE  l \in old
    OBVIOUS
  <2>2. n.map[l] = p.map[l]
    BY <1>1, <2>1
  <2>3. CASE Continues(p.map, l)
    <3>1. l > 0 /\ l - 1 \in Logical /\ Hole = -1 /\ Sparse = -2
      BY <2>3, LogicalFacts DEF Continues, Logical, Hole, Sparse
    <3>2. p.map[l - 1] # Hole
      BY <2>3, <3>1 DEF Continues
    <3>3. l - 1 \notin at
      BY <1>1, <3>2
    <3>4. n.map[l - 1] = p.map[l - 1]
      BY <1>1, <3>1, <3>3
    <3> HIDE DEF n
    <3> QED
      BY <2>1, <2>2, <2>3, <3>4 DEF Continues
  <2> QED
    BY <2>1, <2>2, <2>3
<1> HIDE DEF n, old, new, at
<1>7. /\ IsFiniteSet(old \cup at)
      /\ Cardinality(old \cup at) <= Cardinality(old) + Cardinality(at)
      /\ Cardinality(old \cup at) \in Nat
  <2>1. /\ IsFiniteSet(old \cup at)
        /\ Cardinality(old \cup at) =
             Cardinality(old) + Cardinality(at) - Cardinality(old \cap at)
    BY <1>4, <1>5, FS_Union
  <2>2. Cardinality(old \cap at) \in Nat /\ Cardinality(old \cup at) \in Nat
    BY <1>4, <2>1, FS_Intersection, FS_CardinalityType
  <2> QED
    BY <1>4, <1>5, <2>1, <2>2
<1>8. Cardinality(new) <= Cardinality(old \cup at) /\ Cardinality(new) \in Nat
  BY <1>6, <1>7, FS_Subset, FS_CardinalityType
<1>9. Cardinality({}) = 0
  BY FS_EmptySet
<1>10. ExtentCount(n) <= ExtentCount(p)
  BY <1>2, <1>3, <1>4, <1>5, <1>7, <1>8, <1>9
<1> QED
  BY <1>10 DEF n

\* resize_inode leaves the inode with the count and the size of its list.
LEMMA ResizedAccounted ==
  ASSUME used \subseteq Blocks, 0 \in used,
         NEW i \in Inode, Single(i), Owned(i) \subseteq used, i.live, Accounted(i),
         NEW end \in 0 .. MaxFileBytes, NEW q \in Grants(Needed(i, end)), GrowOK(i, q)
  PROVE  Accounted(Resized(i, end, q))
<1> DEFINE p == Pushed(i, q)
           n == IF q = <<>> THEN i ELSE Normalized(p)
           r == Resized(i, end, q)
<1>1. CASE ~(end > i.size)
  BY <1>1 DEF Resized
<1>2. CASE end > i.size
  <2>1. r = [n EXCEPT !.size = end, !.allocated = PhysicalCount(n)]
    BY <1>2 DEF Resized, Grown
  <2>2. n \in Inode /\ (n.stray = {} => ExtentCount(n) <= MaxExtents)
    <3>1. CASE q = <<>>
      <4>1. n = i
        BY <3>1
      <4> HIDE DEF n
      <4> QED
        BY <4>1 DEF Accounted, Encodable
    <3>2. CASE q # <<>>
      <4>1. /\ p \in Inode /\ Single(p)
        BY PushedFacts
      <4>2. ExtentCount(p) <= MaxExtents /\ NoOverlap(p)
        BY <3>2 DEF GrowOK, CanNormalize
      <4>3. n = Normalized(p)
        BY <3>2
      <4> HIDE DEF n, p
      <4>4. n \in Inode /\ ExtentCount(n) <= ExtentCount(p)
        BY <4>1, <4>2, <4>3, RunsAfter, NormalizedMap
      <4>5. ExtentCount(p) \in Nat /\ ExtentCount(n) \in Nat /\ MaxExtents \in Nat
        BY <4>1, <4>2, <4>3, CountFacts, NormalizedOwns, <4>4, FileStoreAssumption
      <4> QED
        BY <4>2, <4>4, <4>5
    <3> QED
      BY <3>1, <3>2
  <2> HIDE DEF n, r
  <2>3. r.map = n.map /\ r.stray = n.stray /\ r.allocated = PhysicalCount(n)
    BY <2>1, <2>2 DEF Inode
  <2>4. PhysicalCount(r) = PhysicalCount(n) /\ ExtentCount(r) = ExtentCount(n)
    BY <2>3 DEF PhysicalCount, ExtentCount, Runs
  <2>5. Accounted(r)
    BY <2>2, <2>3, <2>4 DEF Accounted, Encodable
  <2> QED
    BY <2>5 DEF r
<1> QED
  BY <1>1, <1>2

-----------------------------------------------------------------------------
(* The disk. *)

LEMMA DiskFacts ==
  /\ Blocks \subseteq Nat /\ Cells \subseteq Nat /\ Hole = -1 /\ Sparse = -2
  /\ BlockSize \in Nat \ {0} /\ 0 \in Blocks /\ 0 \in Bytes
  /\ \A c \in Cells : c < BlockSize
BY FileStoreAssumption DEF Blocks, Cells, Hole, Sparse, Bytes

LEMMA MappedFacts ==
  ASSUME NEW i \in Inode, NEW l \in Logical
  PROVE  /\ i.map[l] \in Blocks \cup {Hole, Sparse}
         /\ i.map[l] >= 0 <=> i.map[l] \in Blocks
         /\ i.map[l] >= 0 <=> i.map[l] \in MappedBlocks(i)
<1>1. i.map[l] \in Blocks \cup {Hole, Sparse}
  BY DEF Inode
<1>2. i.map[l] >= 0 <=> i.map[l] \in Blocks
  <2>1. CASE i.map[l] \in Blocks
    <3>1. i.map[l] \in Nat
      BY <2>1, DiskFacts
    <3> QED
      BY <2>1, <3>1
  <2>2. CASE i.map[l] = Hole
    BY <2>2, DiskFacts
  <2>3. CASE i.map[l] = Sparse
    BY <2>3, DiskFacts
  <2> QED
    BY <1>1, <2>1, <2>2, <2>3
<1>3. i.map[l] \in MappedBlocks(i) <=> i.map[l] \notin {Hole, Sparse}
  BY DEF MappedBlocks
<1>4. i.map[l] \in {Hole, Sparse} => i.map[l] \notin Blocks
  BY DiskFacts
<1> QED
  BY <1>1, <1>2, <1>3, <1>4

LEMMA ZeroedFacts ==
  ASSUME disk \in [Blocks -> [Cells -> Bytes]], NEW q
  PROVE  /\ Zeroed(q) \in [Blocks -> [Cells -> Bytes]]
         /\ \A b \in Blocks : b \notin BlocksOf(q) => Zeroed(q)[b] = disk[b]
         /\ \A b \in Blocks, c \in Cells : b \in BlocksOf(q) => Zeroed(q)[b][c] = 0
BY DiskFacts DEF Zeroed

\* write_inode_data puts v in the bytes from lo up to hi and changes no other.
LEMMA StoredFacts ==
  ASSUME NEW d \in [Blocks -> [Cells -> Bytes]], NEW i \in Inode, Single(i),
         NEW lo \in Nat, NEW hi \in Nat, NEW v \in Values
  PROVE  LET e == Stored(d, i, lo, hi, v) IN
         /\ e \in [Blocks -> [Cells -> Bytes]]
         /\ \A b \in Blocks : b \notin MappedBlocks(i) => e[b] = d[b]
         /\ \A l \in Logical, c \in Cells :
              i.map[l] >= 0 =>
                e[i.map[l]][c] = IF lo <= l * BlockSize + c /\ l * BlockSize + c < hi
                                 THEN v ELSE d[i.map[l]][c]
<1> DEFINE e == Stored(d, i, lo, hi, v)
           touched == {l \in Logical : i.map[l] >= 0 /\ l * BlockSize < hi
                                       /\ lo < (l + 1) * BlockSize}
           T(b) == CHOOSE l \in touched : i.map[l] = b
<1>1. e = [b \in Blocks |->
             IF \E l \in touched : i.map[l] = b
             THEN [c \in Cells |-> IF lo <= T(b) * BlockSize + c /\ T(b) * BlockSize + c < hi
                                   THEN v ELSE d[b][c]]
             ELSE d[b]]
  BY DEF Stored
<1>2. ASSUME NEW l \in touched PROVE T(i.map[l]) = l
  <2>1. T(i.map[l]) \in touched /\ i.map[T(i.map[l])] = i.map[l]
    OBVIOUS
  <2> QED
    BY <2>1 DEF Single
<1>3. v \in Bytes
  BY DEF Bytes
<1> HIDE DEF T, e
<1>4. ASSUME NEW b \in Blocks, ~\E l \in touched : i.map[l] = b PROVE e[b] = d[b]
  BY <1>1, <1>4
<1>5. ASSUME NEW l \in touched
      PROVE  /\ i.map[l] \in Blocks
             /\ e[i.map[l]] = [c \in Cells |-> IF lo <= l * BlockSize + c /\ l * BlockSize + c < hi
                                               THEN v ELSE d[i.map[l]][c]]
  <2>1. i.map[l] \in Blocks
    BY MappedFacts
  <2> HIDE DEF touched
  <2> QED
    BY <1>1, <1>2, <2>1
<1>6. e \in [Blocks -> [Cells -> Bytes]]
  <2>1. ASSUME NEW b \in Blocks PROVE e[b] \in [Cells -> Bytes]
    <3> HIDE DEF touched
    <3>1. CASE \E l \in touched : i.map[l] = b
      <4>1. PICK l \in touched : i.map[l] = b
        BY <3>1
      <4>2. e[b] = [c \in Cells |-> IF lo <= l * BlockSize + c /\ l * BlockSize + c < hi
                                    THEN v ELSE d[b][c]]
        BY <1>5, <4>1
      <4>3. d[b] \in [Cells -> Bytes]
        OBVIOUS
      <4> QED
        BY <1>3, <4>2, <4>3
    <3>2. CASE ~\E l \in touched : i.map[l] = b
      BY <1>4, <3>2
    <3> QED
      BY <3>1, <3>2
  <2> HIDE DEF touched
  <2> QED
    BY <1>1, <2>1
<1>7. ASSUME NEW b \in Blocks, b \notin MappedBlocks(i) PROVE e[b] = d[b]
  BY <1>4, <1>7, MappedFacts
<1>8. ASSUME NEW l \in Logical, NEW c \in Cells, i.map[l] >= 0
      PROVE  e[i.map[l]][c] = IF lo <= l * BlockSize + c /\ l * BlockSize + c < hi
                              THEN v ELSE d[i.map[l]][c]
  <2>1. i.map[l] \in Blocks
    BY <1>8, MappedFacts
  <2>2. CASE l \in touched
    <3> HIDE DEF touched, e
    <3>1. e[i.map[l]] = [x \in Cells |-> IF lo <= l * BlockSize + x /\ l * BlockSize + x < hi
                                         THEN v ELSE d[i.map[l]][x]]
      BY <1>5, <2>1, <2>2
    <3> QED
      BY Zenon, <3>1
  <2>3. CASE l \notin touched
    <3>1. ASSUME NEW k \in touched PROVE i.map[k] # i.map[l]
      BY <1>8, <2>3, <3>1 DEF Single
    <3>2. e[i.map[l]] = d[i.map[l]]
      BY <1>4, <2>1, <3>1
    <3> DEFINE a == l * BlockSize
    <3>3. a \in Nat /\ (l + 1) * BlockSize = a + BlockSize /\ c \in Nat /\ c < BlockSize
      BY DiskFacts, LogicalFacts
    <3>4. ~(a < hi /\ lo < a + BlockSize)
      BY <1>8, <2>3, <3>3
    <3> HIDE DEF a, touched
    <3>5. ~(lo <= a + c /\ a + c < hi)
      BY <3>3, <3>4, DiskFacts
    <3> QED
      BY <3>2, <3>5 DEF a
  <2> QED
    BY <2>2, <2>3
<1> QED
  BY <1>6, <1>7, <1>8 DEF e

LEMMA LeastNatural ==
  ASSUME NEW S, S \subseteq Nat, S # {}
  PROVE  \E x \in S : \A y \in S : x <= y
<1> DEFINE R == {p \in Nat \X Nat : p[1] < p[2]}
<1>1. IsWellFoundedOn(R, Nat)
  BY NatLessThanWellFounded DEF OpToRel
<1>2. \A x, y \in Nat : <<y, x>> \in R <=> y < x
  OBVIOUS
<1> HIDE DEF R
<1>3. PICK x \in S : \A y \in S : ~(<<y, x>> \in R)
  BY <1>1, WFMin
<1>4. ASSUME NEW y \in S PROVE x <= y
  <2>1. x \in Nat /\ y \in Nat /\ ~(<<y, x>> \in R)
    BY <1>3
  <2>2. ~(y < x)
    BY <1>2, <2>1
  <2> QED
    BY <2>1, <2>2
<1> QED
  BY <1>3, <1>4

\* Where a write stops.
LEMMA StopFacts ==
  ASSUME NEW i \in Inode, NEW off \in Nat, NEW end \in Nat, off <= end
  PROVE  Stop(i, off, end) \in off .. end
<1> DEFINE missing == {l \in off \div BlockSize .. BlocksFor(end) - 1 : i.map[l] < 0}
           m == CHOOSE l \in missing : \A k \in missing : l <= k
<1>1. BlockSize \in Nat \ {0} /\ off \div BlockSize \in Nat
  BY FileStoreAssumption
<1>2. BlocksFor(end) \in Nat /\ BlocksFor(end) * BlockSize < end + BlockSize
  BY BlocksForFacts
<1>3. CASE off = end \/ missing = {}
  BY <1>3 DEF Stop
<1>4. CASE off # end /\ missing # {}
  <2>1. Stop(i, off, end) = Larger(off, BlockSize * m)
    BY <1>4 DEF Stop
  <2>2. missing \subseteq Nat
    BY <1>1, <1>2
  <2>3. \E l \in missing : \A k \in missing : l <= k
    <3> HIDE DEF missing
    <3> QED
      BY <1>4, <2>2, LeastNatural
  <2>4. m \in missing
    <3> HIDE DEF missing
    <3> QED
      BY <2>3
  <2>5. m \in Nat /\ m + 1 <= BlocksFor(end)
    BY <1>1, <1>2, <2>4
  <2> HIDE DEF m
  <2>6. (m + 1) * BlockSize <= BlocksFor(end) * BlockSize
    BY <1>1, <1>2, <2>5, TimesMonotone
  <2>7. (m + 1) * BlockSize = BlockSize * m + BlockSize /\ BlockSize * m \in Nat
    BY <1>1, <2>5
  <2>8. BlocksFor(end) * BlockSize \in Nat
    BY <1>1, <1>2
  <2>9. BlockSize * m < end
    BY <1>1, <1>2, <2>6, <2>7, <2>8
  <2> QED
    BY <2>1, <2>7, <2>9 DEF Larger
<1> QED
  BY <1>3, <1>4

-----------------------------------------------------------------------------
(* What an operation has to show of the file it changes. *)

LEMMA Owners ==
  ASSUME IInv
  PROVE  /\ used \subseteq Blocks /\ 0 \in used
         /\ disk \in [Blocks -> [Cells -> Bytes]]
         /\ \A f \in Files :
              /\ inode[f] \in Inode /\ Single(inode[f]) /\ Owned(inode[f]) \subseteq used
              /\ SlackIsZero(inode[f], disk) /\ StrayIsZero(inode[f], disk)
              /\ Accounted(inode[f]) /\ (inode[f].live \/ inode[f] = Blank)
              /\ \A g \in Files : f # g => Owned(inode[f]) \cap Owned(inode[g]) = {}
<1>1. used \subseteq Blocks /\ disk \in [Blocks -> [Cells -> Bytes]]
  BY DEF IInv, TypeOK
<1>2. used = {0} \cup UNION {Owned(inode[f]) : f \in Files}
  BY DEF IInv, BlockOwnership, OwnedByFiles
<1>3. ASSUME NEW f \in Files
      PROVE  inode[f] \in Inode /\ Single(inode[f]) /\ Owned(inode[f]) \subseteq used
  <2>1. inode[f] \in Inode
    BY DEF IInv, TypeOK
  <2>2. Owned(inode[f]) \subseteq used
    BY <1>2
  <2> QED
    BY <2>1, <2>2 DEF IInv, BlockOwnership, OwnedOnce, Single
<1>4. ASSUME NEW f \in Files, NEW g \in Files, f # g
      PROVE  Owned(inode[f]) \cap Owned(inode[g]) = {}
  BY <1>4 DEF IInv, BlockOwnership, OwnedOnce
<1>5. 0 \in used
  BY <1>2
<1>6. ASSUME NEW f \in Files
      PROVE  /\ SlackIsZero(inode[f], disk) /\ StrayIsZero(inode[f], disk)
             /\ Accounted(inode[f]) /\ (inode[f].live \/ inode[f] = Blank)
  BY DEF IInv, NoStaleTail
<1> QED
  BY <1>1, <1>3, <1>4, <1>5, <1>6

\* The bytes that the invariant wants to be zero are in blocks that are owned.
LEMMA SameBlocks ==
  ASSUME NEW i \in Inode, NEW d, NEW e, \A b \in Owned(i) : e[b] = d[b]
  PROVE  /\ SlackIsZero(i, d) => SlackIsZero(i, e)
         /\ StrayIsZero(i, d) => StrayIsZero(i, e)
<1>1. \A l \in Logical : i.map[l] >= 0 => i.map[l] \in Owned(i)
  BY MappedFacts DEF Owned
<1>2. \A s \in i.stray : s.block \in Owned(i)
  BY DEF Owned, StrayBlocks
<1>3. SlackIsZero(i, d) => SlackIsZero(i, e)
  BY <1>1 DEF SlackIsZero
<1>4. StrayIsZero(i, d) => StrayIsZero(i, e)
  BY <1>2 DEF StrayIsZero
<1> QED
  BY <1>3, <1>4

\* An inode that is sound, with blocks of its own or that were free, takes the
\* place of the one of its file.
LEMMA Replaced ==
  ASSUME IInv, NEW f \in Files, NEW i \in Inode, Single(i), i.live \/ i = Blank,
         inode' = [inode EXCEPT ![f] = i], outcome' \in Outcomes,
         used' = (used \ Owned(inode[f])) \cup Owned(i),
         Owned(i) \subseteq Owned(inode[f]) \cup Free,
         disk' \in [Blocks -> [Cells -> Bytes]],
         SlackIsZero(i, disk'), StrayIsZero(i, disk'), Accounted(i),
         \A g \in Files \ {f} : \A b \in Owned(inode[g]) : disk'[b] = disk[b]
  PROVE  IInv'
<1>1. inode' \in [Files -> Inode] /\ inode'[f] = i
  BY DEF IInv, TypeOK
<1>2. \A g \in Files \ {f} : inode'[g] = inode[g]
  BY DEF IInv, TypeOK
<1>3. ASSUME NEW g \in Files \ {f}
      PROVE  Owned(inode[g]) \cap Owned(i) = {}
  <2>1. Owned(inode[g]) \cap Owned(inode[f]) = {} /\ Owned(inode[g]) \subseteq used
    BY Owners
  <2> QED
    BY <2>1 DEF Free
<1>4. TypeOK'
  <2>1. used \subseteq Blocks /\ Owned(inode[f]) \subseteq used /\ Free \subseteq Blocks
    BY Owners DEF Free
  <2>2. used' \subseteq Blocks
    BY <2>1
  <2> QED
    BY <1>1, <2>2 DEF TypeOK
<1>5. used' = OwnedByFiles(inode')
  <2>1. used = {0} \cup UNION {Owned(inode[g]) : g \in Files}
    BY DEF IInv, BlockOwnership, OwnedByFiles
  <2>2. 0 \notin Owned(inode[f])
    BY Owners DEF Single
  <2>3. \A g \in Files \ {f} : Owned(inode[g]) \cap Owned(inode[f]) = {}
    BY Owners
  <2>4. \A b : b \in used' <=> b = 0 \/ \E g \in Files : b \in Owned(inode'[g])
    BY <1>1, <1>2, <2>1, <2>2, <2>3
  <2> QED
    BY <2>4 DEF OwnedByFiles
<1>6. ASSUME NEW g \in Files
      PROVE  /\ Single(inode'[g]) /\ inode'[g] \in Inode
             /\ SlackIsZero(inode'[g], disk') /\ StrayIsZero(inode'[g], disk')
             /\ Accounted(inode'[g]) /\ (inode'[g].live \/ inode'[g] = Blank)
  <2>1. CASE g = f
    BY <1>1, <2>1
  <2>2. CASE g # f
    <3>1. inode'[g] = inode[g] /\ \A b \in Owned(inode[g]) : disk'[b] = disk[b]
      BY <1>2, <2>2
    <3> QED
      BY <3>1, Owners, SameBlocks
  <2> QED
    BY <2>1, <2>2
<1>7. ASSUME NEW g \in Files, NEW h \in Files, g # h
      PROVE  Owned(inode'[g]) \cap Owned(inode'[h]) = {}
  <2>1. CASE g = f
    BY <1>1, <1>2, <1>3, <1>7, <2>1
  <2>2. CASE h = f
    BY <1>1, <1>2, <1>3, <1>7, <2>2
  <2>3. CASE g # f /\ h # f
    BY <1>2, <1>7, <2>3, Owners
  <2> QED
    BY <2>1, <2>2, <2>3
<1>8. BlockOwnership'
  <2>1. OwnedOnce(inode')
    BY <1>6, <1>7 DEF OwnedOnce, Single
  <2> QED
    BY <1>5, <1>6, <2>1 DEF BlockOwnership, Single
<1>9. NoStaleTail'
  BY <1>6 DEF NoStaleTail
<1> QED
  BY <1>4, <1>6, <1>8, <1>9 DEF IInv

\* resize_inode and write_inode_data keep the bytes beyond the end zero: what
\* they put there comes from blocks that have just been zeroed.
LEMMA Written ==
  ASSUME IInv, NEW f \in Files, NEW i \in Inode,
         Single(i), Owned(i) = Owned(inode[f]), i.live,
         SlackIsZero(i, disk), StrayIsZero(i, disk), Accounted(i),
         NEW end \in 0 .. MaxFileBytes, NEW q \in Grants(Needed(i, end)), GrowOK(i, q),
         NEW lo \in Nat, NEW hi \in Nat, hi <= end, NEW v \in Values,
         inode' = [inode EXCEPT ![f] = Resized(i, end, q)],
         disk' = Stored(Zeroed(q), Resized(i, end, q), lo, hi, v),
         used' = used \cup BlocksOf(q), outcome' \in Outcomes
  PROVE  IInv'
<1> DEFINE r == Resized(i, end, q)
           d == Zeroed(q)
<1>1. /\ used \subseteq Blocks /\ 0 \in used /\ Owned(i) \subseteq used
      /\ disk \in [Blocks -> [Cells -> Bytes]]
  BY Owners
<1>2. /\ r \in Inode /\ Single(r) /\ Owned(r) = Owned(i) \cup BlocksOf(q)
      /\ r.live = i.live /\ r.size = Larger(i.size, end) /\ r.stray \subseteq i.stray
      /\ \A l \in Logical : \/ r.map[l] = i.map[l]
                            \/ r.map[l] \in StrayBlocks(i) \cup BlocksOf(q)
  BY <1>1, ResizedFacts
<1>3. Accounted(r)
  BY <1>1, ResizedAccounted
<1>4. BlocksOf(q) \subseteq Free /\ Needed(i, end) \in Nat /\ i.size \in Nat /\ end \in Nat
  BY <1>1, GrantFacts, NeededFacts
<1>5. /\ d \in [Blocks -> [Cells -> Bytes]]
      /\ \A b \in Blocks : b \notin BlocksOf(q) => d[b] = disk[b]
      /\ \A b \in Blocks, c \in Cells : b \in BlocksOf(q) => d[b][c] = 0
  BY <1>1, ZeroedFacts
<1> HIDE DEF r, d
<1>6. /\ disk' \in [Blocks -> [Cells -> Bytes]]
      /\ \A b \in Blocks : b \notin MappedBlocks(r) => disk'[b] = d[b]
      /\ \A l \in Logical, c \in Cells :
           r.map[l] >= 0 =>
             disk'[r.map[l]][c] = IF lo <= l * BlockSize + c /\ l * BlockSize + c < hi
                                  THEN v ELSE d[r.map[l]][c]
  <2>1. disk' = Stored(d, r, lo, hi, v)
    BY DEF r, d
  <2> QED
    BY <1>2, <1>5, <2>1, StoredFacts
<1>7. StrayIsZero(r, disk')
  <2>1. SUFFICES ASSUME NEW s \in r.stray, NEW c \in Cells PROVE disk'[s.block][c] = 0
    BY DEF StrayIsZero
  <2>2. s.block \in Blocks /\ s \in i.stray /\ s.block \notin MappedBlocks(r)
    BY <1>2 DEF Inode, Single, StrayBlocks
  <2>3. s.block \notin BlocksOf(q)
    BY <1>1, <1>4, <2>2 DEF Owned, StrayBlocks, Free
  <2> QED
    BY <1>5, <1>6, <2>2, <2>3 DEF StrayIsZero
<1>8. SlackIsZero(r, disk')
  <2>1. SUFFICES ASSUME NEW l \in Logical, NEW c \in Cells,
                        r.map[l] >= 0, l * BlockSize + c >= r.size
                 PROVE  disk'[r.map[l]][c] = 0
    BY DEF SlackIsZero
  <2> DEFINE at == l * BlockSize + c
  <2>2. at \in Nat
    BY LogicalFacts, DiskFacts
  <2>3. r.size >= end /\ r.size >= i.size /\ r.size \in Nat
    BY <1>2, <1>4 DEF Larger
  <2>4. at >= hi /\ at >= i.size
    <3> HIDE DEF at
    <3>1. at >= r.size
      BY <2>1 DEF at
    <3> QED
      BY <1>4, <2>2, <2>3, <3>1
  <2>5. disk'[r.map[l]][c] = d[r.map[l]][c]
    <3>1. ~(at < hi)
      BY <2>2, <2>4
    <3> QED
      BY <1>6, <2>1, <3>1
  <2>6. r.map[l] \in Blocks
    BY <1>2, <2>1, MappedFacts
  <2>7. CASE r.map[l] \in BlocksOf(q)
    BY <1>5, <2>5, <2>6, <2>7
  <2>8. CASE r.map[l] \notin BlocksOf(q)
    <3>1. d[r.map[l]] = disk[r.map[l]]
      BY <1>5, <2>6, <2>8
    <3>2. CASE r.map[l] = i.map[l]
      BY <2>1, <2>4, <2>5, <3>1, <3>2 DEF SlackIsZero
    <3>3. CASE r.map[l] \in StrayBlocks(i)
      BY <2>5, <3>1, <3>3 DEF StrayIsZero, StrayBlocks
    <3> QED
      BY <1>2, <2>8, <3>2, <3>3
  <2> QED
    BY <2>7, <2>8
<1>9. ASSUME NEW g \in Files \ {f}, NEW b \in Owned(inode[g])
      PROVE  disk'[b] = disk[b]
  <2>1. b \in used /\ b \notin Owned(i) /\ b \in Blocks
    BY <1>1, Owners
  <2>2. b \notin BlocksOf(q)
    BY <1>4, <2>1 DEF Free
  <2>3. b \notin MappedBlocks(r)
    BY <1>2, <2>1, <2>2 DEF Owned
  <2> QED
    BY <1>5, <1>6, <2>1, <2>2, <2>3
<1>10. used' = (used \ Owned(inode[f])) \cup Owned(r)
  BY <1>1, <1>2
<1>11. inode' = [inode EXCEPT ![f] = r]
  BY DEF r
<1> QED
  BY <1>2, <1>3, <1>4, <1>6, <1>7, <1>8, <1>9, <1>10, <1>11, Replaced

\* An operation that takes free blocks and gives them back has zeroed them.
LEMMA ZeroedOnly ==
  ASSUME IInv, NEW q, BlocksOf(q) \subseteq Free,
         disk' = Zeroed(q), outcome' \in Outcomes, UNCHANGED <<used, inode>>
  PROVE  IInv'
<1>1. /\ disk' \in [Blocks -> [Cells -> Bytes]]
      /\ \A b \in Blocks : b \notin BlocksOf(q) => disk'[b] = disk[b]
  BY Owners, ZeroedFacts
<1>2. ASSUME NEW f \in Files
      PROVE  SlackIsZero(inode[f], disk') /\ StrayIsZero(inode[f], disk')
  <2>1. \A b \in Owned(inode[f]) : disk'[b] = disk[b]
    BY <1>1, Owners DEF Free
  <2> QED
    BY <2>1, Owners, SameBlocks
<1>3. TypeOK'
  BY <1>1 DEF IInv, TypeOK
<1>4. BlockOwnership'
  BY DEF IInv, BlockOwnership
<1>5. NoStaleTail'
  BY <1>2 DEF NoStaleTail
<1> QED
  BY <1>2, <1>3, <1>4, <1>5 DEF IInv

-----------------------------------------------------------------------------
(* The induction. *)

LEMMA Initially == Init => IInv
<1> SUFFICES ASSUME Init PROVE IInv
  OBVIOUS
<1> DEFINE Sound(i) == i = Blank \/ (i.live /\ Valid(i))
<1>1. /\ inode \in [Files -> Inode] /\ disk \in [Blocks -> [Cells -> Bytes]]
      /\ \A f \in Files : Sound(inode[f]) /\ SlackIsZero(inode[f], disk)
      /\ OwnedOnce(inode)
  <2>1. CASE /\ inode = [f \in Files |-> Blank]
             /\ disk = [b \in Blocks |-> [c \in Cells |-> 0]]
    <3>1. \A f \in Files : inode[f] = Blank /\ Single(inode[f]) /\ Owned(inode[f]) = {}
      BY <2>1, NewInodeFacts
    <3>2. \A f \in Files : SlackIsZero(inode[f], disk)
      BY <2>1, NewInodeFacts, MappedFacts DEF SlackIsZero
    <3>3. OwnedOnce(inode)
      BY <3>1 DEF OwnedOnce, Single
    <3> QED
      BY <2>1, <3>1, <3>2, <3>3, NewInodeFacts, DiskFacts
  <2>2. CASE \E image \in Images : /\ SoundImage(image)
                                   /\ inode = image.inode /\ disk = image.disk
    BY <2>2, ImagesAssumption DEF SoundImage
  <2> QED
    BY <2>1, <2>2 DEF Init
<1>2. ASSUME NEW f \in Files
      PROVE  /\ inode[f].live \/ inode[f] = Blank
             /\ inode[f].stray = {} /\ Accounted(inode[f])
  <2>1. CASE inode[f] = Blank
    BY <2>1 DEF Blank, NewInode, Accounted
  <2>2. CASE inode[f].live /\ Valid(inode[f])
    BY <2>2 DEF Valid, Accounted, Encodable
  <2> QED
    BY <1>1, <2>1, <2>2
<1>3. ASSUME NEW f \in Files
      PROVE  StrayIsZero(inode[f], disk) /\ StrayBlocks(inode[f]) = {}
  BY <1>2 DEF StrayIsZero, StrayBlocks
<1>4. used = OwnedByFiles(inode) /\ outcome = "done"
  BY DEF Init
<1>5. TypeOK
  <2>1. \A f \in Files : Owned(inode[f]) \subseteq Blocks
    BY <1>1, <1>3 DEF Owned, MappedBlocks, Inode
  <2>2. used \subseteq Blocks
    BY <1>4, <2>1, DiskFacts DEF OwnedByFiles
  <2> QED
    BY <1>1, <1>4, <2>2 DEF TypeOK, Outcomes, Complete
<1>6. BlockOwnership
  BY <1>1, <1>2, <1>3, <1>4 DEF BlockOwnership
<1>7. NoStaleTail
  BY <1>1 DEF NoStaleTail
<1> QED
  BY <1>2, <1>3, <1>5, <1>6, <1>7 DEF IInv

\* A new file starts as an inode that owns nothing.
LEMMA FromNothing ==
  ASSUME NEW n \in 0 .. MaxFileBytes
  PROVE  /\ Needed(NewInode, n) = BlocksFor(n) /\ BlocksFor(n) \in Nat
         /\ Accounted(NewInode) /\ NewInode.live
         /\ \A d : SlackIsZero(NewInode, d) /\ StrayIsZero(NewInode, d)
<1>1. NewInode.size = 0 /\ NewInode.stray = {} /\ NewInode.live /\ NewInode.allocated = 0
  BY DEF NewInode
<1>2. \A l \in Logical : NewInode.map[l] = Hole /\ ~(NewInode.map[l] >= 0)
  BY DiskFacts DEF NewInode
<1>3. Needed(NewInode, n) = BlocksFor(n) /\ BlocksFor(n) \in Nat
  <2>1. n \in Nat /\ BlocksFor(n) \in Nat /\ BlocksFor(0) \in Nat
    BY FileStoreAssumption, BlocksForFacts
  <2>2. BlocksFor(0) * BlockSize < 0 + BlockSize
    BY BlocksForFacts
  <2>3. BlocksFor(0) * BlockSize < 1 * BlockSize
    BY <2>2, FileStoreAssumption
  <2>4. BlocksFor(0) = 0
    BY <2>1, <2>3, TimesCancels, FileStoreAssumption
  <2> QED
    BY <1>1, <2>1, <2>4 DEF Needed, Larger
<1>4. Accounted(NewInode)
  <2>1. /\ {l \in Logical : NewInode.map[l] >= 0} = {}
        /\ {l \in Logical : NewInode.map[l] # Hole /\ ~Continues(NewInode.map, l)} = {}
    BY <1>2
  <2>2. PhysicalCount(NewInode) = 0 + 0 /\ ExtentCount(NewInode) = 0 + 0
    BY <1>1, <2>1, FS_EmptySet DEF PhysicalCount, ExtentCount, Runs
  <2> QED
    BY <1>1, <2>2, FileStoreAssumption DEF Accounted, Encodable
<1> QED
  BY <1>1, <1>2, <1>3, <1>4 DEF SlackIsZero, StrayIsZero

LEMMA CreateKeeps ==
  ASSUME IInv, NEW f \in Files, NEW n \in 0 .. MaxFileBytes + 1, NEW v \in Values,
         Create(f, n, v)
  PROVE  IInv'
<1>1. n \in 0 .. MaxFileBytes /\ n \in Nat /\ 0 \in Nat /\ inode[f] = Blank
  BY FileStoreAssumption, Owners DEF Create
<1>2. PICK q \in Grants(BlocksFor(n)) :
        IF GrowOK(NewInode, q)
        THEN LET i == Resized(NewInode, n, q) IN
             /\ inode' = [inode EXCEPT ![f] = i]
             /\ disk' = Stored(Zeroed(q), i, 0, n, v)
             /\ used' = used \cup BlocksOf(q)
             /\ outcome' \in Complete
        ELSE /\ disk' = Zeroed(q)
             /\ outcome' = "failed"
             /\ UNCHANGED <<used, inode>>
  BY DEF Create
<1>3. CASE GrowOK(NewInode, q)
  <2>1. /\ inode' = [inode EXCEPT ![f] = Resized(NewInode, n, q)]
        /\ disk' = Stored(Zeroed(q), Resized(NewInode, n, q), 0, n, v)
        /\ used' = used \cup BlocksOf(q) /\ outcome' \in Outcomes
    BY <1>2, <1>3 DEF Outcomes
  <2>2. /\ NewInode \in Inode /\ Single(NewInode) /\ Owned(NewInode) = Owned(inode[f])
    BY <1>1, NewInodeFacts
  <2>3. /\ NewInode.live /\ Accounted(NewInode) /\ q \in Grants(Needed(NewInode, n))
        /\ SlackIsZero(NewInode, disk) /\ StrayIsZero(NewInode, disk)
    BY <1>1, FromNothing
  <2>4. n <= n
    BY <1>1
  <2> HIDE DEF IInv
  <2> QED
    BY <1>1, <1>3, <2>1, <2>2, <2>3, <2>4, Written
<1>4. CASE ~GrowOK(NewInode, q)
  <2>1. BlocksOf(q) \subseteq Free
    BY <1>1, Owners, FromNothing, GrantFacts
  <2> QED
    BY <1>2, <1>4, <2>1, ZeroedOnly DEF Outcomes
<1> QED
  BY <1>3, <1>4

LEMMA WriteKeeps ==
  ASSUME IInv, NEW f \in Files, NEW r \in Ranges, NEW v \in Values,
         WriteData(f, r.off, r.n, v)
  PROVE  IInv'
<1> DEFINE end == r.off + r.n
<1>1. end \in 0 .. MaxFileBytes /\ end \in Nat /\ r.off \in Nat /\ r.off <= end
  BY FileStoreAssumption DEF WriteData, Ranges
<1>2. PICK q \in Grants(Needed(inode[f], end)) :
        /\ GrowOK(inode[f], q)
        /\ LET i == Resized(inode[f], end, q)
               stop == Stop(i, r.off, end)
           IN /\ inode' = [inode EXCEPT ![f] = i]
              /\ disk' = Stored(Zeroed(q), i, r.off, stop, v)
              /\ used' = used \cup BlocksOf(q)
              /\ IF stop = end THEN outcome' \in Complete
                               ELSE outcome' = "failed"
  BY DEF WriteData
<1> DEFINE i == Resized(inode[f], end, q)
           stop == Stop(i, r.off, end)
<1>3. /\ used \subseteq Blocks /\ 0 \in used
      /\ inode[f] \in Inode /\ Single(inode[f]) /\ Owned(inode[f]) \subseteq used
      /\ SlackIsZero(inode[f], disk) /\ StrayIsZero(inode[f], disk)
      /\ Accounted(inode[f]) /\ inode[f].live
  BY Owners DEF WriteData
<1> HIDE DEF end
<1>4. i \in Inode
  BY <1>1, <1>2, <1>3, ResizedFacts
<1>5. stop \in Nat /\ stop <= end
  <2>1. stop \in r.off .. end
    BY <1>1, <1>4, StopFacts
  <2> QED
    BY <1>1, <2>1
<1>6. /\ inode' = [inode EXCEPT ![f] = Resized(inode[f], end, q)]
      /\ disk' = Stored(Zeroed(q), Resized(inode[f], end, q), r.off, stop, v)
      /\ used' = used \cup BlocksOf(q) /\ outcome' \in Outcomes
  BY <1>2 DEF Outcomes
<1>7. Owned(inode[f]) = Owned(inode[f])
  OBVIOUS
<1>8. GrowOK(inode[f], q)
  BY <1>2
<1> HIDE DEF stop, i, IInv
<1> QED
  BY <1>1, <1>3, <1>5, <1>6, <1>7, <1>8, Written

LEMMA WriteNotNormalizedKeeps ==
  ASSUME IInv, NEW f \in Files, NEW r \in Ranges, WriteNotNormalized(f, r.off, r.n)
  PROVE  IInv'
<1> DEFINE end == r.off + r.n
<1>1. end \in 0 .. MaxFileBytes
  BY FileStoreAssumption DEF WriteNotNormalized, Ranges
<1>2. PICK q \in Grants(Needed(inode[f], end)) :
        /\ ~GrowOK(inode[f], q)
        /\ inode' = [inode EXCEPT ![f] = Pushed(inode[f], q)]
        /\ disk' = Zeroed(q)
        /\ used' = used \cup BlocksOf(q)
        /\ outcome' = "failed"
  BY DEF WriteNotNormalized
<1> HIDE DEF end
<1> DEFINE i == inode[f]
           p == Pushed(i, q)
<1>3. /\ used \subseteq Blocks /\ 0 \in used
      /\ disk \in [Blocks -> [Cells -> Bytes]]
      /\ i \in Inode /\ Single(i) /\ Owned(i) \subseteq used
      /\ SlackIsZero(i, disk) /\ StrayIsZero(i, disk) /\ i.live
      /\ \A g \in Files \ {f} : Owned(inode[g]) \subseteq used
  BY Owners DEF WriteNotNormalized
<1>4. /\ p \in Inode /\ Single(p) /\ Owned(p) = Owned(i) \cup BlocksOf(q)
      /\ p.map = i.map /\ p.size = i.size /\ p.live
      /\ \A s \in p.stray : s \in i.stray \/ s.block \in BlocksOf(q)
  BY <1>1, <1>3, PushedFacts
<1>5. Needed(i, end) \in Nat /\ BlocksOf(q) \subseteq Free /\ DOMAIN q = 1 .. Needed(i, end)
      /\ (q = <<>> <=> Needed(i, end) = 0)
  BY <1>1, <1>3, NeededFacts, GrantFacts
<1>6. p.stray # {}
  <2>1. q # <<>>
    BY <1>2 DEF GrowOK
  <2>2. 1 \in DOMAIN q
    BY <1>5, <2>1
  <2>3. p.stray = i.stray \cup {[logical |-> BlocksFor(i.size) + k - 1,
                                block |-> q[k]] : k \in DOMAIN q}
    BY <1>3 DEF Pushed, Inode
  <2> QED
    BY <2>2, <2>3
<1> HIDE DEF i, p
<1>7. /\ disk' \in [Blocks -> [Cells -> Bytes]]
      /\ \A b \in Blocks : b \notin BlocksOf(q) => disk'[b] = disk[b]
      /\ \A b \in Blocks, c \in Cells : b \in BlocksOf(q) => disk'[b][c] = 0
  BY <1>2, <1>3, ZeroedFacts
<1>8. \A b \in used : disk'[b] = disk[b]
  BY <1>3, <1>5, <1>7 DEF Free
<1>9. SlackIsZero(p, disk')
  <2>1. SlackIsZero(i, disk')
    BY <1>3, <1>8, SameBlocks
  <2> QED
    BY <1>4, <2>1 DEF SlackIsZero
<1>10. StrayIsZero(p, disk')
  <2>1. StrayIsZero(i, disk')
    BY <1>3, <1>8, SameBlocks
  <2>2. \A s \in p.stray : s.block \in Blocks
    BY <1>4 DEF Inode
  <2> QED
    BY <1>4, <1>7, <2>1, <2>2 DEF StrayIsZero
<1>11. Accounted(p)
  BY <1>6 DEF Accounted
<1>12. used' = (used \ Owned(inode[f])) \cup Owned(p) /\ inode' = [inode EXCEPT ![f] = p]
  BY <1>2, <1>3, <1>4 DEF i, p
<1>13. \A g \in Files \ {f} : \A b \in Owned(inode[g]) : disk'[b] = disk[b]
  BY <1>3, <1>8
<1>14. Owned(p) \subseteq Owned(inode[f]) \cup Free
  BY <1>4, <1>5 DEF i
<1>15. outcome' \in Outcomes
  BY <1>2 DEF Outcomes
<1> QED
  BY <1>4, <1>7, <1>9, <1>10, <1>11, <1>12, <1>13, <1>14, <1>15, Replaced

LEMMA RemoveKeeps ==
  ASSUME IInv, NEW f \in Files, Remove(f)
  PROVE  IInv'
<1>1. /\ inode' = [inode EXCEPT ![f] = Blank] /\ used' = used \ Owned(inode[f])
      /\ outcome' \in Outcomes /\ disk' = disk
  BY DEF Remove, Outcomes, Complete
<1>2. /\ Blank \in Inode /\ Single(Blank) /\ Owned(Blank) = {}
  BY NewInodeFacts
<1>3. /\ SlackIsZero(Blank, disk') /\ StrayIsZero(Blank, disk') /\ Accounted(Blank)
  <2>1. \A l \in Logical : ~(Blank.map[l] >= 0)
    BY DiskFacts DEF Blank, NewInode
  <2>2. Blank.stray = {} /\ ~Blank.live
    BY DEF Blank, NewInode
  <2> QED
    BY <2>1, <2>2 DEF SlackIsZero, StrayIsZero, Accounted
<1>4. used' = (used \ Owned(inode[f])) \cup Owned(Blank)
  BY <1>1, <1>2
<1>5. disk' \in [Blocks -> [Cells -> Bytes]]
  BY <1>1, Owners
<1> QED
  BY <1>1, <1>2, <1>3, <1>4, <1>5, Replaced

LEMMA NextKeeps == IInv /\ [Next]_vars => IInv'
<1> SUFFICES ASSUME IInv, [Next]_vars PROVE IInv'
  OBVIOUS
<1>1. CASE \E f \in Files, n \in 0 .. MaxFileBytes + 1, v \in Values : Create(f, n, v)
  BY <1>1, CreateKeeps
<1>2. CASE \E f \in Files, r \in Ranges, v \in Values : WriteData(f, r.off, r.n, v)
  BY <1>2, WriteKeeps
<1>3. CASE \E f \in Files, r \in Ranges : WriteNotNormalized(f, r.off, r.n)
  BY <1>3, WriteNotNormalizedKeeps
<1>4. CASE \E f \in Files : Remove(f)
  BY <1>4, RemoveKeeps
<1>5. CASE Refuse
  BY <1>5 DEF Refuse, Outcomes, IInv, TypeOK, BlockOwnership, NoStaleTail
<1>6. CASE UNCHANGED vars
  BY <1>6 DEF vars, IInv, TypeOK, BlockOwnership, NoStaleTail
<1> QED
  BY <1>1, <1>2, <1>3, <1>4, <1>5, <1>6 DEF Next, CreateRefused, WriteRefused

\* The invariant that the theorems below follow from holds always.
THEOREM Inductive == Spec => []IInv
BY Initially, NextKeeps, PTL DEF Spec

\* The state stays well typed.
THEOREM TypeCorrect == Spec => []TypeOK
<1>1. IInv => TypeOK
  BY DEF IInv
<1> QED
  BY <1>1, Inductive, PTL

\* The allocated blocks are block 0 and those of the files, each owned once,
\* whatever failed and was removed.
THEOREM NoBlockLost == Spec => []BlockOwnership
<1>1. IInv => BlockOwnership
  BY DEF IInv
<1> QED
  BY <1>1, Inductive, PTL

\* The bytes beyond the end of a file are zero on the disk.
THEOREM NoStaleData == Spec => []NoStaleTail
<1>1. IInv => NoStaleTail
  BY DEF IInv
<1> QED
  BY <1>1, Inductive, PTL

-----------------------------------------------------------------------------
(* What makes an inode invalid. *)

\* A file's physical blocks are within the limit on files.
LEMMA PhysicalFits ==
  ASSUME NEW i \in Inode, i.stray = {}
  PROVE  PhysicalCount(i) * BlockSize <= MaxFileBytes
<1> DEFINE M == {l \in Logical : i.map[l] >= 0}
           k == MaxFileBytes \div BlockSize
<1>1. M \in SUBSET Logical
  OBVIOUS
<1>2. PhysicalCount(i) = Cardinality(M) + Cardinality({})
  BY DEF PhysicalCount
<1>3. k \in Nat /\ MaxFileBytes = k * BlockSize /\ IsFiniteSet(Logical) /\ Cardinality(Logical) = k
  BY LogicalFacts
<1> HIDE DEF M, k
<1>4. IsFiniteSet(M) /\ Cardinality(M) <= Cardinality(Logical) /\ Cardinality(M) \in Nat
  BY <1>1, <1>3, FS_Subset, FS_CardinalityType
<1>5. PhysicalCount(i) \in Nat /\ PhysicalCount(i) <= k
  BY <1>2, <1>3, <1>4, FS_EmptySet
<1> QED
  BY <1>3, <1>5, TimesMonotone, FileStoreAssumption

\* Every inode that mount() would refuse has a cause: extents that normalize()
\* failed on, or extents beyond the end that the mounted image had.
THEOREM InvalidityHasCause == Spec => []InvalidHasCause
<1>1. IInv => InvalidHasCause
  <2>1. SUFFICES ASSUME IInv, NEW f \in Files, inode[f].live
                 PROVE  /\ inode[f].stray # {} => ~Valid(inode[f])
                        /\ inode[f].stray = {} /\ BeyondEnd(inode[f]) = {} => Valid(inode[f])
                        /\ inode[f].stray = {} => Encodable(inode[f])
    BY DEF InvalidHasCause
  <2> DEFINE i == inode[f]
  <2>2. i \in Inode /\ Accounted(i) /\ i.live
    BY <2>1, Owners
  <2> HIDE DEF i
  <2>3. i.stray # {} => ~Valid(i)
    BY DEF Valid
  <2>4. i.stray = {} => Encodable(i) /\ i.allocated = PhysicalCount(i)
    BY <2>2 DEF Accounted
  <2>5. ASSUME i.stray = {}, BeyondEnd(i) = {}
        PROVE  Valid(i)
    <3>1. NoOverlap(i)
      BY <2>5 DEF NoOverlap
    <3>2. \A l \in Logical : i.map[l] # Hole => l < BlocksFor(i.size)
      <4>1. i.size \in Nat
        BY <2>2, FileStoreAssumption DEF Inode
      <4>2. BlocksFor(i.size) \in Nat /\ Logical \subseteq Nat
        BY <4>1, BlocksForFacts, LogicalFacts
      <4>3. \A l \in Logical : i.map[l] # Hole => ~(l >= BlocksFor(i.size))
        BY <2>5 DEF BeyondEnd
      <4> QED
        BY <4>2, <4>3
    <3>3. i.allocated * BlockSize <= MaxFileBytes
      BY <2>2, <2>4, <2>5, PhysicalFits
    <3> QED
      BY <2>4, <2>5, <3>1, <3>2, <3>3 DEF Valid, Encodable
  <2> QED
    BY <2>3, <2>4, <2>5 DEF i
<1> QED
  BY <1>1, Inductive, PTL

-----------------------------------------------------------------------------
(* What a failed operation leaves alone. *)

\* Where a byte is.
LEMMA ByteFacts ==
  ASSUME NEW p \in 0 .. MaxFileBytes - 1
  PROVE  /\ p \in Nat /\ p \div BlockSize \in Logical /\ p % BlockSize \in Cells
         /\ (p \div BlockSize) * BlockSize \in Nat
         /\ (p \div BlockSize) * BlockSize <= p
         /\ p = (p \div BlockSize) * BlockSize + (p % BlockSize)
<1> DEFINE l == p \div BlockSize
           c == p % BlockSize
           k == MaxFileBytes \div BlockSize
<1>1. /\ p \in Nat /\ BlockSize \in Nat \ {0} /\ p < MaxFileBytes
      /\ k \in Nat /\ MaxFileBytes = k * BlockSize
  BY FileStoreAssumption, LogicalFacts
<1>2. l \in Nat /\ c \in 0 .. BlockSize - 1 /\ p = BlockSize * l + c
  BY <1>1
<1>3. Logical = 0 .. k - 1 /\ Cells = 0 .. BlockSize - 1
  BY DEF Logical, Cells
<1> HIDE DEF l, c, k
<1>4. l * BlockSize = BlockSize * l /\ BlockSize * l \in Nat
  BY <1>1, <1>2
<1>5. l * BlockSize <= p /\ l * BlockSize < k * BlockSize
  BY <1>1, <1>2, <1>4
<1>6. l < k
  BY <1>1, <1>2, <1>5, TimesCancels
<1>7. /\ p \in Nat /\ l \in Logical /\ c \in Cells
      /\ l * BlockSize \in Nat /\ l * BlockSize <= p /\ p = l * BlockSize + c
  BY <1>1, <1>2, <1>3, <1>4, <1>5, <1>6
<1> QED
  BY <1>7 DEF l, c

\* A file reads as before when its map, its size and its blocks are as before.
LEMMA SameContent ==
  ASSUME NEW g \in Files, inode[g] \in Inode,
         inode'[g].live = inode[g].live, inode'[g].size = inode[g].size,
         inode'[g].map = inode[g].map,
         \A b \in MappedBlocks(inode[g]) : disk'[b] = disk[b]
  PROVE  Content(g)' = Content(g)
<1> DEFINE i == inode[g]
           j == inode'[g]
<1>1. ASSUME NEW p \in 0 .. MaxFileBytes - 1
      PROVE  ByteAt(inode[g], p)' = ByteAt(inode[g], p)
  <2> DEFINE l == p \div BlockSize
  <2>1. l \in Logical
    BY ByteFacts
  <2>2. i.map[l] >= 0 => disk'[i.map[l]] = disk[i.map[l]]
    BY <2>1, MappedFacts
  <2> QED
    BY <2>2 DEF ByteAt
<1> QED
  BY <1>1 DEF Content

\* A write into a file without holes stores all of it.
LEMMA DenseStop ==
  ASSUME used \subseteq Blocks, 0 \in used,
         NEW i \in Inode, Single(i), Owned(i) \subseteq used, Dense(i),
         NEW end \in 0 .. MaxFileBytes, NEW q \in Grants(Needed(i, end)), GrowOK(i, q),
         NEW off \in Nat, off <= end
  PROVE  Stop(Resized(i, end, q), off, end) = end
<1> DEFINE r == Resized(i, end, q)
           m == BlocksFor(i.size)
<1>1. /\ Needed(i, end) \in Nat /\ m \in Nat /\ i.size \in Nat /\ end \in Nat
      /\ end > i.size => m + Needed(i, end) = BlocksFor(end)
  BY NeededFacts
<1>2. BlockSize \in Nat \ {0} /\ off \div BlockSize \in Nat
  BY FileStoreAssumption
<1>3. BlocksFor(end) \in Nat
  BY <1>1, BlocksForFacts
<1>4. SUFFICES ASSUME NEW l \in off \div BlockSize .. BlocksFor(end) - 1
               PROVE  r.map[l] \in Nat
  BY DEF Stop
<1>5. l \in Nat /\ l < BlocksFor(end) /\ l \in Logical
  BY <1>1, <1>2, <1>3, <1>4, EnoughLogical
<1>6. CASE l < m
  <2>1. i.map[l] \in Nat /\ i.map[l] # Hole
    <3>1. i.map[l] \in Blocks
      BY <1>5, <1>6, MappedFacts DEF Dense
    <3>2. i.map[l] \in Nat
      BY <3>1, DiskFacts
    <3> QED
      BY <3>2 DEF Hole
  <2> QED
    BY <1>5, <2>1, ResizedFacts
<1>7. CASE ~(l < m)
  <2>1. end > i.size
    <3>1. CASE end <= i.size
      BY <1>1, <1>5, <1>7, <1>3, <3>1, BlocksForMonotone
    <3> QED
      BY <1>1, <3>1
  <2> DEFINE n == Needed(i, end)
             k == l - m + 1
             p == Pushed(i, q)
             s == [logical |-> m + k - 1, block |-> q[k]]
  <2>2. k \in 1 .. n /\ m + k - 1 = l
    <3> HIDE DEF m, n
    <3> QED
      BY <1>1, <1>5, <1>7, <1>3, <2>1 DEF n
  <2>3. /\ DOMAIN q = 1 .. n /\ q \in [1 .. n -> Free] /\ Free \subseteq Blocks
        /\ Blocks \subseteq Nat /\ q # <<>>
    BY <1>1, <2>2, GrantFacts, FileStoreAssumption DEF Blocks
  <2>4. p.stray = i.stray \cup {[logical |-> m + j - 1, block |-> q[j]] : j \in DOMAIN q}
    BY DEF Pushed, Inode
  <2>5. s \in p.stray /\ s.logical = l /\ s.block = q[k]
    <3> HIDE DEF m, n, k, p
    <3> QED
      BY <2>2, <2>3, <2>4
  <2>6. NoOverlap(p) /\ p \in Inode
    BY <2>3, PushedFacts DEF GrowOK, CanNormalize
  <2>7. r.map = Normalized(p).map
    <3>1. Normalized(p) \in Inode
      BY <2>6, NormalizedMap
    <3>2. r = [Normalized(p) EXCEPT !.size = end, !.allocated = PhysicalCount(Normalized(p))]
      BY <2>1, <2>3 DEF Resized, Grown
    <3> HIDE DEF p
    <3> QED
      BY <3>1, <3>2 DEF Inode
  <2>8. r.map[l] = q[k]
    <3> HIDE DEF p, s, k, m, n, r
    <3> QED
      BY <2>5, <2>6, <2>7, NormalizedMap
  <2>9. q[k] \in Nat
    <3> HIDE DEF k, n
    <3> QED
      BY <2>2, <2>3
  <2> QED
    BY <2>8, <2>9
<1> QED
  BY <1>1, <1>6, <1>7

\* A file that an operation does not name keeps its content: the operation may
\* zero free blocks only.
LEMMA OtherKeepsContent ==
  ASSUME IInv, NEW g \in Files, inode'[g] = inode[g],
         NEW q, BlocksOf(q) \subseteq Free, disk' = Zeroed(q)
  PROVE  Content(g)' = Content(g)
<1>1. inode[g] \in Inode /\ Owned(inode[g]) \subseteq used
  BY Owners
<1>2. \A b \in MappedBlocks(inode[g]) : b \in Blocks /\ b \notin BlocksOf(q)
  <2>1. used \subseteq Blocks
    BY Owners
  <2> QED
    BY <1>1, <2>1 DEF Owned, Free
<1>3. \A b \in MappedBlocks(inode[g]) : disk'[b] = disk[b]
  BY <1>2, Owners, ZeroedFacts
<1> QED
  BY <1>1, <1>3, SameContent

\* What a write that normalize() fails does: only new blocks are zeroed, and the
\* map stays as it was.
LEMMA NotNormalizedKeepsContent ==
  ASSUME IInv, NEW f \in Files, NEW r \in Ranges, WriteNotNormalized(f, r.off, r.n),
         NEW g \in Files
  PROVE  Content(g)' = Content(g)
<1> DEFINE end == r.off + r.n
<1>1. end \in 0 .. MaxFileBytes /\ inode \in [Files -> Inode]
  BY FileStoreAssumption DEF WriteNotNormalized, Ranges, IInv, TypeOK
<1>2. PICK q \in Grants(Needed(inode[f], end)) :
        /\ inode' = [inode EXCEPT ![f] = Pushed(inode[f], q)]
        /\ disk' = Zeroed(q)
  BY DEF WriteNotNormalized
<1>3. /\ used \subseteq Blocks /\ 0 \in used /\ disk \in [Blocks -> [Cells -> Bytes]]
      /\ \A h \in Files : /\ inode[h] \in Inode /\ Single(inode[h])
                          /\ Owned(inode[h]) \subseteq used
  BY Owners
<1> HIDE DEF end
<1>4. BlocksOf(q) \subseteq Free
  BY <1>1, <1>3, NeededFacts, GrantFacts
<1>5. CASE g # f
  <2>1. inode'[g] = inode[g]
    BY <1>1, <1>2, <1>5
  <2> QED
    BY <1>2, <1>4, <2>1, OtherKeepsContent
<1>6. CASE g = f
  <2>1. /\ Pushed(inode[f], q).map = inode[f].map /\ Pushed(inode[f], q).size = inode[f].size
        /\ Pushed(inode[f], q).live = inode[f].live
    BY <1>1, <1>3, PushedFacts
  <2>2. inode'[f] = Pushed(inode[f], q)
    BY <1>1, <1>2
  <2>3. \A b \in MappedBlocks(inode[f]) : disk'[b] = disk[b]
    BY <1>2, <1>3, <1>4, ZeroedFacts DEF Owned, Free
  <2>4. inode[f] \in Inode
    BY <1>3
  <2> QED
    BY <1>6, <2>1, <2>2, <2>3, <2>4, SameContent
<1> QED
  BY <1>5, <1>6

\* What a write that stops before its end does to files without holes.
LEMMA ShortWriteKeepsContent ==
  ASSUME IInv, NEW f \in Files, NEW r \in Ranges, NEW v \in Values,
         WriteData(f, r.off, r.n, v), outcome' = "failed", NEW g \in Files, Dense(inode[g])
  PROVE  Content(g)' = Content(g)
<1> DEFINE end == r.off + r.n
<1>1. end \in 0 .. MaxFileBytes /\ end \in Nat /\ r.off \in Nat /\ r.off <= end
  BY FileStoreAssumption DEF WriteData, Ranges
<1>2. PICK q \in Grants(Needed(inode[f], end)) :
        LET i == Resized(inode[f], end, q)
            stop == Stop(i, r.off, end)
        IN /\ GrowOK(inode[f], q)
           /\ inode' = [inode EXCEPT ![f] = i]
           /\ disk' = Stored(Zeroed(q), i, r.off, stop, v)
           /\ IF stop = end THEN outcome' \in Complete
                            ELSE outcome' = "failed"
  BY DEF WriteData
<1> DEFINE i == Resized(inode[f], end, q)
           stop == Stop(i, r.off, end)
<1>3. /\ used \subseteq Blocks /\ 0 \in used /\ disk \in [Blocks -> [Cells -> Bytes]]
      /\ \A h \in Files : /\ inode[h] \in Inode /\ Single(inode[h])
                          /\ Owned(inode[h]) \subseteq used
      /\ \A h \in Files \ {f} : Owned(inode[h]) \cap Owned(inode[f]) = {}
  BY Owners
<1> HIDE DEF end
<1>4. GrowOK(inode[f], q) /\ stop # end
  BY <1>2 DEF Complete
<1>5. g # f
  BY <1>1, <1>3, <1>4, DenseStop
<1>6. inode \in [Files -> Inode]
  BY DEF IInv, TypeOK
<1>7. inode'[g] = inode[g] /\ inode[g] \in Inode
  BY <1>2, <1>3, <1>5, <1>6
<1>8. i \in Inode /\ Single(i) /\ Owned(i) = Owned(inode[f]) \cup BlocksOf(q)
  BY <1>1, <1>3, <1>4, ResizedFacts
<1>9. BlocksOf(q) \subseteq Free
  BY <1>1, <1>3, NeededFacts, GrantFacts
<1>10. \A b \in MappedBlocks(inode[g]) : b \in Blocks /\ b \notin Owned(i) /\ b \notin BlocksOf(q)
  BY <1>3, <1>5, <1>8, <1>9 DEF Owned, Free
<1>11. stop \in Nat /\ v \in Values
  <2>1. stop \in r.off .. end
    BY <1>1, <1>8, StopFacts
  <2> QED
    BY <1>1, <2>1
<1>12. disk' = Stored(Zeroed(q), i, r.off, stop, v)
  BY <1>2
<1> HIDE DEF i, stop
<1>13. \A b \in Blocks : b \notin MappedBlocks(i) => disk'[b] = Zeroed(q)[b]
  <2>1. Zeroed(q) \in [Blocks -> [Cells -> Bytes]]
    BY <1>3, ZeroedFacts
  <2> QED
    BY <1>1, <1>8, <1>11, <1>12, <2>1, StoredFacts
<1>14. \A b \in MappedBlocks(inode[g]) : disk'[b] = disk[b]
  BY <1>3, <1>10, <1>13, ZeroedFacts DEF Owned
<1> QED
  BY <1>7, <1>14, SameContent

\* A call that fails, but for the want of room in the journal, changes no byte
\* of a file without holes: writes into such files are all or nothing.
THEOREM FailureIsHarmless == Spec => FailureLeavesContent
<1>1. ASSUME IInv, [Next]_vars, ~(UNCHANGED vars), outcome' = "failed", NEW g \in Files, Dense(inode[g])
      PROVE  Content(g)' = Content(g)
  <2>1. ASSUME UNCHANGED <<inode, disk>> PROVE Content(g)' = Content(g)
    <3>1. inode[g] \in Inode
      BY <1>1, Owners
    <3> QED
      BY <2>1, <3>1, SameContent
  <2>2. CASE Refuse
    BY <2>1, <2>2 DEF Refuse
  <2>3. CASE \E f \in Files, n \in 0 .. MaxFileBytes + 1, v \in Values : Create(f, n, v)
    <3>1. PICK f \in Files, n \in 0 .. MaxFileBytes + 1, v \in Values : Create(f, n, v)
      BY <2>3
    <3>2. n \in 0 .. MaxFileBytes /\ n \in Nat /\ inode[f] = Blank
      BY <1>1, <3>1, FileStoreAssumption, Owners DEF Create
    <3>3. PICK q \in Grants(BlocksFor(n)) : disk' = Zeroed(q) /\ inode' = inode
      BY <1>1, <3>1 DEF Create, Complete
    <3>4. BlocksOf(q) \subseteq Free
      BY <1>1, <3>2, Owners, FromNothing, GrantFacts
    <3>5. inode'[g] = inode[g]
      BY <3>3
    <3> QED
      BY <1>1, <3>3, <3>4, <3>5, OtherKeepsContent
  <2>4. CASE \E f \in Files, r \in Ranges, v \in Values : WriteData(f, r.off, r.n, v)
    BY <1>1, <2>4, ShortWriteKeepsContent
  <2>5. CASE \E f \in Files, r \in Ranges : WriteNotNormalized(f, r.off, r.n)
    BY <1>1, <2>5, NotNormalizedKeepsContent
  <2>6. CASE \E f \in Files : Remove(f)
    BY <1>1, <2>6 DEF Remove
  <2> QED
    BY <1>1, <2>2, <2>3, <2>4, <2>5, <2>6 DEF Next, CreateRefused, WriteRefused
<1>2. IInv /\ [Next]_vars
        => [outcome' = "failed" => \A f \in Files : Dense(inode[f]) => Content(f)' = Content(f)]_vars
  BY <1>1
<1> QED
  BY <1>2, Inductive, PTL DEF Spec, FailureLeavesContent

-----------------------------------------------------------------------------
(* The blocks implement files that do not disturb each other. *)

\* Up to where a write stops there is a block for every byte.
LEMMA StopMapped ==
  ASSUME NEW i \in Inode, NEW off \in Nat, NEW end \in 0 .. MaxFileBytes, off <= end,
         NEW p \in 0 .. MaxFileBytes - 1, off <= p, p < Stop(i, off, end)
  PROVE  i.map[p \div BlockSize] >= 0
<1> DEFINE l == p \div BlockSize
           a == off \div BlockSize
           missing == {j \in a .. BlocksFor(end) - 1 : i.map[j] < 0}
           m == CHOOSE j \in missing : \A k \in missing : j <= k
<1>1. end \in Nat /\ BlockSize \in Nat \ {0} /\ a \in Nat
  BY FileStoreAssumption
<1>2. /\ p \in Nat /\ l \in Logical /\ l * BlockSize \in Nat /\ l * BlockSize <= p
      /\ p % BlockSize \in Cells /\ p = l * BlockSize + (p % BlockSize)
  BY ByteFacts
<1>3. l \in Nat /\ p < l * BlockSize + BlockSize
  BY <1>1, <1>2, LogicalFacts DEF Cells
<1>4. BlocksFor(end) \in Nat /\ end <= BlocksFor(end) * BlockSize
  BY <1>1, BlocksForFacts
<1>5. p < end
  BY <1>1, StopFacts
<1>6. a <= l
  <2>1. BlockSize * a <= off
    BY <1>1
  <2> HIDE DEF a, l
  <2>2. a * BlockSize = BlockSize * a /\ BlockSize * a \in Nat
    BY <1>1
  <2>3. (l + 1) * BlockSize = l * BlockSize + BlockSize
    BY <1>1, <1>3
  <2>4. a * BlockSize < (l + 1) * BlockSize
    BY <1>1, <1>2, <1>3, <2>1, <2>2, <2>3
  <2> QED
    BY <1>1, <1>3, <2>4, TimesCancels
<1>7. l < BlocksFor(end)
  <2> HIDE DEF l
  <2>1. BlocksFor(end) * BlockSize \in Nat
    BY <1>1, <1>4
  <2>2. l * BlockSize < BlocksFor(end) * BlockSize
    BY <1>1, <1>2, <1>4, <1>5, <2>1
  <2> QED
    BY <1>1, <1>3, <1>4, <2>2, TimesCancels
<1>8. SUFFICES ASSUME l \in missing PROVE FALSE
  <2>1. l \in a .. BlocksFor(end) - 1
    <3> HIDE DEF l, a
    <3> QED
      BY <1>1, <1>3, <1>4, <1>6, <1>7
  <2>2. ~(i.map[l] < 0)
    BY <1>8, <2>1
  <2> HIDE DEF l, missing, m
  <2>3. i.map[l] \in Blocks \/ i.map[l] = -1 \/ i.map[l] = -2
    BY <1>2, MappedFacts, DiskFacts
  <2>4. i.map[l] \in Int
    <3>1. CASE i.map[l] \in Blocks
      <4>1. i.map[l] \in Nat
        BY <3>1, DiskFacts
      <4> QED
        BY <4>1
    <3>2. CASE i.map[l] = -1
      BY <3>2
    <3>3. CASE i.map[l] = -2
      BY <3>3
    <3> QED
      BY <2>3, <3>1, <3>2, <3>3
  <2>5. i.map[l] >= 0
    BY <2>2, <2>4
  <2> QED
    BY <2>5 DEF l
<1>9. off # end
  BY <1>1, <1>2, <1>5
<1>10. Stop(i, off, end) = Larger(off, BlockSize * m)
  BY <1>8, <1>9 DEF Stop
<1>11. missing \subseteq Nat
  BY <1>1, <1>4
<1>12. m \in Nat /\ m <= l
  <2>1. \E j \in missing : \A k \in missing : j <= k
    <3> HIDE DEF missing
    <3> QED
      BY <1>8, <1>11, LeastNatural
  <2> HIDE DEF missing, l
  <2> QED
    BY <1>8, <1>11, <2>1
<1> HIDE DEF m, l
<1>13. m * BlockSize <= l * BlockSize
  BY <1>1, <1>3, <1>12, TimesMonotone
<1>14. m * BlockSize = BlockSize * m /\ BlockSize * m \in Nat
  BY <1>1, <1>12
<1> QED
  BY <1>2, <1>10, <1>13, <1>14 DEF Larger

LEMMA RecordUpdated ==
  ASSUME NEW live, NEW size, NEW byte, NEW m, NEW n
  PROVE  [[live |-> live, size |-> size, byte |-> byte] EXCEPT !.size = m, !.byte = n]
           = [live |-> live, size |-> m, byte |-> n]
<1> DEFINE c == [live |-> live, size |-> size, byte |-> byte]
           d == [c EXCEPT !.size = m, !.byte = n]
           R == [live : {live}, size : {size, m}, byte : {byte, n}]
<1>1. c \in R /\ c.live = live
  OBVIOUS
<1> HIDE DEF c
<1>2. d \in R /\ d.live = live /\ d.size = m /\ d.byte = n
  BY <1>1
<1> HIDE DEF d
<1>3. d = [live |-> live, size |-> m, byte |-> n]
  BY <1>2
<1> QED
  BY <1>3 DEF c, d

\* There is a block for every byte from lo up to hi.
Covers(map, lo, hi) == \A p \in 0 .. MaxFileBytes - 1 :
                         lo <= p /\ p < hi => map[p \div BlockSize] >= 0

\* What a reader sees of file i.
Seen(i) == [live |-> i.live, size |-> i.size,
            byte |-> [p \in 0 .. MaxFileBytes - 1 |-> ByteAt(i, p)]]

\* What growing and storing does to what a reader sees: the file changes as an
\* abstract one does, the others do not.
LEMMA ContentWritten ==
  ASSUME IInv, NEW f \in Files, NEW i \in Inode,
         Single(i), Owned(i) = Owned(inode[f]), i.live,
         SlackIsZero(i, disk), StrayIsZero(i, disk),
         NEW end \in 0 .. MaxFileBytes, NEW q \in Grants(Needed(i, end)), GrowOK(i, q),
         NEW lo \in Nat, NEW hi \in Nat, hi <= end, NEW v \in Values,
         Covers(Resized(i, end, q).map, lo, hi),
         inode' = [inode EXCEPT ![f] = Resized(i, end, q)],
         disk' = Stored(Zeroed(q), Resized(i, end, q), lo, hi, v)
  PROVE  /\ Content(f)' = Store!Overwritten(Seen(i), end, lo, hi, v)
         /\ \A g \in Files : g # f => Content(g)' = Content(g)
<1> DEFINE r == Resized(i, end, q)
           d == Zeroed(q)
<1>1. /\ used \subseteq Blocks /\ 0 \in used /\ Owned(i) \subseteq used
      /\ disk \in [Blocks -> [Cells -> Bytes]] /\ inode \in [Files -> Inode]
      /\ \A g \in Files : /\ inode[g] \in Inode /\ Owned(inode[g]) \subseteq used
                          /\ g # f => Owned(inode[g]) \cap Owned(i) = {}
  BY Owners DEF IInv, TypeOK
<1>2. /\ r \in Inode /\ Single(r) /\ Owned(r) = Owned(i) \cup BlocksOf(q)
      /\ r.live = i.live /\ r.size = Larger(i.size, end)
      /\ \A l \in Logical :
           \/ r.map[l] = i.map[l]
           \/ i.map[l] = Hole /\ r.map[l] \in StrayBlocks(i) \cup BlocksOf(q)
  <2>1. used \subseteq Blocks /\ 0 \in used /\ Owned(i) \subseteq used
    BY <1>1
  <2> QED
    BY <2>1, ResizedFacts
<1>3. BlocksOf(q) \subseteq Free /\ i.size \in Nat /\ end \in Nat
  BY <1>1, GrantFacts, NeededFacts
<1>4. /\ d \in [Blocks -> [Cells -> Bytes]]
      /\ \A b \in Blocks : b \notin BlocksOf(q) => d[b] = disk[b]
      /\ \A b \in Blocks, c \in Cells : b \in BlocksOf(q) => d[b][c] = 0
  BY <1>1, ZeroedFacts
<1>5. Covers(r.map, lo, hi)
  OBVIOUS
<1>6. disk' = Stored(d, r, lo, hi, v) /\ inode' = [inode EXCEPT ![f] = r]
  OBVIOUS
<1> HIDE DEF r, d
<1>7. /\ disk' \in [Blocks -> [Cells -> Bytes]]
      /\ \A b \in Blocks : b \notin MappedBlocks(r) => disk'[b] = d[b]
      /\ \A l \in Logical, c \in Cells :
           r.map[l] >= 0 =>
             disk'[r.map[l]][c] = IF lo <= l * BlockSize + c /\ l * BlockSize + c < hi
                                  THEN v ELSE d[r.map[l]][c]
  BY <1>2, <1>4, <1>6, StoredFacts
<1>8. ASSUME NEW p \in 0 .. MaxFileBytes - 1
      PROVE  ByteAt(inode[f], p)' = IF lo <= p /\ p < hi THEN v ELSE ByteAt(i, p)
  <2> DEFINE l == p \div BlockSize
             c == p % BlockSize
  <2>1. p \in Nat /\ l \in Logical /\ c \in Cells /\ l * BlockSize + c = p
    BY ByteFacts
  <2>2. ByteAt(inode[f], p)' =
          IF p < r.size /\ r.map[l] >= 0 THEN disk'[r.map[l]][c] ELSE 0
    BY <1>1, <1>6 DEF ByteAt
  <2>3. ByteAt(i, p) = IF p < i.size /\ i.map[l] >= 0 THEN disk[i.map[l]][c] ELSE 0
    BY DEF ByteAt
  <2>4. r.size \in Nat /\ r.size >= end /\ r.size >= i.size
    BY <1>2, <1>3 DEF Larger
  <2>5. lo <= p /\ p < hi => r.map[l] >= 0
    BY <1>5 DEF Covers
  <2> HIDE DEF l, c
  <2>6. r.map[l] >= 0 => disk'[r.map[l]][c] = IF lo <= p /\ p < hi THEN v ELSE d[r.map[l]][c]
    BY <1>7, <2>1
  <2>7. CASE lo <= p /\ p < hi
    <3>1. p < r.size
      BY <1>3, <2>1, <2>4, <2>7
    <3> QED
      BY <2>2, <2>5, <2>6, <2>7, <3>1
  <2>8. CASE ~(lo <= p /\ p < hi)
    <3>1. SUFFICES ASSUME r.map[l] >= 0
                   PROVE  (IF p < r.size THEN d[r.map[l]][c] ELSE 0) = ByteAt(i, p)
      <4>1. CASE r.map[l] >= 0
        BY <2>2, <2>6, <2>8, <3>1, <4>1
      <4>2. CASE ~(r.map[l] >= 0)
        <5>1. ~(i.map[l] >= 0)
          <6>1. ASSUME r.map[l] # i.map[l] PROVE FALSE
            <7>1. r.map[l] \in Blocks
              BY <1>1, <1>2, <1>3, <2>1, <6>1 DEF Owned, Free
            <7> QED
              BY <1>2, <2>1, <4>2, <7>1, MappedFacts
          <6> QED
            BY <4>2, <6>1
        <5> QED
          BY <2>2, <2>3, <2>8, <4>2, <5>1
      <4> QED
        BY <4>1, <4>2
    <3>2. CASE r.map[l] = i.map[l]
      <4>1. i.map[l] \in Blocks /\ i.map[l] \in Owned(i) /\ i.map[l] \notin BlocksOf(q)
        BY <1>1, <1>3, <2>1, <3>1, <3>2, MappedFacts DEF Owned, Free
      <4>2. d[r.map[l]] = disk[i.map[l]]
        BY <1>4, <3>2, <4>1
      <4>3. ~(p < i.size) => disk[i.map[l]][c] = 0
        <5>1. ASSUME p >= i.size PROVE disk[i.map[l]][c] = 0
          BY <2>1, <3>1, <3>2, <5>1 DEF SlackIsZero
        <5> QED
          BY <1>3, <2>1, <5>1
      <4>4. p < i.size => p < r.size
        BY <1>3, <2>1, <2>4
      <4> QED
        BY <2>3, <3>1, <3>2, <4>2, <4>3, <4>4
    <3>3. CASE i.map[l] = Hole /\ r.map[l] \in StrayBlocks(i) \cup BlocksOf(q)
      <4>1. ByteAt(i, p) = 0
        BY <2>3, <3>3 DEF Hole
      <4>2. r.map[l] \in Blocks
        BY <1>2, <2>1, <3>1, MappedFacts
      <4>3. CASE r.map[l] \in BlocksOf(q)
        BY <1>4, <2>1, <4>1, <4>2, <4>3
      <4>4. CASE r.map[l] \notin BlocksOf(q)
        <5>1. d[r.map[l]] = disk[r.map[l]] /\ r.map[l] \in StrayBlocks(i)
          BY <1>4, <3>3, <4>2, <4>4
        <5>2. disk[r.map[l]][c] = 0
          BY <2>1, <5>1 DEF StrayIsZero, StrayBlocks
        <5> QED
          BY <4>1, <5>1, <5>2
      <4> QED
        BY <4>3, <4>4
    <3> QED
      BY <1>2, <2>1, <3>2, <3>3
  <2> QED
    BY <2>7, <2>8
<1>9. Content(f)' = Store!Overwritten(Seen(i), end, lo, hi, v)
  <2>1. /\ inode'[f] = r
        /\ Content(f)' = [live |-> r.live, size |-> r.size,
                          byte |-> [p \in 0 .. MaxFileBytes - 1 |->
                                      IF lo <= p /\ p < hi THEN v ELSE ByteAt(i, p)]]
    BY <1>1, <1>6, <1>8 DEF Content
  <2>2. Larger(i.size, end) = Store!Larger(i.size, end)
    BY DEF Larger, Store!Larger
  <2> DEFINE old == [p \in 0 .. MaxFileBytes - 1 |-> ByteAt(i, p)]
             new == [p \in 0 .. MaxFileBytes - 1 |-> IF lo <= p /\ p < hi THEN v ELSE old[p]]
  <2>3. Seen(i) = [live |-> i.live, size |-> i.size, byte |-> old]
    BY DEF Seen
  <2>4. new = [p \in 0 .. MaxFileBytes - 1 |-> IF lo <= p /\ p < hi THEN v ELSE ByteAt(i, p)]
    OBVIOUS
  <2>5. Store!Overwritten([live |-> i.live, size |-> i.size, byte |-> old], end, lo, hi, v)
          = [live |-> i.live, size |-> Store!Larger(i.size, end), byte |-> new]
    <3> DEFINE c == [live |-> i.live, size |-> i.size, byte |-> old]
    <3> HIDE DEF old
    <3>1. c.size = i.size /\ c.byte = old
      OBVIOUS
    <3> HIDE DEF c
    <3>2. Store!Overwritten(c, end, lo, hi, v)
            = [c EXCEPT !.size = Store!Larger(i.size, end), !.byte = new]
      BY <3>1 DEF Store!Overwritten, Store!Offsets
    <3> HIDE DEF new
    <3> QED
      BY <3>2, RecordUpdated DEF c
  <2> HIDE DEF old, new
  <2> QED
    BY <1>2, <2>1, <2>2, <2>3, <2>4, <2>5
<1>10. ASSUME NEW g \in Files, g # f PROVE Content(g)' = Content(g)
  <2>1. inode'[g] = inode[g] /\ inode[g] \in Inode
    BY <1>1, <1>6, <1>10
  <2>2. \A b \in MappedBlocks(inode[g]) : b \in Blocks /\ b \notin Owned(i) /\ b \notin BlocksOf(q)
    BY <1>1, <1>3, <1>10 DEF Owned, Free
  <2>3. \A b \in MappedBlocks(inode[g]) : disk'[b] = disk[b]
    BY <1>2, <1>4, <1>7, <2>2 DEF Owned
  <2> QED
    BY <2>1, <2>3, SameContent
<1> QED
  BY <1>9, <1>10

\* The content of all files.
Contents == [f \in Files |-> Content(f)]

LEMMA SeenFacts ==
  /\ Seen(NewInode) = [Store!Absent EXCEPT !.live = TRUE]
  /\ Seen(Blank) = Store!Absent
<1> DEFINE zero == [p \in 0 .. MaxFileBytes - 1 |-> 0]
<1>1. /\ NewInode.live = TRUE /\ NewInode.size = 0 /\ NewInode.map = [l \in Logical |-> Hole]
      /\ Blank.live = FALSE /\ Blank.size = 0 /\ Blank.map = [l \in Logical |-> Hole]
  BY DEF NewInode, Blank
<1>2. \A p \in 0 .. MaxFileBytes - 1 : ByteAt(NewInode, p) = 0 /\ ByteAt(Blank, p) = 0
  <2>1. \A p \in 0 .. MaxFileBytes - 1 : ~(p < 0)
    BY FileStoreAssumption
  <2> QED
    BY <1>1, <2>1 DEF ByteAt
<1>3. /\ Seen(NewInode) = [live |-> TRUE, size |-> 0, byte |-> zero]
      /\ Seen(Blank) = [live |-> FALSE, size |-> 0, byte |-> zero]
  BY <1>1, <1>2 DEF Seen
<1>4. Store!Absent = [live |-> FALSE, size |-> 0, byte |-> zero]
  BY DEF Store!Absent, Store!Offsets
<1>5. [Store!Absent EXCEPT !.live = TRUE] = [live |-> TRUE, size |-> 0, byte |-> zero]
  <2> HIDE DEF zero
  <2> DEFINE R == [live : BOOLEAN, size : {0}, byte : {zero}]
             a == Store!Absent
             b == [a EXCEPT !.live = TRUE]
  <2>1. a \in R
    BY <1>4
  <2> HIDE DEF a
  <2>2. b \in R /\ b.live = TRUE
    BY <2>1
  <2> HIDE DEF b
  <2>3. b = [live |-> TRUE, size |-> 0, byte |-> zero]
    BY <2>2
  <2> QED
    BY <2>3 DEF a, b
<1> HIDE DEF zero
<1> QED
  BY <1>3, <1>4, <1>5

\* A change of one file is one of the content.
LEMMA OneChanges ==
  ASSUME NEW f \in Files, \A g \in Files : g # f => Content(g)' = Content(g)
  PROVE  Contents' = [Contents EXCEPT ![f] = Content(f)']
BY DEF Contents

LEMMA NoneChanges ==
  ASSUME \A g \in Files : Content(g)' = Content(g)
  PROVE  Contents' = Contents
BY DEF Contents

LEMMA StopCovers ==
  ASSUME NEW i \in Inode, NEW off \in Nat, NEW end \in 0 .. MaxFileBytes, off <= end
  PROVE  Covers(i.map, off, Stop(i, off, end))
BY StopMapped DEF Covers

LEMMA CreateRefines ==
  ASSUME IInv, NEW f \in Files, NEW n \in 0 .. MaxFileBytes + 1, NEW v \in Values,
         Create(f, n, v)
  PROVE  n \in 0 .. MaxFileBytes /\ (Store!Create(f, n, v) \/ Store!Refused)
<1>1. n \in 0 .. MaxFileBytes /\ n \in Nat /\ 0 \in Nat /\ inode[f] = Blank
  BY FileStoreAssumption, Owners DEF Create
<1>2. PICK q \in Grants(BlocksFor(n)) :
        IF GrowOK(NewInode, q)
        THEN /\ inode' = [inode EXCEPT ![f] = Resized(NewInode, n, q)]
             /\ disk' = Stored(Zeroed(q), Resized(NewInode, n, q), 0, n, v)
             /\ outcome' \in Complete
        ELSE /\ disk' = Zeroed(q)
             /\ outcome' = "failed"
             /\ inode' = inode
  BY DEF Create
<1>3. CASE GrowOK(NewInode, q)
  <2>1. /\ inode' = [inode EXCEPT ![f] = Resized(NewInode, n, q)]
        /\ disk' = Stored(Zeroed(q), Resized(NewInode, n, q), 0, n, v)
    BY <1>2, <1>3
  <2>2. /\ NewInode \in Inode /\ Single(NewInode) /\ Owned(NewInode) = Owned(inode[f])
    BY <1>1, NewInodeFacts
  <2>3. /\ NewInode.live /\ Accounted(NewInode) /\ q \in Grants(Needed(NewInode, n))
        /\ SlackIsZero(NewInode, disk) /\ StrayIsZero(NewInode, disk)
    BY <1>1, FromNothing
  <2>4. n <= n /\ 0 <= n
    BY <1>1
  <2>5. used \subseteq Blocks /\ 0 \in used /\ Owned(NewInode) \subseteq used
    BY <2>2, Owners
  <2>6. Covers(Resized(NewInode, n, q).map, 0, n)
    <3>1. Dense(NewInode)
      <4>1. BlocksFor(0) = 0
        BY FileStoreAssumption DEF BlocksFor
      <4> QED
        BY <4>1, LogicalFacts DEF Dense, NewInode
    <3>2. Stop(Resized(NewInode, n, q), 0, n) = n
      BY <1>1, <1>3, <2>2, <2>3, <2>4, <2>5, <3>1, DenseStop
    <3>3. Resized(NewInode, n, q) \in Inode
      BY <1>1, <1>3, <2>2, <2>3, <2>5, ResizedFacts
    <3>4. Covers(Resized(NewInode, n, q).map, 0, Stop(Resized(NewInode, n, q), 0, n))
      BY <1>1, <2>4, <3>3, StopCovers
    <3> QED
      BY <3>2, <3>4
  <2> HIDE DEF IInv
  <2>7. /\ Content(f)' = Store!Overwritten(Seen(NewInode), n, 0, n, v)
        /\ \A g \in Files : g # f => Content(g)' = Content(g)
    BY <1>1, <1>3, <2>1, <2>2, <2>3, <2>4, <2>6, ContentWritten
  <2>8. Contents' = [Contents EXCEPT ![f] =
                       Store!Overwritten([Store!Absent EXCEPT !.live = TRUE], n, 0, n, v)]
    BY <2>7, OneChanges, SeenFacts
  <2>9. ~Contents[f].live
    BY <1>1 DEF Contents, Content, Blank, NewInode
  <2> QED
    BY <1>1, <1>2, <1>3, <2>8, <2>9
       DEF Store!Create, Contents, Complete, Store!Complete
<1>4. CASE ~GrowOK(NewInode, q)
  <2>1. BlocksOf(q) \subseteq Free
    BY <1>1, Owners, FromNothing, GrantFacts
  <2>2. disk' = Zeroed(q) /\ outcome' = "failed" /\ \A g \in Files : inode'[g] = inode[g]
    BY <1>2, <1>4
  <2>3. \A g \in Files : Content(g)' = Content(g)
    BY <2>1, <2>2, OtherKeepsContent
  <2> QED
    BY <1>1, <2>2, <2>3, NoneChanges DEF Store!Refused, Contents
<1> QED
  BY <1>3, <1>4

LEMMA WriteRefines ==
  ASSUME IInv, NEW f \in Files, NEW r \in Ranges, NEW v \in Values,
         WriteData(f, r.off, r.n, v)
  PROVE  /\ r.off \in 0 .. MaxFileBytes /\ r.n \in 0 .. MaxFileBytes - r.off
         /\ Store!Write(f, r.off, r.n, v) \/ Store!Torn(f, r.off, r.n, v)
<1> DEFINE end == r.off + r.n
<1>1. /\ end \in 0 .. MaxFileBytes /\ end \in Nat /\ r.off \in Nat /\ r.off <= end
      /\ r.off \in 0 .. MaxFileBytes /\ r.n \in 0 .. MaxFileBytes - r.off
  BY FileStoreAssumption DEF WriteData, Ranges
<1>2. PICK q \in Grants(Needed(inode[f], end)) :
        LET i == Resized(inode[f], end, q)
            stop == Stop(i, r.off, end)
        IN /\ GrowOK(inode[f], q)
           /\ inode' = [inode EXCEPT ![f] = i]
           /\ disk' = Stored(Zeroed(q), i, r.off, stop, v)
           /\ IF stop = end THEN outcome' \in Complete
                            ELSE outcome' = "failed"
  BY DEF WriteData
<1> DEFINE i == Resized(inode[f], end, q)
           stop == Stop(i, r.off, end)
<1>3. /\ used \subseteq Blocks /\ 0 \in used
      /\ inode[f] \in Inode /\ Single(inode[f]) /\ Owned(inode[f]) \subseteq used
      /\ SlackIsZero(inode[f], disk) /\ StrayIsZero(inode[f], disk) /\ inode[f].live
  BY Owners DEF WriteData
<1>4. /\ GrowOK(inode[f], q) /\ Owned(inode[f]) = Owned(inode[f])
      /\ IF stop = end THEN outcome' \in Complete ELSE outcome' = "failed"
      /\ inode' = [inode EXCEPT ![f] = Resized(inode[f], end, q)]
      /\ disk' = Stored(Zeroed(q), Resized(inode[f], end, q), r.off, stop, v)
  BY <1>2
<1> HIDE DEF end
<1>5. i \in Inode
  BY <1>1, <1>3, <1>4, ResizedFacts
<1>6. stop \in r.off .. end
  BY <1>1, <1>5, StopFacts
<1>7. stop \in Nat /\ stop <= end
  BY <1>1, <1>6
<1>8. Covers(Resized(inode[f], end, q).map, r.off, stop)
  BY <1>1, <1>5, StopCovers
<1> HIDE DEF stop, i, IInv
<1>9. /\ Content(f)' = Store!Overwritten(Seen(inode[f]), end, r.off, stop, v)
      /\ \A g \in Files : g # f => Content(g)' = Content(g)
  BY <1>1, <1>3, <1>4, <1>7, <1>8, ContentWritten
<1>10. Contents' = [Contents EXCEPT ![f] =
                      Store!Overwritten(Contents[f], end, r.off, stop, v)]
  <2>1. Contents[f] = Seen(inode[f])
    BY DEF Contents, Content, Seen
  <2> QED
    BY <1>9, <2>1, OneChanges
<1>11. Contents[f].live
  BY <1>3 DEF Contents, Content
<1>12. CASE stop = end
  <2>1. outcome' \in Store!Complete
    BY <1>4, <1>12 DEF Complete, Store!Complete
  <2> QED
    BY <1>1, <1>10, <1>11, <1>12, <2>1 DEF Store!Write, Contents, end
<1>13. CASE stop # end
  <2>1. outcome' = "failed"
    BY <1>4, <1>13
  <2>2. stop \in r.off .. r.off + r.n
    BY <1>6 DEF end
  <2> QED
    BY <1>1, <1>10, <1>11, <2>1, <2>2 DEF Store!Torn, Contents, end
<1> QED
  BY <1>12, <1>13

LEMMA RemoveRefines ==
  ASSUME IInv, NEW f \in Files, Remove(f)
  PROVE  Store!Remove(f)
<1>1. /\ inode' = [inode EXCEPT ![f] = Blank] /\ disk' = disk /\ outcome' = "done"
      /\ inode[f].live /\ inode \in [Files -> Inode]
  BY DEF Remove, IInv, TypeOK
<1>2. Content(f)' = Store!Absent
  <2>1. inode'[f] = Blank
    BY <1>1
  <2>2. \A p \in 0 .. MaxFileBytes - 1 : ByteAt(inode[f], p)' = 0 /\ ByteAt(Blank, p) = 0
    <3>1. Blank.size = 0 /\ \A p \in 0 .. MaxFileBytes - 1 : ~(p < 0)
      BY FileStoreAssumption DEF Blank, NewInode
    <3> QED
      BY <2>1, <3>1 DEF ByteAt
  <2>3. Content(f)' = Seen(Blank)
    BY <2>1, <2>2 DEF Content, Seen
  <2> QED
    BY <2>3, SeenFacts
<1>3. \A g \in Files : g # f => Content(g)' = Content(g)
  BY <1>1, SameContent
<1>4. Contents' = [Contents EXCEPT ![f] = Store!Absent]
  BY <1>2, <1>3, OneChanges
<1>5. Contents[f].live
  BY <1>1 DEF Contents, Content
<1> QED
  BY <1>1, <1>4, <1>5 DEF Store!Remove, Contents

\* A mounted image shows files an abstract store may start with.
LEMMA InitRefines == Init => Store!Init
<1>1. SUFFICES ASSUME Init PROVE Store!Init
  OBVIOUS
<1>2. IInv /\ outcome = "done"
  BY <1>1, Initially DEF Init
<1>3. ASSUME NEW f \in Files
      PROVE  /\ Content(f) \in [live : BOOLEAN, size : 0 .. MaxFileBytes,
                                byte : [0 .. MaxFileBytes - 1 -> Bytes]]
             /\ Content(f).live \/ Content(f) = Store!Absent
  <2>1. inode[f] \in Inode /\ disk \in [Blocks -> [Cells -> Bytes]]
    BY <1>2, Owners
  <2>2. ASSUME NEW p \in 0 .. MaxFileBytes - 1 PROVE ByteAt(inode[f], p) \in Bytes
    <3>1. p \div BlockSize \in Logical /\ p % BlockSize \in Cells
      BY ByteFacts
    <3>2. inode[f].map[p \div BlockSize] >= 0 => inode[f].map[p \div BlockSize] \in Blocks
      BY <2>1, <3>1, MappedFacts
    <3> QED
      BY <2>1, <3>1, <3>2, DiskFacts DEF ByteAt
  <2>3. Content(f) \in [live : BOOLEAN, size : 0 .. MaxFileBytes,
                        byte : [0 .. MaxFileBytes - 1 -> Bytes]]
    BY <2>1, <2>2 DEF Content, Inode
  <2>4. CASE inode[f].live
    BY <2>3, <2>4 DEF Content
  <2>5. CASE inode[f] = Blank
    <3>1. Content(f) = Seen(Blank)
      BY <2>5 DEF Content, Seen
    <3> QED
      BY <2>3, <3>1, SeenFacts
  <2> QED
    BY <1>2, <2>3, <2>4, <2>5, Owners
<1>4. Contents \in [Files -> [live : BOOLEAN, size : 0 .. MaxFileBytes,
                              byte : [0 .. MaxFileBytes - 1 -> Bytes]]]
  BY <1>3 DEF Contents
<1>5. \A f \in Files : Contents[f].live \/ Contents[f] = Store!Absent
  BY <1>3 DEF Contents
<1> QED
  BY <1>2, <1>4, <1>5 DEF Store!Init, Contents, Store!Offsets, Store!Bytes, Bytes

\* Files on blocks behave as files that do not disturb each other and whose bytes
\* are zero until they are written.
THEOREM Implements == Spec => IndependentFiles
<1>1. ASSUME IInv, [Next]_vars
      PROVE  [Store!Next]_<<Contents, outcome>>
  <2>1. ASSUME UNCHANGED <<inode, disk>> PROVE Contents' = Contents
    <3>1. \A g \in Files : inode[g] \in Inode
      BY <1>1, Owners
    <3> QED
      BY <2>1, <3>1, SameContent, NoneChanges
  <2>2. CASE UNCHANGED vars
    BY <2>1, <2>2 DEF vars
  <2>3. CASE Refuse
    <3>1. Store!Refused
      BY <2>1, <2>3 DEF Refuse, Store!Refused, Contents
    <3> QED
      BY <3>1 DEF Store!Next
  <2>4. CASE \E f \in Files, n \in 0 .. MaxFileBytes + 1, v \in Values : Create(f, n, v)
    BY <1>1, <2>4, CreateRefines DEF Store!Next
  <2>5. CASE \E f \in Files, r \in Ranges, v \in Values : WriteData(f, r.off, r.n, v)
    BY <1>1, <2>5, WriteRefines DEF Store!Next
  <2>6. CASE \E f \in Files, r \in Ranges : WriteNotNormalized(f, r.off, r.n)
    <3>1. Contents' = Contents
      BY <1>1, <2>6, NotNormalizedKeepsContent, NoneChanges
    <3>2. Store!Refused
      BY <2>6, <3>1 DEF WriteNotNormalized, Store!Refused, Contents
    <3> QED
      BY <3>2 DEF Store!Next
  <2>7. CASE \E f \in Files : Remove(f)
    BY <1>1, <2>7, RemoveRefines DEF Store!Next
  <2> QED
    BY <1>1, <2>2, <2>3, <2>4, <2>5, <2>6, <2>7 DEF Next, CreateRefused, WriteRefused
<1>2. IInv /\ [Next]_vars => [Store!Next]_<<[f \in Files |-> Content(f)], outcome>>
  BY <1>1 DEF Contents
<1> QED
  BY <1>2, InitRefines, Inductive, PTL DEF Spec, IndependentFiles, Store!Spec

-----------------------------------------------------------------------------
(* The checker, in every state of the files. *)

\* What the checker counts for a file is all that it owns, or nothing.
LEMMA ReferencedFacts ==
  ASSUME IInv, NEW f \in LiveFiles
  PROVE  Referenced(inode[f]) = IF f \in Broken THEN {} ELSE Owned(inode[f])
<1>1. f \in Files /\ Single(inode[f])
  BY DEF LiveFiles, IInv, BlockOwnership, OwnedOnce, Single
<1>2. CASE f \in Broken
  BY <1>2 DEF Broken, Referenced
<1>3. CASE f \notin Broken
  <2>1. Valid(inode[f])
    BY <1>3 DEF Broken
  <2>2. Owned(inode[f]) = MappedBlocks(inode[f])
    BY <2>1 DEF Valid, Owned, StrayBlocks
  <2> QED
    BY <1>1, <1>3, <2>1, <2>2 DEF Referenced, Single
<1> QED
  BY <1>2, <1>3

\* A file that is not there owns nothing.
LEMMA OnlyLiveOwn ==
  ASSUME IInv, NEW f \in Files \ LiveFiles
  PROVE  Owned(inode[f]) = {}
<1>1. inode[f] = Blank
  BY DEF IInv, LiveFiles
<1>2. inode[f].stray = {} /\ inode[f].map = [l \in Logical |-> Hole]
  BY <1>1 DEF Blank, NewInode
<1> QED
  BY <1>2 DEF Owned, MappedBlocks, StrayBlocks

LEMMA CheckerFinds ==
  ASSUME IInv
  PROVE  OnlyBrokenLooksLeaked
<1>1. /\ used = {0} \cup UNION {Owned(inode[f]) : f \in Files}
      /\ \A f \in Files : 0 \notin Owned(inode[f])
      /\ \A f, g \in Files : f # g => Owned(inode[f]) \cap Owned(inode[g]) = {}
  BY DEF IInv, BlockOwnership, OwnedOnce, OwnedByFiles
<1>2. LiveFiles \subseteq Files /\ Broken \subseteq LiveFiles
  BY DEF LiveFiles, Broken
<1>3. \A f \in LiveFiles :
        Referenced(inode[f]) = IF f \in Broken THEN {} ELSE Owned(inode[f])
  BY ReferencedFacts
<1>4. \A f \in Files \ LiveFiles : Owned(inode[f]) = {}
  BY OnlyLiveOwn
<1>5. DuplicateBlocks = {}
  BY <1>1, <1>2, <1>3 DEF DuplicateBlocks
<1>6. MarkedFree = {}
  BY <1>1, <1>2, <1>3 DEF MarkedFree, AllReferenced
<1>7. ASSUME NEW b
      PROVE  b \in Unreferenced <=> \E f \in Broken : b \in Owned(inode[f])
  <2>1. b \in AllReferenced <=> \E f \in LiveFiles \ Broken : b \in Owned(inode[f])
    BY <1>3 DEF AllReferenced
  <2>2. b \in used \ {0} <=> \E f \in LiveFiles : b \in Owned(inode[f])
    BY <1>1, <1>2, <1>4
  <2>3. \A f, g \in LiveFiles : b \in Owned(inode[f]) /\ b \in Owned(inode[g]) => f = g
    BY <1>1, <1>2
  <2> QED
    BY <1>2, <2>1, <2>2, <2>3 DEF Unreferenced
<1>8. Unreferenced = UNION {Owned(inode[f]) : f \in Broken}
  BY <1>7
<1>9. Broken = {} => Plan = {}
  BY <1>6, <1>8 DEF Plan
<1> QED
  BY <1>5, <1>6, <1>8, <1>9 DEF OnlyBrokenLooksLeaked

\* The checker finds no block owned twice or marked free while it is owned, and
\* takes for leaked exactly the blocks of the files whose inodes do not verify,
\* so that the plan of repairs is to release blocks that are not lost.
THEOREM LeaksAreOwned == Spec => []OnlyBrokenLooksLeaked
<1>1. IInv => OnlyBrokenLooksLeaked
  BY CheckerFinds
<1> QED
  BY <1>1, Inductive, PTL
=============================================================================
