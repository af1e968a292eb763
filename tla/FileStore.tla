------------------------------ MODULE FileStore ------------------------------
(***************************************************************************)
(* The data of regular files in src/src/filesystem.cc: resize_inode,       *)
(* write_inode_data, read_inode_data, release_inode_blocks, and the parts  *)
(* of create_node, write and remove that use them.  Block allocation is    *)
(* the first-fit pool that module BlockAllocator implements.               *)
(*                                                                         *)
(* An inode's extents are the map from logical to physical blocks that     *)
(* module Extents shows them to mean.  resize_inode pushes one extent per  *)
(* new block and then normalizes the list; when normalize() fails, the     *)
(* pushed extents and their blocks stay with the inode: they are in        *)
(* `stray`, which is empty in every inode that has not met that failure.   *)
(*                                                                         *)
(* A byte is 0 or one of Values; one write writes one value throughout.    *)
(***************************************************************************)
EXTENDS Integers, FiniteSets

CONSTANTS Files,          \* names of regular files
          Values,         \* bytes other than 0
          BlockCount,     \* superblock.block_count
          BlockSize,      \* superblock.block_size
          MaxFileBytes,   \* Limits::max_file_bytes
          MaxExtents,     \* Limits::max_extents_per_inode
          Images          \* [disk, inode] of the images that may be mounted

\* The limit on files is a multiple of the block size, as the default is of
\* every block size that format accepts.
ASSUME FileStoreAssumption ==
  /\ BlockCount \in Nat \ {0} /\ BlockSize \in Nat \ {0}
  /\ MaxFileBytes \in Nat /\ MaxExtents \in Nat
  /\ MaxFileBytes % BlockSize = 0
  /\ Values \subseteq Nat \ {0}

VARIABLES used,     \* the allocated blocks
          disk,     \* disk[b][c] is byte c of block b
          inode,    \* the inode of each file, Blank when there is none
          outcome   \* how the last operation ended

vars == <<used, disk, inode, outcome>>

\* In a transaction create_file and write append a journal record when they
\* have done everything else.  When the journal does not take it they return
\* an error as well, and leave what they did in place: the call is unrecorded.
\* When the journal is full is a matter of module Filesystem.
Complete == {"done", "unrecorded"}
Outcomes == Complete \cup {"failed"}

Blocks == 0 .. BlockCount - 1
Cells == 0 .. BlockSize - 1
Bytes == {0} \cup Values
Logical == 0 .. MaxFileBytes \div BlockSize - 1

Hole == -1        \* no extent covers the logical block
Sparse == -2      \* a sparse extent does

Inode == [live : BOOLEAN, size : 0 .. MaxFileBytes,
          map : [Logical -> Blocks \cup {Hole, Sparse}],
          stray : SUBSET [logical : Logical, block : Blocks],
          allocated : Nat]     \* allocated_bytes, in blocks

ASSUME ImagesAssumption ==
  \A image \in Images : /\ image.disk \in [Blocks -> [Cells -> Bytes]]
                         /\ image.inode \in [Files -> Inode]

NewInode == [live |-> TRUE, size |-> 0, map |-> [l \in Logical |-> Hole],
             stray |-> {}, allocated |-> 0]
Blank == [NewInode EXCEPT !.live = FALSE]

BlocksFor(n) == (n + BlockSize - 1) \div BlockSize
Larger(m, n) == IF m < n THEN n ELSE m

\* The physical blocks of an inode.
MappedBlocks(i) == {i.map[l] : l \in Logical} \ {Hole, Sparse}
StrayBlocks(i) == {s.block : s \in i.stray}
Owned(i) == MappedBlocks(i) \cup StrayBlocks(i)

PhysicalCount(i) ==
  Cardinality({l \in Logical : i.map[l] >= 0}) + Cardinality(i.stray)

\* extents.size(): a normalized list has one extent per maximal run.
Continues(m, l) == /\ l > 0
                   /\ \/ m[l] = Sparse /\ m[l - 1] = Sparse
                      \/ m[l] >= 0 /\ m[l - 1] >= 0 /\ m[l] = m[l - 1] + 1
Runs(m) == Cardinality({l \in Logical : m[l] # Hole /\ ~Continues(m, l)})
ExtentCount(i) == Runs(i.map) + Cardinality(i.stray)

NoOverlap(i) == \A s \in i.stray :
                  /\ i.map[s.logical] = Hole
                  /\ \A t \in i.stray : s.logical = t.logical => s = t

-----------------------------------------------------------------------------
(* mount() fails for the whole image when one inode in it is not Valid     *)
(* (Inode::validate, which calls ExtentResolver::verify), and the checker  *)
(* reports such an inode.  InodeCodec::encode does not call validate:      *)
(* serialize() fails only for an inode that is not Encodable, so it also   *)
(* writes images that mount() refuses.                                     *)

Encodable(i) == ExtentCount(i) <= MaxExtents

Valid(i) ==
  /\ ExtentCount(i) <= MaxExtents
  /\ NoOverlap(i)
  /\ i.stray = {}                  \* the list is canonical
  /\ i.allocated = PhysicalCount(i)
  /\ i.allocated * BlockSize <= MaxFileBytes
  /\ i.size = 0 \/ \A l \in Logical : i.map[l] # Hole => l < BlocksFor(i.size)

-----------------------------------------------------------------------------
(* The allocator: allocate_many(n) gives the n lowest free blocks.         *)

\* Mutant of Free: the block after the last one counts as free.
FreeBeyond == (0 .. BlockCount) \ used

Free == Blocks \ used

\* Of the pool's definitions only LowestFree is used here.
Pool == INSTANCE FirstFit
          WITH BitmapBits <- BlockCount, request <- outcome, answer <- outcome

Grants(n) == {q \in [1 .. n -> Free] : Pool!LowestFree(q, n)}
BlocksOf(q) == {q[k] : k \in DOMAIN q}

\* Mutant of Zeroed: new blocks keep what they held.
NotZeroed(q) == disk

Zeroed(q) == [b \in Blocks |-> IF b \in BlocksOf(q) THEN [c \in Cells |-> 0]
                               ELSE disk[b]]

-----------------------------------------------------------------------------
(* resize_inode to a larger size.  The branch that shrinks has no caller.  *)

Needed(i, size) == Larger(BlocksFor(size) - BlocksFor(i.size), 0)

\* The inode with one extent pushed for each block of q.
Pushed(i, q) ==
  [i EXCEPT !.stray = @ \cup {[logical |-> BlocksFor(i.size) + k - 1,
                               block |-> q[k]] : k \in DOMAIN q}]

\* normalize() checks the number of extents before it merges any of them.
CanNormalize(i) == ExtentCount(i) <= MaxExtents /\ NoOverlap(i)

Normalized(i) ==
  [i EXCEPT !.map = [l \in Logical |->
                       IF \E s \in i.stray : s.logical = l
                       THEN (CHOOSE s \in i.stray : s.logical = l).block
                       ELSE i.map[l]],
            !.stray = {}]

\* normalize() is called only when there are new blocks.
GrowOK(i, q) == q = <<>> \/ CanNormalize(Pushed(i, q))

\* Mutant of Grown: allocated_bytes is left as it was.
GrownUncounted(i, size, q) ==
  LET n == IF q = <<>> THEN i ELSE Normalized(Pushed(i, q))
  IN [n EXCEPT !.size = size]

Grown(i, size, q) ==
  LET n == IF q = <<>> THEN i ELSE Normalized(Pushed(i, q))
  IN [n EXCEPT !.size = size, !.allocated = PhysicalCount(n)]

\* write_inode_data calls resize_inode only for a write beyond the end.
Resized(i, end, q) == IF end > i.size THEN Grown(i, end, q) ELSE i

-----------------------------------------------------------------------------
(* write_inode_data's loop: it stops at the first block that has no        *)
(* physical block.                                                         *)

Stop(i, off, end) ==
  LET missing == {l \in off \div BlockSize .. BlocksFor(end) - 1 : i.map[l] < 0}
  IN IF off = end \/ missing = {} THEN end
     ELSE Larger(off, BlockSize * CHOOSE l \in missing : \A k \in missing : l <= k)

\* Mutant of Stored: whole blocks are written.
StoredInBlocks(d, i, lo, hi, v) ==
  LET touched == {l \in Logical : i.map[l] >= 0 /\ l * BlockSize < hi
                                  /\ lo < (l + 1) * BlockSize}
  IN [b \in Blocks |-> IF \E l \in touched : i.map[l] = b
                       THEN [c \in Cells |-> v] ELSE d[b]]

\* Disk d with v in the bytes of file i from lo up to hi.
Stored(d, i, lo, hi, v) ==
  LET touched == {l \in Logical : i.map[l] >= 0 /\ l * BlockSize < hi
                                  /\ lo < (l + 1) * BlockSize}
  IN [b \in Blocks |->
        IF \E l \in touched : i.map[l] = b
        THEN LET l == CHOOSE l \in touched : i.map[l] = b
             IN [c \in Cells |-> IF lo <= l * BlockSize + c /\ l * BlockSize + c < hi
                                 THEN v ELSE d[b][c]]
        ELSE d[b]]

\* read_inode_data, one byte: a hole or a sparse extent reads as 0.
ByteAt(i, p) ==
  IF p < i.size /\ i.map[p \div BlockSize] >= 0
  THEN disk[i.map[p \div BlockSize]][p % BlockSize] ELSE 0

-----------------------------------------------------------------------------
\* The bitmap of an image that the consistency checker finds nothing wrong
\* with: block 0 and what the inodes own, no block being owned twice.
OwnedOnce(nodes) ==
  /\ \A f \in Files : /\ 0 \notin Owned(nodes[f])
                      /\ \A l, k \in Logical :
                           nodes[f].map[l] = nodes[f].map[k] /\ nodes[f].map[l] >= 0
                             => l = k
  /\ \A f, g \in Files : f # g => Owned(nodes[f]) \cap Owned(nodes[g]) = {}

OwnedByFiles(nodes) == {0} \cup UNION {Owned(nodes[f]) : f \in Files}

\* The bytes of a file's blocks beyond its end are 0.
SlackIsZero(i, d) == \A l \in Logical, c \in Cells :
                       i.map[l] >= 0 /\ l * BlockSize + c >= i.size
                         => d[i.map[l]][c] = 0

SoundImage(image) ==
  /\ \A f \in Files : \/ image.inode[f] = Blank
                      \/ image.inode[f].live /\ Valid(image.inode[f])
  /\ OwnedOnce(image.inode)
  /\ \A f \in Files : SlackIsZero(image.inode[f], image.disk)

\* format(), or mount() of a sound image.
Init == /\ \/ /\ inode = [f \in Files |-> Blank]
              /\ disk = [b \in Blocks |-> [c \in Cells |-> 0]]
           \/ \E image \in Images : /\ SoundImage(image)
                                    /\ inode = image.inode /\ disk = image.disk
        /\ used = OwnedByFiles(inode)
        /\ outcome = "done"

Refuse == outcome' = "failed" /\ UNCHANGED <<used, disk, inode>>

\* create_file with n bytes of content (create_node, filesystem.cc:416-431).
\* When the content cannot be stored, the blocks it got are released and the
\* inode erased; the blocks have been zeroed by then.
Create(f, n, v) ==
  /\ ~inode[f].live
  /\ n <= MaxFileBytes
  /\ \E q \in Grants(BlocksFor(n)) :
       IF GrowOK(NewInode, q)
       THEN LET i == Resized(NewInode, n, q) IN
            /\ inode' = [inode EXCEPT ![f] = i]
            /\ disk' = Stored(Zeroed(q), i, 0, n, v)
            /\ used' = used \cup BlocksOf(q)
            /\ outcome' \in Complete
       ELSE /\ disk' = Zeroed(q)
            /\ outcome' = "failed"
            /\ UNCHANGED <<used, inode>>

CreateRefused(f, n) ==
  /\ inode[f].live \/ n > MaxFileBytes \/ Grants(BlocksFor(n)) = {}
  /\ Refuse

\* write() of n bytes at off, beyond the end or within the file: the inode is
\* resized first, then the data is stored up to the first missing block.
WriteData(f, off, n, v) ==
  LET end == off + n IN
  /\ inode[f].live
  /\ end <= MaxFileBytes
  /\ \E q \in Grants(Needed(inode[f], end)) :
       /\ GrowOK(inode[f], q)
       /\ LET i == Resized(inode[f], end, q)
              stop == Stop(i, off, end)
          IN /\ inode' = [inode EXCEPT ![f] = i]
             /\ disk' = Stored(Zeroed(q), i, off, stop, v)
             /\ used' = used \cup BlocksOf(q)
             /\ IF stop = end THEN outcome' \in Complete
                              ELSE outcome' = "failed"

\* Mutant of WriteNotNormalized: the size is updated before normalize().
WriteSizedFirst(f, off, n) ==
  /\ inode[f].live
  /\ off + n <= MaxFileBytes
  /\ \E q \in Grants(Needed(inode[f], off + n)) :
       /\ ~GrowOK(inode[f], q)
       /\ inode' = [inode EXCEPT ![f] = [Pushed(inode[f], q) EXCEPT !.size = off + n]]
       /\ disk' = Zeroed(q)
       /\ used' = used \cup BlocksOf(q)
       /\ outcome' = "failed"

\* write() whose resize fails in normalize(): the blocks have been taken and
\* zeroed and their extents pushed; size and allocated_bytes are not updated.
WriteNotNormalized(f, off, n) ==
  /\ inode[f].live
  /\ off + n <= MaxFileBytes
  /\ \E q \in Grants(Needed(inode[f], off + n)) :
       /\ ~GrowOK(inode[f], q)
       /\ inode' = [inode EXCEPT ![f] = Pushed(inode[f], q)]
       /\ disk' = Zeroed(q)
       /\ used' = used \cup BlocksOf(q)
       /\ outcome' = "failed"

WriteRefused(f, off, n) ==
  /\ \/ ~inode[f].live
     \/ off + n > MaxFileBytes
     \/ Grants(Needed(inode[f], off + n)) = {}
  /\ Refuse

\* Mutant of Remove: only the blocks of a normalized list are released.
RemoveMapped(f) == /\ inode[f].live
                   /\ inode' = [inode EXCEPT ![f] = Blank]
                   /\ used' = used \ MappedBlocks(inode[f])
                   /\ outcome' = "done"
                   /\ UNCHANGED disk

\* remove() of the last link: release_inode_blocks, strays included.
Remove(f) == /\ inode[f].live
             /\ inode' = [inode EXCEPT ![f] = Blank]
             /\ used' = used \ Owned(inode[f])
             /\ outcome' = "done"
             /\ UNCHANGED disk

\* Offsets and lengths up to one byte too many.
Ranges == {r \in [off : 0 .. MaxFileBytes + 1, n : 0 .. MaxFileBytes + 1] :
             r.off + r.n <= MaxFileBytes + 1}

Next == \/ \E f \in Files, n \in 0 .. MaxFileBytes + 1, v \in Values : Create(f, n, v)
        \/ \E f \in Files, n \in 0 .. MaxFileBytes + 1 : CreateRefused(f, n)
        \/ \E f \in Files, r \in Ranges, v \in Values : WriteData(f, r.off, r.n, v)
        \/ \E f \in Files, r \in Ranges : WriteNotNormalized(f, r.off, r.n)
        \/ \E f \in Files, r \in Ranges : WriteRefused(f, r.off, r.n)
        \/ \E f \in Files : Remove(f)

Spec == Init /\ [][Next]_vars

-----------------------------------------------------------------------------
\* The state is well typed.
TypeOK == /\ used \in SUBSET Blocks
          /\ disk \in [Blocks -> [Cells -> Bytes]]
          /\ inode \in [Files -> Inode]
          /\ outcome \in Outcomes

\* A block is allocated exactly when it is block 0 or a file owns it, and no
\* block is owned twice, failed writes, failed creations and removals
\* notwithstanding.
BlockOwnership ==
  /\ used = OwnedByFiles(inode)
  /\ OwnedOnce(inode)
  /\ \A f \in Files :
       /\ MappedBlocks(inode[f]) \cap StrayBlocks(inode[f]) = {}
       /\ \A s, t \in inode[f].stray : s.block = t.block => s = t

\* The bytes beyond the end of a file are zero on the disk, so a later write
\* beyond them exposes neither old data of the file nor of a removed one.
NoStaleTail == \A f \in Files : SlackIsZero(inode[f], disk)

\* An inode that mount() would refuse has met a failure of normalize(), or was
\* empty with extents beyond its end and has been written to: nothing else
\* makes an inode invalid, and a failure of normalize() always does.  Only the
\* former can make serialize() fail.
BeyondEnd(i) == {l \in Logical : i.map[l] # Hole /\ l >= BlocksFor(i.size)}

InvalidHasCause ==
  \A f \in Files :
    inode[f].live =>
      /\ inode[f].stray # {} => ~Valid(inode[f])
      /\ inode[f].stray = {} /\ BeyondEnd(inode[f]) = {} => Valid(inode[f])
      /\ inode[f].stray = {} => Encodable(inode[f])

\* serialize() always succeeds: tests.cc:164 "serialize filesystem".
AlwaysSavable == \A f \in Files : inode[f].live => Encodable(inode[f])

\* A call that fails changes no byte of a file that has a block for every
\* byte, so that writes into such files are all or nothing: unless all that
\* failed is the record in the journal, after everything was stored.  Then
\* the whole write is there, as IndependentFiles says, and an error returned.
Dense(i) == \A l \in Logical : l < BlocksFor(i.size) => i.map[l] >= 0

Content(f) == [live |-> inode[f].live, size |-> inode[f].size,
               byte |-> [p \in 0 .. MaxFileBytes - 1 |-> ByteAt(inode[f], p)]]

FailureLeavesContent ==
  [][outcome' = "failed" =>
       \A f \in Files : Dense(inode[f]) => Content(f)' = Content(f)]_vars

\* The blocks implement files that do not disturb each other.
Store == INSTANCE FlatFiles
           WITH content <- [f \in Files |-> Content(f)]
IndependentFiles == Store!Spec
=============================================================================
