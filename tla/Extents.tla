------------------------------ MODULE Extents ------------------------------
(***************************************************************************)
(* ExtentResolver of src/src/inode.cc on lists of extents, and what a list *)
(* means: a partial map from logical to physical blocks.  FileStore keeps  *)
(* the map and counts its maximal runs; this module checks, on every short *)
(* list, that the code's algorithms agree with that reading.  `list` grows *)
(* one arbitrary extent at a time.                                         *)
(***************************************************************************)
EXTENDS Integers, SequencesExt

CONSTANTS DeviceBlocks,    \* superblock.block_count
          LogicalBlocks,   \* bound on the logical blocks of an input
          MaxCount,        \* bound on the block_count of an input
          MaxJoined,       \* std::numeric_limits<uint32_t>::max()
          MaxExtents,      \* Limits::max_extents_per_inode
          MaxList          \* bound on the length of an input

\* The extents end within as many blocks as a joined extent can count: with
\* blocks of 512 bytes, files below 2 TB.
ASSUME ExtentsAssumption ==
  /\ DeviceBlocks \in Nat \ {0} /\ LogicalBlocks \in Nat \ {0}
  /\ MaxCount \in Nat \ {0} /\ MaxExtents \in Nat /\ MaxList \in Nat
  /\ MaxJoined \in Nat /\ LogicalBlocks - 1 + MaxCount <= MaxJoined

\* The physical block of a sparse extent is never looked at and is 0 here.
Extent == {e \in [logical : 0 .. LogicalBlocks - 1, physical : 0 .. DeviceBlocks,
                  count : 0 .. MaxCount, sparse : BOOLEAN] : e.sparse => e.physical = 0}

VARIABLE list

LogicalEnd(e) == e.logical + e.count
PhysicalEnd(e) == e.physical + e.count

-----------------------------------------------------------------------------
(* ExtentResolver::map. *)

Hole == -1         \* no extent covers the block
Sparse == -2       \* a sparse extent does
MapFails == -3     \* an error: an extent without blocks, or outside the device

Covers(e, l) == l >= e.logical /\ l < LogicalEnd(e)

Target(e, l) == IF e.sparse THEN Sparse
                ELSE IF e.physical + (l - e.logical) >= DeviceBlocks THEN MapFails
                ELSE e.physical + (l - e.logical)

\* The first extent of the list that covers l decides, or the first without
\* blocks if the search meets it before.
MapBlock(s, l) ==
  LET deciding == {i \in 1 .. Len(s) : s[i].count = 0 \/ Covers(s[i], l)}
      first == s[Min(deciding)]
  IN IF deciding = {} THEN Hole
     ELSE IF first.count = 0 THEN MapFails ELSE Target(first, l)

-----------------------------------------------------------------------------
(* ExtentResolver::normalize. *)

Failed == [ok |-> FALSE, list |-> <<>>]

InDevice(e) == e.sparse \/ PhysicalEnd(e) <= DeviceBlocks

\* Mutant of Adjacent: a sparse extent merges with one that is not.
AdjacentLoosely(p, e) ==
  e.logical = LogicalEnd(p) /\ (p.sparse \/ e.physical = PhysicalEnd(p))

Adjacent(p, e) ==
  /\ e.logical = LogicalEnd(p)
  /\ p.sparse = e.sparse
  /\ p.sparse \/ e.physical = PhysicalEnd(p)

\* One turn of its loop; done is the vector it builds.
MergeExtent(done, e) ==
  IF ~done.ok \/ e.count = 0 \/ ~InDevice(e) THEN Failed
  ELSE IF done.list = <<>> THEN [done EXCEPT !.list = <<e>>]
  ELSE LET p == Last(done.list) IN
       IF e.logical < LogicalEnd(p) THEN Failed
       ELSE IF Adjacent(p, e) /\ p.count + e.count <= MaxJoined
       THEN [done EXCEPT !.list[Len(done.list)].count = p.count + e.count]
       ELSE [done EXCEPT !.list = Append(done.list, e)]

\* The result of n turns.
Merging(s) ==
  LET after[n \in 0 .. Len(s)] ==
        IF n = 0 THEN [ok |-> TRUE, list |-> <<>>] ELSE MergeExtent(after[n - 1], s[n])
  IN after

\* std::sort may leave extents that start at the same block in any order.
Sortings(s) ==
  {p \in Bijection(1 .. Len(s), 1 .. Len(s)) :
     \A i, j \in 1 .. Len(s) : i < j => s[p[i]].logical <= s[p[j]].logical}

Sorted(s) == LET p == CHOOSE p \in Sortings(s) : TRUE
             IN [i \in 1 .. Len(s) |-> s[p[i]]]

\* The limit is checked on the list as it comes, before anything is merged.
WithinLimit(s) == Len(s) <= MaxExtents

Normalize(s) == IF ~WithinLimit(s) THEN Failed ELSE Merging(Sorted(s))[Len(s)]

-----------------------------------------------------------------------------
(* ExtentResolver::verify and physical_blocks, for a file of `size` blocks *)
(* whose allocated_bytes stand for `allocated` blocks.                     *)

PhysicalBlockCount(s) ==
  LET sum[n \in 0 .. Len(s)] ==
        IF n = 0 THEN 0 ELSE sum[n - 1] + IF s[n].sparse THEN 0 ELSE s[n].count
  IN sum[Len(s)]

\* Mutant of Verify: the list need not be canonical.
VerifyLoosely(s, size, allocated) ==
  /\ Normalize(s).ok
  /\ allocated = PhysicalBlockCount(s)
  /\ size = 0 \/ \A i \in 1 .. Len(s) : LogicalEnd(s[i]) <= size

Verify(s, size, allocated) ==
  /\ Normalize(s).ok
  /\ Len(Normalize(s).list) = Len(s)
  /\ allocated = PhysicalBlockCount(s)
  /\ size = 0 \/ \A i \in 1 .. Len(s) : LogicalEnd(s[i]) <= size

BlocksOf(e) == IF e.sparse THEN {} ELSE e.physical .. PhysicalEnd(e) - 1

PhysicalBlocks(s) == UNION {BlocksOf(s[i]) : i \in 1 .. Len(s)}

\* physical_blocks() gives an error when a block would be inserted twice.
NoBlockTwice(s) == Cardinality(PhysicalBlocks(s)) = PhysicalBlockCount(s)

-----------------------------------------------------------------------------
(* What a list means. *)

Logical == 0 .. LogicalBlocks + MaxCount - 1

Meaning(s) == [l \in Logical |-> MapBlock(s, l)]

\* Position l of a map continues the run of l - 1.
Continues(m, l) ==
  /\ l - 1 \in DOMAIN m
  /\ \/ m[l] = Sparse /\ m[l - 1] = Sparse
     \/ m[l] >= 0 /\ m[l - 1] >= 0 /\ m[l] = m[l - 1] + 1

RunStarts(m) == {l \in DOMAIN m : m[l] # Hole /\ ~Continues(m, l)}

Overlap(s) == \E i, j \in 1 .. Len(s), l \in Logical :
                i # j /\ Covers(s[i], l) /\ Covers(s[j], l)

WellFormed(s) == \A i \in 1 .. Len(s) : s[i].count > 0 /\ InDevice(s[i])

Init == list = <<>>
Next == /\ Len(list) < MaxList
        /\ \E e \in Extent : list' = Append(list, e)
Spec == Init /\ [][Next]_list

\* normalize() fails exactly on a list that is too long as it comes, has an
\* empty or outlying extent, or covers a logical block twice.
NormalizeFails ==
  Normalize(list).ok <=> WithinLimit(list) /\ WellFormed(list) /\ ~Overlap(list)

\* When it succeeds, it keeps the meaning of the list and leaves one extent per
\* maximal run, in order: the number FileStore counts.
NormalizeMeans ==
  LET n == Normalize(list) IN
  /\ NormalizeFails
  /\ n.ok => /\ Meaning(n.list) = Meaning(list)
             /\ Len(n.list) = Cardinality(RunStarts(Meaning(list)))
             /\ \A i \in 1 .. Len(n.list) - 1 :
                  LogicalEnd(n.list[i]) <= n.list[i + 1].logical

\* A list that verify() accepts in an image is already one extent per run,
\* so a later normalize() neither fails nor changes what it counts, and its
\* blocks are as many as allocated_bytes says unless one is there twice.
VerifyMeansCanonical ==
  LET m == Meaning(list)
      allocated == PhysicalBlockCount(list)
  IN Verify(list, 0, allocated) =>
       /\ Len(list) = Cardinality(RunStarts(m))
       /\ NoBlockTwice(list) <=>
            allocated = Cardinality({m[l] : l \in Logical} \cap Nat)
       /\ \A l \in Logical : m[l] # MapFails
=============================================================================
