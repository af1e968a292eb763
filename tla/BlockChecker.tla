---------------------------- MODULE BlockChecker ----------------------------
(***************************************************************************)
(* What ConsistencyChecker::check of src/src/checker.cc reports about the  *)
(* blocks of the files that module FileStore can reach, and what           *)
(* RepairPlanner::plan makes of it.                                        *)
(***************************************************************************)
EXTENDS FileStore

LiveFiles == {f \in Files : inode[f].live}

\* Inode::validate fails.
Broken == {f \in LiveFiles : ~Valid(inode[f])}

\* ExtentResolver::physical_blocks: nothing of an inode whose list is not
\* valid, or names a block twice.
Referenced(i) ==
  IF /\ Valid(i)
     /\ \A l, k \in Logical : i.map[l] = i.map[k] /\ i.map[l] >= 0 => l = k
  THEN MappedBlocks(i) ELSE {}

AllReferenced == UNION {Referenced(inode[f]) : f \in LiveFiles}

DuplicateBlocks == {b \in Blocks : \E f, g \in LiveFiles :
                      f # g /\ b \in Referenced(inode[f]) \cap Referenced(inode[g])}
MarkedFree == AllReferenced \ used

\* Mutant of Unreferenced: block 0 is not skipped.
UnreferencedOrZero == used \ AllReferenced

Unreferenced == (used \ {0}) \ AllReferenced

\* The actions that are planned.  The planner's bound on their number is left
\* out.
Plan == {[kind |-> "release_block", block |-> b] : b \in Unreferenced}
          \cup {[kind |-> "reserve_block", block |-> b] : b \in MarkedFree}
          \cup {[kind |-> "truncate_extent", inode |-> f] : f \in Broken}

-----------------------------------------------------------------------------
\* After any sequence of calls the checker finds no block that is owned twice
\* or marked free while it is owned, and takes for leaked exactly the blocks of
\* the files whose inodes do not verify; so while none is broken it finds
\* nothing, and nothing has leaked, and while one is, the plan is to release
\* blocks that still are its own.
OnlyBrokenLooksLeaked ==
  /\ DuplicateBlocks = {} /\ MarkedFree = {}
  /\ Unreferenced = UNION {Owned(inode[f]) : f \in Broken}
  /\ Broken = {} => Plan = {}
=============================================================================
