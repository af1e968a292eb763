---------------------------- MODULE MCFileStore ----------------------------
(* Two files on a device of five blocks of two bytes.  Besides the fresh     *)
(* device, there are images with one file of any valid shape, on a disk      *)
(* whose other blocks hold the data of removed files.                        *)
EXTENDS BlockChecker

CONSTANTS f1, f2

MCValues == {1}

\* Any map over the blocks 1 and 2, and any size.
ImageInode == [live : {TRUE}, size : 0 .. MaxFileBytes,
               map : [Logical -> {1, 2, Hole, Sparse}], stray : {{}},
               allocated : 0 .. 2]

ImageDisk(i) ==
  [b \in Blocks |-> [c \in Cells |->
     IF \E l \in Logical : i.map[l] = b /\ l * BlockSize + c >= i.size THEN 0 ELSE 1]]

MCImages == {[disk |-> ImageDisk(i),
              inode |-> [f \in Files |-> IF f = f1 THEN i ELSE Blank]] :
                i \in {j \in ImageInode : Valid(j)}}
=============================================================================
