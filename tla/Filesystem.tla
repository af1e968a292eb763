----------------------------- MODULE Filesystem -----------------------------
(***************************************************************************)
(* Filesystem of src/src/filesystem.cc as a unit of persistence: format,   *)
(* transactions, checkpoints and mounting, the loss of the process between *)
(* two of them, and the bookkeeping every operation does beside its work:  *)
(* the dirty flag, the superblock's cached counts, the journal record.     *)
(*                                                                         *)
(* The tree has the root and at most one file: its blocks are counted, and *)
(* `data` stands for its contents, names, links and attributes.  What the  *)
(* operations do to blocks and extents, and which inodes serialize() and   *)
(* mount() refuse, is in module FileStore.  The journal is the bounded log *)
(* that module Journal implements.  Generation numbers and the             *)
(* superblock's journal_sequence are left out.                             *)
(***************************************************************************)
EXTENDS Naturals

CONSTANTS Values,        \* data of a file
          Capacity,      \* blocks of the device that files can use
          MaxRecords,    \* Limits::max_journal_records
          MaxInodes,     \* Limits::max_inodes
          InodeCapacity  \* FormatOptions::inode_capacity

ASSUME FilesystemAssumption ==
  /\ Capacity \in Nat \ {0} /\ MaxRecords \in Nat
  /\ MaxInodes \in Nat \ {0} /\ InodeCapacity \in 1 .. MaxInodes

VARIABLES mounted, read_only,   \* mounted_, read_only_
          tree,                 \* device_, allocator_, inodes_, directories_
          counts,               \* the cached counts of superblock_
          dirty,                \* dirty_
          snapshot,             \* snapshot_, or None
          length, open,         \* journal_: its records, is it active()?
          call, ok,             \* the last public call, its result
          clean, silent, uncounted  \* history, see below

vars == <<mounted, read_only, tree, counts, dirty, snapshot, length, open,
          call, ok, clean, silent, uncounted>>
memory == <<mounted, read_only, tree, counts, dirty, snapshot, length, open>>

\* The history variables: clean is the tree when dirty_ was last cleared for
\* it, silent says that since then a failed operation has changed the tree
\* without setting dirty_, uncounted that one has left the counts behind.
history == <<clean, silent, uncounted>>

Log == INSTANCE TransactionLog

File == [data : Values, blocks : 0 .. Capacity]
NoFile == [blocks |-> 0]

\* No file, but the root has the deleted entry of one.
Deleted == [blocks |-> 0, deleted |-> TRUE]

Trees == File \cup {NoFile, Deleted}
None == [blocks |-> 0, none |-> TRUE]

InodesOf(t) == IF t \in File THEN 2 ELSE 1
FreeInodes(t) == IF InodesOf(t) > MaxInodes THEN 0 ELSE MaxInodes - InodesOf(t)
CountsOf(t) == [inodes |-> InodesOf(t), free |-> Capacity - t.blocks,
                free_inodes |-> FreeInodes(t)]

Init == /\ mounted = FALSE /\ read_only = FALSE
        /\ tree = NoFile /\ counts = CountsOf(NoFile) /\ dirty = FALSE
        /\ snapshot = None
        /\ length = 0 /\ open = FALSE
        /\ call = "replace" /\ ok = TRUE
        /\ clean = NoFile /\ silent = FALSE /\ uncounted = FALSE

Writable == mounted /\ ~read_only

Done(op) == call' = op /\ ok' = TRUE
Refuse(op) == call' = op /\ ok' = FALSE /\ UNCHANGED <<memory, history>>

-----------------------------------------------------------------------------
(* The epilogues of the operations. *)

\* dirty_ = true; ++superblock_.generation; refresh_counts();
Account(t) == /\ tree' = t
              /\ dirty' = TRUE
              /\ counts' = CountsOf(t)
              /\ uncounted' = FALSE

\* Mutant of Touch: dirty_ is not set.
TouchQuietly(t) == tree' = t /\ UNCHANGED <<dirty, counts, uncounted>>

\* dirty_ = true only.
Touch(t) == tree' = t /\ dirty' = TRUE /\ UNCHANGED <<counts, uncounted>>

\* An early return after the tree has been changed.
Abandon(t) == /\ tree' = t
              /\ silent' = (silent \/ ~dirty)
              /\ uncounted' = (uncounted \/ CountsOf(t) # CountsOf(tree))
              /\ call' = "operate" /\ ok' = FALSE
              /\ UNCHANGED <<counts, dirty, clean, length>>

\* create_node and write append a journal record in a transaction; when the
\* journal is full they return an error and leave their change in place.
Recorded(t) ==
  \/ /\ open /\ ~Log!Room /\ Abandon(t)
  \/ /\ open => Log!Room
     /\ Account(t) /\ Done("operate")
     /\ length' = IF open THEN length + 1 ELSE length
     /\ UNCHANGED <<clean, silent>>

Unrecorded == Done("operate") /\ UNCHANGED <<length, clean, silent>>

-----------------------------------------------------------------------------
(* Operations on files.  Each may also be refused before it does anything. *)

Create(v, k) == /\ tree \notin File
                /\ InodesOf(tree) < MaxInodes /\ k <= Capacity
                /\ Recorded([data |-> v, blocks |-> k])

\* create_file whose content cannot be stored: the entry is marked deleted,
\* the blocks and the inode are given back, and dirty_ is not set.
CreateFailed == /\ tree \notin File
                /\ InodesOf(tree) < MaxInodes
                /\ Abandon(Deleted)

\* write(), taking k more blocks.
Write(v, k) == /\ tree \in File /\ tree.blocks + k <= Capacity
               /\ Recorded([data |-> v, blocks |-> tree.blocks + k])

\* write() that fails after it took k blocks, in normalize(), or after it
\* stored some of the data, at a sparse extent.
WriteFailed(v, k) == /\ tree \in File /\ tree.blocks + k <= Capacity
                     /\ Abandon([data |-> v, blocks |-> tree.blocks + k])

\* The last name of the file is removed.
Remove == tree \in File /\ Account(Deleted) /\ Unrecorded

\* create_hard_link, rename, set_attribute, remove_attribute.
Change(v) == tree \in File /\ Touch([tree EXCEPT !.data = v]) /\ Unrecorded

Operation == /\ Writable
             /\ \/ \E v \in Values, k \in 0 .. 1 : Create(v, k) \/ Write(v, k)
                                                   \/ WriteFailed(v, k)
                \/ \E v \in Values : Change(v)
                \/ CreateFailed
                \/ Remove
             /\ UNCHANGED <<mounted, read_only, snapshot, open>>

OperationRefused == Refuse("operate")

-----------------------------------------------------------------------------
(* Transactions. *)

\* A snapshot has everything but the journal; the history goes with it.
SnapshotNow == [tree |-> tree, counts |-> counts, dirty |-> dirty,
                silent |-> silent, uncounted |-> uncounted]

\* Mutant of Begin: dirty_ is not set.
BeginQuietly ==
  IF ~Writable \/ snapshot # None THEN Refuse("begin")
  ELSE /\ call' = "begin"
       /\ Log!Begin
       /\ snapshot' = IF ok' THEN SnapshotNow ELSE snapshot
       /\ UNCHANGED <<mounted, read_only, tree, counts, dirty, history>>

Begin ==
  IF ~Writable \/ snapshot # None THEN Refuse("begin")
  ELSE /\ call' = "begin"
       /\ Log!Begin
       /\ IF ok' THEN snapshot' = SnapshotNow /\ dirty' = TRUE
          ELSE UNCHANGED <<snapshot, dirty>>
       /\ UNCHANGED <<mounted, read_only, tree, counts, history>>

Commit ==
  IF snapshot = None THEN Refuse("commit")
  ELSE /\ call' = "commit"
       /\ Log!Finish
       /\ IF ok' THEN snapshot' = None /\ Account(tree)
          ELSE UNCHANGED <<snapshot, tree, counts, dirty, uncounted>>
       /\ UNCHANGED <<mounted, read_only, clean, silent>>

\* Mutant of Restore: the superblock is not restored.
RestoreUncounted(s) == /\ tree' = s.tree /\ dirty' = s.dirty
                       /\ silent' = s.silent /\ uncounted' = s.uncounted
                       /\ snapshot' = None /\ UNCHANGED counts

Restore(s) == /\ tree' = s.tree /\ counts' = s.counts /\ dirty' = s.dirty
              /\ silent' = s.silent /\ uncounted' = s.uncounted
              /\ snapshot' = None

\* Mutants of Rollback: it restores before it asks the journal; it empties
\* the journal.
RollbackFirst == IF snapshot = None THEN Refuse("rollback")
                 ELSE /\ call' = "rollback"
                      /\ Log!Finish /\ Restore(snapshot)
                      /\ UNCHANGED <<mounted, read_only, clean>>
RollbackClears == IF snapshot = None THEN Refuse("rollback")
                  ELSE /\ call' = "rollback"
                       /\ Log!Clear /\ Restore(snapshot)
                       /\ UNCHANGED <<mounted, read_only, clean>>

Rollback ==
  IF snapshot = None THEN Refuse("rollback")
  ELSE /\ call' = "rollback"
       /\ Log!Finish
       /\ IF ok' THEN Restore(snapshot)
          ELSE UNCHANGED <<snapshot, tree, counts, dirty, silent, uncounted>>
       /\ UNCHANGED <<mounted, read_only, clean>>

Checkpoint ==
  IF ~Writable \/ snapshot # None THEN Refuse("operate")
  ELSE /\ call' = "operate"
       /\ Log!Checkpoint
       /\ IF ok' THEN dirty' = FALSE /\ clean' = tree /\ silent' = FALSE
          ELSE UNCHANGED <<dirty, clean, silent>>
       /\ UNCHANGED <<mounted, read_only, tree, counts, snapshot, uncounted>>

-----------------------------------------------------------------------------
(* Formattings and the life of the process. *)

\* The state of a Filesystem whose tree is t and whose journal is l, o.
Fresh(t, l, o, d) ==
  /\ tree' = t /\ length' = l /\ open' = o /\ dirty' = d
  /\ snapshot' = None
  /\ clean' = t /\ silent' = FALSE /\ uncounted' = FALSE

Format == /\ Fresh(NoFile, 0, FALSE, FALSE)
          /\ counts' = [CountsOf(NoFile) EXCEPT !.free_inodes = InodeCapacity - 1]
          /\ mounted' = TRUE /\ read_only' = FALSE
          /\ Done("replace")

\* The images that are mounted: serialize() wrote them, in this process or an
\* earlier one, and OpenImagesAreDirty says that it writes no others.  It also
\* writes images with inodes that do not validate (see FileStore): mount()
\* refuses these, and ReplaceRefused stands for it.
Images == {i \in [tree : Trees, length : 0 .. MaxRecords, open : BOOLEAN,
                  dirty : BOOLEAN] : i.open => i.length > 0 /\ i.dirty}
Saved == [tree |-> tree, length |-> length, open |-> open, dirty |-> dirty]

\* Mutant of Mount: the options are taken over before the image is checked.
MountOptionsFirst(image, allow_dirty, replay, ro) ==
  IF image.dirty /\ ~allow_dirty /\ ~replay
  THEN /\ read_only' = ro /\ call' = "replace" /\ ok' = FALSE
       /\ UNCHANGED <<mounted, tree, counts, dirty, snapshot, length, open, history>>
  ELSE /\ Fresh(image.tree, image.length, image.open, image.dirty)
       /\ counts' = CountsOf(image.tree)
       /\ mounted' = TRUE /\ read_only' = ro
       /\ call' = "replace"
       /\ ok' = ~(replay /\ image.open /\ ~allow_dirty)

\* No record is ever replayed: replay_journal only decides whether an open
\* transaction is an error, which is found after everything was replaced.
Mount(image, allow_dirty, replay, ro) ==
  IF image.dirty /\ ~allow_dirty /\ ~replay THEN Refuse("replace")
  ELSE /\ Fresh(image.tree, image.length, image.open, image.dirty)
       /\ counts' = CountsOf(image.tree)
       /\ mounted' = TRUE /\ read_only' = ro
       /\ call' = "replace"
       /\ ok' = ~(replay /\ image.open /\ ~allow_dirty)

\* mount() of an image that is damaged or has an inode that does not validate
\* (filesystem.cc:325-328), format() with a bad geometry.
ReplaceRefused == Refuse("replace")

\* The process ends, and another one makes a Filesystem.
Restart == /\ Fresh(NoFile, 0, FALSE, FALSE)
           /\ counts' = CountsOf(NoFile)
           /\ mounted' = FALSE /\ read_only' = FALSE
           /\ Done("replace")

Next == \/ Operation \/ OperationRefused
        \/ Begin \/ Commit \/ Rollback \/ Checkpoint
        \/ Format \/ ReplaceRefused \/ Restart
        \/ \E image \in Images, allow_dirty, replay, ro \in BOOLEAN :
             Mount(image, allow_dirty, replay, ro)

Spec == Init /\ [][Next]_vars

-----------------------------------------------------------------------------
\* The state is well typed.
Counts == [inodes : 1 .. 2, free : 0 .. Capacity, free_inodes : 0 .. MaxInodes]
Snapshots == [tree : Trees, counts : Counts, dirty : BOOLEAN,
              silent : BOOLEAN, uncounted : BOOLEAN]

TypeOK == /\ mounted \in BOOLEAN /\ read_only \in BOOLEAN
          /\ tree \in Trees /\ counts \in Counts /\ dirty \in BOOLEAN
          /\ snapshot \in Snapshots \cup {None}
          /\ length \in 0 .. MaxRecords /\ open \in BOOLEAN
          /\ call \in {"operate", "begin", "commit", "rollback", "replace"}
          /\ ok \in BOOLEAN
          /\ clean \in Trees /\ silent \in BOOLEAN /\ uncounted \in BOOLEAN

\* The counts c are right for tree t; right after a format the number of free
\* inodes is the one that was asked for.
CountsRight(c, t) ==
  /\ c.inodes = InodesOf(t) /\ c.free = Capacity - t.blocks
  /\ \/ c.free_inodes = FreeInodes(t)
     \/ InodesOf(t) = 1 /\ c.free_inodes = InodeCapacity - 1

\* The superblock's cached counts are those of the tree, across rollbacks and
\* mounts and although links, renames and attributes do not refresh them,
\* unless a failed operation has left blocks or an inode behind.  The inode
\* capacity of a format lasts until the second inode is made.
CountsMatch == ~uncounted => CountsRight(counts, tree)

\* A file system that is not dirty has the tree it was formatted with,
\* mounted with or had at its last checkpoint, also after a rollback, unless
\* a failed write has changed it.
DirtyCoversChanges == ~dirty /\ ~silent => tree = clean

\* A transaction that can be rolled back is one the journal has open, and the
\* file system is dirty and writable while it lasts.
SnapshotOwnsJournal == snapshot # None => open /\ dirty /\ Writable

\* An image that serialize() writes with an open transaction holds a record of
\* it and is flagged dirty, whatever rollbacks, checkpoints and mounts have
\* done to the flag: mount() without options refuses it, and does not take it
\* for one that was left in good order.
OpenImagesAreDirty == Saved.open => Saved.length > 0 /\ Saved.dirty

\* A transaction that the journal has no room to end, or that was open in the
\* image, is not ended by any sequence of calls short of mounting, formatting
\* or losing the file system.
Wedged == open /\ (snapshot = None \/ ~Log!Room)
WedgedUntilReplaced == [][Wedged /\ ~Wedged' => call' = "replace"]_vars

\* A mount or format that fails leaves the mounted file system as it was,
\* unless it failed because of an open transaction in the image.
MountAllOrNothing ==
  [][call' = "replace" /\ ~ok' => UNCHANGED memory \/ open']_vars

\* begin, commit and rollback are atomic: see AtomicStore.
Undo == IF snapshot = None THEN None ELSE snapshot.tree
Store == INSTANCE AtomicStore
           WITH working <- tree, undo <- Undo, NoUndo <- None,
                call <- [op |-> call, ok |-> ok]
AtomicTransactions == Store!Spec

\* A transaction that the journal has room to end stays one that can be
\* committed or rolled back, until it is: tests.cc:139 "rollback transaction",
\* tests.cc:145 "commit transaction".
TransactionCanEnd ==
  [][snapshot # None /\ Log!Room /\ snapshot' # None => Log!Room']_vars

\* After a mount that replays the journal no transaction is left open:
\* filesystem.cc:224 "dirty image requires journal replay".
ReplayEndsTransaction ==
  [][\A image \in Images, allow_dirty, ro \in BOOLEAN :
       Mount(image, allow_dirty, TRUE, ro) /\ ok' => ~open']_vars
=============================================================================
