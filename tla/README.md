# BlockForge in TLA+

BlockForge (`src/`) is a C++ library that keeps a small Unix-like file system
in memory and serializes it to one image: a block device, a bitmap, inodes
with extents, directories, a journal, transactions by snapshot, a consistency
checker and a repair planner. Everything is called from one thread and nothing
runs in the background. What makes it hard is therefore not concurrency but
long sequences of legal calls, operations that fail half way, limits that are
reached in the middle of a transaction, and images that carry such states into
another process.

This directory holds the models of its core logic (`*.tla`), the TLC
configurations that check them on small instances (`*.cfg`), and proofs that
TLAPS checks for every value of the constants (`*Proofs.tla`).
`PROJECT.json` maps every definition to the lines it models and lists the runs,
the mutants that show each property has teeth, the findings, the hazards and
the theorems.

    tlc -config BlockAllocator.cfg BlockAllocator      # any run of PROJECT.json
    tlapm FilesystemProofs.tla                         # any proof module

## Inventory

| Component (source) | State | Operations | What is hard | What makes it correct |
|---|---|---|---|---|
| `BlockDevice` (`block.cc:12-100`) | bytes of the blocks | `open`, `read`, `write`, `zero` | old data in reused blocks | covered by the file data below |
| `BlockAllocator` (`block.cc:102-248`) | `bits_`, `search_hint_` | `initialize`, `load`, `allocate`, `allocate_many`, `reserve`, `release`, `verify` | a hint that moves under releases and wraps; an allocation of many that must be undone | no block twice, nothing leaks, first fit, all or nothing |
| `ExtentResolver` (`inode.cc:108-256`) | none | `map`, `normalize`, `verify`, `physical_blocks` | merging, sparse extents, limits tested before merging | all four agree on one map from logical to physical blocks |
| `InodeTable` (`inode.cc:12-106`) | `inodes_`, `next_identifier_` | `allocate`, `insert`, `erase`, `verify` | identifiers are used again after `erase` | live identifiers are distinct and within the limit |
| `DirectoryTable` (`directory.cc`) | entries, with deleted ones kept | `create`, `add`, `remove`, `rename`, `find`, `load`, `verify` | tombstones, undo of a failed rename | names unique, link counts right, tree reachable |
| `PathResolver` (`path.cc`), `Filesystem::walk` | locals of the component loop | `resolve`, `resolve_parent`, `walk` | symbolic links spliced into the path, `..`, two bounds | ends; its answer is the node the path means; parent, name and canonical path lead there |
| `Journal` (`journal.cc`) | `records_`, sequence, transaction and active numbers | `begin`, `append`, `commit`, `rollback`, `checkpoint`, `load`, `clear` | numbers rebuilt from the records; a limit inside a transaction | what it writes it can load; numbers are fresh |
| `Filesystem` (`filesystem.cc`) | all of the above, `superblock_`, `mounted_`, `read_only_`, `dirty_`, `snapshot_` | `format`, `mount`, `serialize`, the file and directory operations, `begin`, `commit`, `rollback`, `checkpoint` | failures between the change and its bookkeeping; images with open transactions | transactions atomic; dirty flag and counts follow the tree; images mount again |
| `ConsistencyChecker`, `RepairPlanner` (`checker.cc`) | none | `check`, `analyze_image`, `plan` | a second opinion on what `load` and `verify` accept | reports what is wrong and only that |
| codecs, `CheckedReader` (`codec.cc`, `base.cc`) | none | `encode`, `decode`, `validate` | lengths that records state of themselves; what is under which checksum; limits that one side checks | what is written is read back or refused as stated; nothing is read outside the data; one encoding for each value |
| statistics, image diff (`analysis.cc`) | none | `collect`, `compare` | counts taken from the inodes, not from the tree | counts agree with the names |
| journal tools (`tools/python/journal_audit.py`, `tools/java/JournalReport.java`) | none | reports | their own idea of a transaction | they warn of a mountable journal only as stated |
| command lines, other inspectors, fuzzers | none | reports | | |

**How they interact.** `Filesystem` owns one of each and calls them directly; a
call either succeeds or returns an `Error`. An operation on files resolves its
path, changes allocator, inodes, device and directories, and ends with an
epilogue: set `dirty_`, bump the generation and perhaps `refresh_counts()`. In a
transaction `create_node` and `write` append a journal record before the
epilogue, and return early if there is no room. `begin` opens a transaction in
the journal and copies everything but the journal into `snapshot_`; `rollback`
moves the copy back; the journal is never undone. `serialize` writes all of it
except `snapshot_`; `mount` loads and verifies every part into locals, then
replaces the members. Nothing is ever replayed from the journal.

## Modules

| Module | Models | Variables and actions |
|---|---|---|
| `FirstFit` | what the allocator promises: the n lowest free blocks, or a refusal exactly when fewer are free; what each call returns and which blocks are used after it | abstract |
| `BlockAllocator` | `BlockAllocator` | `bits`, `hint`; `want`, `got` are `allocate_many`'s count and result between two turns of its loop, `request`, `reply` the last finished call and its answer; one action per operation and per turn |
| `TransactionLog` | what the file system relies on of the journal: bounded length, one open transaction | abstract |
| `Journal` | `Journal` | `records`, `next_sequence`, `next_transaction`, `active`; one action per operation. `Reload` is `load` of its own records or of any acceptable image |
| `JournalScan` | the loops of `Journal::load` and of the checker's journal pass | `input`, the records; `scan` and `audit`, what the two loops know after them |
| `JournalTools` | what the two journal tools warn of, over the same input | `python`, `java`: what the tools know; the action `ReadOne` is one turn of all four loops on one more record |
| `JournalCodec` | `JournalCodec::encode` and `decode`, record by record | the `data` of a saved journal |
| `Extents` | `map`, `normalize`, `verify`, `physical_blocks` on lists of extents; the order that `std::sort` gives to extents of one block is any | `list`, an input that grows by one extent a step |
| `ImageRecords` | what the codecs share: checksum, bounds-checked reading, and how data changes between two programs (`Damage`: one unit or the length; `Forge`: with the checksums made right) | `kind`, `data`, `change` |
| `InodeCodec`, `DirectoryCodec` | encode, decode and validate of inodes and directories, `set_attribute`, `remove_attribute` | an inode's `attributes`, a directory's `entries` |
| `Codecs` | the three codec inputs grown step by step, then saved, damaged or forged | composes `Extents` and the codecs |
| `PathWalk` | the component loop of `resolve` and `resolve_parent` | the arguments `tree`, `path`, `mode`, and one variable for each local of the loop; one action per kind of component |
| `PathMeaning` | what a path means, by recursion; the reference for `PathWalk` | operators |
| `TreeWalk` | `Filesystem::walk` from the inode that `resolve` found | operators on the states of `PathWalk`; `Pass` is one turn of the loop, `Walk` what is left of its locals after as many turns as there can be |
| `FlatFiles` | what files promise: independent, zero-filled byte arrays | abstract |
| `FileStore` | `resize_inode`, `write_inode_data`, `read_inode_data`, `release_inode_blocks`, as `create_file`, `write`, `remove` use them | `used`, `disk`, `inode` |
| `NameTable` | what the directories promise: one name added, dropped or moved at a time | abstract |
| `Namespace` | `InodeTable`, `DirectoryTable` and `create_node`, `create_hard_link`, `rename`, `remove` | `nodes`, `next`, `dirs`; `removing` is the stack of calls of a recursive `remove`, one action per entry it removes; each place where a call fails is a disjunct |
| `NameChecker` | the checker's passes over directories and link counts, and the plan | operators on the states of `Namespace` |
| `Statistics` | the counts of `StatisticsCollector`, next to the checker's warnings | operators on the states of `NameChecker` |
| `BlockChecker` | the checker's passes over the blocks and the bitmap, and the plan | operators on the states of `FileStore` |
| `AtomicStore` | what `begin`, `commit`, `rollback` promise | abstract |
| `Filesystem` | transactions, checkpoints, images, the process, and the epilogues of all operations | the flags, `tree`, `counts`, `snapshot`, `length` and `open` of the journal |
| `*Proofs` | theorems about the module they are named after; `JournalProofs` also about its readers and its encoding, `CodecsProofs` about the modules it composes, and `ImageRecordsProofs` what both need of sequences, recursive functions and checksums | |
| `MC*` | values for the constants that a `.cfg` cannot write | |

The composition is by contract. `FileStore` allocates with `FirstFit`, which
`BlockAllocator` is shown to implement; `Filesystem` uses `TransactionLog`,
which `Journal` is shown to implement. `FileStore` keeps an inode's extents as
the map that `Extents` shows a normalized list to mean, plus the extents that a
failed `normalize` leaves behind (`stray`). Its variable `outcome` tells three
ends of an operation apart: `done`, `failed`, and `unrecorded`, where the work of a
`create_file` or `write` is done and only its append to the journal of a transaction
fails (`filesystem.cc:425-431`, `638-645`): the caller gets an error and the data is
in the file. Whether the journal has room is `Filesystem`'s, so there `FileStore`
lets any complete operation end either way.

In `Namespace` the operations are given the directory and the name that their
path resolves to, from the root. A path that ends in `..`, or in a followed link
to `.`, makes the resolver report a directory as its own parent; `DotDot` adds
those. `PathWalk` shows on its own trees that these are the only two answers
(`ReportsEntryOrItself`); its trees have the shape that `Namespace` keeps
(`Rooted`: every directory below the root has one name, and `..` leads back), and
do not change during a call, since one thread makes it. A rollback or a mount
brings back an earlier reachable state of the names and needs no action of its
own; images that other programs wrote, with link counts that `verify` does not
look at, are not states of this module. Releasing the blocks of a removed inode
is `FileStore`'s and cannot fail there.

In the codecs' modules a field of the encoding takes one unit of `0 .. Word - 1`,
whatever its width, and a string one unit for each byte. That keeps the order of
the reads, the lengths that records state of themselves, what is under which
checksum and every comparison with a limit, and leaves out widths and byte order.
`JournalCodec` lets a length field wrap below zero, because the code subtracts
before it compares.

In `Filesystem` a file is its number of blocks and a `data` value that stands
for contents, names, links and attributes; the operations are grouped by their
epilogue (`Account`: dirty and counts, `Touch`: dirty only, `Abandon`: early
return after a change, which sets neither). A creation whose content cannot be
stored is an `Abandon` too: it leaves a deleted entry (`Deleted`) and the dirty flag as
it was. `Restart` loses the process; `Mount` takes any image whose open transaction, if
it has one, has a record and is flagged dirty, and `OpenImagesAreDirty` is the invariant
that `serialize` writes no others. That is all it says of images: one with an
inode that does not validate is written all the same, and then refused by `mount`,
for which `ReplaceRefused` stands. Three history
variables, `clean`, `silent` and `uncounted`, exist only to state the properties.

## Runs

| Run | Instance | What it shows |
|---|---|---|
| `allocator` | 4 blocks, 6 bits in the bitmap (two of them tail bits) | the circular scan is first fit with every hint, including the wrap; every call, refused or not, returns what `FirstFit` returns and leaves the same blocks used; the unwinding branch of `allocate_many` is dead |
| `journal` | 5 records, numbers up to 8; inputs of up to 4 records over 60; encodings of up to 3 records | every journal reloads, after `clear` too; numbers are fresh; refinement of `TransactionLog`. `load`'s loop is the condition that `Journal` uses, the checker's pass differs from it only for mutations outside transactions, and the two tools warn of a mountable journal exactly as `ToolsFollowLoad` says. A saved journal is read back; a damaged one is refused; a forged one that is accepted is one the encoder writes; nothing is read outside the data |
| `records` | lists of up to 4 extents of up to 2 blocks, starting in 3 logical and 2 physical ones, limit 3; up to 2 extents or 3 attributes in an inode, 2 entries in a directory | when `normalize` fails, what it returns, and that `verify` accepts the canonical lists; inodes and directories come back as they were unless `encode` takes one that is not valid; the attributes that `set_attribute` takes one by one and `serialize` refuses; damaged records, directories of two entries among them, are refused, forged ones that are accepted can be saved again |
| `file_blocks` | 2 files, 5 one-byte blocks, 3 bytes a file, 2 extents | ownership of blocks with a device that runs full and an extent limit that is met; the causes of an inode that cannot be saved; the checker takes for leaked exactly the blocks of such inodes |
| `file_bytes` | blocks of 2 bytes, 3 blocks, 4 bytes a file | writes within and across blocks; no stale bytes; refinement of `FlatFiles` |
| `filesystem` | 2 data values, 1 data block, 3 journal records, 2 inodes, formats for 1 | transactions, mounts and failures in any order; refinement of `AtomicStore` |
| `namespace` | 3 inodes, 2 names, 9 entries, 2 links | whatever succeeds or fails, the directories verify, link counts count, no identifier is lost, only a rename below itself cuts directories off; the checker reports no error on any of those states and warns of exactly the directories with subdirectories, the statistics count every name; refinement of `NameTable` |
| `path_walk` | all trees of 4 inodes with up to 2 links or one file with two names, all paths of up to 3 components and one of 4; 2 links followed, walks 2 deep | the loop ends, whatever loops the links make, where the path means to; only the bound on followed links ever ends it; canonical path, parent and name lead to the result; a name that `resolve_parent` finds free is where `resolve` then finds it; `walk` fails only on trees too deep, and lists the rest completely with paths that resolve |
| `file_savable` | | **finding**: a write that fails in `normalize` makes the file system impossible to save |
| `transaction_end` | | **finding**: a transaction that had room to end loses it to an operation inside it, and can then neither be committed nor rolled back; `begin` itself may take the last record too |
| `replay` | | **finding**: `replay_journal` with `allow_dirty` leaves the transaction open, nothing replayed |
| `repair_plan` | | **finding**: a clean file system with nested directories has a repair plan |

**Why the bounds are enough.** The allocator's scan distinguishes blocks before
and after the hint and the wrap, which four blocks and two tail bits exhibit.
The journal's conditions relate a record to its predecessor and to one open
transaction; five records hold a whole transaction, a checkpoint and an open
one, and the numbers exceed the records so that `clear` and foreign images
leave gaps. `normalize` compares neighbours, so three logical blocks and four
extents give every overlap, adjacency and merge; the limit lies below the
longest list. Four records of input hold a transaction and something before or
after it, which the readers of a journal disagree about. `Word` is above every length
and code that the bounds allow, so a unit holds each field, and small enough that
every other value of a unit is tried; two strings of the same length, one empty and
one longer than the limits are what the codecs can tell apart (`MCStrings`). Two
links suffice for one in the middle of the other's target, for a loop of two and for
the limit of two; three components for a link before, after and between names. Files of three blocks on four usable ones run out of space and
of extents. A journal of three records has room for `begin`, one operation and
the end, and is full when a second operation comes. Three inodes
are a directory, one in it and the root, which is what a rename below itself
needs, or a directory and a file with two names; the root's two entries and two
for each directory leave a few for names and tombstones, so the entry limit is
met by every operation, and so is the inode limit. Names are interchangeable
there: no property mentions one, and a permutation maps steps to steps, which
is what the symmetry set needs. In all runs the caps
(`MaxNumber`, list lengths) are constants in guards. Deadlock is checked in
every run whose system runs on; the runs over fixed inputs have one stuttering
step.

**What else the models show of the code**, each the exception in a property that
holds: a directory renamed below itself is cut off from the root, and the
checker, whose `directory_cycle` no code emits, reports nothing
(`OnlyRenameCutsOff`, `NothingWrong`); the blocks of a file that `normalize`
refused are taken for leaked and their release is planned, though the file still
holds data in them (`OnlyBrokenLooksLeaked`); `inode_capacity` only sets the first
value of a cached count (`CountsMatch`, with a format for fewer inodes than the limit).
In a transaction `create_file` and `write` may return an error although all their data is
stored (`FailureLeavesContent` excepts them by their outcome). `encode` does not validate the inode it is
given: what `write` leaves behind after a refused `normalize` is written by
`serialize` as long as its extents fit the limit, and then refused by `mount`
(`InvalidHasCause`, `RecordsReadBack`). Two legal attributes can be too much
together for `serialize` (`AttributesRefusedInTotal`). After `..` the resolver
reports a directory as its own parent (`ReportsEntryOrItself`). The test of the
number of processed components in `resolve` is dead (`BudgetSuffices`), and so are
`walk`'s tests for cycles and for too many entries, on trees that the operations
made (`WalkIsComplete`). The Python auditor warns of a journal with mutations
outside transactions, which the Java tool takes (`ToolsFollowLoad`).

**Fairness.** `PathWalk` assumes `WF_vars(Next)`: one thread runs the loop of
`resolve` and does nothing else until it returns, and the loop waits for nothing.
Under it every call ends (`Ends`). Nowhere else is fairness assumed or liveness
claimed: a caller may stop between two operations at any time and no call waits
for another. What could be called liveness there, that a transaction can end, is an
action property (`TransactionCanEnd`: no step takes away the last room) and fails.

**What the properties found right.** Blocks are never shared or leaked, not
even by the writes that fail in `normalize`; a growing file never shows old
data; the journal accepts everything it wrote; rollback restores exactly what
`begin` saw, whatever failed between; cached counts and the dirty flag are right
except after the failed operations that leave their change behind, and
`uncounted` and `silent` say exactly which those are. The undo of a failed
rename revives the right entry, because the entry it has just deleted is the last
deleted one of its name: another with that name would have to be behind it, and
it was the one in use. Identifiers are reused at once and no name ever leads to
the wrong inode. No sequence of failures makes the checker report an error. The
payload length of a journal record may wrap below zero and is still caught by the
bound on payloads, before anything is read (`ReadsWithin`): that rests on
`max_file_bytes` being far below 2^32. Lengths and counts outside the checksums
cannot be changed unnoticed. The least size of an inode record is a byte
too small in `decode`, which the reads after it notice.

## Proofs

For every value of the constants, from the assumptions that the modules name
(`SizeAssumption` and the like: limits are naturals, the device has a
block):

* `BlockAllocatorProofs`. The invariant adds to `TypeOK` and `NoFreeBelowHint`
  that the blocks got so far are allocated, ascend and are what a single first
  fit of that many would have taken, and that the free blocks suffice for the
  turns left; without the last the loop could stop short, without the second
  `FirstFit` would not be refined when it ends.
  Lemmas about the circular scan show that with no free block below the hint it
  finds the lowest free block. A call that `FirstFit` refuses is one with fewer free
  blocks than it asks for, which `free_count` tells before the loop (`TooManyRefused`)
  and a scan that finds none tells of a single block; only `load` with bits beyond the last
  block changes anything when it is refused, and `FirstFit` says so.
* `JournalProofs`. `Reloadable` and `NumbersFresh` are inductive only together
  with the fact that the scan of the records ends in the journal's own `active`
  and that all numbers are below the counters. Where the scan stands is stated by
  the last `begin` or end before a position (`IdleAfter`, `OpenAfter`), and the proof
  needs only how one appended record extends that.
  `FourReadersAgree` is about the loops themselves. The invariant says that `load`'s
  loop has failed exactly if the condition of `Journal` does not hold of the records
  read so far, and if not, what the locals of each of the four loops tell of them:
  the same open transaction, the completed ones, and what each has counted or
  warned of. A journal has at most one place where its scan can stand
  (`ScanUnique`), and a prefix of one that fits, fits (`FitsPrefix`), so nothing
  need be said after `load` has failed.
  Its encoding, for every journal and every limit, from the invariant of
  `Journal` and from what the data can be (`DataInv`: an image that was written, one
  with a change in one place, or any units). The frame of a record stands at a
  position exactly if the fields that `decode` reads there are the record's
  (`FrameHeld`); so `decode` returns the records whose frames follow one another
  behind the header (`DecodesHeld`), and where it returns records, their frames are
  the data (`DecodedFound`). The latter needs that the payload length is the length
  less that of a frame, and not a wrapped one (`LengthFacts`). Of two images that are
  accepted neither continues the other (`NotContinued`), since both begin with the
  same records and end with the last; and if they have the same length and differ in
  one unit, then not in the number of records (`NotFewer`) and not in a record
  (`SameFields`): a changed length would need a changed payload length, and all else
  is in the sum, which tells such records apart (`ChecksumDiffers`). The numbers of
  the journal fit their fields (`FieldsAssumption`).
* `PathWalkProofs`, for every tree, path and limit. The arguments of the call do not
  change, the locals stay in their types, and after n followed links at most
  `MaxComponents * (n + 1)` components have been processed or are pending: a target
  adds no more than `MaxComponents`, all else only moves one from pending to
  processed. So the limit on links keeps the count within the budget. For the
  canonical path the invariant is a trail of inodes from the root: an entry prolongs
  it, `..` cuts its last one off (which is right because the parent of a directory
  on a trail is the inode before it), an absolute target empties it. The last property
  follows from the trail, as its last step is an entry of the reported parent unless
  `..` or a link left it behind.
  `AgreesWithMeaning` compares the loop, which splices targets into one flat path, with
  the recursion of `PathMeaning`, which knows nothing of splicing. That the recursion
  defines anything has to be shown first (`MeaningUnfolds`): every way to go is made of
  ways of less `Weight`, in which a link that is left to follow outweighs any target,
  and links are never given back. The heart is `Joined`: a path made of two means what
  the second means from where the first leads, if a link between them is followed.
  With it the invariant (`StaysMeant`) says that what is left of the path means, from
  the current inode and with the links followed so far, what the path meant in the
  beginning; and `CreatableIsFound` is `Joined` for a path and its last name.
  `WalkIsComplete` is about one state of `PathWalk` at a time: where `resolve` has
  ended, the trail puts the inode below the root, and what `walk` does from there is a
  function of the tree. The invariant of its loop (`Good`, `After`) is about the
  visits in the order in which they are queued, of which the first n are made after n
  turns: each but the first is a child of one that was made, those that were made
  have all their children behind them, no path occurs twice, and each leads from the
  root to its inode, as many levels below the start as its depth says. A directory has
  only one path (`OnePlace`, the one use of one name per directory), so the test for
  cycles never fires (`DirectoriesOnce`); every visit has an entry of its own, so there
  are no more than the limit (`NotTooMany`) and the turns suffice (`WalkEnds`); and a
  level below the limit is reached exactly if it has an inode (`LevelsReached`).
  That `resolve` comes back along a listed path is `SpeltIsFound`. What it takes of the
  trees (`TreeWalkAssumption`) is what `Namespace` keeps: no hard link to a directory
  (`LinksCounted`) and the limit on the entries of all directories (`Verified`).
* `FileStoreProofs`, for every device, block size, limit and set of images.
  `BlockOwnership` and `NoStaleTail` are inductive only with more: the blocks of
  extents that a failed `normalize` left behind are still zero, or a later
  `normalize` would put old data into the map; an absent file owns nothing, or
  `create_file` would lose its blocks; and a list that is canonical is within its
  limit and counted in `allocated_bytes`, for which one lemma shows that merging
  extents never makes a list longer. `InvalidHasCause` follows from that. For the
  refinement of `FlatFiles`, a lemma says what growing and storing do to every byte
  a reader sees, of the file and of the others; it needs that up to where a write
  stops there is a block for every byte. That a write into a file without holes never
  stops early gives `FailureLeavesContent`: a write that fails otherwise than in the journal
has failed before it stored anything. The images must be typed
  (`ImagesAssumption`). `LeaksAreOwned`, about the checker, follows from the same
  invariant: an allocated block has one owner, and the pass skips an owner only
  because it does not verify.
* `NamespaceProofs`, for every number of inodes, names, links and entries. The
  invariant `Sound` says of every moment, also between two removals of a recursive
  `remove`: entries lead to live inodes of their type, a deleted entry of a name is
  never behind the one in use, a directory has one name and `..` leads to its holder,
  a file's link count is the number of its names, and tables and the total of the
  entries are within their limits. The stack of `remove` needs a part of its own
  (`Pending`): each call on it still has the entry it was called for, in the
  directory that the call outside it removes; only the outermost may have come by
  `..`. For the abstract table and for `OnlyRenameCutsOff` every action is
  one of four kinds of step (`Stays`, `Comes`, `Goes`, `Travels`: an entry in use
  comes, goes or moves). What a path reaches is the least set closed under entries, and
  only an entry that moves below its own directory can take something out of it.
  For `ReportsFitNames`, also from `Sound`: no pass of the checker reports an error
  or an orphan; the warnings and the statistics are sums over files and directories,
  and the proof numbers the names of files one by one, so that the sum of the link
  counts is the number of the names.
* `CodecsProofs`, for every list, device and limit. A sorted order exists for every
  list; the loop of `normalize` keeps that the extents so far follow one another
  and map what the first n extents of the input map, no two neighbours being
  adjacent (`AfterTurns`); so what it returns starts an extent exactly where a
  maximal run starts. That it maps the same holds for any order of extents that
  start at one block, since two that are not empty overlap. The assumption that no
  extent ends beyond 2^32 - 1 blocks (`MaxJoined`) makes the test of the joined count
  pass. It holds of every inode whose size is not 0 and that `verify` takes, as
  its extents end within the size; an inode of size 0 with sparse extents of more
  than 2^32 blocks is what it leaves out.
  The codecs of inodes and directories, from the invariant `CodecsInv`. Its part about
  attributes (`NamesSet`) says that names are distinct and each within its bounds, so
  that only the total is left for `encode` to refuse. For both records there are two
  directions. What a body is made of stands where `decode` looks for it, one
  attribute or entry after the other (`InodeFound`, `EntriesFound`), so it comes back
  (`InodeComesBack`, `DirectoryComesBack`); and what `decode` takes from a position is
  encoded to the units that stand there (`InodeRead`, `EntriesRead`), so a record that is
  accepted is the encoding of what was found, up to padding (`InodeHasOneForm`,
  `DirectoryHasOneForm`). A damaged record must have the length of the original and
  differ in one unit, which the sum does not allow, or be a beginning of it or
  continue it (`DamageShows`); two accepted bodies of which one begins the other
  have the same length (`InodeBegins`, `DirectoryBegins`), because everything `decode`
  reads of the longer one is read of the shorter one too. That takes the data to be
  units, so the invariant also says that what is written is: `FieldsAssumption` is that
  the limits fit the fields, as they do in the code, and `CodecsAssumption` that the
  sizes of the inodes that are put together are ones that `validate` allows.
* `FilesystemProofs`. The invariant says of the snapshot what the others say of
  the current state (`SnapshotSound`): that it is dirty where it has to be and
  its counts are right, because `rollback` makes it the current state; and of
  the journal that an open transaction has a record and makes the image dirty
  (`OpenSound`). The two action properties and the refinement of `AtomicStore`
  follow, one step per action.

The type invariants, other than those of `FileStore` and `Namespace`, and
`NoFreeBelowHint`, `GotAscends` and `SnapshotOwnsJournal` are parts of the proved
invariants and no run repeats them.

A recursive function over a list (`Merging`, `Decoding`, `Checksum`) has no induction theorem that the
provers can use. Where one was needed, the proofs take the least number for which
the claim fails, which exists because `<` on the naturals is well-founded
(`LeastOf`), also to show that such a function exists at all (`MergingDefined`,
`Recursion`, `FitExists`).

Only model-checked: `Ends` (liveness) and the findings. TLC also checks the assumptions in each run.

## Plan

In order of importance, what could follow:

1. The checks of `mount` on the image header and on the relations between its
   sections, and the images that `mount` takes although no operation makes them.
2. The tree difference of `analysis.cc` over two of `TreeWalk`'s results.

## Not modelled

* **Widths and byte order** of the fields in the codecs, and the wrap-around of
  64-bit numbers, which needs 2^64 operations or a forged image (`MaxNumber`).
* **The image header** and the sizes of sections: stateless comparisons. One thing
  reading them shows: `format` takes a device as large as `max_image_bytes`
  (`block.cc:18-20`), and the image `serialize` makes of it also has a header and
  four more sections (`filesystem.cc:138-152`), so such a file system can never be
  saved. The same goes for the bounds of single records by `max_file_bytes`.
* **Images of other programs** as states of `Namespace`: `mount` takes one with a
  directory that has two names or whose `..` leads elsewhere, since
  `DirectoryTable::verify` looks at neither; with it, `insert` and `load` of the
  tables, and the superblock and link-target checks of the checker.
* **Symbolic links** in `Namespace`: they are files there. `create_symlink` takes
  targets that `split` refuses; the checker only warns of them (`checker.cc:187`) and
  `resolve` fails with them, which `PathWalk` models.
* **The image diff**, which compares paths and types and ignores which names share an
  inode; sums of bytes in the statistics; all text and JSON forms.
* **Command lines, seeds, fuzzers** and the inspectors other than the journal tools:
  argument parsing, file I/O and printing around what is modelled.
* Generation numbers, times, modes and `journal_sequence` are left out everywhere:
  nothing reads them back.
