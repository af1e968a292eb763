-------------------------- MODULE FilesystemProofs --------------------------
(***************************************************************************)
(* Transactions are atomic, and the dirty flag, the cached counts and the  *)
(* journal follow them, for every capacity, journal limit and data.        *)
(***************************************************************************)
EXTENDS Filesystem, TLAPS

\* What a rollback needs of the snapshot it restores.
SnapshotSound ==
  snapshot # None =>
    /\ open /\ dirty /\ Writable
    /\ ~snapshot.uncounted => CountsRight(snapshot.counts, snapshot.tree)
    /\ ~snapshot.dirty /\ ~snapshot.silent => snapshot.tree = clean

\* A journal with an open transaction has its BEGIN, and the image is dirty.
OpenSound == open => length > 0 /\ dirty

IInv == /\ TypeOK /\ CountsMatch /\ DirtyCoversChanges
        /\ SnapshotSound /\ OpenSound

-----------------------------------------------------------------------------
(* Trees, counts and snapshots. *)

LEMMA TreeFacts ==
  /\ NoFile \in Trees /\ NoFile \notin File
  /\ Deleted \in Trees /\ Deleted \notin File
  /\ \A t \in Trees : t # None /\ t.blocks \in 0 .. Capacity
BY FilesystemAssumption DEF Trees, File, NoFile, Deleted, None

LEMMA FileFacts ==
  ASSUME NEW v \in Values, NEW k \in 0 .. Capacity
  PROVE  [data |-> v, blocks |-> k] \in Trees
BY DEF Trees, File

LEMMA CountsFacts ==
  ASSUME NEW t \in Trees
  PROVE  CountsOf(t) \in Counts /\ CountsRight(CountsOf(t), t)
<1>1. t.blocks \in 0 .. Capacity /\ Capacity \in Nat /\ MaxInodes \in Nat
  BY TreeFacts, FilesystemAssumption
<1>2. InodesOf(t) \in 1 .. 2
  BY DEF InodesOf
<1>3. FreeInodes(t) \in 0 .. MaxInodes
  BY <1>1, <1>2 DEF FreeInodes
<1> QED BY <1>1, <1>2, <1>3 DEF CountsOf, Counts, CountsRight

LEMMA SnapshotFacts ==
  ASSUME NEW s \in Snapshots
  PROVE  /\ s # None /\ s.tree \in Trees /\ s.counts \in Counts
         /\ s.dirty \in BOOLEAN /\ s.silent \in BOOLEAN /\ s.uncounted \in BOOLEAN
BY DEF Snapshots, None

LEMMA SnapshotNowFacts ==
  ASSUME TypeOK
  PROVE  SnapshotNow \in Snapshots
BY DEF TypeOK, SnapshotNow, Snapshots

-----------------------------------------------------------------------------
(* Operations on files. *)

CallOK == /\ call' \in {"operate", "begin", "commit", "rollback", "replace"}
          /\ ok' \in BOOLEAN

\* What no operation on files touches.
Around == UNCHANGED <<mounted, read_only, snapshot, open>>

LEMMA AccountKeeps ==
  ASSUME IInv, NEW t \in Trees, Account(t), Around, CallOK,
         UNCHANGED <<clean, silent>>,
         length' \in 0 .. MaxRecords, length' >= length
  PROVE  IInv'
<1>1. CountsOf(t) \in Counts /\ CountsRight(CountsOf(t), t)
  BY CountsFacts
<1>2. TypeOK'
  BY <1>1 DEF IInv, TypeOK, Account, Around, CallOK
<1>3. CountsMatch'
  BY <1>1 DEF Account, CountsMatch, CountsRight
<1>4. DirtyCoversChanges'
  BY DEF Account, DirtyCoversChanges
<1>5. SnapshotSound'
  BY DEF IInv, Account, Around, SnapshotSound, Writable
<1>6. OpenSound'
  BY FilesystemAssumption DEF IInv, TypeOK, Account, Around, OpenSound
<1> QED BY <1>2, <1>3, <1>4, <1>5, <1>6 DEF IInv

LEMMA TouchKeeps ==
  ASSUME IInv, NEW t \in Trees, Touch(t), Around, CallOK,
         UNCHANGED <<clean, silent, length>>,
         CountsRight(CountsOf(t), tree)
  PROVE  IInv'
<1>1. InodesOf(t) = InodesOf(tree) /\ Capacity - t.blocks = Capacity - tree.blocks
  BY DEF CountsRight, CountsOf
<1>2. TypeOK'
  BY DEF IInv, TypeOK, Touch, Around, CallOK
<1>3. CountsMatch'
  BY <1>1 DEF IInv, Touch, CountsMatch, CountsRight, FreeInodes
<1>4. DirtyCoversChanges'
  BY DEF Touch, DirtyCoversChanges
<1>5. SnapshotSound'
  BY DEF IInv, Touch, Around, SnapshotSound, Writable
<1>6. OpenSound'
  BY DEF IInv, Touch, Around, OpenSound
<1> QED BY <1>2, <1>3, <1>4, <1>5, <1>6 DEF IInv

LEMMA AbandonKeeps ==
  ASSUME IInv, NEW t \in Trees, Abandon(t), Around
  PROVE  IInv'
<1>1. TypeOK'
  BY DEF IInv, TypeOK, Abandon, Around
<1>2. CountsMatch'
  <2>1. ASSUME ~uncounted, CountsOf(t) = CountsOf(tree)
        PROVE  InodesOf(t) = InodesOf(tree) /\ Capacity - t.blocks = Capacity - tree.blocks
    BY <2>1 DEF CountsOf
  <2> QED BY <2>1 DEF IInv, Abandon, CountsMatch, CountsRight, FreeInodes
<1>3. DirtyCoversChanges'
  BY DEF Abandon, DirtyCoversChanges
<1>4. SnapshotSound'
  BY DEF IInv, Abandon, Around, SnapshotSound, Writable
<1>5. OpenSound'
  BY DEF IInv, Abandon, Around, OpenSound
<1> QED BY <1>1, <1>2, <1>3, <1>4, <1>5 DEF IInv

LEMMA RecordedKeeps ==
  ASSUME IInv, NEW t \in Trees, Recorded(t), Around
  PROVE  IInv'
<1>1. CASE open /\ ~Log!Room /\ Abandon(t)
  BY <1>1, AbandonKeeps
<1>2. CASE /\ open => Log!Room
           /\ Account(t) /\ Done("operate")
           /\ length' = IF open THEN length + 1 ELSE length
           /\ UNCHANGED <<clean, silent>>
  <2>1. length' \in 0 .. MaxRecords /\ length' >= length
    BY <1>2, FilesystemAssumption DEF IInv, TypeOK, Log!Room
  <2> QED BY <1>2, <2>1, AccountKeeps DEF Done, CallOK
<1> QED BY <1>1, <1>2 DEF Recorded

\* A file with other data has the same counts.
LEMMA SameCounts ==
  ASSUME NEW v \in Values, NEW k \in 0 .. Capacity, NEW w \in Values
  PROVE  CountsRight(CountsOf([data |-> v, blocks |-> k]), [data |-> w, blocks |-> k])
BY DEF CountsRight, CountsOf, InodesOf, FreeInodes, File

LEMMA OperationKeeps == IInv /\ Operation => IInv'
<1> SUFFICES ASSUME IInv, Operation PROVE IInv'
  OBVIOUS
<1>0. tree \in Trees /\ Around /\ 0 .. 1 \subseteq Nat /\ Capacity \in Nat
  BY FilesystemAssumption DEF IInv, TypeOK, Operation, Around
<1>1. ASSUME NEW v \in Values, NEW k \in 0 .. 1, tree.blocks + k <= Capacity,
             tree.blocks \in 0 .. Capacity
      PROVE  [data |-> v, blocks |-> tree.blocks + k] \in Trees
  BY <1>0, <1>1, FileFacts
<1>2. ASSUME NEW v \in Values, NEW k \in 0 .. 1, Create(v, k) PROVE IInv'
  BY <1>0, <1>2, FileFacts, RecordedKeeps DEF Create
<1>3. ASSUME NEW v \in Values, NEW k \in 0 .. 1, Write(v, k) PROVE IInv'
  BY <1>0, <1>1, <1>3, TreeFacts, RecordedKeeps DEF Write
<1>4. ASSUME NEW v \in Values, NEW k \in 0 .. 1, WriteFailed(v, k) PROVE IInv'
  BY <1>0, <1>1, <1>4, TreeFacts, AbandonKeeps DEF WriteFailed
<1>5. ASSUME NEW v \in Values, Change(v) PROVE IInv'
  <2>1. PICK w \in Values, k \in 0 .. Capacity : tree = [data |-> w, blocks |-> k]
    BY <1>0, <1>5 DEF Change, File
  <2>2. [tree EXCEPT !.data = v] = [data |-> v, blocks |-> k]
    BY <2>1
  <2>3. [data |-> v, blocks |-> k] \in Trees
    BY FileFacts
  <2>4. CountsRight(CountsOf([data |-> v, blocks |-> k]), tree)
    BY <2>1, SameCounts
  <2> QED BY <1>0, <1>5, <2>2, <2>3, <2>4, TouchKeeps
          DEF Change, Unrecorded, Done, CallOK
<1>6. CASE Remove
  <2>1. length' \in 0 .. MaxRecords /\ length' >= length
    BY <1>6, FilesystemAssumption DEF Remove, Unrecorded, IInv, TypeOK
  <2> QED BY <1>0, <1>6, <2>1, TreeFacts, AccountKeeps
          DEF Remove, Unrecorded, Done, CallOK
<1>7. CASE CreateFailed
  BY <1>0, <1>7, TreeFacts, AbandonKeeps DEF CreateFailed
<1> QED BY <1>2, <1>3, <1>4, <1>5, <1>6, <1>7 DEF Operation

-----------------------------------------------------------------------------
(* Refusals, transactions, checkpoints. *)

LEMMA UnchangedKeeps ==
  ASSUME IInv, UNCHANGED <<memory, history>>, CallOK
  PROVE  IInv'
BY DEF IInv, TypeOK, CountsMatch, DirtyCoversChanges, SnapshotSound, OpenSound,
       Writable, memory, history, CallOK

LEMMA RefuseKeeps ==
  ASSUME IInv, NEW op \in {"operate", "begin", "commit", "rollback", "replace"},
         Refuse(op)
  PROVE  IInv'
BY UnchangedKeeps DEF Refuse, CallOK

LEMMA BeginKeeps == IInv /\ Begin => IInv'
<1> SUFFICES ASSUME IInv, Begin PROVE IInv'
  OBVIOUS
<1>1. CASE ~Writable \/ snapshot # None
  BY <1>1, RefuseKeeps DEF Begin
<1>2. CASE Writable /\ snapshot = None /\ ~(~open /\ Log!Room)
  BY <1>2, UnchangedKeeps DEF Begin, Log!Begin, Log!Fail, CallOK, memory
<1>3. CASE Writable /\ snapshot = None /\ ~open /\ Log!Room
  <2>1. /\ length' = length + 1 /\ open' /\ dirty' /\ call' = "begin" /\ ok'
        /\ snapshot' = SnapshotNow
        /\ UNCHANGED <<mounted, read_only, tree, counts, history>>
    BY <1>3 DEF Begin, Log!Begin, Log!Grow
  <2>2. length + 1 \in 0 .. MaxRecords /\ length + 1 > 0
    BY <1>3, FilesystemAssumption DEF IInv, TypeOK, Log!Room
  <2>3. TypeOK'
    BY <2>1, <2>2, SnapshotNowFacts DEF IInv, TypeOK, history
  <2>4. CountsMatch' /\ DirtyCoversChanges' /\ OpenSound'
    BY <2>1, <2>2 DEF IInv, CountsMatch, DirtyCoversChanges, OpenSound, history
  <2>5. SnapshotSound'
    BY <1>3, <2>1 DEF IInv, SnapshotSound, SnapshotNow, CountsMatch, CountsRight,
                      DirtyCoversChanges, Writable, history
  <2> QED BY <2>3, <2>4, <2>5 DEF IInv
<1> QED BY <1>1, <1>2, <1>3

\* commit and rollback: what the journal does.
LEMMA FinishFacts ==
  ASSUME IInv, snapshot # None, Log!Finish
  PROVE  \/ ~ok' /\ ok' \in BOOLEAN /\ UNCHANGED <<length, open>>
         \/ /\ ok' /\ ok' \in BOOLEAN /\ ~open' /\ open' \in BOOLEAN
            /\ length' \in 0 .. MaxRecords
<1>1. CASE open /\ Log!Room
  <2>1. length' = length + 1 /\ open' = FALSE /\ ok' = TRUE
    BY <1>1 DEF Log!Finish, Log!Grow
  <2>2. length + 1 \in 0 .. MaxRecords
    BY <1>1, FilesystemAssumption DEF IInv, TypeOK, Log!Room
  <2> QED BY <2>1, <2>2
<1>2. CASE ~(open /\ Log!Room)
  <2>1. ok' = FALSE /\ UNCHANGED <<length, open>>
    BY <1>2 DEF Log!Finish, Log!Fail
  <2> QED BY <2>1
<1> QED BY <1>1, <1>2

LEMMA CommitKeeps == IInv /\ Commit => IInv'
<1> SUFFICES ASSUME IInv, Commit PROVE IInv'
  OBVIOUS
<1>1. CASE snapshot = None
  BY <1>1, RefuseKeeps DEF Commit
<1>2. CASE snapshot # None /\ ~ok'
  BY <1>2, FinishFacts, UnchangedKeeps DEF Commit, CallOK, memory, history
<1>3. CASE snapshot # None /\ ok'
  <2>1. /\ ~open' /\ open' \in BOOLEAN /\ ok' \in BOOLEAN
        /\ length' \in 0 .. MaxRecords /\ call' = "commit"
        /\ snapshot' = None /\ Account(tree)
        /\ UNCHANGED <<mounted, read_only, clean, silent>>
    BY <1>3, FinishFacts DEF Commit
  <2>2. CountsOf(tree) \in Counts /\ CountsRight(CountsOf(tree), tree)
    BY CountsFacts DEF IInv, TypeOK
  <2>3. TypeOK'
    BY <2>1, <2>2 DEF IInv, TypeOK, Account
  <2>4. CountsMatch'
    BY <2>1, <2>2 DEF Account, CountsMatch, CountsRight
  <2>5. DirtyCoversChanges' /\ SnapshotSound' /\ OpenSound'
    BY <2>1 DEF Account, DirtyCoversChanges, SnapshotSound, OpenSound
  <2> QED BY <2>3, <2>4, <2>5 DEF IInv
<1> QED BY <1>1, <1>2, <1>3

LEMMA RollbackKeeps == IInv /\ Rollback => IInv'
<1> SUFFICES ASSUME IInv, Rollback PROVE IInv'
  OBVIOUS
<1>1. CASE snapshot = None
  BY <1>1, RefuseKeeps DEF Rollback
<1>2. CASE snapshot # None /\ ~ok'
  BY <1>2, FinishFacts, UnchangedKeeps DEF Rollback, CallOK, memory, history
<1>3. CASE snapshot # None /\ ok'
  <2>1. /\ ~open' /\ open' \in BOOLEAN /\ ok' \in BOOLEAN
        /\ length' \in 0 .. MaxRecords /\ call' = "rollback"
        /\ Restore(snapshot)
        /\ UNCHANGED <<mounted, read_only, clean>>
    BY <1>3, FinishFacts DEF Rollback
  <2>2. /\ snapshot \in Snapshots
        /\ ~snapshot.uncounted => CountsRight(snapshot.counts, snapshot.tree)
        /\ ~snapshot.dirty /\ ~snapshot.silent => snapshot.tree = clean
    BY <1>3 DEF IInv, TypeOK, SnapshotSound
  <2>3. TypeOK'
    BY <2>1, <2>2, SnapshotFacts DEF IInv, TypeOK, Restore
  <2>4. CountsMatch' /\ DirtyCoversChanges'
    BY <2>1, <2>2 DEF Restore, CountsMatch, CountsRight, DirtyCoversChanges
  <2>5. SnapshotSound' /\ OpenSound'
    BY <2>1 DEF Restore, SnapshotSound, OpenSound
  <2> QED BY <2>3, <2>4, <2>5 DEF IInv
<1> QED BY <1>1, <1>2, <1>3

LEMMA CheckpointKeeps == IInv /\ Checkpoint => IInv'
<1> SUFFICES ASSUME IInv, Checkpoint PROVE IInv'
  OBVIOUS
<1>1. CASE ~Writable \/ snapshot # None
  BY <1>1, RefuseKeeps DEF Checkpoint
<1>2. CASE Writable /\ snapshot = None /\ ~(~open /\ Log!Room)
  BY <1>2, UnchangedKeeps
     DEF Checkpoint, Log!Checkpoint, Log!Fail, CallOK, memory, history
<1>3. CASE Writable /\ snapshot = None /\ ~open /\ Log!Room
  <2>1. /\ length' = length + 1 /\ ~open' /\ open' \in BOOLEAN /\ ok' \in BOOLEAN
        /\ call' = "operate"
        /\ dirty' = FALSE /\ clean' = tree /\ silent' = FALSE
        /\ UNCHANGED <<mounted, read_only, tree, counts, snapshot, uncounted>>
    BY <1>3 DEF Checkpoint, Log!Checkpoint, Log!Grow
  <2>2. length + 1 \in 0 .. MaxRecords
    BY <1>3, FilesystemAssumption DEF IInv, TypeOK, Log!Room
  <2>3. TypeOK'
    BY <2>1, <2>2 DEF IInv, TypeOK
  <2>4. CountsMatch' /\ DirtyCoversChanges' /\ SnapshotSound' /\ OpenSound'
    BY <1>3, <2>1 DEF IInv, CountsMatch, DirtyCoversChanges, SnapshotSound, OpenSound
  <2> QED BY <2>3, <2>4 DEF IInv
<1> QED BY <1>1, <1>2, <1>3

-----------------------------------------------------------------------------
(* Formatting, mounting, losing the process. *)

LEMMA FreshKeeps ==
  ASSUME NEW t \in Trees, NEW l \in 0 .. MaxRecords,
         NEW o \in BOOLEAN, NEW d \in BOOLEAN,
         Fresh(t, l, o, d), o => l > 0 /\ d, CallOK,
         mounted' \in BOOLEAN, read_only' \in BOOLEAN,
         counts' \in Counts, CountsRight(counts', t)
  PROVE  IInv'
<1>1. TypeOK'
  BY DEF Fresh, TypeOK, CallOK
<1>2. CountsMatch' /\ DirtyCoversChanges'
  BY DEF Fresh, CountsMatch, CountsRight, DirtyCoversChanges
<1>3. SnapshotSound' /\ OpenSound'
  BY DEF Fresh, SnapshotSound, OpenSound
<1> QED BY <1>1, <1>2, <1>3 DEF IInv

LEMMA FormatKeeps == Format => IInv'
<1> SUFFICES ASSUME Format PROVE IInv'
  OBVIOUS
<1>1. CountsOf(NoFile) \in Counts /\ CountsRight(CountsOf(NoFile), NoFile)
  BY TreeFacts, CountsFacts
<1>2. counts' = [CountsOf(NoFile) EXCEPT !.free_inodes = InodeCapacity - 1]
  BY DEF Format
<1>3. InodeCapacity - 1 \in 0 .. MaxInodes
  BY FilesystemAssumption
<1>4. counts' \in Counts /\ CountsRight(counts', NoFile)
  BY <1>1, <1>2, <1>3, TreeFacts DEF Counts, CountsRight, InodesOf
<1>5. 0 \in 0 .. MaxRecords
  BY FilesystemAssumption
<1> QED BY <1>4, <1>5, TreeFacts, FreshKeeps DEF Format, Done, CallOK

LEMMA RestartKeeps == Restart => IInv'
<1>1. 0 \in 0 .. MaxRecords
  BY FilesystemAssumption
<1> QED BY <1>1, TreeFacts, CountsFacts, FreshKeeps DEF Restart, Done, CallOK

LEMMA MountKeeps ==
  ASSUME IInv, NEW image \in Images, NEW allow_dirty \in BOOLEAN,
         NEW replay \in BOOLEAN, NEW ro \in BOOLEAN,
         Mount(image, allow_dirty, replay, ro)
  PROVE  IInv'
<1>1. CASE image.dirty /\ ~allow_dirty /\ ~replay
  BY <1>1, RefuseKeeps DEF Mount
<1>2. CASE ~(image.dirty /\ ~allow_dirty /\ ~replay)
  <2>1. /\ image.tree \in Trees /\ image.length \in 0 .. MaxRecords
        /\ image.open \in BOOLEAN /\ image.dirty \in BOOLEAN
        /\ image.open => image.length > 0 /\ image.dirty
    BY DEF Images
  <2>2. /\ Fresh(image.tree, image.length, image.open, image.dirty)
        /\ counts' = CountsOf(image.tree)
        /\ mounted' = TRUE /\ read_only' = ro /\ CallOK
    BY <1>2 DEF Mount, CallOK
  <2>3. CountsOf(image.tree) \in Counts /\ CountsRight(CountsOf(image.tree), image.tree)
    BY <2>1, CountsFacts
  <2> QED BY <2>1, <2>2, <2>3, FreshKeeps
<1> QED BY <1>1, <1>2

-----------------------------------------------------------------------------
(* The invariant. *)

LEMMA InitInv == Init => IInv
<1> SUFFICES ASSUME Init PROVE IInv
  OBVIOUS
<1>1. CountsOf(NoFile) \in Counts /\ CountsRight(CountsOf(NoFile), NoFile)
  BY TreeFacts, CountsFacts
<1>2. 0 \in 0 .. MaxRecords
  BY FilesystemAssumption
<1> QED BY <1>1, <1>2, TreeFacts
        DEF Init, IInv, TypeOK, CountsMatch, CountsRight, DirtyCoversChanges,
            SnapshotSound, OpenSound

LEMMA Step == IInv /\ [Next]_vars => IInv'
<1> SUFFICES ASSUME IInv, [Next]_vars PROVE IInv'
  OBVIOUS
<1>1. CASE Operation
  BY <1>1, OperationKeeps
<1>2. CASE OperationRefused \/ ReplaceRefused
  BY <1>2, RefuseKeeps DEF OperationRefused, ReplaceRefused
<1>3. CASE Begin \/ Commit \/ Rollback \/ Checkpoint
  BY <1>3, BeginKeeps, CommitKeeps, RollbackKeeps, CheckpointKeeps
<1>4. CASE Format \/ Restart
  BY <1>4, FormatKeeps, RestartKeeps
<1>5. CASE \E image \in Images, allow_dirty, replay, ro \in BOOLEAN :
             Mount(image, allow_dirty, replay, ro)
  BY <1>5, MountKeeps
<1>6. CASE UNCHANGED vars
  BY <1>6, UnchangedKeeps DEF vars, memory, history, CallOK, IInv, TypeOK
<1> QED BY <1>1, <1>2, <1>3, <1>4, <1>5, <1>6 DEF Next

\* IInv is inductive.
LEMMA Invariance == Spec => []IInv
BY InitInv, Step, PTL DEF Spec

\* The state of the file system stays well typed.
THEOREM TypeCorrect == Spec => []TypeOK
BY Invariance, PTL DEF IInv

\* The cached counts are right unless a failed operation left something
\* behind (filesystem.cc:361-368, 1004).
THEOREM CountsAreRight == Spec => []CountsMatch
BY Invariance, PTL DEF IInv

\* A file system that is not dirty has its clean tree, unless a failed write
\* changed it (filesystem.cc:1009).
THEOREM DirtyIsSet == Spec => []DirtyCoversChanges
BY Invariance, PTL DEF IInv

\* An active transaction is open in the journal (filesystem.cc:965-1012).
THEOREM SnapshotMeansOpen == Spec => []SnapshotOwnsJournal
<1>1. IInv => SnapshotOwnsJournal
  BY DEF IInv, SnapshotSound, SnapshotOwnsJournal
<1> QED BY <1>1, Invariance, PTL

\* An image with an open transaction is flagged dirty, so that mount() refuses
\* it unless it is told otherwise (filesystem.cc:124-181, 219-226, 979-983).
THEOREM SavedOpenIsDirty == Spec => []OpenImagesAreDirty
<1>1. IInv => OpenImagesAreDirty
  BY DEF IInv, OpenSound, OpenImagesAreDirty, Saved
<1> QED BY <1>1, Invariance, PTL

-----------------------------------------------------------------------------
(* Action properties. *)

\* A wedged transaction stays wedged under every call but those that replace
\* the file system.
LEMMA WedgedStep ==
  ASSUME IInv, [Next]_vars, Wedged, ~Wedged'
  PROVE  call' = "replace"
<1>1. CASE Operation
  <2>1. length' = length
    BY <1>1 DEF Operation, Wedged, Log!Room, Create, CreateFailed, Write, WriteFailed,
                Change, Remove, Recorded, Abandon, Unrecorded, IInv, SnapshotSound
  <2> QED BY <1>1, <2>1 DEF Operation, Wedged, Log!Room
<1>2. CASE OperationRefused \/ ReplaceRefused
  BY <1>2 DEF OperationRefused, ReplaceRefused, Refuse, memory, Wedged, Log!Room
<1>3. CASE Begin \/ Checkpoint
  BY <1>3 DEF Begin, Checkpoint, Log!Begin, Log!Checkpoint, Log!Fail, Refuse,
              memory, Wedged, Log!Room
<1>4. CASE Commit \/ Rollback
  BY <1>4 DEF Commit, Rollback, Log!Finish, Log!Fail, Refuse, memory, Wedged, Log!Room
<1>5. CASE Format \/ Restart
  BY <1>5 DEF Format, Restart, Done
<1>6. CASE \E image \in Images, allow_dirty, replay, ro \in BOOLEAN :
             Mount(image, allow_dirty, replay, ro)
  BY <1>6 DEF Mount, Refuse
<1>7. CASE UNCHANGED vars
  BY <1>7 DEF vars, Wedged, Log!Room
<1> QED BY <1>1, <1>2, <1>3, <1>4, <1>5, <1>6, <1>7 DEF Next

\* A transaction without room to end, or found in an image, ends only with the
\* file system it is in (journal.cc:46-65, filesystem.cc:979-1012).
THEOREM WedgedForGood == Spec => WedgedUntilReplaced
<1>1. IInv /\ [Next]_vars => [Wedged /\ ~Wedged' => call' = "replace"]_vars
  BY WedgedStep
<1> QED BY <1>1, Invariance, PTL DEF Spec, WedgedUntilReplaced

LEMMA MountStep ==
  ASSUME IInv, [Next]_vars
  PROVE  [call' = "replace" /\ ~ok' => UNCHANGED memory \/ open']_vars
<1>1. CASE Operation
  BY <1>1 DEF Operation, Create, CreateFailed, Write, WriteFailed, Change, Remove,
              Recorded, Abandon, Unrecorded, Done
<1>2. CASE OperationRefused \/ ReplaceRefused
  BY <1>2 DEF OperationRefused, ReplaceRefused, Refuse
<1>3. CASE Begin \/ Commit \/ Rollback \/ Checkpoint
  BY <1>3 DEF Begin, Commit, Rollback, Checkpoint, Refuse
<1>4. CASE Format \/ Restart
  BY <1>4 DEF Format, Restart, Done
<1>5. CASE \E image \in Images, allow_dirty, replay, ro \in BOOLEAN :
             Mount(image, allow_dirty, replay, ro)
  BY <1>5 DEF Mount, Refuse, Fresh
<1> QED BY <1>1, <1>2, <1>3, <1>4, <1>5 DEF Next

\* A failed mount leaves what was mounted, unless it found an open transaction
\* in the image (filesystem.cc:219-226, 327-348).
THEOREM FailedMountKeeps == Spec => MountAllOrNothing
<1>1. IInv /\ [Next]_vars
      => [call' = "replace" /\ ~ok' => UNCHANGED memory \/ open']_vars
  BY MountStep
<1> QED BY <1>1, Invariance, PTL DEF Spec, MountAllOrNothing

-----------------------------------------------------------------------------
(* Refinement of AtomicStore. *)

LEMMA StoreInit == Init => Store!Init
BY TreeFacts DEF Init, Store!Init, Undo

\* The four shapes that a step has for the store.
LEMMA AsOperate ==
  ASSUME tree' \in Trees, snapshot' = snapshot, call' = "operate", ok' \in BOOLEAN
  PROVE  Store!Next
BY DEF Store!Next, Store!Operate, Store!Did, Undo

LEMMA AsReplace ==
  ASSUME tree' \in Trees, snapshot' = None, call' = "replace", ok' \in BOOLEAN
  PROVE  Store!Next
BY DEF Store!Next, Store!Replace, Store!Did, Undo

LEMMA AsFail ==
  ASSUME UNCHANGED <<tree, snapshot>>, ok' = FALSE,
         call' \in {"operate", "begin", "commit", "rollback", "replace"}
  PROVE  Store!Next
BY DEF Store!Next, Store!Fail, Store!Did, Store!Calls, Undo

LEMMA BeginRefines ==
  ASSUME IInv, IInv', Begin
  PROVE  Store!Next
<1>1. CASE ok'
  <2>1. /\ snapshot = None /\ snapshot' = SnapshotNow /\ tree' = tree
        /\ call' = "begin" /\ ok' \in BOOLEAN
    BY <1>1 DEF Begin, Refuse, IInv, TypeOK
  <2>2. snapshot' # None /\ snapshot'.tree = tree
    BY <2>1, SnapshotNowFacts, SnapshotFacts DEF IInv, SnapshotNow
  <2>3. Undo = None /\ Undo' = tree
    BY <2>1, <2>2 DEF Undo
  <2> QED BY <1>1, <2>1, <2>3 DEF Store!Next, Store!Begin, Store!Did
<1>2. CASE ~ok'
  BY <1>2, AsFail DEF Begin, Refuse, memory, IInv, TypeOK
<1> QED BY <1>1, <1>2

LEMMA UndoFacts ==
  ASSUME IInv, snapshot # None
  PROVE  Undo = snapshot.tree /\ Undo # None
BY SnapshotFacts, TreeFacts DEF IInv, TypeOK, Undo

LEMMA CommitRefines ==
  ASSUME IInv, IInv', Commit
  PROVE  Store!Next
<1>1. CASE ok'
  <2>1. /\ snapshot # None /\ snapshot' = None /\ tree' = tree
        /\ call' = "commit" /\ ok' \in BOOLEAN
    BY <1>1 DEF Commit, Refuse, Account, IInv, TypeOK
  <2>2. Undo' = None
    BY <2>1 DEF Undo
  <2> QED BY <1>1, <2>1, <2>2, UndoFacts DEF Store!Next, Store!Commit, Store!Did
<1>2. CASE ~ok'
  BY <1>2, AsFail DEF Commit, Refuse, memory, IInv, TypeOK
<1> QED BY <1>1, <1>2

LEMMA RollbackRefines ==
  ASSUME IInv, IInv', Rollback
  PROVE  Store!Next
<1>1. CASE ok'
  <2>1. /\ snapshot # None /\ snapshot' = None /\ tree' = snapshot.tree
        /\ call' = "rollback" /\ ok' \in BOOLEAN
    BY <1>1 DEF Rollback, Refuse, Restore, IInv, TypeOK
  <2>2. Undo' = None
    BY <2>1 DEF Undo
  <2> QED BY <1>1, <2>1, <2>2, UndoFacts DEF Store!Next, Store!Rollback, Store!Did
<1>2. CASE ~ok'
  BY <1>2, AsFail DEF Rollback, Refuse, memory, IInv, TypeOK
<1> QED BY <1>1, <1>2

LEMMA StoreStep ==
  ASSUME IInv, IInv', [Next]_vars
  PROVE  [Store!Next]_<<tree, Undo, [op |-> call, ok |-> ok]>>
<1>0. tree' \in Trees /\ ok' \in BOOLEAN
  BY DEF IInv, TypeOK
<1>1. CASE Operation
  <2>1. call' = "operate" /\ snapshot' = snapshot
    BY <1>1 DEF Operation, Create, CreateFailed, Write, WriteFailed, Change, Remove,
                Recorded, Abandon, Unrecorded, Done
  <2> QED BY <1>0, <2>1, AsOperate
<1>2. CASE OperationRefused \/ ReplaceRefused
  BY <1>2, AsFail DEF OperationRefused, ReplaceRefused, Refuse, memory
<1>3. CASE Begin \/ Commit \/ Rollback
  BY <1>3, BeginRefines, CommitRefines, RollbackRefines
<1>4. CASE Checkpoint
  BY <1>0, <1>4, AsOperate DEF Checkpoint, Refuse, memory
<1>5. CASE Format \/ Restart
  BY <1>0, <1>5, AsReplace DEF Format, Restart, Fresh, Done
<1>6. CASE \E image \in Images, allow_dirty, replay, ro \in BOOLEAN :
             Mount(image, allow_dirty, replay, ro)
  <2> PICK image \in Images, allow_dirty, replay, ro \in BOOLEAN :
             Mount(image, allow_dirty, replay, ro)
    BY <1>6
  <2>1. CASE image.dirty /\ ~allow_dirty /\ ~replay
    BY <2>1, AsFail DEF Mount, Refuse, memory
  <2>2. CASE ~(image.dirty /\ ~allow_dirty /\ ~replay)
    BY <1>0, <2>2, AsReplace DEF Mount, Fresh
  <2> QED BY <2>1, <2>2
<1>7. CASE UNCHANGED vars
  BY <1>7 DEF vars, Undo
<1> QED BY <1>1, <1>2, <1>3, <1>4, <1>5, <1>6, <1>7 DEF Next

\* begin, commit and rollback are atomic: a rollback puts back exactly the tree
\* that begin saw, whatever failed in between (filesystem.cc:965-1012).
THEOREM TransactionsAreAtomic == Spec => AtomicTransactions
<1>1. IInv /\ IInv' /\ [Next]_vars
      => [Store!Next]_<<tree, Undo, [op |-> call, ok |-> ok]>>
  BY StoreStep
<1> QED BY <1>1, StoreInit, Invariance, PTL DEF Spec, AtomicTransactions, Store!Spec
=============================================================================
