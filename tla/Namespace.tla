----------------------------- MODULE Namespace -----------------------------
(***************************************************************************)
(* Names and inodes: InodeTable of src/src/inode.cc, DirectoryTable of     *)
(* src/src/directory.cc and the operations of src/src/filesystem.cc that   *)
(* use them, create_node, create_hard_link, remove and rename.             *)
(*                                                                         *)
(* The operations are given the directory and the name to which their path *)
(* resolves.  Names that differ in case only are one name.  A symbolic     *)
(* link is a file here: nothing in this module follows it.  Each directory *)
(* starts with its entries "." and "..", which nothing removes or renames; *)
(* `up` is the inode of "..", `list` has the other entries, the deleted    *)
(* ones included.                                                          *)
(***************************************************************************)
EXTENDS Naturals, Sequences, FiniteSets

CONSTANTS Names,        \* names of entries
          MaxInodes,    \* Limits::max_inodes
          MaxEntries,   \* Limits::max_directory_entries
          MaxLinks      \* Limits::max_hard_links

ASSUME NamespaceAssumption ==
  /\ MaxInodes \in Nat \ {0} /\ MaxEntries \in Nat
  /\ MaxEntries >= 2 /\ MaxLinks \in Nat /\ MaxLinks >= 2

VARIABLES nodes,       \* inodes_ of the InodeTable
          next,        \* next_identifier_
          dirs,        \* directories_ of the DirectoryTable
          removing,    \* the calls of remove() in progress, innermost first
          ok           \* did the last call succeed?

vars == <<nodes, next, dirs, removing, ok>>

Ids == 1 .. MaxInodes
Root == 1
Types == {"directory", "file"}
Node == [type : Types, links : Nat]
Entry == [name : Names, inode : Ids, type : Types, deleted : BOOLEAN]
Directory == [up : Ids, list : Seq(Entry)]

NewNode(t) == [type |-> t, links |-> IF t = "directory" THEN 2 ELSE 1]
NewEntry(n, i, t) == [name |-> n, inode |-> i, type |-> t, deleted |-> FALSE]
NewDirectory(parent) == [up |-> parent, list |-> <<>>]

Least(S) == CHOOSE i \in S : \A j \in S : i <= j
Greatest(S) == CHOOSE i \in S : \A j \in S : j <= i

\* The positions in directory d of the entries in use, and of those called n.
Used(d) == {k \in 1 .. Len(dirs[d].list) : ~dirs[d].list[k].deleted}
Found(d, n) == {k \in Used(d) : dirs[d].list[k].name = n}
InUse(d, n) == Found(d, n) # {}
EntryOf(d, n) == dirs[d].list[Least(Found(d, n))]

IsDirectory(i) == nodes[i].type = "directory"

\* All entries in use.
Table == UNION {{[dir |-> d, name |-> dirs[d].list[k].name,
                   inode |-> dirs[d].list[k].inode] : k \in Used(d)} : d \in DOMAIN dirs}

Subdirectories(d) ==
  {i \in {dirs[d].list[k].inode : k \in Used(d)} : IsDirectory(i)}

\* S has the subdirectories of all its directories.
Closed(S) == \A d \in S : Subdirectories(d) \subseteq S

\* The directories that are on a path from the root.
Reachable == {d \in DOMAIN dirs :
                \A S \in SUBSET DOMAIN dirs : Root \in S /\ Closed(S) => d \in S}

\* Mutant of Empty: only the first entry is looked at.
EmptyFirst(d) == dirs[d].list = <<>> \/ dirs[d].list[1].deleted

Empty(d) == Used(d) = {}

-----------------------------------------------------------------------------
(* InodeTable. *)

Free == {i \in next .. MaxInodes : i \notin DOMAIN nodes}
CanAllocate == Cardinality(DOMAIN nodes) < MaxInodes /\ Free # {}
NewId == Least(Free)

WithNode(i, t) == [j \in DOMAIN nodes \cup {i} |->
                     IF j = i THEN NewNode(t) ELSE nodes[j]]

\* Mutant of Lowered: the next identifier stays where it is.
Kept(i) == next

\* erase(): the next identifier goes back to one that has become free.
Lowered(i) == IF i < next THEN i ELSE next

\* Mutant of NotAllocated: the search goes on from one call to the next.
NotAllocatedYet == next' = next + 1 /\ UNCHANGED nodes

\* allocate() fails; it has looked at every identifier if there seemed to be
\* room for one more.
NotAllocated == /\ next' = IF Cardinality(DOMAIN nodes) < MaxInodes
                              /\ next <= MaxInodes
                           THEN MaxInodes + 1 ELSE next
                /\ UNCHANGED nodes

-----------------------------------------------------------------------------
(* DirectoryTable. *)

\* The sum of the values of f, by counting.
SumOf(f) == Cardinality(UNION {{x} \X (1 .. f[x]) : x \in DOMAIN f})

Total(ds) == SumOf([d \in DOMAIN ds |-> 2 + Len(ds[d].list)])

\* add() finds the name free and counts the entries of all directories, the
\* deleted ones too.
CanAdd(ds, d, n) == ~InUse(d, n) /\ Total(ds) < MaxEntries

Added(ds, d, e) == [ds EXCEPT ![d].list = Append(@, e)]

\* remove(): the first entry of that name is marked.
Marked(ds, d, n) == [ds EXCEPT ![d].list[Least(Found(d, n))].deleted = TRUE]

WithDirectory(i, parent) ==
  [j \in DOMAIN dirs \cup {i} |-> IF j = i THEN NewDirectory(parent) ELSE dirs[j]]

Without(f, i) == [j \in DOMAIN f \ {i} |-> f[j]]

-----------------------------------------------------------------------------
Refuse == ok' = FALSE /\ UNCHANGED <<nodes, next, dirs, removing>>

Init == /\ nodes = [i \in {Root} |-> NewNode("directory")]
        /\ dirs = [i \in {Root} |-> NewDirectory(Root)]
        /\ next = Root + 1
        /\ removing = <<>> /\ ok = TRUE

\* create_node in directory d.  What fails after the inode was allocated
\* erases it again.
Create(d, n, t) ==
  /\ ~InUse(d, n)
  /\ CanAllocate
  /\ LET i == NewId
         opened == IF t = "directory" THEN WithDirectory(i, d) ELSE dirs
         added == Added(opened, d, NewEntry(n, i, t))
     IN \/ /\ t = "file" \/ ~CanAdd(opened, d, n)   \* a symbolic link whose target
           /\ next' = i                            \* is refused, or no room for
           /\ ok' = FALSE                          \* the entry
           /\ UNCHANGED <<nodes, dirs>>
        \/ /\ CanAdd(opened, d, n)
           /\ \/ /\ nodes' = WithNode(i, t)         \* the journal may refuse
                 /\ dirs' = added                   \* the record
                 /\ next' = i + 1
                 /\ ok' \in BOOLEAN
              \/ /\ t = "file"                      \* content not stored
                 /\ dirs' = [added EXCEPT
                      ![d].list[Len(added[d].list)].deleted = TRUE]
                 /\ next' = i
                 /\ ok' = FALSE
                 /\ UNCHANGED nodes
  /\ UNCHANGED removing

CreateRefused(d, n) ==
  /\ \/ InUse(d, n) /\ UNCHANGED <<nodes, next>>
     \/ ~InUse(d, n) /\ ~CanAllocate /\ NotAllocated
  /\ ok' = FALSE
  /\ UNCHANGED <<dirs, removing>>

\* What a path can resolve to: an entry, or, when the path ends in ".." or in a
\* followed link to ".", a directory that is then reported as its own parent,
\* with its own name.
Entries == {e \in Table : e.dir \in Reachable}
DotDot == {[e EXCEPT !.dir = e.inode] :
             e \in {e \in Entries : \E f \in Entries : f.dir = e.inode}}
Resolved == Entries \cup DotDot

\* create_hard_link of the file that r names.
Link(r, d, n) ==
  IF IsDirectory(r.inode) \/ nodes[r.inode].links >= MaxLinks \/ ~CanAdd(dirs, d, n)
  THEN Refuse
  ELSE /\ dirs' = Added(dirs, d, NewEntry(n, r.inode, nodes[r.inode].type))
       /\ nodes' = [nodes EXCEPT ![r.inode].links = @ + 1]
       /\ ok' = TRUE
       /\ UNCHANGED <<next, removing>>

-----------------------------------------------------------------------------
(* rename *)

\* Mutant of Undone: the first deleted entry of that name comes back.
UndoneFirst(ds, d, n) ==
  LET gone == {k \in 1 .. Len(ds[d].list) : ds[d].list[k].deleted /\ ds[d].list[k].name = n}
  IN [ds EXCEPT ![d].list[Least(gone)].deleted = FALSE]

\* The undo of a failed add: the last deleted entry of that name comes back.
Undone(ds, d, n) ==
  LET gone == {k \in 1 .. Len(ds[d].list) : ds[d].list[k].deleted /\ ds[d].list[k].name = n}
  IN [ds EXCEPT ![d].list[Greatest(gone)].deleted = FALSE]

\* Mutant of Moved: the directory that is moved keeps its "..".
MovedOnly(ds, e, s, t) == ds

\* The ".." of a directory that is moved to another one.
Moved(ds, e, s, t) ==
  IF e.type = "directory" /\ s # t THEN [ds EXCEPT ![e.inode].up = t] ELSE ds

\* rename r to the name n in directory d, below r's own inode too.
Rename(r, d, n) ==
  /\ UNCHANGED <<nodes, next, removing>>
  /\ IF InUse(d, n) \/ ~InUse(r.dir, r.name)
     THEN ok' = FALSE /\ UNCHANGED dirs
     ELSE LET e == EntryOf(r.dir, r.name)
              marked == Marked(dirs, r.dir, r.name)
          IN IF CanAdd(marked, d, n)
             THEN /\ dirs' = Moved(Added(marked, d, NewEntry(n, e.inode, e.type)),
                                   e, r.dir, d)
                  /\ ok' = TRUE
             ELSE dirs' = Undone(marked, r.dir, r.name) /\ ok' = FALSE

-----------------------------------------------------------------------------
(* remove *)

\* A call of remove(): a directory with entries only when it is recursive.
Remove(r, recursive) ==
  /\ r.inode # Root
  /\ IF IsDirectory(r.inode) /\ ~Empty(r.inode) /\ ~recursive
     THEN Refuse
     ELSE /\ removing' = <<r>>
          /\ UNCHANGED <<nodes, next, dirs, ok>>

\* The innermost call goes on to the next entry of its directory.
Descend ==
  /\ removing # <<>>
  /\ LET r == Head(removing) IN
     /\ IsDirectory(r.inode) /\ ~Empty(r.inode)
     /\ LET e == dirs[r.inode].list[Least(Used(r.inode))] IN
        removing' = <<[dir |-> r.inode, name |-> e.name, inode |-> e.inode]>>
                      \o removing
  /\ UNCHANGED <<nodes, next, dirs, ok>>

\* The path of that entry is too long, or leads through what is gone already:
\* every call in progress returns.
DescendFailed ==
  /\ removing # <<>>
  /\ LET r == Head(removing) IN IsDirectory(r.inode) /\ ~Empty(r.inode)
  /\ removing' = <<>> /\ ok' = FALSE
  /\ UNCHANGED <<nodes, next, dirs>>

\* Mutant of LastLink: an inode goes with the first of its names.
AnyLink(i) == TRUE
LastLink(i) == IsDirectory(i) \/ nodes[i].links <= 1

\* The innermost call removes its own entry, and the inode with the last one.
Unlink ==
  /\ removing # <<>>
  /\ LET r == Head(removing)
         marked == Marked(dirs, r.dir, r.name)
     IN /\ ~(IsDirectory(r.inode) /\ ~Empty(r.inode))
        /\ IF ~InUse(r.dir, r.name)
           THEN /\ removing' = <<>> /\ ok' = FALSE
                /\ UNCHANGED <<nodes, next, dirs>>
           ELSE /\ IF LastLink(r.inode)
                   THEN /\ nodes' = Without(nodes, r.inode)
                        /\ dirs' = Without(marked, r.inode)
                        /\ next' = Lowered(r.inode)
                   ELSE /\ nodes' = [nodes EXCEPT ![r.inode].links = @ - 1]
                        /\ dirs' = marked
                        /\ UNCHANGED next
                /\ removing' = Tail(removing) /\ ok' = TRUE

Call == /\ removing = <<>>
        /\ \/ \E d \in Reachable, n \in Names :
                \/ \E t \in Types : Create(d, n, t)
                \/ CreateRefused(d, n)
           \/ \E r \in Resolved :
                \/ \E recursive \in BOOLEAN : Remove(r, recursive)
                \/ \E d \in Reachable, n \in Names : Link(r, d, n) \/ Rename(r, d, n)

Next == Call \/ Descend \/ DescendFailed \/ Unlink

Spec == Init /\ [][Next]_vars

-----------------------------------------------------------------------------
\* The state is well typed.
TypeOK == /\ nodes \in [DOMAIN nodes -> Node] /\ DOMAIN nodes \subseteq Ids
          /\ next \in 1 .. MaxInodes + 1
          /\ dirs \in [DOMAIN dirs -> Directory] /\ DOMAIN dirs \subseteq Ids
          /\ removing \in Seq([dir : Ids, name : Names, inode : Ids])
          /\ ok \in BOOLEAN

\* mount() takes the directories back: DirectoryTable::verify succeeds after
\* any sequence of calls, those that failed and the renames of a directory
\* into itself included.
Verified ==
  /\ Root \in DOMAIN dirs
  /\ Total(dirs) <= MaxEntries
  /\ \A d \in DOMAIN dirs :
       /\ d \in DOMAIN nodes /\ IsDirectory(d)
       /\ dirs[d].up \in DOMAIN nodes
       /\ \A k \in Used(d) :
            LET e == dirs[d].list[k] IN
            /\ e.inode \in DOMAIN nodes
            /\ e.type = nodes[e.inode].type
            /\ Found(d, e.name) = {k}

\* An inode's link count is the number of its names.  A directory other than
\* the root has one name, and its ".." leads to where that is.
Links(i) == UNION {{<<d, k>> : k \in {k \in Used(d) : dirs[d].list[k].inode = i}} :
                     d \in DOMAIN dirs}

LinksCounted ==
  \A i \in DOMAIN nodes :
    IF IsDirectory(i)
    THEN /\ i \in DOMAIN dirs /\ nodes[i].links = 2
         /\ IF i = Root THEN Links(i) = {}
            ELSE \E k \in 1 .. MaxEntries : Links(i) = {<<dirs[i].up, k>>}
    ELSE nodes[i].links = Cardinality(Links(i)) /\ nodes[i].links \in 1 .. MaxLinks

\* No free identifier is below the next one, so an inode table refuses a new
\* inode only when it is full.
NoInodeLost == \A i \in 1 .. next - 1 : i \in DOMAIN nodes

\* The entries in use are a table in which calls add, drop and move one name at
\* a time; in particular a rename that finds no room for the new name leaves
\* all names as they were.  See NameTable.
Promise == INSTANCE NameTable WITH table <- Table, success <- ok
OneNameAtATime == Promise!Spec

\* A directory gets out of the reach of every path only by a call that moves a
\* directory below itself, which rename() does not refuse: no failed call and
\* no recursive removal, complete or not, cuts one off.
CutOff == DOMAIN dirs \ Reachable

OnlyRenameCutsOff ==
  [][CutOff' \subseteq CutOff
     \/ \E e \in Table \ Table', f \in Table' \ Table :
          e.inode = f.inode /\ f.dir \in CutOff']_vars
=============================================================================
