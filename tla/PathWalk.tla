------------------------------ MODULE PathWalk ------------------------------
(***************************************************************************)
(* PathResolver of src/src/path.cc: the component loop of resolve(), and   *)
(* resolve_parent(), which drops the last component and resolves the rest. *)
(* Paths start at the root: all callers pass it as the working directory.  *)
(*                                                                         *)
(* A path is the sequence of components that split() makes of it.  The     *)
(* tree that is walked does not change meanwhile; it has the shape that    *)
(* the operations of module Namespace give to what is below the root.      *)
(* (DirectoryTable::verify asks less of an image: mount() takes one with   *)
(* a directory that has two names or whose ".." leads elsewhere.)          *)
(* Components that split() refuses for their own sake, too long a name or  *)
(* a path of too many bytes, are left out: the outcome is that of too many *)
(* components.                                                             *)
(***************************************************************************)
EXTENDS Naturals, Sequences, FiniteSets

CONSTANTS Nodes,           \* inode numbers
          Root,            \* superblock.root_inode
          Names,           \* names of entries
          Trees,           \* the trees to walk
          Paths,           \* the paths to resolve
          MaxComponents,   \* Limits::max_path_components
          MaxDepth         \* Limits::max_symlink_depth

Component == Names \cup {".", ".."}
Target == [absolute : BOOLEAN, components : Seq(Component)]

\* The entries of each directory but "." and "..", the inode of its "..", and
\* the targets of the symbolic links.
Tree == [type : [Nodes -> {"directory", "regular", "symlink"}],
         entry : [Nodes -> UNION {[S -> Nodes] : S \in SUBSET Names}],
         up : [Nodes -> Nodes],
         target : [Nodes -> Target]]

IsDirectory(t, i) == t.type[i] = "directory"
Has(t, i, n) == IsDirectory(t, i) /\ n \in DOMAIN t.entry[i]

\* A directory is in one place, where its ".." leads to; the root's leads to
\* itself.
Rooted(t) ==
  /\ IsDirectory(t, Root) /\ t.up[Root] = Root
  /\ \A i \in Nodes : \A n \in DOMAIN t.entry[i] :
       Has(t, i, n) /\ IsDirectory(t, t.entry[i][n]) =>
         t.entry[i][n] # Root /\ t.up[t.entry[i][n]] = i

ASSUME PathWalkAssumption ==
  /\ Root \in Nodes /\ {".", ".."} \cap Names = {}
  /\ MaxComponents \in Nat /\ MaxDepth \in Nat
  /\ \A t \in Trees : t \in Tree /\ Rooted(t)
  /\ Paths \subseteq Target

VARIABLES tree, path,   \* the arguments of the call
          mode,         \* which call: "follow" and "keep" are resolve() with and
                        \* without following a final link, "create" is
                        \* resolve_parent()
          pending, current, parent, canonical, followed, processed,
          status        \* "walking", or how the call ended

arguments == <<tree, path, mode>>
place == <<current, parent, canonical>>
vars == <<tree, path, mode, pending, current, parent, canonical, followed,
          processed, status>>

Walking == status = "walking"
Outcomes == {"found", "invalid_path", "resource_limit", "expansion_limit",
             "invalid_directory", "not_directory", "not_found", "loop_detected"}

\* Mutant of Splits: the number of components is not bounded.
SplitsAny(components) == TRUE

\* split() succeeds.
Splits(components) == Len(components) <= MaxComponents

\* resolve_parent() drops the dots at the end, takes off the name before them,
\* and resolves the rest of the path, which it spells anew.
Trimmed(p) ==
  SubSeq(p, 1, Cardinality({k \in 1 .. Len(p) : \E j \in k .. Len(p) : p[j] # "."}))

Creatable(p) == Trimmed(p) # <<>> /\ Trimmed(p)[Len(Trimmed(p))] # ".."

ParentPath(p) ==
  (IF p.absolute THEN <<>> ELSE <<".">>)
    \o SubSeq(p.components, 1, Len(Trimmed(p.components)) - 1)

Init ==
  /\ tree \in Trees /\ path \in Paths /\ mode \in {"follow", "keep", "create"}
  /\ current = Root /\ parent = Root /\ canonical = <<>>
  /\ followed = 0 /\ processed = 0
  /\ IF ~Splits(path.components)
     THEN status = "resource_limit" /\ pending = <<>>
     ELSE IF mode # "create"
     THEN status = "walking" /\ pending = path.components
     ELSE IF Creatable(path.components)
     THEN status = "walking" /\ pending = ParentPath(path)
     ELSE status = "invalid_path" /\ pending = <<>>

-----------------------------------------------------------------------------
(* One turn of the loop for the component c. *)

Fail(s) == /\ status' = s
           /\ pending' = Tail(pending) /\ processed' = processed + 1
           /\ UNCHANGED <<place, followed>>

Go == status' = status /\ processed' = processed + 1

Dot(c) == /\ c = "."
          /\ pending' = Tail(pending)
          /\ Go /\ UNCHANGED <<place, followed>>

\* Mutants of DotDot: the canonical path keeps its last name; the parent is the
\* one of the component before.
DotDotKeepsName(c) ==
  /\ c = ".." /\ IsDirectory(tree, current)
  /\ current' = tree.up[current]
  /\ parent' = tree.up[current]
  /\ pending' = Tail(pending)
  /\ Go /\ UNCHANGED <<canonical, followed>>

DotDotKeepsParent(c) ==
  /\ c = ".." /\ IsDirectory(tree, current)
  /\ current' = tree.up[current]
  /\ canonical' = SubSeq(canonical, 1, Len(canonical) - 1)
  /\ pending' = Tail(pending)
  /\ Go /\ UNCHANGED <<parent, followed>>

\* The directory above, which is then reported as its own parent.
DotDot(c) ==
  /\ c = ".." /\ IsDirectory(tree, current)
  /\ current' = tree.up[current]
  /\ parent' = tree.up[current]
  /\ canonical' = SubSeq(canonical, 1, Len(canonical) - 1)
  /\ pending' = Tail(pending)
  /\ Go /\ UNCHANGED followed

NoWay(c) ==
  \/ c = ".." /\ ~IsDirectory(tree, current) /\ Fail("invalid_directory")
  \/ c \in Names /\ ~IsDirectory(tree, current) /\ Fail("not_directory")
  \/ c \in Names /\ IsDirectory(tree, current) /\ ~Has(tree, current, c) /\ Fail("not_found")

\* A link that ends the path is the result itself unless it is to be followed.
FinalLinkKept == mode = "keep" /\ Len(pending) = 1

\* c names an entry whose inode is, or is not, a link to follow.
Named(c) == c \in Names /\ Has(tree, current, c)
Linked(c) == /\ Named(c)
             /\ tree.type[tree.entry[current][c]] = "symlink"
             /\ ~FinalLinkKept
LinkTarget(c) == tree.target[tree.entry[current][c]]

Enter(c) == /\ Named(c) /\ ~Linked(c)
            /\ parent' = current
            /\ current' = tree.entry[current][c]
            /\ canonical' = Append(canonical, c)
            /\ pending' = Tail(pending)
            /\ Go /\ UNCHANGED followed

DepthLeft == followed < MaxDepth

LinkRefused(c) ==
  /\ Linked(c)
  /\ \/ ~DepthLeft /\ Fail("loop_detected")
     \/ DepthLeft /\ ~Splits(LinkTarget(c).components) /\ Fail("resource_limit")

\* The target takes the place of the link; from the root when it is absolute,
\* else from the directory the link is in.
Splice(c, rest) ==
  /\ Linked(c) /\ DepthLeft /\ Splits(LinkTarget(c).components)
  /\ pending' = LinkTarget(c).components \o rest
  /\ IF LinkTarget(c).absolute
     THEN current' = Root /\ parent' = Root /\ canonical' = <<>>
     ELSE parent' = current /\ UNCHANGED <<current, canonical>>

\* Mutants of Follow: what is left of the path is forgotten; the path that
\* results is resolved as a new one.
FollowOnly(c) == Splice(c, <<>>) /\ followed' = followed + 1 /\ Go
FollowAnew(c) == /\ Splice(c, Tail(pending))
                 /\ followed' = 0 /\ processed' = 0 /\ UNCHANGED status

Follow(c) == Splice(c, Tail(pending)) /\ followed' = followed + 1 /\ Go

Budget == MaxComponents * (MaxDepth + 1)

Step ==
  /\ Walking /\ pending # <<>>
  /\ LET c == Head(pending) IN
     IF processed + 1 > Budget
     THEN /\ status' = "expansion_limit" /\ processed' = processed + 1
          /\ UNCHANGED <<pending, place, followed>>
     ELSE Dot(c) \/ DotDot(c) \/ NoWay(c) \/ Enter(c) \/ Follow(c) \/ LinkRefused(c)
  /\ UNCHANGED arguments

\* The loop is over; resolve_parent() wants a directory.
Return ==
  /\ Walking /\ pending = <<>>
  /\ status' = IF mode = "create" /\ ~IsDirectory(tree, current)
               THEN "not_directory" ELSE "found"
  /\ UNCHANGED <<arguments, pending, place, followed, processed>>

Next == Step \/ Return

Spec == Init /\ [][Next]_vars

\* One thread runs the loop until it returns.
FairSpec == Spec /\ WF_vars(Next)

-----------------------------------------------------------------------------
\* The state is well typed.
TypeOK == /\ mode \in {"follow", "keep", "create"}
          /\ pending \in Seq(Component)
          /\ current \in Nodes /\ parent \in Nodes
          /\ canonical \in Seq(Names)
          /\ followed \in 0 .. MaxDepth /\ processed \in Nat
          /\ status \in {"walking"} \cup Outcomes

\* Every component that is ever processed is one of the path or of the target
\* of a link that was followed, so the bound on followed links alone ends the
\* loop and the test of the number of processed components (path.cc:86-92)
\* never fires.
BudgetSuffices ==
  /\ processed + Len(pending) <= MaxComponents * (followed + 1)
  /\ status # "expansion_limit"

\* The canonical path leads from the root to the current inode, without links
\* and without "..", at every turn of the loop.
Trail(t) ==
  /\ t[1] = Root /\ t[Len(canonical) + 1] = current
  /\ \A k \in 1 .. Len(canonical) : /\ Has(tree, t[k], canonical[k])
                                    /\ tree.entry[t[k]][canonical[k]] = t[k + 1]

CanonicalLeadsHere == \E t \in [1 .. Len(canonical) + 1 -> Nodes] : Trail(t)

\* The parent and the name that remove() and rename() act upon are an entry
\* that leads to the inode, or the inode is a directory with entries that is
\* reported as its own parent, with the name it has where its ".." leads.
LastName == canonical[Len(canonical)]

ReportsEntryOrItself ==
  IF canonical = <<>> THEN current = Root /\ parent = Root
  ELSE \/ Has(tree, parent, LastName) /\ tree.entry[parent][LastName] = current
       \/ /\ parent = current /\ IsDirectory(tree, current)
          /\ DOMAIN tree.entry[current] # {}
          /\ Has(tree, tree.up[current], LastName)
          /\ tree.entry[tree.up[current]][LastName] = current

\* Every call returns, whatever loops the links of the tree make.
Ends == <>~Walking
=============================================================================
