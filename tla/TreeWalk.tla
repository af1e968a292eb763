------------------------------ MODULE TreeWalk ------------------------------
(***************************************************************************)
(* Filesystem::walk of src/src/filesystem.cc: the inode that resolve() has *)
(* found for its path and everything below it, level by level, each with   *)
(* the path that is spelled on the way down.  The tests for a missing      *)
(* inode or directory table are left out: no operation of module Namespace *)
(* leaves an entry without the one or a directory without the other.       *)
(***************************************************************************)
EXTENDS PathMeaning, SequencesExt

CONSTANTS MaxWalkDepth,   \* Limits::max_walk_depth
          MaxEntries      \* Limits::max_directory_entries

\* The entries of all directories, "." and ".." included.
EntriesIn(t) ==
  {e \in Nodes \X Component :
     IsDirectory(t, e[1]) /\ (Has(t, e[1], e[2]) \/ e[2] \in {".", ".."})}

\* A directory has one name.
NamedOnce(t) ==
  \A i \in Nodes : \A m, n \in Names :
    Has(t, i, m) /\ Has(t, i, n) /\ t.entry[i][m] = t.entry[i][n]
      /\ IsDirectory(t, t.entry[i][n]) => m = n

\* DirectoryTable::verify bounds the entries of all directories together.
ASSUME TreeWalkAssumption ==
  /\ MaxWalkDepth \in Nat /\ MaxEntries \in Nat
  /\ \A t \in Trees : /\ NamedOnce(t) /\ IsFiniteSet(EntriesIn(t))
                      /\ Cardinality(EntriesIn(t)) <= MaxEntries

Visit(inode, at, depth) == [inode |-> inode, path |-> at, depth |-> depth]

\* Mutant of ChildPath: the path of what is below the root only.
ChildPathShort(v, name) == <<name>>
ChildPath(v, name) == Append(v.path, name)

Child(v, name) == Visit(tree.entry[v.inode][name], ChildPath(v, name), v.depth + 1)

Children(v) ==
  LET names == SetToSeq(DOMAIN tree.entry[v.inode])
  IN [k \in 1 .. Len(names) |-> Child(v, names[k])]

TooDeep(v) == v.depth > MaxWalkDepth

\* What is to be visited, what was, and the directories among it.
Begin == [status |-> "walking", queue |-> <<Visit(current, canonical, 0)>>,
          output |-> <<>>, active |-> {}]

Failed(s) == [status |-> s, queue |-> <<>>, output |-> <<>>, active |-> {}]

\* One turn of the loop.
Pass(w) ==
  LET v == Head(w.queue)
      visited == Append(w.output, v)
      next == [w EXCEPT !.queue = Tail(w.queue), !.output = visited]
  IN IF w.status # "walking" THEN w
     ELSE IF w.queue = <<>> THEN [w EXCEPT !.status = "done"]
     ELSE IF TooDeep(v) THEN Failed("too_deep")
     ELSE IF Len(visited) > MaxEntries THEN Failed("too_many")
     ELSE IF ~IsDirectory(tree, v.inode) THEN next
     ELSE IF v.inode \in w.active THEN Failed("loop")
     ELSE [next EXCEPT !.queue = Tail(w.queue) \o Children(v),
                       !.active = w.active \cup {v.inode}]

\* Each turn visits something or is the last: so many are enough.
Passes == MaxEntries + 1

Walk == LET after[n \in 0 .. Passes] == IF n = 0 THEN Begin ELSE Pass(after[n - 1])
        IN after[Passes]

-----------------------------------------------------------------------------
\* The inodes k levels below the current one.
Level[k \in 0 .. MaxWalkDepth + 1] ==
  IF k = 0 THEN {current}
  ELSE UNION {{tree.entry[d][n] : n \in DOMAIN tree.entry[d]} :
                d \in {d \in Level[k - 1] : IsDirectory(tree, d)}}

CanWalk == status = "found" /\ mode = "follow"

\* walk() fails only on a tree that is too deep, never by its tests for cycles
\* and for too many entries; else it visits everything below its path, each
\* directory once and each name in it once, after the directory.
WalkVisitsAll ==
  LET walk == Walk
      visits == 1 .. Len(walk.output)
      Of(k) == walk.output[k].inode
      Below(j, n) == {k \in visits : walk.output[k].path = Append(walk.output[j].path, n)}
  IN IF Level[MaxWalkDepth + 1] # {}
     THEN walk.status = "too_deep"
     ELSE /\ walk.status = "done"
          /\ {Of(k) : k \in visits} = UNION {Level[k] : k \in 0 .. MaxWalkDepth}
          /\ \A j, k \in visits : j # k => Of(j) # Of(k) \/ ~IsDirectory(tree, Of(j))
          /\ \A j \in visits : \A n \in Names :
               Has(tree, Of(j), n) =>
                 \E k \in visits : /\ Below(j, n) = {k} /\ j < k
                                   /\ Of(k) = tree.entry[Of(j)][n]

\* A path that walk() lists leads to the inode it is listed with, when resolve()
\* is asked for it: tools and image diffs take the paths for names of inodes.
WalkPathsResolve ==
  LET output == Walk.output IN
  \A k \in 1 .. Len(output) :
    Splits(output[k].path) =>
      LET m == Meaning(Root, output[k].path, FALSE, 0)
      IN m.status = "found" /\ m.node = output[k].inode

\* Both hold of what walk() returns for any path that resolve() finds.
WalkIsComplete == CanWalk => WalkVisitsAll /\ WalkPathsResolve
=============================================================================
