----------------------------- MODULE NameChecker -----------------------------
(***************************************************************************)
(* What ConsistencyChecker::check of src/src/checker.cc reports about the  *)
(* names and link counts that module Namespace can reach, and what         *)
(* RepairPlanner::plan makes of it.  An issue about an entry is its        *)
(* position <<d, k>>, one about an inode the inode.                        *)
(***************************************************************************)
EXTENDS Namespace

\* Mutant of InTable: deleted entries are not skipped.
InTableDeleted(d) == 1 .. Len(dirs[d].list)

\* The entries of directory d that the checker looks at.
InTable(d) == Used(d)

NoDirectory == {d \in DOMAIN dirs : d \notin DOMAIN nodes \/ ~IsDirectory(d)}

\* The positions of the entries in use of the directories in ds; 0 is the
\* position of "..", and "." is not among them: it cannot be wrong.
Positions(ds) == UNION {{<<d, k>> : k \in InTable(d) \cup {0}} : d \in ds}
Scanned == Positions(DOMAIN dirs \ NoDirectory)
At(p) == IF p[2] = 0
         THEN [name |-> "..", inode |-> dirs[p[1]].up, type |-> "directory"]
         ELSE dirs[p[1]].list[p[2]]

MissingInode == {p \in Scanned : At(p).inode \notin DOMAIN nodes}
WrongType == {p \in Scanned \ MissingInode : nodes[At(p).inode].type # At(p).type}
SameName == {p \in Scanned : \E k \in InTable(p[1]) :
               k < p[2] /\ dirs[p[1]].list[k].name = At(p).name}

\* The number of entries in use that name inode i, "." and ".." included.
NamesOf(i, ds) == Cardinality({p \in Positions(ds) : At(p).inode = i})
                  + Cardinality({d \in ds : d = i})

Observed(i) == NamesOf(i, DOMAIN dirs \ NoDirectory)

WrongLinkCount ==
  {i \in DOMAIN nodes \ {Root} :
     nodes[i].links # IF IsDirectory(i) /\ Observed(i) < 2 THEN 2 ELSE Observed(i)}

Orphans == {i \in DOMAIN nodes \ {Root} :
              \A p \in Scanned : p[2] = 0 \/ At(p).inode # i}

\* The issues that report.clean() counts, by code and place.
Errors == ({"missing_inode"} \X (MissingInode \cup NoDirectory))
            \cup ({"invalid_directory_entry"} \X (WrongType \cup SameName))
Warnings == ({"invalid_link_count"} \X WrongLinkCount)
              \cup ({"orphan_inode"} \X Orphans)
Issues == Errors \cup Warnings

\* The actions that are planned, one of a kind for each inode; all issues but
\* NoDirectory are repairable.
Plan == {[kind |-> "remove_directory_entry", inode |-> At(p).inode] :
           p \in MissingInode \cup WrongType \cup SameName}
          \cup {[kind |-> "update_link_count", inode |-> i,
                  value |-> NamesOf(i, DOMAIN dirs)] : i \in WrongLinkCount}
          \cup {[kind |-> "reconnect_inode", inode |-> i] : i \in Orphans}

-----------------------------------------------------------------------------
\* Legal calls never make the checker report an error, nor an inode without a
\* name, whatever failed on the way; not even when a directory was renamed
\* below itself and no path leads to it any more.
NothingWrong == Errors = {} /\ Orphans = {}

\* It warns of the link count of exactly the directories, other than the root,
\* that have subdirectories: the stored count stays 2, the observed one counts
\* their "..".
WarnsOfSubdirectories ==
  WrongLinkCount = {i \in DOMAIN dirs \ {Root} :
                      \E k \in Used(i) : IsDirectory(dirs[i].list[k].inode)}

\* Nothing is planned for a file system that is clean:
\* tests.cc:244-245 "clean filesystem has empty repair plan".
CleanHasEmptyPlan == Errors = {} => Plan = {}
=============================================================================
