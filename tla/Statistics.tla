----------------------------- MODULE Statistics -----------------------------
(***************************************************************************)
(* StatisticsCollector::collect of src/src/analysis.cc, as far as it is    *)
(* about names: it goes through the inode table and never looks at a       *)
(* directory.  The counts of links and of files are one here.              *)
(***************************************************************************)
EXTENDS NameChecker

CountOf(type) == Cardinality({i \in DOMAIN nodes : nodes[i].type = type})

Additional(i) ==
  IF nodes[i].links > 1 /\ ~IsDirectory(i) THEN nodes[i].links - 1 ELSE 0

HardLinks == SumOf([i \in DOMAIN nodes |-> Additional(i)])

\* The statistics are about all names, those that no path leads to included:
\* files and additional links together are the names of files, and each
\* directory that is counted is one that can be walked or one cut off.
StatisticsCountNames ==
  /\ CountOf("file") + HardLinks = Cardinality({e \in Table : ~IsDirectory(e.inode)})
  /\ CountOf("directory") = Cardinality(Reachable) + Cardinality(CutOff)

\* Whatever calls succeeded or failed, the three reports on names fit the tree:
\* the checker finds no error and no orphan, it warns of the directories with
\* subdirectories and of no other inode, and the statistics count every name.
ReportsFitNames == NothingWrong /\ WarnsOfSubdirectories /\ StatisticsCountNames
=============================================================================
