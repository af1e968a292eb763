----------------------------- MODULE NameTable -----------------------------
(***************************************************************************)
(* What the directories promise, whatever they look like inside: a table   *)
(* in which a name of a directory leads to one node.  A call adds one      *)
(* name, drops one or moves one, and a call that fails leaves the table as *)
(* it was, but for a creation whose journal record is refused and for a    *)
(* recursive removal that stops at one of the names it still has to drop.  *)
(***************************************************************************)
VARIABLES table,      \* the entries in use, [dir, name, inode]
          success     \* did the last call succeed?

Taken(dir, name) == \E e \in table : e.dir = dir /\ e.name = name

Init == table = {} /\ success = TRUE

Add == /\ \E e \in table' : /\ ~Taken(e.dir, e.name)
                            /\ table' = table \cup {e}
       /\ success' \in BOOLEAN

Drop == /\ \E e \in table : table' = table \ {e}
        /\ success' = TRUE

Move == /\ \E e \in table, f \in table' :
             /\ ~Taken(f.dir, f.name) /\ e.inode = f.inode
             /\ table' = (table \ {e}) \cup {f}
        /\ success' = TRUE

Keep == table' = table /\ success' \in BOOLEAN

Next == Add \/ Drop \/ Move \/ Keep
Spec == Init /\ [][Next]_<<table, success>>
=============================================================================
