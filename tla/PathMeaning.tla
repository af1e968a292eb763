---------------------------- MODULE PathMeaning ----------------------------
(***************************************************************************)
(* What a path means, by recursion on its components: a link means what    *)
(* its target means from the directory it is in, and the rest of the path  *)
(* goes on from there.  The loop of module PathWalk splices targets into   *)
(* the path instead and has no notion of a nested path.                    *)
(***************************************************************************)
EXTENDS PathWalk

\* A way to go: the path rest from an inode, when links have been followed so
\* far; final says whether a link at its end is followed.
Legs == [node : Nodes, rest : Seq(Component), final : BOOLEAN, links : 0 .. MaxDepth]
Leg(i, ps, final, n) == [node |-> i, rest |-> ps, final |-> final, links |-> n]

End(w, s) == [status |-> s, node |-> w.node, links |-> w.links]
Onward(w, i, n) == Leg(i, Tail(w.rest), w.final, n)

\* Where w leads in the tree t, if shorter ways lead where f says.
Leads(t, f, w) ==
  LET c == Head(w.rest)
      e == t.entry[w.node][c]
      to == t.target[e]
      l == f[Leg(IF to.absolute THEN Root ELSE w.node, to.components, TRUE, w.links + 1)]
  IN IF w.rest = <<>> THEN End(w, "found")
     ELSE IF c = "." THEN f[Onward(w, w.node, w.links)]
     ELSE IF c = ".." THEN IF IsDirectory(t, w.node) THEN f[Onward(w, t.up[w.node], w.links)]
                           ELSE End(w, "invalid_directory")
     ELSE IF ~IsDirectory(t, w.node) THEN End(w, "not_directory")
     ELSE IF ~Has(t, w.node, c) THEN End(w, "not_found")
     ELSE IF ~(t.type[e] = "symlink" /\ (w.final \/ Tail(w.rest) # <<>>))
     THEN f[Onward(w, e, w.links)]
     ELSE IF w.links = MaxDepth THEN End(w, "loop_detected")
     ELSE IF ~Splits(to.components) THEN End(w, "resource_limit")
     ELSE IF l.status = "found" THEN f[Onward(w, l.node, l.links)] ELSE l

MeaningIn(t) == LET M[w \in Legs] == Leads(t, M, w) IN M

\* The end of the path ps from inode i.
Meaning(i, ps, final, n) == MeaningIn(tree)[Leg(i, ps, final, n)]

\* resolve() ends where its path means to, and for the reason why it has no
\* meaning if it has none.
ResolveAgrees ==
  ~Walking /\ mode # "create" /\ Splits(path.components) =>
    LET m == Meaning(Root, path.components, mode = "follow", 0) IN
    /\ status = m.status
    /\ status = "found" => current = m.node /\ followed = m.links

\* A name that resolve_parent() finds free is one that resolve() then finds
\* once it is taken: create_node, create_hard_link and rename look the name up
\* in the parent and never resolve the whole path.  Dots after the name make a
\* difference, since they have resolve() follow it.
CreatableIsFound ==
  LET p == path.components IN
  status = "found" /\ mode = "create" /\ p[Len(p)] # "." =>
    LET m == Meaning(Root, p, FALSE, 0) IN
    IF Has(tree, current, p[Len(p)])
    THEN m.status = "found" /\ m.node = tree.entry[current][p[Len(p)]]
    ELSE m.status = "not_found" /\ m.node = current

\* Both calls agree with what the path means.
AgreesWithMeaning == ResolveAgrees /\ CreatableIsFound
=============================================================================
