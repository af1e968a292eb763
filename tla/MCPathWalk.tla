----------------------------- MODULE MCPathWalk -----------------------------
(* Trees of four inodes: the root, a directory a in it, a third inode that   *)
(* is of any type and a fourth that is a file or a link, wherever there is   *)
(* room for them; paths of up to three components.  A file may have two names. *)
EXTENDS TreeWalk

Short(n) == UNION {[1 .. k -> {".", "..", "a", "b"}] : k \in 0 .. n}
To(absolute, components) == [absolute |-> absolute, components |-> components]

MCPaths == {To(TRUE, p) : p \in Short(3) \cup {<<"a", "a", "a", "a">>}}
             \cup {To(FALSE, p) : p \in {<<"a">>, <<"a", "b">>, <<"a", "a", "b">>}}

\* Targets of links; the last has too many components.
MCTargets == {To(TRUE, <<>>), To(FALSE, <<".">>), To(FALSE, <<"b">>),
              To(TRUE, <<"a", "b">>), To(FALSE, <<"..", "a">>), To(FALSE, <<"b", "a">>),
              To(FALSE, <<"a", "a", "a", "a">>)}
NoTarget == To(FALSE, <<".">>)

Directory == [type |-> "directory", target |-> NoTarget]
File == [type |-> "regular", target |-> NoTarget]
Link(t) == [type |-> "symlink", target |-> t]
Links == {Link(t) : t \in MCTargets}

\* Where an inode is: its directory and its name there.
Place == [dir : 1 .. 3, name : {"a", "b"}]

Built(third, at, fourth, from) ==
  LET kind == <<Directory, Directory, third, fourth>>
      home == <<[dir |-> 1, name |-> "."], [dir |-> 1, name |-> "a"], at, from>>
  IN [type |-> [i \in 1 .. 4 |-> kind[i].type],
      target |-> [i \in 1 .. 4 |-> kind[i].target],
      up |-> [i \in 1 .. 4 |-> home[i].dir],
      entry |-> [d \in 1 .. 4 |->
        [n \in {home[i].name : i \in {i \in 2 .. 4 : home[i].dir = d}} |->
           CHOOSE i \in 2 .. 4 : home[i] = [dir |-> d, name |-> n]]]]

OneNameTrees ==
  {Built(c.third, c.at, c.fourth, c.from) :
     c \in {c \in [third : {Directory, File} \cup Links, at : Place,
                   fourth : {File} \cup Links, from : Place] :
              LET root_a == [dir |-> 1, name |-> "a"] IN
              /\ Cardinality({root_a, c.at, c.from}) = 3
              /\ c.at.dir # 3
              /\ c.from.dir = 3 => c.third = Directory}}

\* The fourth inode gets a second name.
LinkedAgain(t, p) ==
  [t EXCEPT !.entry[p.dir] = [n \in DOMAIN @ \cup {p.name} |-> IF n = p.name THEN 4 ELSE @[n]]]

TwoNameTrees ==
  UNION {{LinkedAgain(t, p) : p \in {p \in Place : IsDirectory(t, p.dir)
                                                /\ p.name \notin DOMAIN t.entry[p.dir]}} :
           t \in {t \in OneNameTrees : t.type[4] = "regular"}}

MCTrees == OneNameTrees \cup TwoNameTrees
=============================================================================
