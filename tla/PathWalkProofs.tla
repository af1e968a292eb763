--------------------------- MODULE PathWalkProofs ---------------------------
(***************************************************************************)
(* Theorems about the loop of module PathWalk, for every tree, every path  *)
(* and every limit: it stays within its budget, it reports a place that    *)
(* exists, and it ends where the path means to by the recursion of module  *)
(* PathMeaning.  From every place that it finds, the walk of module        *)
(* TreeWalk lists everything below, once for each name.                    *)
(***************************************************************************)
EXTENDS TreeWalk, SequenceTheorems, FiniteSetTheorems, WellFoundedInduction, TLAPS

-----------------------------------------------------------------------------
(* The invariant: what the runs check, and that the arguments stay what    *)
(* they were.                                                              *)

Arguments == tree \in Trees /\ path \in Paths /\ mode \in {"follow", "keep", "create"}

IInv == /\ Arguments /\ TypeOK /\ BudgetSuffices
        /\ CanonicalLeadsHere /\ ReportsEntryOrItself

\* A tree is well typed and rooted.
LEMMA TreeFacts ==
  ASSUME Arguments
  PROVE  tree \in Tree /\ Rooted(tree)
BY PathWalkAssumption DEF Arguments

\* The components of a path, and of the target of a link, are components.
LEMMA PathFacts ==
  ASSUME Arguments
  PROVE  path.components \in Seq(Component) /\ path.absolute \in BOOLEAN
BY PathWalkAssumption DEF Arguments, Target

LEMMA LinkFacts ==
  ASSUME Arguments, TypeOK, NEW c, Named(c)
  PROVE  /\ tree.entry[current][c] \in Nodes
         /\ LinkTarget(c).components \in Seq(Component)
         /\ LinkTarget(c).absolute \in BOOLEAN
<1>1. tree.entry[current] \in UNION {[S -> Nodes] : S \in SUBSET Names}
  BY TreeFacts DEF Tree, TypeOK
<1>2. tree.entry[current][c] \in Nodes
  BY <1>1 DEF Named, Has
<1>3. tree.target[tree.entry[current][c]] \in Target
  BY <1>2, TreeFacts DEF Tree
<1> QED
  BY <1>2, <1>3 DEF LinkTarget, Target

-----------------------------------------------------------------------------
(* Lengths and the budget. *)

LEMMA TailFacts ==
  ASSUME NEW S, NEW s \in Seq(S), s # <<>>
  PROVE  /\ Head(s) \in S /\ Tail(s) \in Seq(S)
         /\ Len(s) \in Nat \ {0} /\ Len(Tail(s)) = Len(s) - 1
BY HeadTailProperties, EmptySeq

LEMMA BudgetGrows ==
  ASSUME NEW m \in Nat, NEW f \in Nat
  PROVE  m * (f + 2) = m * (f + 1) + m
BY SMT

\* A component is processed and k others take its place; g stands for the
\* budget, a product, which the solver is better not shown.
LEMMA BudgetMoves ==
  ASSUME NEW p \in Nat, NEW n \in Nat, NEW k \in Nat, NEW m \in Nat, NEW g \in Nat,
         p + n <= g, k <= m
  PROVE  (p + 1) + (k + (n - 1)) <= g + m
BY SMT

\* As long as links are left to follow, or none is to be followed, the bound
\* on processed components is not reached.
LEMMA WithinBudget ==
  ASSUME NEW m \in Nat, NEW d \in Nat, NEW f \in 0 .. d
  PROVE  m * (f + 1) <= m * (d + 1)
<1> DEFINE r == d - f
<1>1. r \in Nat /\ d + 1 = (f + 1) + r
  OBVIOUS
<1>2. m * (d + 1) = m * (f + 1) + m * r
  BY <1>1
<1>3. m * r \in Nat /\ m * (f + 1) \in Nat
  BY <1>1
<1> QED
  BY <1>2, <1>3

\* resolve_parent() resolves no more components than it was given.
LEMMA ParentPathFacts ==
  ASSUME Arguments, Splits(path.components), Creatable(path.components)
  PROVE  /\ ParentPath(path) \in Seq(Component)
         /\ Len(ParentPath(path)) <= MaxComponents
<1> DEFINE p == path.components
           kept == {k \in 1 .. Len(p) : \E j \in k .. Len(p) : p[j] # "."}
           n == Cardinality(kept)
<1>1. p \in Seq(Component) /\ Len(p) \in Nat /\ Len(p) <= MaxComponents
  BY PathFacts DEF Splits
<1>2. n \in Nat /\ n <= Len(p)
  <2> DEFINE l == Len(p)
  <2>1. IsFiniteSet(1 .. l) /\ Cardinality(1 .. l) = IF 1 > l THEN 0 ELSE l - 1 + 1
    <3> l \in Int /\ 1 \in Int
      BY <1>1
    <3> HIDE DEF l
    <3> QED
      BY FS_Interval
  <2>2. Cardinality(1 .. l) = l
    BY <1>1, <2>1
  <2>3. kept \in SUBSET (1 .. l)
    OBVIOUS
  <2> QED
    BY <2>1, <2>2, <2>3, FS_Subset, FS_CardinalityType
<1> HIDE DEF kept
<1>3. Trimmed(p) = SubSeq(p, 1, n)
  BY DEF Trimmed, kept
<1>4. Trimmed(p) \in Seq(Component) /\ Len(Trimmed(p)) = n
  BY <1>1, <1>2, <1>3
<1>5. n >= 1
  BY <1>2, <1>4 DEF Creatable
<1> DEFINE q == SubSeq(p, 1, n - 1)
<1>6. q \in Seq(Component) /\ Len(q) = n - 1
  BY <1>1, <1>2, <1>5
<1>7. ParentPath(path) = (IF path.absolute THEN <<>> ELSE <<".">>) \o q
  BY <1>4 DEF ParentPath
<1> HIDE DEF q, n, p
<1>8. <<".">> \in Seq(Component) /\ <<>> \in Seq(Component)
  BY DEF Component
<1> QED
  BY <1>1, <1>2, <1>5, <1>6, <1>7, <1>8, PathFacts, PathWalkAssumption

-----------------------------------------------------------------------------
(* The trail. *)

LEMMA EntryFacts ==
  ASSUME Arguments, NEW i \in Nodes, NEW n, Has(tree, i, n)
  PROVE  tree.entry[i][n] \in Nodes /\ n \in Names
<1>1. tree.entry[i] \in UNION {[S -> Nodes] : S \in SUBSET Names}
  BY TreeFacts DEF Tree
<1> QED
  BY <1>1 DEF Has

LEMMA UpFacts ==
  ASSUME Arguments
  PROVE  /\ Root \in Nodes /\ tree.up \in [Nodes -> Nodes]
         /\ IsDirectory(tree, Root) /\ tree.up[Root] = Root
BY TreeFacts, PathWalkAssumption DEF Tree, Rooted

\* What a directory is entered by leads back up from it.
LEMMA UpIsBack ==
  ASSUME Arguments, NEW i \in Nodes, NEW n, Has(tree, i, n),
         IsDirectory(tree, tree.entry[i][n])
  PROVE  tree.up[tree.entry[i][n]] = i
BY TreeFacts DEF Rooted, Has

\* The last step of the trail.
LEMMA TrailEnd ==
  ASSUME IInv, canonical # <<>>,
         NEW t \in [1 .. Len(canonical) + 1 -> Nodes], Trail(t)
  PROVE  /\ Len(canonical) \in Nat \ {0} /\ t[Len(canonical)] \in Nodes
         /\ Has(tree, t[Len(canonical)], LastName)
         /\ tree.entry[t[Len(canonical)]][LastName] = current
         /\ IsDirectory(tree, current) => tree.up[current] = t[Len(canonical)]
<1>1. Len(canonical) \in Nat \ {0}
  BY EmptySeq DEF IInv, TypeOK
<1>2. Len(canonical) \in 1 .. Len(canonical)
  BY <1>1
<1>3. t[Len(canonical)] \in Nodes
  BY <1>1
<1>4. /\ Has(tree, t[Len(canonical)], LastName)
      /\ tree.entry[t[Len(canonical)]][LastName] = current
  BY <1>2 DEF Trail, LastName
<1> QED
  BY <1>1, <1>3, <1>4, UpIsBack DEF IInv

\* With no name in it the trail is at the root.
LEMMA TrailAtRoot ==
  ASSUME IInv, canonical = <<>>
  PROVE  current = Root
BY DEF IInv, ReportsEntryOrItself

-----------------------------------------------------------------------------
(* The initial states. *)

LEMMA Initially == Init => IInv
<1> SUFFICES ASSUME Init PROVE IInv
  OBVIOUS
<1>1. Arguments
  BY DEF Init, Arguments
<1>2. Root \in Nodes /\ MaxComponents \in Nat /\ MaxDepth \in Nat
  BY PathWalkAssumption
<1>3. /\ pending \in Seq(Component) /\ Len(pending) <= MaxComponents
      /\ status \in {"walking", "resource_limit", "invalid_path"}
  <2>1. CASE status = "walking"
    BY <2>1, <1>1, PathFacts, ParentPathFacts DEF Init, Splits
  <2>2. CASE status # "walking"
    <3>1. pending = <<>> /\ status \in {"resource_limit", "invalid_path"}
      BY <2>2 DEF Init
    <3> QED
      BY <3>1, <1>2
  <2> QED
    BY <2>1, <2>2 DEF Init
<1>4. TypeOK
  BY <1>1, <1>2, <1>3, EmptySeq DEF Init, Arguments, TypeOK, Outcomes
<1>5. BudgetSuffices
  <2>1. Len(pending) \in Nat
    BY <1>3
  <2> QED
    BY <1>2, <1>3, <2>1 DEF Init, BudgetSuffices
<1>6. CanonicalLeadsHere
  <2> DEFINE t == [k \in {1} |-> Root]
  <2>1. Len(canonical) = 0
    BY DEF Init
  <2>2. t \in [1 .. Len(canonical) + 1 -> Nodes]
    BY <1>2, <2>1
  <2>3. Trail(t)
    BY <2>1 DEF Trail, Init
  <2> QED
    BY <2>2, <2>3 DEF CanonicalLeadsHere
<1>7. ReportsEntryOrItself
  BY DEF Init, ReportsEntryOrItself
<1> QED
  BY <1>1, <1>4, <1>5, <1>6, <1>7 DEF IInv

-----------------------------------------------------------------------------
(* One turn of the loop.  Turn is what every action starts from. *)

Turn(c) == /\ IInv /\ Walking /\ pending # <<>> /\ c = Head(pending)
           /\ UNCHANGED arguments

\* What a turn finds: the component, the rest of the path, and room for both.
LEMMA TurnFacts ==
  ASSUME NEW c, Turn(c)
  PROVE  /\ Arguments /\ Arguments' /\ TypeOK /\ BudgetSuffices
         /\ c \in Component /\ Tail(pending) \in Seq(Component)
         /\ Len(pending) \in Nat /\ Len(Tail(pending)) \in Nat
         /\ Len(pending) = Len(Tail(pending)) + 1
         /\ MaxComponents \in Nat /\ MaxDepth \in Nat
         /\ followed \in Nat /\ MaxComponents * (followed + 1) \in Nat
<1>1. IInv /\ pending \in Seq(Component) /\ followed \in Nat /\ processed \in Nat
  BY PathWalkAssumption DEF Turn, IInv, TypeOK
<1>2. Arguments /\ Arguments' /\ TypeOK /\ BudgetSuffices
  BY <1>1 DEF Turn, IInv, Arguments, arguments
<1>3. MaxComponents \in Nat /\ MaxDepth \in Nat
  BY PathWalkAssumption
<1>4. MaxComponents * (followed + 1) \in Nat
  BY <1>1, <1>3
<1>5. /\ c \in Component /\ Tail(pending) \in Seq(Component)
      /\ Len(pending) \in Nat \ {0} /\ Len(Tail(pending)) = Len(pending) - 1
  BY <1>1, TailFacts DEF Turn
<1> QED
  BY <1>1, <1>2, <1>3, <1>4, <1>5

\* A turn that takes its component off the path and follows no link keeps the
\* types and the budget.
LEMMA OneProcessed ==
  ASSUME NEW c, Turn(c), pending' = Tail(pending), processed' = processed + 1,
         followed' = followed, status' \in {"walking"} \cup (Outcomes \ {"expansion_limit"}),
         current' \in Nodes, parent' \in Nodes, canonical' \in Seq(Names)
  PROVE  Arguments' /\ TypeOK' /\ BudgetSuffices'
<1> USE TurnFacts
<1>1. Arguments'
  OBVIOUS
<1>2. TypeOK'
  BY <1>1 DEF TypeOK, Arguments, Outcomes
<1>3. BudgetSuffices'
  <2>1. processed + Len(pending) <= MaxComponents * (followed + 1)
    BY DEF BudgetSuffices
  <2>2. processed' + Len(pending') <= MaxComponents * (followed' + 1)
    BY <2>1 DEF TypeOK
  <2> QED
    BY <2>2 DEF BudgetSuffices, Outcomes
<1> QED
  BY <1>1, <1>2, <1>3

\* A turn that stays where it is keeps the trail and what would be reported.
LEMMA SamePlace ==
  ASSUME NEW c, Turn(c), UNCHANGED place
  PROVE  CanonicalLeadsHere' /\ ReportsEntryOrItself'
<1>1. CanonicalLeadsHere /\ ReportsEntryOrItself
  BY DEF Turn, IInv
<1>2. UNCHANGED <<tree, current, parent, canonical>>
  BY DEF Turn, arguments, place
<1>3. CanonicalLeadsHere'
  BY <1>1, <1>2 DEF CanonicalLeadsHere, Trail
<1>4. ReportsEntryOrItself'
  BY <1>1, <1>2 DEF ReportsEntryOrItself, LastName
<1> QED
  BY <1>3, <1>4

-----------------------------------------------------------------------------
(* The actions of a turn. *)

LEMMA DotKeeps ==
  ASSUME NEW c, Turn(c), Dot(c)
  PROVE  IInv'
<1>1. current \in Nodes /\ parent \in Nodes /\ canonical \in Seq(Names)
  BY TurnFacts DEF TypeOK
<1>2. Arguments' /\ TypeOK' /\ BudgetSuffices'
  BY <1>1, OneProcessed DEF Dot, Go, place, Turn, Walking, Outcomes
<1>3. CanonicalLeadsHere' /\ ReportsEntryOrItself'
  BY SamePlace DEF Dot
<1> QED
  BY <1>2, <1>3 DEF IInv

LEMMA NoWayKeeps ==
  ASSUME NEW c, Turn(c), NoWay(c)
  PROVE  IInv'
<1>1. current \in Nodes /\ parent \in Nodes /\ canonical \in Seq(Names)
  BY TurnFacts DEF TypeOK
<1>2. PICK s \in {"invalid_directory", "not_directory", "not_found"} : Fail(s)
  BY DEF NoWay
<1>3. Arguments' /\ TypeOK' /\ BudgetSuffices'
  BY <1>1, <1>2, OneProcessed DEF Fail, place, Outcomes
<1>4. CanonicalLeadsHere' /\ ReportsEntryOrItself'
  BY <1>2, SamePlace DEF Fail
<1> QED
  BY <1>3, <1>4 DEF IInv

LEMMA LinkRefusedKeeps ==
  ASSUME NEW c, Turn(c), LinkRefused(c)
  PROVE  IInv'
<1>1. current \in Nodes /\ parent \in Nodes /\ canonical \in Seq(Names)
  BY TurnFacts DEF TypeOK
<1>2. PICK s \in {"loop_detected", "resource_limit"} : Fail(s)
  BY DEF LinkRefused
<1>3. Arguments' /\ TypeOK' /\ BudgetSuffices'
  BY <1>1, <1>2, OneProcessed DEF Fail, place, Outcomes
<1>4. CanonicalLeadsHere' /\ ReportsEntryOrItself'
  BY <1>2, SamePlace DEF Fail
<1> QED
  BY <1>3, <1>4 DEF IInv

\* The trail grows by the entry that is entered.
LEMMA EnterKeeps ==
  ASSUME NEW c, Turn(c), Enter(c)
  PROVE  IInv'
<1>1. /\ Has(tree, current, c) /\ current \in Nodes /\ canonical \in Seq(Names)
      /\ tree.entry[current][c] \in Nodes /\ c \in Names
  BY TurnFacts, EntryFacts DEF Enter, Named, TypeOK
<1>2. tree' = tree
  BY DEF Turn, arguments
<1>3. /\ canonical' = Append(canonical, c) /\ canonical' \in Seq(Names)
      /\ Len(canonical) \in Nat /\ Len(canonical') = Len(canonical) + 1
      /\ canonical'[Len(canonical')] = c /\ canonical' # <<>>
      /\ \A k \in 1 .. Len(canonical) : canonical'[k] = canonical[k]
  BY <1>1, AppendProperties DEF Enter
<1>4. Arguments' /\ TypeOK' /\ BudgetSuffices'
  BY <1>1, <1>3, OneProcessed DEF Enter, Go, Turn, Walking, Outcomes
<1>5. CanonicalLeadsHere'
  <2>1. PICK t \in [1 .. Len(canonical) + 1 -> Nodes] : Trail(t)
    BY DEF Turn, IInv, CanonicalLeadsHere
  <2> DEFINE u == [k \in 1 .. Len(canonical') + 1 |->
                     IF k = Len(canonical) + 2 THEN tree.entry[current][c] ELSE t[k]]
  <2>2. u \in [1 .. Len(canonical') + 1 -> Nodes]
    BY <1>1, <1>3, <2>1
  <2>3. u[1] = Root /\ u[Len(canonical') + 1] = current'
    BY <1>3, <2>1 DEF Trail, Enter
  <2>4. ASSUME NEW k \in 1 .. Len(canonical')
        PROVE  /\ Has(tree, u[k], canonical'[k])
               /\ tree.entry[u[k]][canonical'[k]] = u[k + 1]
    <3>1. CASE k = Len(canonical')
      <4>1. u[k] = current /\ u[k + 1] = tree.entry[current][c]
        BY <1>3, <2>1, <3>1 DEF Trail
      <4> QED
        BY <1>1, <1>3, <3>1, <4>1
    <3>2. CASE k # Len(canonical')
      <4>1. /\ k \in 1 .. Len(canonical) /\ canonical'[k] = canonical[k]
            /\ u[k] = t[k] /\ u[k + 1] = t[k + 1]
        BY <1>3, <3>2
      <4> QED
        BY <2>1, <4>1 DEF Trail
    <3> QED
      BY <3>1, <3>2
  <2> HIDE DEF u
  <2> QED
    BY <1>2, <2>2, <2>3, <2>4 DEF CanonicalLeadsHere, Trail
<1>6. ReportsEntryOrItself'
  BY <1>1, <1>2, <1>3 DEF ReportsEntryOrItself, LastName, Enter
<1> QED
  BY <1>4, <1>5, <1>6 DEF IInv

\* The trail loses its last step, or stays at the root.
LEMMA DotDotKeeps ==
  ASSUME NEW c, Turn(c), DotDot(c)
  PROVE  IInv'
<1>1. /\ current \in Nodes /\ canonical \in Seq(Names) /\ Len(canonical) \in Nat
      /\ tree.up[current] \in Nodes /\ tree' = tree
  BY TurnFacts, UpFacts DEF TypeOK, Turn, arguments
<1> DEFINE n == Len(canonical) - 1
<1>2. canonical' = SubSeq(canonical, 1, n)
  BY DEF DotDot
<1>3. /\ canonical' \in Seq(Names) /\ Len(canonical') = IF 1 <= n THEN n ELSE 0
      /\ \A k \in 1 .. Len(canonical') : canonical'[k] = canonical[k]
  <2>1. \A k \in 1 .. n : canonical[k] \in Names
    BY <1>1
  <2>2. n \in Int
    BY <1>1
  <2> HIDE DEF n
  <2> QED
    BY <1>2, <2>1, <2>2
<1>4. Arguments' /\ TypeOK' /\ BudgetSuffices'
  BY <1>1, <1>3, OneProcessed DEF DotDot, Go, Turn, Walking, Outcomes
<1>5. CASE canonical = <<>>
  <2>1. current = Root /\ current' = Root /\ parent' = Root
    BY <1>5, TrailAtRoot, TurnFacts, UpFacts DEF Turn, DotDot
  <2>2. Len(canonical') = 0 /\ canonical' = <<>>
    BY <1>3, <1>5, EmptySeq
  <2> DEFINE u == [k \in {1} |-> Root]
  <2>3. u \in [1 .. Len(canonical') + 1 -> Nodes]
    BY <1>1, <2>1, <2>2
  <2>4. CanonicalLeadsHere'
    <3>1. u[1] = Root /\ Len(canonical') + 1 = 1 /\ 1 .. Len(canonical') = {}
      BY <2>2
    <3> HIDE DEF u
    <3> QED
      BY <2>1, <2>3, <3>1 DEF CanonicalLeadsHere, Trail
  <2>5. ReportsEntryOrItself'
    BY <2>1, <2>2 DEF ReportsEntryOrItself
  <2> QED
    BY <1>4, <2>4, <2>5 DEF IInv
<1>6. CASE canonical # <<>>
  <2>1. PICK t \in [1 .. Len(canonical) + 1 -> Nodes] : Trail(t)
    BY DEF Turn, IInv, CanonicalLeadsHere
  <2>2. /\ Len(canonical) \in Nat \ {0} /\ Has(tree, t[Len(canonical)], LastName)
        /\ current' = t[Len(canonical)] /\ parent' = current'
    BY <1>6, <2>1, TrailEnd DEF Turn, DotDot
  <2>3. Len(canonical') = Len(canonical) - 1
    <3>1. n \in Nat
      BY <2>2
    <3>2. Len(canonical') = IF 1 <= n THEN n ELSE 0
      BY <1>3
    <3>3. n = Len(canonical) - 1
      OBVIOUS
    <3> HIDE DEF n
    <3>4. Len(canonical') = n
      BY <3>1, <3>2
    <3> QED
      BY <3>3, <3>4
  <2> DEFINE u == [k \in 1 .. Len(canonical') + 1 |-> t[k]]
  <2>4. /\ u \in [1 .. Len(canonical') + 1 -> Nodes]
        /\ u[1] = Root /\ u[Len(canonical') + 1] = current'
    BY <2>1, <2>2, <2>3 DEF Trail
  <2>5. ASSUME NEW k \in 1 .. Len(canonical')
        PROVE  /\ Has(tree, u[k], canonical'[k])
               /\ tree.entry[u[k]][canonical'[k]] = u[k + 1]
    <3>1. /\ k \in 1 .. Len(canonical) /\ canonical'[k] = canonical[k]
          /\ u[k] = t[k] /\ u[k + 1] = t[k + 1]
      BY <1>3, <2>2, <2>3
    <3> QED
      BY <2>1, <3>1 DEF Trail
  <2>6. CanonicalLeadsHere'
    <3> HIDE DEF u
    <3> QED
      BY <1>1, <2>4, <2>5 DEF CanonicalLeadsHere, Trail
  <2>7. ReportsEntryOrItself'
    <3>1. CASE Len(canonical') = 0
      <4>1. canonical' = <<>> /\ current' = Root
        <5>1. canonical' = <<>>
          BY <1>3, <3>1, EmptySeq
        <5>2. Len(canonical') + 1 = 1
          BY <3>1
        <5> HIDE DEF u
        <5> QED
          BY <2>4, <5>1, <5>2
      <4> QED
        BY <2>2, <4>1 DEF ReportsEntryOrItself
    <3>2. CASE Len(canonical') # 0
      <4> DEFINE l == Len(canonical')
      <4>1. l \in 1 .. l /\ canonical' # <<>>
        BY <1>3, <2>2, <2>3, <3>2
      <4>2. /\ Has(tree, u[l], canonical'[l])
            /\ tree.entry[u[l]][canonical'[l]] = current' /\ u[l] \in Nodes
        <5>1. l \in 1 .. l + 1
          BY <4>1
        <5> HIDE DEF u
        <5> QED
          BY <2>4, <2>5, <4>1, <5>1
      <4>3. IsDirectory(tree, current') /\ DOMAIN tree.entry[current'] # {}
        BY <2>2 DEF Has
      <4>4. tree.up[current'] = u[l]
        BY <4>2, <4>3, UpIsBack, TurnFacts
      <4> HIDE DEF u
      <4> QED
        BY <1>1, <2>2, <4>1, <4>2, <4>3, <4>4 DEF ReportsEntryOrItself, LastName
    <3> QED
      BY <3>1, <3>2
  <2> QED
    BY <1>4, <2>6, <2>7 DEF IInv
<1> QED
  BY <1>5, <1>6

\* The target of a link takes its place, and the budget grows with it.
LEMMA FollowKeeps ==
  ASSUME NEW c, Turn(c), Follow(c)
  PROVE  IInv'
<1> DEFINE l == LinkTarget(c).components
<1>1. /\ current \in Nodes /\ canonical \in Seq(Names)
      /\ l \in Seq(Component) /\ Len(l) \in Nat /\ Len(l) <= MaxComponents
      /\ IsDirectory(tree, current) /\ tree' = tree
  BY TurnFacts, LinkFacts DEF Follow, Splice, Splits, Linked, Named, Has, TypeOK, Turn, arguments
<1>2. /\ pending' = l \o Tail(pending) /\ processed' = processed + 1
      /\ followed' = followed + 1 /\ followed < MaxDepth /\ status' = "walking"
  BY DEF Follow, Splice, Go, DepthLeft, Turn, Walking
<1>3. pending' \in Seq(Component) /\ Len(pending') = Len(l) + Len(Tail(pending))
  <2> HIDE DEF l
  <2> QED
    BY <1>1, <1>2, TurnFacts, ConcatProperties
<1>4. /\ current' \in Nodes /\ parent' \in Nodes /\ canonical' \in Seq(Names)
  BY <1>1, UpFacts, TurnFacts, EmptySeq DEF Follow, Splice
<1>5. TypeOK'
  BY <1>2, <1>3, <1>4, TurnFacts, SMTT(60) DEF TypeOK, Arguments
<1>6. BudgetSuffices'
  <2>1. processed + Len(pending) <= MaxComponents * (followed + 1)
    BY TurnFacts DEF BudgetSuffices
  <2>2. MaxComponents * (followed' + 1) = MaxComponents * (followed + 1) + MaxComponents
    <3>1. followed' + 1 = followed + 2 /\ followed \in Nat /\ MaxComponents \in Nat
      BY <1>2, TurnFacts
    <3> QED
      BY <3>1, BudgetGrows
  <2>3. processed' + Len(pending') <= MaxComponents * (followed' + 1)
    <3> HIDE DEF l
    <3> DEFINE g == MaxComponents * (followed + 1)
    <3>1. processed \in Nat /\ Len(pending) \in Nat /\ MaxComponents \in Nat
      BY TurnFacts DEF TypeOK
    <3>2. Len(pending') = Len(l) + (Len(pending) - 1)
      BY <1>3, TurnFacts
    <3>3. g \in Nat
      BY <3>1, TurnFacts
    <3> HIDE DEF g
    <3>4. (processed + 1) + (Len(l) + (Len(pending) - 1)) <= g + MaxComponents
      BY <1>1, <2>1, <3>1, <3>3, BudgetMoves DEF g
    <3> QED
      BY <1>2, <2>2, <3>2, <3>4 DEF g
  <2> QED
    BY <1>2, <2>3 DEF BudgetSuffices
<1>7. CanonicalLeadsHere' /\ ReportsEntryOrItself'
  <2>1. CASE LinkTarget(c).absolute
    <3>1. current' = Root /\ parent' = Root /\ canonical' = <<>> /\ Root \in Nodes
      BY <2>1, UpFacts, TurnFacts DEF Follow, Splice
    <3> DEFINE u == [k \in {1} |-> Root]
    <3>2. /\ u \in [1 .. Len(canonical') + 1 -> Nodes]
          /\ u[1] = Root /\ Len(canonical') + 1 = 1 /\ 1 .. Len(canonical') = {}
      BY <3>1
    <3> HIDE DEF u
    <3> QED
      BY <3>1, <3>2 DEF CanonicalLeadsHere, Trail, ReportsEntryOrItself
  <2>2. CASE ~LinkTarget(c).absolute
    <3>1. parent' = current /\ current' = current /\ canonical' = canonical
      BY <2>2 DEF Follow, Splice
    <3>2. PICK t \in [1 .. Len(canonical) + 1 -> Nodes] : Trail(t)
      BY DEF Turn, IInv, CanonicalLeadsHere
    <3>3. CanonicalLeadsHere'
      BY <1>1, <3>1, <3>2 DEF CanonicalLeadsHere, Trail
    <3>4. CASE canonical = <<>>
      BY <3>1, <3>3, <3>4, TrailAtRoot DEF Turn, ReportsEntryOrItself
    <3>5. CASE canonical # <<>>
      <4>1. /\ Has(tree, t[Len(canonical)], LastName)
            /\ tree.entry[t[Len(canonical)]][LastName] = current
            /\ tree.up[current] = t[Len(canonical)]
        BY <1>1, <3>2, <3>5, TrailEnd DEF Turn
      <4>2. DOMAIN tree.entry[current] # {}
        BY TurnFacts DEF Follow, Splice, Linked, Named, Has
      <4> QED
        BY <1>1, <3>1, <3>3, <3>5, <4>1, <4>2 DEF ReportsEntryOrItself, LastName
    <3> QED
      BY <3>4, <3>5
  <2> QED
    BY <2>1, <2>2
<1> QED
  BY <1>5, <1>6, <1>7, TurnFacts DEF IInv

-----------------------------------------------------------------------------
(* The induction. *)

\* The test of the number of processed components never fires.
LEMMA BudgetLeft ==
  ASSUME IInv, pending # <<>>
  PROVE  ~(processed + 1 > Budget)
<1>1. /\ processed \in Nat /\ Len(pending) \in Nat \ {0}
      /\ MaxComponents \in Nat /\ MaxDepth \in Nat /\ followed \in 0 .. MaxDepth
      /\ processed + Len(pending) <= MaxComponents * (followed + 1)
  BY TailFacts, PathWalkAssumption DEF IInv, TypeOK, BudgetSuffices
<1>2. MaxComponents * (followed + 1) <= Budget
  BY <1>1, WithinBudget DEF Budget
<1>3. Budget \in Nat /\ MaxComponents * (followed + 1) \in Nat
  BY <1>1 DEF Budget
<1> QED
  BY <1>1, <1>2, <1>3

LEMMA ReturnKeeps ==
  ASSUME IInv, Return
  PROVE  IInv'
<1>1. /\ UNCHANGED <<tree, path, mode, pending, current, parent, canonical,
                     followed, processed>>
      /\ status' \in {"not_directory", "found"}
  BY DEF Return, arguments, place
<1>2. Arguments' /\ TypeOK' /\ BudgetSuffices'
  BY <1>1 DEF IInv, Arguments, TypeOK, BudgetSuffices, Outcomes
<1>3. CanonicalLeadsHere'
  BY <1>1 DEF IInv, CanonicalLeadsHere, Trail
<1>4. ReportsEntryOrItself'
  BY <1>1 DEF IInv, ReportsEntryOrItself, LastName
<1> QED
  BY <1>2, <1>3, <1>4 DEF IInv

LEMMA StepKeeps ==
  ASSUME IInv, Step
  PROVE  IInv'
<1> DEFINE c == Head(pending)
<1>1. Turn(c)
  BY DEF Step, Turn
<1>2. Dot(c) \/ DotDot(c) \/ NoWay(c) \/ Enter(c) \/ Follow(c) \/ LinkRefused(c)
  BY BudgetLeft DEF Step
<1> HIDE DEF c
<1>3. CASE Dot(c)
  BY <1>1, <1>3, DotKeeps
<1>4. CASE DotDot(c)
  BY <1>1, <1>4, DotDotKeeps
<1>5. CASE NoWay(c)
  BY <1>1, <1>5, NoWayKeeps
<1>6. CASE Enter(c)
  BY <1>1, <1>6, EnterKeeps
<1>7. CASE Follow(c)
  BY <1>1, <1>7, FollowKeeps
<1>8. CASE LinkRefused(c)
  BY <1>1, <1>8, LinkRefusedKeeps
<1> QED
  BY <1>2, <1>3, <1>4, <1>5, <1>6, <1>7, <1>8

LEMMA StutterKeeps ==
  ASSUME IInv, UNCHANGED vars
  PROVE  IInv'
<1>1. UNCHANGED <<tree, path, mode, pending, current, parent, canonical,
                  followed, processed, status>>
  BY DEF vars
<1> QED
  BY <1>1 DEF IInv, Arguments, TypeOK, BudgetSuffices, CanonicalLeadsHere, Trail,
              ReportsEntryOrItself, LastName

\* The invariant that the theorems below follow from holds always.
THEOREM Inductive == Spec => []IInv
<1>1. IInv /\ [Next]_vars => IInv'
  BY StepKeeps, ReturnKeeps, StutterKeeps DEF Next
<1> QED
  BY Initially, <1>1, PTL DEF Spec

\* The state of the resolver is well typed.
THEOREM TypeCorrect == Spec => []TypeOK
<1>1. IInv => TypeOK
  BY DEF IInv
<1> QED
  BY Inductive, <1>1, PTL

\* The number of processed components never reaches its bound, so of the two
\* bounds of path.cc that on followed links is the one that ends a loop.
THEOREM BudgetNeverFires == Spec => []BudgetSuffices
<1>1. IInv => BudgetSuffices
  BY DEF IInv
<1> QED
  BY Inductive, <1>1, PTL

\* The canonical path that resolve() reports is a path to the inode it reports.
THEOREM CanonicalIsRight == Spec => []CanonicalLeadsHere
<1>1. IInv => CanonicalLeadsHere
  BY DEF IInv
<1> QED
  BY Inductive, <1>1, PTL

\* The parent and name that resolve() reports are an entry that leads to the
\* inode, or a directory with entries stands for itself.
THEOREM ReportsAPlace == Spec => []ReportsEntryOrItself
<1>1. IInv => ReportsEntryOrItself
  BY DEF IInv
<1> QED
  BY Inductive, <1>1, PTL

-----------------------------------------------------------------------------
(* What a path means is defined: the way to go shrinks with every          *)
(* component and every link.                                               *)

LEMMA LeastOf ==
  ASSUME NEW S, S \subseteq Nat, S # {}
  PROVE  \E x \in S : \A y \in S : x <= y
<1> DEFINE R == {p \in Nat \X Nat : p[1] < p[2]}
<1>1. IsWellFoundedOn(R, Nat)
  BY NatLessThanWellFounded DEF OpToRel
<1>2. \A x, y \in Nat : <<y, x>> \in R <=> y < x
  OBVIOUS
<1> HIDE DEF R
<1>3. PICK x \in S : \A y \in S : ~(<<y, x>> \in R)
  BY <1>1, WFMin
<1>4. ASSUME NEW y \in S PROVE x <= y
  <2>1. x \in Nat /\ y \in Nat /\ ~(<<y, x>> \in R)
    BY <1>3
  <2>2. ~(y < x)
    BY <1>2, <2>1
  <2> QED
    BY <2>1, <2>2
<1> QED
  BY <1>4

Result == [status : Outcomes, node : Nodes, links : 0 .. MaxDepth]

\* Links count for more than the components that are left.
Weight(w) == (MaxDepth - w.links) * (MaxComponents + 1) + Len(w.rest)

LEMMA ProductGrows ==
  ASSUME NEW a \in Nat, NEW b \in Nat, NEW k \in Nat, a <= b
  PROVE  a * k <= b * k /\ a * k \in Nat /\ b * k \in Nat
<1> DEFINE r == b - a
<1>1. r \in Nat /\ b = a + r
  OBVIOUS
<1>2. b * k = a * k + r * k
  BY <1>1
<1>3. r * k \in Nat /\ a * k \in Nat /\ b * k \in Nat
  BY <1>1
<1> HIDE DEF r
<1> QED
  BY <1>2, <1>3

LEMMA LegFacts ==
  ASSUME NEW w \in Legs
  PROVE  /\ w.node \in Nodes /\ w.rest \in Seq(Component) /\ w.final \in BOOLEAN
         /\ w.links \in Nat /\ w.links <= MaxDepth /\ MaxDepth - w.links \in Nat
         /\ Len(w.rest) \in Nat /\ MaxDepth \in Nat /\ MaxComponents \in Nat
         /\ Weight(w) \in Nat
<1>1. /\ w.node \in Nodes /\ w.rest \in Seq(Component) /\ w.final \in BOOLEAN
      /\ w.links \in 0 .. MaxDepth
  BY DEF Legs
<1>2. MaxDepth \in Nat /\ MaxComponents \in Nat
  BY PathWalkAssumption
<1>3. w.links \in Nat /\ w.links <= MaxDepth /\ MaxDepth - w.links \in Nat /\ Len(w.rest) \in Nat
  BY <1>1, <1>2
<1>4. (MaxDepth - w.links) * (MaxComponents + 1) \in Nat
  BY <1>2, <1>3, ProductGrows
<1> QED
  BY <1>1, <1>2, <1>3, <1>4 DEF Weight

LEMMA LegIn ==
  ASSUME NEW i \in Nodes, NEW ps \in Seq(Component), NEW final \in BOOLEAN,
         NEW n \in 0 .. MaxDepth
  PROVE  /\ Leg(i, ps, final, n) \in Legs
         /\ Leg(i, ps, final, n).node = i /\ Leg(i, ps, final, n).rest = ps
         /\ Leg(i, ps, final, n).final = final /\ Leg(i, ps, final, n).links = n
BY DEF Leg, Legs

LEMMA EndIn ==
  ASSUME NEW w \in Legs, NEW s \in Outcomes
  PROVE  /\ End(w, s) \in Result /\ End(w, s).status = s
         /\ End(w, s).node = w.node /\ End(w, s).links = w.links
BY DEF End, Legs, Result

LEMMA OnwardShrinks ==
  ASSUME NEW w \in Legs, w.rest # <<>>, NEW i \in Nodes, NEW n \in 0 .. MaxDepth,
         w.links <= n
  PROVE  Onward(w, i, n) \in Legs /\ Weight(Onward(w, i, n)) < Weight(w)
         /\ Onward(w, i, n).links = n
<1> DEFINE v == Onward(w, i, n)
           k == MaxComponents + 1
           a == (MaxDepth - n) * k
           b == (MaxDepth - w.links) * k
<1>1. Tail(w.rest) \in Seq(Component) /\ Len(w.rest) \in Nat \ {0}
      /\ Len(Tail(w.rest)) = Len(w.rest) - 1
  BY LegFacts, TailFacts
<1>2. v \in Legs /\ v.rest = Tail(w.rest) /\ v.links = n
  <2>1. w.final \in BOOLEAN
    BY LegFacts
  <2>2. v = Leg(i, Tail(w.rest), w.final, n)
    BY DEF Onward
  <2> DEFINE r == Tail(w.rest)
             f == w.final
  <2>3. r \in Seq(Component) /\ f \in BOOLEAN /\ v = Leg(i, r, f, n)
    BY <1>1, <2>1, <2>2
  <2> HIDE DEF v, r, f
  <2>4. /\ Leg(i, r, f, n) \in Legs /\ Leg(i, r, f, n).rest = r
        /\ Leg(i, r, f, n).links = n
    BY <2>3, LegIn
  <2>5. v \in Legs /\ v.rest = r /\ v.links = n
    BY <2>3, <2>4
  <2> QED
    BY <2>5 DEF r
<1>3. a <= b /\ a \in Nat /\ b \in Nat
  <2>1. MaxDepth - n \in Nat /\ MaxDepth - w.links \in Nat
        /\ MaxDepth - n <= MaxDepth - w.links /\ k \in Nat
    BY LegFacts
  <2> HIDE DEF k
  <2> QED
    BY <2>1, ProductGrows
<1>4. Weight(v) = a + (Len(w.rest) - 1) /\ Weight(w) = b + Len(w.rest)
  BY <1>1, <1>2 DEF Weight
<1> HIDE DEF v, a, b
<1>5. Weight(v) < Weight(w)
  BY <1>1, <1>3, <1>4
<1> QED
  BY <1>2, <1>5 DEF v

LEMMA LinkShrinks ==
  ASSUME NEW w \in Legs, w.links # MaxDepth, NEW i \in Nodes,
         NEW ps \in Seq(Component), Splits(ps)
  PROVE  /\ Leg(i, ps, TRUE, w.links + 1) \in Legs
         /\ Leg(i, ps, TRUE, w.links + 1).links = w.links + 1
         /\ Weight(Leg(i, ps, TRUE, w.links + 1)) < Weight(w)
<1> DEFINE v == Leg(i, ps, TRUE, w.links + 1)
           k == MaxComponents + 1
           d == MaxDepth - (w.links + 1)
           a == d * k
           b == (MaxDepth - w.links) * k
<1>1. w.links + 1 \in 0 .. MaxDepth /\ d \in Nat /\ k \in Nat /\ Len(ps) < k /\ Len(ps) \in Nat
  BY LegFacts, SMTT(60) DEF Splits
<1>2. v \in Legs /\ v.rest = ps /\ v.links = w.links + 1
  <2> DEFINE n == w.links + 1
             f == TRUE
  <2>1. n \in 0 .. MaxDepth /\ f \in BOOLEAN
    BY <1>1
  <2> HIDE DEF n, f
  <2>2. Leg(i, ps, f, n) \in Legs /\ Leg(i, ps, f, n).rest = ps /\ Leg(i, ps, f, n).links = n
    BY <2>1, LegIn
  <2> QED
    BY <2>2 DEF n, f
<1>3. b = a + k /\ a \in Nat
  <2>1. MaxDepth - w.links = d + 1
    BY LegFacts
  <2> HIDE DEF d, k
  <2>2. (d + 1) * k = d * k + k
    BY <1>1
  <2>3. d * k \in Nat
    BY <1>1
  <2> QED
    BY <2>1, <2>2, <2>3
<1> DEFINE p == Len(ps)
           q == Len(w.rest)
<1>4. Weight(v) = a + p /\ Weight(w) = b + q
  BY <1>2 DEF Weight
<1>5. p \in Nat /\ q \in Nat /\ k \in Nat /\ p < k
  BY <1>1, LegFacts
<1> HIDE DEF v, a, b, k, d, p, q
<1>6. Weight(v) < Weight(w)
  BY <1>3, <1>4, <1>5
<1> QED
  BY <1>2, <1>6 DEF v

LEMMA WayFacts ==
  ASSUME NEW t \in Tree, NEW i \in Nodes
  PROVE  /\ t.up[i] \in Nodes /\ Root \in Nodes
         /\ \A c : Has(t, i, c) =>
              /\ t.entry[i][c] \in Nodes /\ c \in Names
              /\ t.target[t.entry[i][c]].components \in Seq(Component)
              /\ t.target[t.entry[i][c]].absolute \in BOOLEAN
<1>1. t.up[i] \in Nodes /\ t.entry[i] \in UNION {[S -> Nodes] : S \in SUBSET Names}
  BY DEF Tree
<1>2. \A c : Has(t, i, c) => t.entry[i][c] \in Nodes /\ c \in Names
  BY <1>1 DEF Has
<1>3. \A e \in Nodes : t.target[e] \in Target
  BY DEF Tree
<1>4. \A e \in Nodes : /\ t.target[e].components \in Seq(Component)
                       /\ t.target[e].absolute \in BOOLEAN
  BY <1>3 DEF Target
<1> QED
  BY <1>1, <1>2, <1>4, PathWalkAssumption

\* Whether the first component of w names a link that is followed, and where
\* its target is.
Follows(t, w) ==
  LET c == Head(w.rest) IN
  /\ w.rest # <<>> /\ c \notin {".", ".."} /\ Has(t, w.node, c)
  /\ t.type[t.entry[w.node][c]] = "symlink" /\ (w.final \/ Tail(w.rest) # <<>>)

Through(t, w) ==
  LET to == t.target[t.entry[w.node][Head(w.rest)]] IN
  Leg(IF to.absolute THEN Root ELSE w.node, to.components, TRUE, w.links + 1)

\* A way ends, goes on with what is left, or goes through a link first.
IsEnd(t, w) == \E s \in Outcomes : \A f : Leads(t, f, w) = End(w, s)
IsOnward(t, w) ==
  \E i \in Nodes : w.rest # <<>> /\ \A f : Leads(t, f, w) = f[Onward(w, i, w.links)]
IsThrough(t, w) ==
  /\ w.rest # <<>> /\ Through(t, w) \in Legs /\ Weight(Through(t, w)) < Weight(w)
  /\ Through(t, w).links = w.links + 1
  /\ \A f : LET l == f[Through(t, w)] IN
            Leads(t, f, w) = IF l.status = "found" THEN f[Onward(w, l.node, l.links)] ELSE l

LEMMA WaysToGo ==
  ASSUME NEW t \in Tree, NEW w \in Legs
  PROVE  IsEnd(t, w) \/ IsOnward(t, w) \/ IsThrough(t, w)
<1> DEFINE c == Head(w.rest)
           e == t.entry[w.node][c]
           to == t.target[e]
<1>0. {"found", "invalid_directory", "not_directory", "not_found", "loop_detected",
       "resource_limit"} \subseteq Outcomes /\ w.node \in Nodes
  BY LegFacts DEF Outcomes
<1>1. CASE w.rest = <<>>
  <2>1. \A f : Leads(t, f, w) = End(w, "found")
    BY <1>1 DEF Leads
  <2> QED
    BY <1>0, <2>1 DEF IsEnd
<1>2. CASE w.rest # <<>> /\ c = "."
  <2>1. \A f : Leads(t, f, w) = f[Onward(w, w.node, w.links)]
    BY <1>2 DEF Leads
  <2> QED
    BY <1>0, <1>2, <2>1 DEF IsOnward
<1>3. CASE w.rest # <<>> /\ c = ".." /\ IsDirectory(t, w.node)
  <2>1. \A f : Leads(t, f, w) = f[Onward(w, t.up[w.node], w.links)]
    BY <1>3 DEF Leads
  <2>2. t.up[w.node] \in Nodes
    BY <1>0, WayFacts
  <2> QED
    BY <1>3, <2>1, <2>2 DEF IsOnward
<1>4. CASE w.rest # <<>> /\ c = ".." /\ ~IsDirectory(t, w.node)
  <2>1. \A f : Leads(t, f, w) = End(w, "invalid_directory")
    BY <1>4 DEF Leads
  <2> QED
    BY <1>0, <2>1 DEF IsEnd
<1>5. CASE w.rest # <<>> /\ c # "." /\ c # ".." /\ ~IsDirectory(t, w.node)
  <2>1. \A f : Leads(t, f, w) = End(w, "not_directory")
    BY <1>5 DEF Leads
  <2> QED
    BY <1>0, <2>1 DEF IsEnd
<1>6. CASE w.rest # <<>> /\ c # "." /\ c # ".." /\ IsDirectory(t, w.node) /\ ~Has(t, w.node, c)
  <2>1. \A f : Leads(t, f, w) = End(w, "not_found")
    BY <1>6 DEF Leads
  <2> QED
    BY <1>0, <2>1 DEF IsEnd
<1>7. CASE /\ w.rest # <<>> /\ c # "." /\ c # ".." /\ Has(t, w.node, c)
           /\ ~(t.type[e] = "symlink" /\ (w.final \/ Tail(w.rest) # <<>>))
  <2>1. \A f : Leads(t, f, w) = f[Onward(w, e, w.links)]
    BY <1>7 DEF Leads, Has
  <2>2. e \in Nodes
    BY <1>0, <1>7, WayFacts
  <2> QED
    BY <1>7, <2>1, <2>2 DEF IsOnward
<1>8. CASE Follows(t, w)
  <2>1. /\ w.rest # <<>> /\ c # "." /\ c # ".." /\ Has(t, w.node, c)
        /\ IsDirectory(t, w.node)
        /\ t.type[e] = "symlink" /\ (w.final \/ Tail(w.rest) # <<>>)
    BY <1>8 DEF Follows, Has
  <2>2. CASE w.links = MaxDepth
    <3>1. \A f : Leads(t, f, w) = End(w, "loop_detected")
      BY <2>1, <2>2 DEF Leads
    <3> QED
      BY <1>0, <3>1 DEF IsEnd
  <2>3. CASE w.links # MaxDepth /\ ~Splits(to.components)
    <3>1. \A f : Leads(t, f, w) = End(w, "resource_limit")
      BY <2>1, <2>3 DEF Leads
    <3> QED
      BY <1>0, <3>1 DEF IsEnd
  <2>4. CASE w.links # MaxDepth /\ Splits(to.components)
    <3>1. \A f : LET l == f[Through(t, w)] IN
            Leads(t, f, w) = IF l.status = "found" THEN f[Onward(w, l.node, l.links)] ELSE l
      BY <2>1, <2>4 DEF Leads, Through
    <3> DEFINE i == IF to.absolute THEN Root ELSE w.node
               ps == to.components
    <3>2. i \in Nodes /\ ps \in Seq(Component) /\ Splits(ps)
      BY <1>0, <2>1, <2>4, WayFacts
    <3>3. Through(t, w) = Leg(i, ps, TRUE, w.links + 1)
      BY DEF Through
    <3> HIDE DEF i, ps
    <3>4. /\ Leg(i, ps, TRUE, w.links + 1) \in Legs
          /\ Leg(i, ps, TRUE, w.links + 1).links = w.links + 1
          /\ Weight(Leg(i, ps, TRUE, w.links + 1)) < Weight(w)
      BY <2>4, <3>2, LinkShrinks
    <3> QED
      BY <2>1, <3>1, <3>3, <3>4 DEF IsThrough
  <2> QED
    BY <2>2, <2>3, <2>4
<1> QED
  BY <1>1, <1>2, <1>3, <1>4, <1>5, <1>6, <1>7, <1>8 DEF Follows

Below(f, k) ==
  \A v \in Legs : Weight(v) < k => f[v] \in Result /\ v.links <= f[v].links

\* Where a way leads depends on where shorter ways lead only.
LEMMA LeadsByShorter ==
  ASSUME NEW t \in Tree, NEW w \in Legs, NEW f, Below(f, Weight(w))
  PROVE  /\ Leads(t, f, w) \in Result /\ w.links <= Leads(t, f, w).links
         /\ \A g : (\A v \in Legs : Weight(v) < Weight(w) => g[v] = f[v])
                   => Leads(t, g, w) = Leads(t, f, w)
<1>0. w.links \in Nat /\ w.links <= MaxDepth /\ w.links \in 0 .. MaxDepth
  BY LegFacts
<1>1. CASE IsEnd(t, w)
  <2>1. PICK s \in Outcomes : \A g : Leads(t, g, w) = End(w, s)
    BY <1>1 DEF IsEnd
  <2>2. End(w, s) \in Result /\ End(w, s).links = w.links
    BY EndIn
  <2> QED
    BY <1>0, <2>1, <2>2
<1>2. CASE IsOnward(t, w)
  <2>1. PICK i \in Nodes : w.rest # <<>> /\ \A g : Leads(t, g, w) = g[Onward(w, i, w.links)]
    BY <1>2 DEF IsOnward
  <2> DEFINE v == Onward(w, i, w.links)
  <2>2. v \in Legs /\ Weight(v) < Weight(w) /\ v.links = w.links
    BY <1>0, <2>1, OnwardShrinks
  <2> HIDE DEF v
  <2>3. f[v] \in Result /\ v.links <= f[v].links
    BY <2>2 DEF Below
  <2>4. \A g : Leads(t, g, w) = g[v]
    BY <2>1 DEF v
  <2> QED
    BY <2>2, <2>3, <2>4
<1>3. CASE IsThrough(t, w)
  <2> DEFINE u == Through(t, w)
             l == f[u]
             v == Onward(w, l.node, l.links)
  <2>1. /\ w.rest # <<>> /\ u \in Legs /\ Weight(u) < Weight(w) /\ u.links = w.links + 1
        /\ \A g : Leads(t, g, w) =
                    IF g[u].status = "found" THEN g[Onward(w, g[u].node, g[u].links)] ELSE g[u]
    BY <1>3 DEF IsThrough
  <2> HIDE DEF u
  <2>2. l \in Result /\ u.links <= l.links
    BY <2>1 DEF Below
  <2>3. l.node \in Nodes /\ l.links \in 0 .. MaxDepth /\ w.links <= l.links
    <3>1. l.node \in Nodes /\ l.links \in 0 .. MaxDepth
      BY <2>2 DEF Result
    <3> QED
      BY <1>0, <2>1, <2>2, <3>1
  <2> HIDE DEF l
  <2>4. v \in Legs /\ Weight(v) < Weight(w) /\ v.links = l.links
    BY <2>1, <2>3, OnwardShrinks
  <2> HIDE DEF v
  <2>5. f[v] \in Result /\ v.links <= f[v].links
    BY <2>4 DEF Below
  <2>6. Leads(t, f, w) = IF l.status = "found" THEN f[v] ELSE l
    BY <2>1 DEF l, v
  <2>7. w.links <= f[v].links
    <3>1. f[v].links \in 0 .. MaxDepth
      BY <2>5 DEF Result
    <3> QED
      BY <1>0, <2>3, <2>4, <2>5, <3>1
  <2>8. ASSUME NEW g, \A x \in Legs : Weight(x) < Weight(w) => g[x] = f[x]
        PROVE  Leads(t, g, w) = Leads(t, f, w)
    <3>1. g[u] = l /\ g[v] = f[v]
      BY <2>1, <2>4, <2>8 DEF l
    <3>2. Leads(t, g, w) = IF l.status = "found" THEN g[v] ELSE l
      BY <2>1, <3>1 DEF v
    <3> QED
      BY <2>6, <3>1, <3>2
  <2>9. Leads(t, f, w) \in Result /\ w.links <= Leads(t, f, w).links
    BY <2>2, <2>3, <2>5, <2>6, <2>7
  <2> QED
    BY <2>8, <2>9
<1> QED
  BY <1>1, <1>2, <1>3, WaysToGo

\* f is where the ways of less than weight k lead.
Fits(t, f, k) == \A w \in Legs : Weight(w) < k => f[w] = Leads(t, f, w)

LEMMA FitsBelow ==
  ASSUME NEW t \in Tree, NEW f, NEW k \in Nat, Fits(t, f, k)
  PROVE  Below(f, k)
<1> DEFINE Bad == {n \in Nat : \E w \in Legs :
                     Weight(w) = n /\ n < k /\ ~(f[w] \in Result /\ w.links <= f[w].links)}
<1>1. ASSUME Bad # {} PROVE FALSE
  <2>1. PICK n \in Bad : \A y \in Bad : n <= y
    <3>1. Bad \subseteq Nat
      OBVIOUS
    <3> HIDE DEF Bad
    <3> QED
      BY <1>1, <3>1, LeastOf
  <2>2. PICK w \in Legs : /\ Weight(w) = n /\ n < k
                          /\ ~(f[w] \in Result /\ w.links <= f[w].links)
    BY <2>1
  <2>3. Below(f, Weight(w))
    <3> SUFFICES ASSUME NEW v \in Legs, Weight(v) < Weight(w)
                 PROVE  f[v] \in Result /\ v.links <= f[v].links
      BY DEF Below
    <3>1. Weight(v) \in Nat /\ n \in Nat /\ Weight(v) < n
      BY <2>1, <2>2, LegFacts
    <3>2. Weight(v) \notin Bad
      <4> HIDE DEF Bad
      <4> QED
        BY <2>1, <3>1
    <3>3. Weight(v) < k
      BY <2>2, <3>1
    <3> QED
      BY <3>1, <3>2, <3>3
  <2>4. f[w] = Leads(t, f, w)
    BY <2>2 DEF Fits
  <2> QED
    BY <2>2, <2>3, <2>4, LeadsByShorter
<1> SUFFICES ASSUME NEW v \in Legs, Weight(v) < k
             PROVE  f[v] \in Result /\ v.links <= f[v].links
  BY DEF Below
<1>2. Weight(v) \in Nat /\ Weight(v) \notin Bad
  BY <1>1, LegFacts
<1> QED
  BY <1>2

\* There is one such f.
LEMMA FitsAgree ==
  ASSUME NEW t \in Tree, NEW f, NEW g, NEW k \in Nat, Fits(t, f, k), Fits(t, g, k)
  PROVE  \A w \in Legs : Weight(w) < k => f[w] = g[w]
<1> DEFINE Bad == {n \in Nat : \E w \in Legs : Weight(w) = n /\ n < k /\ f[w] # g[w]}
<1>0. Below(f, k)
  BY FitsBelow
<1>1. ASSUME Bad # {} PROVE FALSE
  <2>1. PICK n \in Bad : \A y \in Bad : n <= y
    <3>1. Bad \subseteq Nat
      OBVIOUS
    <3> HIDE DEF Bad
    <3> QED
      BY <1>1, <3>1, LeastOf
  <2>2. PICK w \in Legs : Weight(w) = n /\ n < k /\ f[w] # g[w]
    BY <2>1
  <2>3. \A v \in Legs : Weight(v) < Weight(w) => g[v] = f[v] /\ Weight(v) < k
    <3> SUFFICES ASSUME NEW v \in Legs, Weight(v) < Weight(w)
                 PROVE  g[v] = f[v] /\ Weight(v) < k
      OBVIOUS
    <3>1. Weight(v) \in Nat /\ n \in Nat /\ Weight(v) < n
      BY <2>1, <2>2, LegFacts
    <3>2. Weight(v) \notin Bad
      <4> HIDE DEF Bad
      <4> QED
        BY <2>1, <3>1
    <3>3. Weight(v) < k
      BY <2>2, <3>1
    <3> QED
      BY <3>1, <3>2, <3>3
  <2>4. Below(f, Weight(w))
    BY <1>0, <2>3 DEF Below
  <2>5. Leads(t, g, w) = Leads(t, f, w)
    BY <2>3, <2>4, LeadsByShorter
  <2>6. f[w] = Leads(t, f, w) /\ g[w] = Leads(t, g, w)
    BY <2>2 DEF Fits
  <2> QED
    BY <2>2, <2>5, <2>6
<1> SUFFICES ASSUME NEW w \in Legs, Weight(w) < k, f[w] # g[w]
             PROVE  FALSE
  OBVIOUS
<1>2. Weight(w) \in Nat /\ Weight(w) \notin Bad
  BY <1>1, LegFacts
<1> QED
  BY <1>2

LEMMA FitExists ==
  ASSUME NEW t \in Tree
  PROVE  \A k \in Nat : \E f \in [Legs -> Result] : Fits(t, f, k)
<1> DEFINE Bad == {k \in Nat : ~\E f \in [Legs -> Result] : Fits(t, f, k)}
<1> SUFFICES ASSUME Bad # {} PROVE FALSE
  OBVIOUS
<1>1. PICK k \in Bad : \A y \in Bad : k <= y
  <2>1. Bad \subseteq Nat
    OBVIOUS
  <2> HIDE DEF Bad
  <2> QED
    BY <2>1, LeastOf
<1>2. k \in Nat /\ ~\E f \in [Legs -> Result] : Fits(t, f, k)
  BY <1>1
<1>3. k # 0
  <2> SUFFICES ASSUME k = 0 PROVE FALSE
    OBVIOUS
  <2> DEFINE f == [w \in Legs |-> End(w, "found")]
  <2>1. f \in [Legs -> Result]
    BY EndIn DEF Outcomes
  <2>2. Fits(t, f, k)
    BY LegFacts DEF Fits
  <2> QED
    BY <1>2, <2>1, <2>2
<1> DEFINE m == k - 1
<1>4. m \in Nat /\ k = m + 1
  BY <1>2, <1>3
<1>5. PICK f \in [Legs -> Result] : Fits(t, f, m)
  <2>1. m \notin Bad
    <3> HIDE DEF Bad
    <3> QED
      BY <1>1, <1>2, <1>4
  <2> HIDE DEF m
  <2> QED
    BY <1>4, <2>1
<1> HIDE DEF m, Bad
<1>6. Below(f, m)
  BY <1>4, <1>5, FitsBelow
<1> DEFINE g == [w \in Legs |-> IF Weight(w) = m THEN Leads(t, f, w) ELSE f[w]]
<1>7. ASSUME NEW w \in Legs, Weight(w) < k
      PROVE  /\ Leads(t, f, w) \in Result /\ Leads(t, g, w) = Leads(t, f, w)
             /\ g[w] = Leads(t, f, w)
  <2>1. Weight(w) \in Nat /\ Weight(w) <= m
    BY <1>4, <1>7, LegFacts
  <2>2. \A v \in Legs : Weight(v) < Weight(w) => Weight(v) < m /\ g[v] = f[v]
    <3> SUFFICES ASSUME NEW v \in Legs, Weight(v) < Weight(w)
                 PROVE  Weight(v) < m /\ g[v] = f[v]
      OBVIOUS
    <3>1. Weight(v) \in Nat
      BY LegFacts
    <3>2. Weight(v) < m /\ Weight(v) # m
      BY <1>4, <2>1, <3>1
    <3> QED
      BY <3>2
  <2>3. Below(f, Weight(w))
    BY <1>6, <2>2 DEF Below
  <2>4. g[w] = Leads(t, f, w)
    <3>1. CASE Weight(w) = m
      BY <3>1
    <3>2. CASE Weight(w) # m
      <4>1. Weight(w) < m
        BY <1>4, <2>1, <3>2
      <4> QED
        BY <1>5, <3>2, <4>1 DEF Fits
    <3> QED
      BY <3>1, <3>2
  <2> HIDE DEF g
  <2> QED
    BY <2>2, <2>3, <2>4, LeadsByShorter
<1>8. g \in [Legs -> Result]
  <2> SUFFICES ASSUME NEW w \in Legs
               PROVE  (IF Weight(w) = m THEN Leads(t, f, w) ELSE f[w]) \in Result
    OBVIOUS
  <2>1. CASE Weight(w) = m
    <3>1. Weight(w) < k
      BY <1>4, <2>1
    <3> QED
      BY <1>7, <2>1, <3>1
  <2>2. CASE Weight(w) # m
    BY <2>2
  <2> QED
    BY <2>1, <2>2
<1> HIDE DEF g
<1>9. Fits(t, g, k)
  BY <1>7 DEF Fits
<1> QED
  BY <1>2, <1>8, <1>9

\* The recursion of MeaningIn is one.
LEMMA MeaningUnfolds ==
  ASSUME NEW t \in Tree
  PROVE  \A w \in Legs : /\ MeaningIn(t)[w] = Leads(t, MeaningIn(t), w)
                         /\ MeaningIn(t)[w] \in Result /\ w.links <= MeaningIn(t)[w].links
<1> DEFINE fit == [k \in Nat |-> CHOOSE f \in [Legs -> Result] : Fits(t, f, k)]
<1>1. \A k \in Nat : fit[k] \in [Legs -> Result] /\ Fits(t, fit[k], k)
  BY FitExists
<1> HIDE DEF fit
<1> DEFINE F == [w \in Legs |-> fit[Weight(w) + 1][w]]
<1>2. ASSUME NEW w \in Legs PROVE F[w] = Leads(t, F, w)
  <2> DEFINE k == Weight(w)
             f == fit[k + 1]
  <2>1. k \in Nat /\ k + 1 \in Nat /\ k < k + 1
    BY LegFacts
  <2>2. Fits(t, f, k + 1) /\ F[w] = f[w] /\ f[w] = Leads(t, f, w)
    <3>1. Fits(t, f, k + 1) /\ F[w] = f[w]
      BY <1>1, <2>1
    <3> QED
      BY <2>1, <3>1 DEF Fits
  <2>3. ASSUME NEW v \in Legs, Weight(v) < k PROVE F[v] = f[v]
    <3> DEFINE n == Weight(v) + 1
    <3>1. n \in Nat /\ Weight(v) < n /\ n < k + 1 /\ Weight(v) \in Nat
      BY <2>1, <2>3, LegFacts
    <3>2. Fits(t, fit[n], n) /\ F[v] = fit[n][v]
      BY <1>1, <3>1
    <3>3. Fits(t, f, n)
      <4> SUFFICES ASSUME NEW x \in Legs, Weight(x) < n PROVE f[x] = Leads(t, f, x)
        BY DEF Fits
      <4>1. Weight(x) \in Nat
        BY LegFacts
      <4> HIDE DEF n, k, f
      <4>2. Weight(x) < k + 1
        BY <2>1, <3>1, <4>1
      <4> QED
        BY <2>2, <4>2 DEF Fits
    <3> HIDE DEF n, f, F
    <3>4. fit[n][v] = f[v]
      BY <3>1, <3>2, <3>3, FitsAgree
    <3> QED
      BY <3>2, <3>4
  <2>4. Below(f, k)
    <3>1. Below(f, k + 1)
      BY <2>1, <2>2, FitsBelow
    <3> SUFFICES ASSUME NEW v \in Legs, Weight(v) < k
                 PROVE  f[v] \in Result /\ v.links <= f[v].links
      BY DEF Below
    <3>2. Weight(v) \in Nat
      BY LegFacts
    <3> HIDE DEF f, k
    <3>3. Weight(v) < k + 1
      BY <2>1, <3>2
    <3> QED
      BY <3>1, <3>3 DEF Below
  <2> HIDE DEF F, f
  <2>5. Leads(t, F, w) = Leads(t, f, w)
    BY <2>3, <2>4, LeadsByShorter DEF k
  <2> QED
    BY <2>2, <2>5
<1>3. F = [w \in Legs |-> Leads(t, F, w)]
  BY <1>2
<1>4. \E M : M = [w \in Legs |-> Leads(t, M, w)]
  <2> HIDE DEF F
  <2> QED
    BY <1>3
<1> HIDE DEF F
<1> DEFINE M == MeaningIn(t)
<1>5. M = [w \in Legs |-> Leads(t, M, w)]
  BY <1>4 DEF MeaningIn
<1> HIDE DEF M
<1>6. \A w \in Legs : M[w] = Leads(t, M, w)
  BY <1>5
<1>7. ASSUME NEW w \in Legs PROVE M[w] \in Result /\ w.links <= M[w].links
  <2>1. Weight(w) + 1 \in Nat /\ Weight(w) < Weight(w) + 1
    BY LegFacts
  <2>2. Fits(t, M, Weight(w) + 1)
    BY <1>6 DEF Fits
  <2> QED
    BY <2>1, <2>2, FitsBelow DEF Below
<1> QED
  BY <1>6, <1>7 DEF M

-----------------------------------------------------------------------------
(* Paths that are joined. *)

\* The way goes on with b from where l ends, if it does not fail there.
Then(t, l, b, final) ==
  IF l.status = "found" THEN MeaningIn(t)[Leg(l.node, b, final, l.links)] ELSE l

LEMMA JoinedTail ==
  ASSUME NEW S, NEW a \in Seq(S), NEW b \in Seq(S), a # <<>>
  PROVE  /\ a \o b \in Seq(S) /\ a \o b # <<>>
         /\ Head(a \o b) = Head(a) /\ Tail(a \o b) = Tail(a) \o b
<1>1. Len(a) \in Nat \ {0} /\ Tail(a) \in Seq(S) /\ Len(Tail(a)) = Len(a) - 1 /\ Len(b) \in Nat
  BY TailFacts
<1>2. a \o b \in Seq(S) /\ Len(a \o b) = Len(a) + Len(b)
  BY ConcatProperties
<1>3. a \o b # <<>>
  BY <1>1, <1>2, EmptySeq
<1>4. Head(a \o b) = Head(a)
  BY <1>1, <1>2, <1>3
<1>5. Tail(a \o b) = Tail(a) \o b
  <2>1. Tail(a \o b) \in Seq(S) /\ Len(Tail(a \o b)) = Len(a \o b) - 1
    BY <1>2, <1>3, TailFacts
  <2>2. Tail(a) \o b \in Seq(S) /\ Len(Tail(a) \o b) = Len(Tail(a)) + Len(b)
    BY <1>1, ConcatProperties
  <2>3. \A k \in 1 .. Len(Tail(a \o b)) : Tail(a \o b)[k] = (Tail(a) \o b)[k]
    <3> SUFFICES ASSUME NEW k \in 1 .. Len(Tail(a \o b))
                 PROVE  Tail(a \o b)[k] = (Tail(a) \o b)[k]
      OBVIOUS
    <3>1. Tail(a \o b)[k] = (a \o b)[k + 1] /\ k + 1 \in 1 .. Len(a) + Len(b)
      BY <1>1, <1>2, <1>3, <2>1, HeadTailProperties
    <3>2. CASE k <= Len(Tail(a))
      <4>1. (a \o b)[k + 1] = a[k + 1]
        BY <1>1, <1>2, <3>1, <3>2
      <4>2. (Tail(a) \o b)[k] = Tail(a)[k] /\ Tail(a)[k] = a[k + 1]
        BY <1>1, <2>2, <3>2
      <4> QED
        BY <3>1, <4>1, <4>2
    <3>3. CASE ~(k <= Len(Tail(a)))
      <4>1. (a \o b)[k + 1] = b[(k + 1) - Len(a)]
        BY <1>1, <1>2, <3>1, <3>3
      <4>2. (Tail(a) \o b)[k] = b[k - Len(Tail(a))]
        BY <1>1, <2>1, <2>2, <3>3
      <4>3. (k + 1) - Len(a) = k - Len(Tail(a))
        BY <1>1
      <4> QED
        BY <3>1, <4>1, <4>2, <4>3
    <3> QED
      BY <3>2, <3>3
  <2>4. Len(Tail(a \o b)) = Len(Tail(a) \o b)
    BY <1>1, <1>2, <2>1, <2>2
  <2> QED
    BY <2>1, <2>2, <2>3, <2>4, SeqEqual
<1> QED
  BY <1>2, <1>3, <1>4, <1>5

Joins(t, a, b, final, i, n) ==
  MeaningIn(t)[Leg(i, a \o b, final, n)] = Then(t, MeaningIn(t)[Leg(i, a, TRUE, n)], b, final)

LEMMA JoinTurn ==
  ASSUME NEW t \in Tree, NEW i \in Nodes, NEW n \in 0 .. MaxDepth,
         NEW a \in Seq(Component), NEW b \in Seq(Component), NEW final \in BOOLEAN,
         b # <<>> \/ final, a # <<>>,
         \A j \in Nodes, m \in 0 .. MaxDepth : Joins(t, Tail(a), b, final, j, m)
  PROVE  Joins(t, a, b, final, i, n)
<1> DEFINE M == MeaningIn(t)
           yes == TRUE
           v == Leg(i, a \o b, final, n)
           w == Leg(i, a, yes, n)
           c == Head(a)
           e == t.entry[i][c]
           to == t.target[e]
           r == Tail(a)
<1>1. /\ a \o b \in Seq(Component) /\ a \o b # <<>>
      /\ Head(a \o b) = c /\ Tail(a \o b) = r \o b /\ r \in Seq(Component)
      /\ r \o b # <<>> \/ final
  <2>1. /\ a \o b \in Seq(Component) /\ a \o b # <<>>
        /\ Head(a \o b) = c /\ Tail(a \o b) = r \o b
    BY JoinedTail
  <2>2. r \in Seq(Component)
    BY TailFacts
  <2>3. b # <<>> => r \o b # <<>>
    <3>1. Len(r \o b) = Len(r) + Len(b) /\ Len(r) \in Nat
      BY <2>2, ConcatProperties
    <3>2. b # <<>> => Len(b) \in Nat \ {0}
      BY TailFacts
    <3> QED
      BY <3>1, <3>2, EmptySeq
  <2> QED
    BY <2>1, <2>2, <2>3
<1>2. yes \in BOOLEAN
  OBVIOUS
<1> HIDE DEF r, yes
<1>3. /\ v \in Legs /\ v.node = i /\ v.rest = a \o b /\ v.final = final /\ v.links = n
      /\ w \in Legs /\ w.node = i /\ w.rest = a /\ w.final = yes /\ w.links = n
  BY <1>1, <1>2 DEF Leg, Legs
<1>4. \A j, m : /\ Onward(v, j, m) = Leg(j, r \o b, final, m)
                /\ Onward(w, j, m) = Leg(j, r, yes, m)
  BY <1>1, <1>3 DEF Onward, r
<1>5. \A s : End(v, s) = End(w, s) /\ End(w, s).status = s
  BY <1>3 DEF End
<1>6. M[v] = Leads(t, M, v) /\ M[w] = Leads(t, M, w) /\ M[w] \in Result
  BY <1>3, MeaningUnfolds
<1>7. \A j \in Nodes, m \in 0 .. MaxDepth :
        M[Onward(v, j, m)] = Then(t, M[Onward(w, j, m)], b, final)
  <2> SUFFICES ASSUME NEW j \in Nodes, NEW m \in 0 .. MaxDepth
               PROVE  M[Onward(v, j, m)] = Then(t, M[Onward(w, j, m)], b, final)
    OBVIOUS
  <2>1. Joins(t, r, b, final, j, m)
    BY DEF r
  <2>2. M[Leg(j, r \o b, final, m)] = Then(t, M[Leg(j, r, yes, m)], b, final)
    BY <2>1 DEF Joins, yes
  <2>3. Onward(v, j, m) = Leg(j, r \o b, final, m) /\ Onward(w, j, m) = Leg(j, r, yes, m)
    BY <1>4
  <2> HIDE DEF M, v, w
  <2> QED
    BY <2>2, <2>3
<1>8. i \in Nodes /\ n \in 0 .. MaxDepth /\ t.up[i] \in Nodes /\ (Has(t, i, c) => e \in Nodes)
  BY WayFacts
<1>9. Head(v.rest) = c /\ Head(w.rest) = c /\ v.rest # <<>> /\ w.rest # <<>>
  BY <1>1, <1>3
<1>10. v.final \/ Tail(v.rest) # <<>>
  BY <1>1, <1>3
<1>11. w.final \/ Tail(w.rest) # <<>>
  BY <1>3 DEF yes
<1>12. \A s : s # "found" /\ M[v] = End(v, s) /\ M[w] = End(w, s)
                => M[v] = Then(t, M[w], b, final)
  BY <1>5 DEF Then
<1> SUFFICES M[v] = Then(t, M[w], b, final)
  BY DEF Joins, yes
<1> HIDE DEF M, v, w, c, e, to
<1>20. CASE c = "."
  <2>1. M[v] = M[Onward(v, i, n)] /\ M[w] = M[Onward(w, i, n)]
    BY <1>3, <1>6, <1>9, <1>20 DEF Leads
  <2> QED
    BY <1>7, <1>8, <2>1
<1>21. CASE c = ".." /\ IsDirectory(t, i)
  <2>1. M[v] = M[Onward(v, t.up[i], n)] /\ M[w] = M[Onward(w, t.up[i], n)]
    BY <1>3, <1>6, <1>9, <1>21 DEF Leads
  <2> QED
    BY <1>7, <1>8, <2>1
<1>22. CASE c = ".." /\ ~IsDirectory(t, i)
  <2>1. M[v] = End(v, "invalid_directory") /\ M[w] = End(w, "invalid_directory")
    BY <1>3, <1>6, <1>9, <1>22 DEF Leads
  <2> QED
    BY <1>12, <2>1
<1>23. CASE c # "." /\ c # ".." /\ ~IsDirectory(t, i)
  <2>1. M[v] = End(v, "not_directory") /\ M[w] = End(w, "not_directory")
    BY <1>3, <1>6, <1>9, <1>23 DEF Leads
  <2> QED
    BY <1>12, <2>1
<1>24. CASE c # "." /\ c # ".." /\ IsDirectory(t, i) /\ ~Has(t, i, c)
  <2>1. M[v] = End(v, "not_found") /\ M[w] = End(w, "not_found")
    BY <1>3, <1>6, <1>9, <1>24 DEF Leads
  <2> QED
    BY <1>12, <2>1
<1>25. CASE c # "." /\ c # ".." /\ Has(t, i, c) /\ t.type[e] # "symlink"
  <2>1. M[v] = M[Onward(v, e, n)] /\ M[w] = M[Onward(w, e, n)]
    BY <1>3, <1>6, <1>9, <1>25 DEF Leads, e, Has
  <2> QED
    BY <1>7, <1>8, <1>25, <2>1
<1>26. CASE c # "." /\ c # ".." /\ Has(t, i, c) /\ t.type[e] = "symlink"
  <2>1. IsDirectory(t, i)
    BY <1>26 DEF Has
  <2>2. CASE n = MaxDepth
    <3>1. M[v] = End(v, "loop_detected") /\ M[w] = End(w, "loop_detected")
      BY <1>3, <1>6, <1>9, <1>10, <1>11, <1>26, <2>1, <2>2 DEF Leads, e
    <3> QED
      BY <1>12, <3>1
  <2>3. CASE n # MaxDepth /\ ~Splits(to.components)
    <3>1. M[v] = End(v, "resource_limit") /\ M[w] = End(w, "resource_limit")
      BY <1>3, <1>6, <1>9, <1>10, <1>11, <1>26, <2>1, <2>3 DEF Leads, e, to
    <3> QED
      BY <1>12, <3>1
  <2>4. CASE n # MaxDepth /\ Splits(to.components)
    <3> DEFINE x == Leg(IF to.absolute THEN Root ELSE i, to.components, TRUE, n + 1)
               l == M[x]
    <3>1. /\ M[v] = IF l.status = "found" THEN M[Onward(v, l.node, l.links)] ELSE l
          /\ M[w] = IF l.status = "found" THEN M[Onward(w, l.node, l.links)] ELSE l
      BY <1>3, <1>6, <1>9, <1>10, <1>11, <1>26, <2>1, <2>4 DEF Leads, e, to
    <3>2. x \in Legs
      <4> DEFINE j == IF to.absolute THEN Root ELSE i
                 ps == to.components
                 m == n + 1
      <4>1. j \in Nodes /\ ps \in Seq(Component)
        BY <1>8, <1>26, WayFacts DEF to, e
      <4>2. m \in 0 .. MaxDepth
        BY <2>4, PathWalkAssumption
      <4>3. x = Leg(j, ps, yes, m)
        BY DEF yes
      <4> HIDE DEF j, ps, m, x
      <4> QED
        BY <1>2, <4>1, <4>2, <4>3, LegIn
    <3>3. l \in Result
      BY <3>2, MeaningUnfolds DEF M
    <3>4. l.node \in Nodes /\ l.links \in 0 .. MaxDepth
      BY <3>3 DEF Result
    <3> HIDE DEF l
    <3>5. CASE l.status = "found"
      BY <1>7, <3>1, <3>4, <3>5
    <3>6. CASE l.status # "found"
      BY <3>1, <3>6 DEF Then
    <3> QED
      BY <3>5, <3>6
  <2> QED
    BY <2>2, <2>3, <2>4
<1> QED
  BY <1>20, <1>21, <1>22, <1>23, <1>24, <1>25, <1>26

\* What a path means that is made of two, if a link at the end of the first is
\* followed in the whole: the second from where the first one leads.
LEMMA Joined ==
  ASSUME NEW t \in Tree, NEW b \in Seq(Component), NEW final \in BOOLEAN,
         b # <<>> \/ final
  PROVE  \A a \in Seq(Component), i \in Nodes, n \in 0 .. MaxDepth :
           Joins(t, a, b, final, i, n)
<1> DEFINE Bad == {k \in Nat : \E a \in Seq(Component), i \in Nodes, n \in 0 .. MaxDepth :
                     Len(a) = k /\ ~Joins(t, a, b, final, i, n)}
<1>1. ASSUME Bad # {} PROVE FALSE
  <2>1. PICK k \in Bad : \A y \in Bad : k <= y
    <3>1. Bad \subseteq Nat
      OBVIOUS
    <3> HIDE DEF Bad
    <3> QED
      BY <1>1, <3>1, LeastOf
  <2>2. PICK a \in Seq(Component), i \in Nodes, n \in 0 .. MaxDepth :
          Len(a) = k /\ ~Joins(t, a, b, final, i, n)
    BY <2>1
  <2>3. a # <<>>
    <3> SUFFICES ASSUME a = <<>> PROVE FALSE
      OBVIOUS
    <3> DEFINE yes == TRUE
               w == Leg(i, a, yes, n)
    <3>1. yes \in BOOLEAN
      OBVIOUS
    <3> HIDE DEF yes
    <3>2. w \in Legs /\ w.node = i /\ w.rest = a /\ w.links = n
      BY <3>1 DEF Leg, Legs
    <3>3. MeaningIn(t)[w] = Leads(t, MeaningIn(t), w)
      BY <3>2, MeaningUnfolds
    <3> HIDE DEF w
    <3>4. MeaningIn(t)[w] = [status |-> "found", node |-> i, links |-> n]
      BY <3>2, <3>3 DEF Leads, End
    <3>5. a \o b = b
      BY ConcatEmptySeq
    <3> DEFINE l == MeaningIn(t)[w]
    <3>6. l.status = "found" /\ l.node = i /\ l.links = n
      BY <3>4
    <3>7. Then(t, l, b, final) = MeaningIn(t)[Leg(i, b, final, n)]
      BY <3>6 DEF Then
    <3> QED
      BY <2>2, <3>5, <3>7 DEF Joins, w, yes
  <2>4. Tail(a) \in Seq(Component) /\ Len(Tail(a)) \in Nat /\ ~(k <= Len(Tail(a)))
    <3>1. /\ Tail(a) \in Seq(Component) /\ Len(a) \in Nat \ {0}
          /\ Len(Tail(a)) = Len(a) - 1
      BY <2>3, TailFacts
    <3> QED
      BY <2>2, <3>1
  <2>5. Len(Tail(a)) \notin Bad
    <3> HIDE DEF Bad
    <3> QED
      BY <2>1, <2>4
  <2>6. \A j \in Nodes, m \in 0 .. MaxDepth : Joins(t, Tail(a), b, final, j, m)
    BY <2>4, <2>5
  <2> QED
    BY <2>2, <2>3, <2>6, JoinTurn
<1> SUFFICES ASSUME NEW a \in Seq(Component), NEW i \in Nodes, NEW n \in 0 .. MaxDepth
             PROVE  Joins(t, a, b, final, i, n)
  OBVIOUS
<1>2. Len(a) \in Nat
  OBVIOUS
<1>3. Len(a) \notin Bad
  BY <1>1
<1> QED
  BY <1>2, <1>3

-----------------------------------------------------------------------------
(* At every turn what is left of the path means, from where the loop is,   *)
(* what the path meant in the beginning.                                   *)

Start == IF mode = "create" THEN ParentPath(path) ELSE path.components

Meant == MeaningIn(tree)[Leg(Root, Start, mode # "keep", 0)]

Way == Leg(current, pending, mode # "keep", followed)

Here == [status |-> status, node |-> current, links |-> followed]

Asked == Splits(path.components) /\ (mode = "create" => Creatable(path.components))

StaysMeant ==
  /\ Walking \/ status = "found" => Asked
  /\ Walking => Meant = MeaningIn(tree)[Way]
  /\ ~Walking /\ Splits(path.components) /\ (mode # "create" \/ status = "found")
       => Meant = Here
  /\ status = "found" /\ mode = "create" => IsDirectory(tree, current)

LEMMA MeantFirst == Init => StaysMeant
<1> SUFFICES ASSUME Init PROVE StaysMeant
  OBVIOUS
<1>1. Walking => Asked /\ pending = Start /\ current = Root /\ followed = 0
  BY DEF Init, Walking, Asked, Start
<1>2. Walking => Meant = MeaningIn(tree)[Way]
  BY <1>1 DEF Meant, Way
<1>3. ~Walking => status # "found" /\ (Splits(path.components) => mode = "create")
  BY DEF Init, Walking
<1>4. Walking => status # "found"
  BY DEF Walking
<1> QED
  BY <1>1, <1>2, <1>3, <1>4 DEF StaysMeant

LEMMA AtWay ==
  ASSUME IInv
  PROVE  /\ tree \in Tree /\ current \in Nodes /\ followed \in 0 .. MaxDepth
         /\ pending \in Seq(Component) /\ MaxDepth \in Nat
         /\ Way \in Legs /\ Way.node = current /\ Way.rest = pending
         /\ (Way.final <=> mode # "keep") /\ Way.links = followed
         /\ MeaningIn(tree)[Way] = Leads(tree, MeaningIn(tree), Way)
         /\ \A i, n : Onward(Way, i, n) = Leg(i, Tail(pending), mode # "keep", n)
         /\ \A s : End(Way, s) = [status |-> s, node |-> current, links |-> followed]
<1>1. /\ tree \in Tree /\ current \in Nodes /\ followed \in 0 .. MaxDepth
      /\ pending \in Seq(Component) /\ MaxDepth \in Nat
  BY TreeFacts, PathWalkAssumption DEF IInv, TypeOK
<1>2. /\ Way \in Legs /\ Way.node = current /\ Way.rest = pending
      /\ Way.final = (mode # "keep") /\ Way.links = followed
  BY <1>1 DEF Way, Leg, Legs
<1>3. MeaningIn(tree)[Way] = Leads(tree, MeaningIn(tree), Way)
  BY <1>1, <1>2, MeaningUnfolds
<1>4. /\ \A i, n : Onward(Way, i, n) = Leg(i, Tail(pending), mode # "keep", n)
      /\ \A s : End(Way, s) = [status |-> s, node |-> current, links |-> followed]
  BY <1>2 DEF Onward, End
<1> QED
  BY <1>1, <1>2, <1>3, <1>4

LEMMA GoesOn ==
  ASSUME NEW c, Turn(c), StaysMeant, status' = status,
         MeaningIn(tree)[Way] = MeaningIn(tree)[Way']
  PROVE  StaysMeant'
<1>1. tree' = tree /\ path' = path /\ mode' = mode /\ Walking /\ Walking'
  BY DEF Turn, arguments, Walking
<1>2. Meant' = Meant /\ Asked' = Asked
  BY <1>1 DEF Meant, Start, Asked
<1>3. Meant' = MeaningIn(tree')[Way']
  BY <1>1, <1>2 DEF StaysMeant
<1>4. Asked'
  BY <1>1, <1>2 DEF StaysMeant
<1>5. status' # "found"
  BY <1>1 DEF Walking
<1> QED
  BY <1>1, <1>3, <1>4, <1>5 DEF StaysMeant

LEMMA FailsAsMeant ==
  ASSUME NEW c, Turn(c), StaysMeant, NEW s, s \notin {"walking", "found"}, Fail(s),
         MeaningIn(tree)[Way] = End(Way, s)
  PROVE  StaysMeant'
<1>1. /\ tree' = tree /\ path' = path /\ mode' = mode /\ Walking /\ IInv
      /\ status' = s /\ current' = current /\ followed' = followed
  BY DEF Turn, arguments, Fail, place
<1>2. Meant' = Meant
  BY <1>1 DEF Meant, Start
<1>3. End(Way, s) = Here'
  BY <1>1, AtWay DEF Here
<1>4. Meant' = Here'
  BY <1>1, <1>2, <1>3 DEF StaysMeant
<1>5. ~Walking' /\ status' # "found"
  BY <1>1 DEF Walking
<1> QED
  BY <1>4, <1>5 DEF StaysMeant

LEMMA NameFacts ==
  ASSUME NEW c \in Names
  PROVE  c # "." /\ c # ".."
BY PathWalkAssumption

LEMMA DotAsMeant ==
  ASSUME NEW c, Turn(c), StaysMeant, Dot(c)
  PROVE  StaysMeant'
<1>1. IInv /\ pending # <<>> /\ c = Head(pending) /\ mode' = mode
  BY DEF Turn, arguments
<1>2. /\ c = "." /\ pending' = Tail(pending) /\ status' = status
      /\ current' = current /\ followed' = followed
  BY DEF Dot, Go, place
<1>3. MeaningIn(tree)[Way] = MeaningIn(tree)[Onward(Way, current, followed)]
  BY <1>1, <1>2, AtWay DEF Leads
<1>4. Way' = Onward(Way, current, followed)
  <2>1. Way' = Leg(current, Tail(pending), mode # "keep", followed)
    BY <1>1, <1>2 DEF Way
  <2>2. Onward(Way, current, followed) = Leg(current, Tail(pending), mode # "keep", followed)
    BY <1>1, AtWay
  <2> QED
    BY <2>1, <2>2
<1> QED
  BY <1>2, <1>3, <1>4, GoesOn

LEMMA DotDotAsMeant ==
  ASSUME NEW c, Turn(c), StaysMeant, DotDot(c)
  PROVE  StaysMeant'
<1>1. IInv /\ pending # <<>> /\ c = Head(pending) /\ mode' = mode
  BY DEF Turn, arguments
<1>2. /\ c = ".." /\ IsDirectory(tree, current) /\ pending' = Tail(pending)
      /\ status' = status /\ current' = tree.up[current] /\ followed' = followed
  BY DEF DotDot, Go
<1>3. MeaningIn(tree)[Way] = MeaningIn(tree)[Onward(Way, tree.up[current], followed)]
  BY <1>1, <1>2, AtWay DEF Leads
<1>4. Way' = Onward(Way, tree.up[current], followed)
  BY <1>1, <1>2, AtWay, SMTT(60) DEF Way
<1> QED
  BY <1>2, <1>3, <1>4, GoesOn

LEMMA NoWayAsMeant ==
  ASSUME NEW c, Turn(c), StaysMeant, NoWay(c)
  PROVE  StaysMeant'
<1>1. IInv /\ pending # <<>> /\ c = Head(pending)
  BY DEF Turn
<1>2. CASE c = ".." /\ ~IsDirectory(tree, current) /\ Fail("invalid_directory")
  <2>1. MeaningIn(tree)[Way] = End(Way, "invalid_directory")
    BY <1>1, <1>2, AtWay DEF Leads
  <2> QED
    BY <1>2, <2>1, FailsAsMeant
<1>3. CASE c \in Names /\ ~IsDirectory(tree, current) /\ Fail("not_directory")
  <2>1. MeaningIn(tree)[Way] = End(Way, "not_directory")
    BY <1>1, <1>3, AtWay, NameFacts DEF Leads
  <2> QED
    BY <1>3, <2>1, FailsAsMeant
<1>4. CASE c \in Names /\ IsDirectory(tree, current) /\ ~Has(tree, current, c) /\ Fail("not_found")
  <2>1. MeaningIn(tree)[Way] = End(Way, "not_found")
    BY <1>1, <1>4, AtWay, NameFacts DEF Leads
  <2> QED
    BY <1>4, <2>1, FailsAsMeant
<1> QED
  BY <1>2, <1>3, <1>4 DEF NoWay

LEMMA KeptIsMeant ==
  ASSUME IInv, pending # <<>>
  PROVE  FinalLinkKept <=> ~(mode # "keep" \/ Tail(pending) # <<>>)
<1>1. /\ Len(pending) \in Nat \ {0} /\ Tail(pending) \in Seq(Component)
      /\ Len(Tail(pending)) = Len(pending) - 1
  BY TailFacts, AtWay
<1>2. Len(pending) = 1 <=> Tail(pending) = <<>>
  <2>1. Tail(pending) = <<>> <=> Len(Tail(pending)) = 0
    BY <1>1, EmptySeq
  <2> QED
    BY <1>1, <2>1
<1> QED
  BY <1>2 DEF FinalLinkKept

LEMMA EnterAsMeant ==
  ASSUME NEW c, Turn(c), StaysMeant, Enter(c)
  PROVE  StaysMeant'
<1> DEFINE e == tree.entry[current][c]
<1>1. IInv /\ pending # <<>> /\ c = Head(pending) /\ mode' = mode
  BY DEF Turn, arguments
<1>2. /\ c \in Names /\ Has(tree, current, c) /\ IsDirectory(tree, current)
      /\ pending' = Tail(pending) /\ status' = status
      /\ current' = e /\ followed' = followed
      /\ ~(tree.type[e] = "symlink" /\ ~FinalLinkKept)
  BY DEF Enter, Go, Named, Linked, Has
<1>3. ~(tree.type[e] = "symlink" /\ (Way.final \/ Tail(pending) # <<>>))
  BY <1>1, <1>2, AtWay, KeptIsMeant
<1>4. MeaningIn(tree)[Way] = MeaningIn(tree)[Onward(Way, e, followed)]
  BY <1>1, <1>2, <1>3, AtWay, NameFacts DEF Leads
<1>5. Way' = Onward(Way, e, followed)
  <2>1. Way' = Leg(e, Tail(pending), mode # "keep", followed)
    BY <1>1, <1>2 DEF Way
  <2>2. Onward(Way, e, followed) = Leg(e, Tail(pending), mode # "keep", followed)
    BY <1>1, AtWay
  <2> QED
    BY <2>1, <2>2
<1> QED
  BY <1>2, <1>4, <1>5, GoesOn

LEMMA LinkedFacts ==
  ASSUME NEW c, Turn(c), Linked(c)
  PROVE  LET e == tree.entry[current][c] IN
         /\ c \in Names /\ c # "." /\ c # ".." /\ Has(tree, current, c)
         /\ IsDirectory(tree, current) /\ tree.type[e] = "symlink"
         /\ LinkTarget(c) = tree.target[e] /\ (Way.final \/ Tail(pending) # <<>>)
<1>1. IInv /\ pending # <<>>
  BY DEF Turn
<1>2. /\ c \in Names /\ Has(tree, current, c) /\ IsDirectory(tree, current)
      /\ tree.type[tree.entry[current][c]] = "symlink" /\ ~FinalLinkKept
  BY DEF Linked, Named, Has
<1>3. Way.final \/ Tail(pending) # <<>>
  BY <1>1, <1>2, AtWay, KeptIsMeant
<1> QED
  BY <1>2, <1>3, NameFacts DEF LinkTarget

LEMMA LinkRefusedAsMeant ==
  ASSUME NEW c, Turn(c), StaysMeant, LinkRefused(c)
  PROVE  StaysMeant'
<1>1. IInv /\ pending # <<>> /\ c = Head(pending)
  BY DEF Turn
<1>2. Linked(c)
  BY DEF LinkRefused
<1>3. followed < MaxDepth <=> followed # MaxDepth
  BY <1>1, AtWay
<1>4. CASE ~DepthLeft /\ Fail("loop_detected")
  <2>1. MeaningIn(tree)[Way] = End(Way, "loop_detected")
    BY <1>1, <1>2, <1>3, <1>4, AtWay, LinkedFacts DEF Leads, DepthLeft
  <2> QED
    BY <1>4, <2>1, FailsAsMeant
<1>5. CASE DepthLeft /\ ~Splits(LinkTarget(c).components) /\ Fail("resource_limit")
  <2>1. MeaningIn(tree)[Way] = End(Way, "resource_limit")
    BY <1>1, <1>2, <1>3, <1>5, AtWay, LinkedFacts DEF Leads, DepthLeft
  <2> QED
    BY <1>5, <2>1, FailsAsMeant
<1> QED
  BY <1>4, <1>5 DEF LinkRefused

LEMMA FollowAsMeant ==
  ASSUME NEW c, Turn(c), StaysMeant, Follow(c)
  PROVE  StaysMeant'
<1> DEFINE to == LinkTarget(c)
           i == IF to.absolute THEN Root ELSE current
           n == followed + 1
           a == to.components
           b == Tail(pending)
           l == MeaningIn(tree)[Leg(i, a, TRUE, n)]
           keep == mode # "keep"
<1>1. IInv /\ pending # <<>> /\ c = Head(pending) /\ mode' = mode
  BY DEF Turn, arguments
<1>2. /\ Linked(c) /\ Splits(a) /\ followed < MaxDepth
      /\ pending' = a \o b /\ current' = i
      /\ followed' = n /\ status' = status
  BY DEF Follow, Splice, Go, DepthLeft, place
<1>3. followed # MaxDepth /\ n \in 0 .. MaxDepth
  BY <1>1, <1>2, AtWay
<1>4. MeaningIn(tree)[Way] = IF l.status = "found"
                             THEN MeaningIn(tree)[Onward(Way, l.node, l.links)] ELSE l
  <2> DEFINE e == tree.entry[current][c]
             M == MeaningIn(tree)
  <2>1. /\ c # "." /\ c # ".." /\ Has(tree, current, c) /\ IsDirectory(tree, current)
        /\ tree.type[e] = "symlink" /\ to = tree.target[e]
        /\ (Way.final \/ Tail(pending) # <<>>)
    BY <1>2, LinkedFacts
  <2>2. /\ M[Way] = Leads(tree, M, Way) /\ Way.node = current /\ Way.rest = pending
        /\ Way.links = followed
    BY <1>1, AtWay
  <2>3. Splits(to.components)
    BY <1>2
  <2> DEFINE x == M[Leg(IF tree.target[e].absolute THEN Root ELSE current,
                      tree.target[e].components, TRUE, followed + 1)]
  <2>4. Splits(tree.target[e].components)
    BY <2>1, <2>3
  <2>5. l = x
    BY <2>1
  <2>6. M[Way] = IF x.status = "found" THEN M[Onward(Way, x.node, x.links)] ELSE x
    <3> HIDE DEF M, l, to
    <3> QED
      BY <1>1, <1>3, <2>1, <2>2, <2>4 DEF Leads
  <2> HIDE DEF x, l
  <2> QED
    BY <2>5, <2>6
<1>5. MeaningIn(tree)[Way] = Then(tree, l, b, keep)
  <2> HIDE DEF l
  <2>1. Onward(Way, l.node, l.links) = Leg(l.node, b, keep, l.links)
    <3>1. \A j, m : Onward(Way, j, m) = Leg(j, b, keep, m)
      BY <1>1, AtWay
    <3> HIDE DEF b, keep
    <3> QED
      BY <3>1
  <2> HIDE DEF b, keep
  <2> QED
    BY <1>4, <2>1 DEF Then
<1>6. tree \in Tree /\ i \in Nodes /\ a \in Seq(Component) /\ b \in Seq(Component)
      /\ keep \in BOOLEAN /\ (b # <<>> \/ keep)
  <2>1. a \in Seq(Component)
    BY <1>1, <1>2, LinkFacts DEF Linked, IInv
  <2>2. i \in Nodes
    BY <1>1, AtWay, PathWalkAssumption
  <2>3. b # <<>> \/ keep
    BY <1>1, <1>2, AtWay, LinkedFacts
  <2> QED
    BY <1>1, <2>1, <2>2, <2>3, AtWay, TailFacts
<1>7. Joins(tree, a, b, keep, i, n)
  <2> HIDE DEF a, b, keep, i, n
  <2> QED
    BY <1>3, <1>6, Joined
<1>8. MeaningIn(tree)[Leg(i, a \o b, keep, n)] = Then(tree, l, b, keep)
  BY <1>7 DEF Joins
<1>9. Way' = Leg(i, a \o b, keep, n)
  BY <1>1, <1>2 DEF Way
<1>10. MeaningIn(tree)[Way] = MeaningIn(tree)[Way']
  BY <1>5, <1>8, <1>9
<1> QED
  BY <1>2, <1>10, GoesOn

LEMMA ReturnAsMeant ==
  ASSUME IInv, StaysMeant, Return
  PROVE  StaysMeant'
<1>1. /\ tree' = tree /\ path' = path /\ mode' = mode /\ Walking /\ pending = <<>>
      /\ current' = current /\ followed' = followed
      /\ status' = IF mode = "create" /\ ~IsDirectory(tree, current)
                   THEN "not_directory" ELSE "found"
  BY DEF Return, arguments, place
<1>2. Meant' = Meant /\ Asked' = Asked
  BY <1>1 DEF Meant, Start, Asked
<1>3. MeaningIn(tree)[Way] = End(Way, "found")
  BY <1>1, AtWay DEF Leads
<1>4. status' = "found" => Meant' = Here'
  BY <1>1, <1>2, <1>3, AtWay DEF StaysMeant, Here
<1>5. ~Walking' /\ Asked' /\ (mode # "create" => status' = "found")
  BY <1>1, <1>2 DEF Walking, StaysMeant
<1>6. status' = "found" /\ mode' = "create" => IsDirectory(tree', current')
  BY <1>1
<1> QED
  BY <1>1, <1>4, <1>5, <1>6 DEF StaysMeant

LEMMA StepAsMeant ==
  ASSUME IInv, StaysMeant, Step
  PROVE  StaysMeant'
<1> DEFINE c == Head(pending)
<1>1. Turn(c)
  BY DEF Step, Turn
<1>2. Dot(c) \/ DotDot(c) \/ NoWay(c) \/ Enter(c) \/ Follow(c) \/ LinkRefused(c)
  BY BudgetLeft DEF Step
<1> HIDE DEF c
<1> QED
  BY <1>1, <1>2, DotAsMeant, DotDotAsMeant, NoWayAsMeant, EnterAsMeant, FollowAsMeant,
     LinkRefusedAsMeant

LEMMA StutterAsMeant ==
  ASSUME StaysMeant, UNCHANGED vars
  PROVE  StaysMeant'
<1>1. /\ tree' = tree /\ path' = path /\ mode' = mode /\ current' = current
      /\ pending' = pending /\ followed' = followed /\ status' = status
  BY DEF vars
<1>2. Meant' = Meant /\ Asked' = Asked /\ Way' = Way /\ Here' = Here
  BY <1>1 DEF Meant, Start, Asked, Way, Here
<1> QED
  BY <1>1, <1>2 DEF StaysMeant, Walking

\* Every turn of the loop keeps what the path it started with means, and it ends
\* with that.
THEOREM MeaningIsKept == Spec => []StaysMeant
<1>1. IInv /\ StaysMeant /\ [Next]_vars => StaysMeant'
  BY StepAsMeant, ReturnAsMeant, StutterAsMeant DEF Next
<1> QED
  BY Inductive, MeantFirst, <1>1, PTL DEF Spec

LEMMA ResolvesAsMeant ==
  ASSUME IInv, StaysMeant
  PROVE  ResolveAgrees
<1> SUFFICES ASSUME ~Walking, mode # "create", Splits(path.components)
             PROVE  LET m == Meaning(Root, path.components, mode = "follow", 0) IN
                    /\ status = m.status
                    /\ status = "found" => current = m.node /\ followed = m.links
  BY DEF ResolveAgrees
<1>1. Meant = Here
  BY DEF StaysMeant
<1>2. (mode = "follow") = (mode # "keep")
  BY DEF IInv, TypeOK
<1>3. Meaning(Root, path.components, mode = "follow", 0) = Meant
  BY <1>2 DEF Meaning, Meant, Start
<1> QED
  BY <1>1, <1>3 DEF Here

\* The last name of a path, without dots after it.
LEMMA LastOfPath ==
  ASSUME NEW p \in Seq(Component), Creatable(p), p[Len(p)] # "."
  PROVE  /\ Trimmed(p) = p /\ Len(p) \in Nat \ {0} /\ p[Len(p)] \in Names
         /\ SubSeq(p, 1, Len(p) - 1) \in Seq(Component)
         /\ p = SubSeq(p, 1, Len(p) - 1) \o <<p[Len(p)]>>
<1> DEFINE l == Len(p)
           kept == {k \in 1 .. l : \E j \in k .. l : p[j] # "."}
<1>1. l \in Nat
  OBVIOUS
<1>2. kept = 1 .. l
  <2>1. \A k \in 1 .. l : l \in k .. l
    BY <1>1
  <2> QED
    BY <2>1
<1>3. Cardinality(1 .. l) = l
  <2>1. Cardinality(1 .. l) = IF 1 > l THEN 0 ELSE l - 1 + 1
    <3> l \in Int /\ 1 \in Int
      BY <1>1
    <3> HIDE DEF l
    <3> QED
      BY FS_Interval
  <2> QED
    BY <1>1, <2>1
<1>4. Trimmed(p) = SubSeq(p, 1, l)
  BY <1>2, <1>3 DEF Trimmed
<1>5. Trimmed(p) = p
  BY <1>4
<1>6. p # <<>> /\ p[l] # ".."
  BY <1>5 DEF Creatable
<1>7. l \in Nat \ {0}
  BY <1>6, EmptySeq
<1>8. p[l] \in Names
  BY <1>6, <1>7 DEF Component
<1> DEFINE q == SubSeq(p, 1, l - 1)
<1>9. q \in Seq(Component) /\ Len(q) = l - 1 /\ \A k \in 1 .. l - 1 : q[k] = p[k]
  <2> DEFINE n == l - 1
  <2>1. n \in Nat /\ n <= l /\ \A k \in 1 .. n : k \in 1 .. l
    BY <1>7
  <2>2. \A k \in 1 .. n : p[k] \in Component
    BY <2>1
  <2> HIDE DEF n
  <2>3. /\ SubSeq(p, 1, n) \in Seq(Component) /\ Len(SubSeq(p, 1, n)) = n
        /\ \A k \in 1 .. n : SubSeq(p, 1, n)[k] = p[k]
    BY <2>1, <2>2
  <2> QED
    BY <2>3 DEF n
<1>10. p = q \o <<p[l]>>
  <2> DEFINE r == q \o <<p[l]>>
  <2>1. <<p[l]>> \in Seq(Component) /\ Len(<<p[l]>>) = 1
    BY <1>8 DEF Component
  <2>2. r \in Seq(Component) /\ Len(r) = l
    BY <1>7, <1>9, <2>1, ConcatProperties
  <2>3. ASSUME NEW k \in 1 .. l PROVE r[k] = p[k]
    <3>1. CASE k = l
      BY <1>7, <1>9, <2>1, <3>1
    <3>2. CASE k # l
      BY <1>7, <1>9, <2>1, <3>2
    <3> QED
      BY <3>1, <3>2
  <2> HIDE DEF r, q
  <2>4. Len(r) = Len(p) /\ \A k \in 1 .. Len(r) : r[k] = p[k]
    BY <2>2, <2>3
  <2>5. r = p
    BY <2>2, <2>4, SeqEqual
  <2> QED
    BY <2>5 DEF r
<1> QED
  BY <1>5, <1>7, <1>8, <1>9, <1>10

\* A dot before a path changes nothing.
LEMMA DotMeansHere ==
  ASSUME NEW t \in Tree, NEW i \in Nodes, NEW q \in Seq(Component),
         NEW final \in BOOLEAN, NEW n \in 0 .. MaxDepth
  PROVE  MeaningIn(t)[Leg(i, <<".">> \o q, final, n)] = MeaningIn(t)[Leg(i, q, final, n)]
<1> DEFINE w == Leg(i, <<".">> \o q, final, n)
<1>1. <<".">> \in Seq(Component) /\ <<".">> # <<>> /\ Head(<<".">>) = "." /\ Tail(<<".">>) = <<>>
  BY DEF Component
<1>2. /\ <<".">> \o q \in Seq(Component) /\ <<".">> \o q # <<>>
      /\ Head(<<".">> \o q) = "." /\ Tail(<<".">> \o q) = <<>> \o q
  BY <1>1, JoinedTail
<1>3. <<>> \o q = q
  BY ConcatEmptySeq
<1>4. /\ w \in Legs /\ w.node = i /\ w.rest = <<".">> \o q /\ w.links = n
      /\ w.final = final
  BY <1>2 DEF Leg, Legs
<1>5. MeaningIn(t)[w] = Leads(t, MeaningIn(t), w)
  BY <1>4, MeaningUnfolds
<1>6. Onward(w, i, n) = Leg(i, q, final, n)
  BY <1>2, <1>3, <1>4 DEF Onward
<1> HIDE DEF w
<1>7. Leads(t, MeaningIn(t), w) = MeaningIn(t)[Onward(w, i, n)]
  BY <1>2, <1>4 DEF Leads
<1> QED
  BY <1>5, <1>6, <1>7 DEF w

\* A name at the end of a path that ends in a directory, where a link at the
\* end is not followed.
LEMMA LastNameMeans ==
  ASSUME NEW t \in Tree, NEW i \in Nodes, NEW c \in Names, NEW n \in 0 .. MaxDepth,
         IsDirectory(t, i), NEW no \in BOOLEAN, ~no
  PROVE  LET m == MeaningIn(t)[Leg(i, <<c>>, no, n)] IN
         IF Has(t, i, c) THEN m.status = "found" /\ m.node = t.entry[i][c]
         ELSE m.status = "not_found" /\ m.node = i
<1> DEFINE M == MeaningIn(t)
           w == Leg(i, <<c>>, no, n)
           e == t.entry[i][c]
           v == Leg(e, <<>>, no, n)
<1>1. <<c>> \in Seq(Component) /\ <<c>> # <<>> /\ Head(<<c>>) = c /\ Tail(<<c>>) = <<>>
  BY DEF Component
<1>2. no \in BOOLEAN
  OBVIOUS
<1>3. /\ w \in Legs /\ w.node = i /\ w.rest = <<c>> /\ w.links = n /\ ~w.final
      /\ \A j : Onward(w, j, n) = Leg(j, <<>>, no, n)
  BY <1>1 DEF Leg, Legs, Onward
<1>4. M[w] = Leads(t, M, w)
  BY <1>3, MeaningUnfolds
<1>5. CASE ~Has(t, i, c)
  <2> HIDE DEF w, M
  <2>1. M[w] = End(w, "not_found")
    BY <1>1, <1>3, <1>4, <1>5, NameFacts DEF Leads
  <2>2. M[w].status = "not_found" /\ M[w].node = i
    BY <1>3, <2>1 DEF End
  <2> QED
    BY <1>5, <2>2 DEF w, M
<1>6. CASE Has(t, i, c)
  <2>1. e \in Nodes /\ <<>> \in Seq(Component)
    BY <1>6, WayFacts
  <2>2. v \in Legs /\ v.rest = <<>> /\ v.node = e
    BY <1>2, <2>1 DEF Leg, Legs
  <2>3. M[v] = Leads(t, M, v)
    BY <2>2, MeaningUnfolds
  <2> HIDE DEF w, v, M
  <2>4. M[w] = M[v]
    BY <1>1, <1>3, <1>4, <1>6, NameFacts DEF Leads, v
  <2>5. M[v] = End(v, "found")
    BY <2>2, <2>3 DEF Leads
  <2>6. M[w].status = "found" /\ M[w].node = e
    BY <2>2, <2>4, <2>5 DEF End
  <2> QED
    BY <1>6, <2>6 DEF w, M
<1> QED
  BY <1>5, <1>6

LEMMA CreatesAsMeant ==
  ASSUME IInv, StaysMeant
  PROVE  CreatableIsFound
<1> DEFINE p == path.components
           c == p[Len(p)]
           q == SubSeq(p, 1, Len(p) - 1)
           M == MeaningIn(tree)
           yes == TRUE
           no == FALSE
           none == 0
           l == M[Leg(Root, q, yes, none)]
           m == M[Leg(Root, p, no, none)]
<1> SUFFICES ASSUME status = "found", mode = "create", c # "."
             PROVE  IF Has(tree, current, c)
                    THEN m.status = "found" /\ m.node = tree.entry[current][c]
                    ELSE m.status = "not_found" /\ m.node = current
  BY DEF CreatableIsFound, Meaning
<1>1. /\ Creatable(p) /\ Meant = Here /\ IsDirectory(tree, current)
  BY DEF StaysMeant, Asked, Walking
<1>2. /\ tree \in Tree /\ Root \in Nodes /\ current \in Nodes
      /\ followed \in 0 .. MaxDepth /\ p \in Seq(Component) /\ none \in 0 .. MaxDepth
  BY AtWay, PathFacts, PathWalkAssumption DEF IInv
<1>3. /\ Trimmed(p) = p /\ c \in Names /\ q \in Seq(Component) /\ p = q \o <<c>>
      /\ <<c>> \in Seq(Component) /\ <<c>> # <<>>
  <2> HIDE DEF p
  <2> QED
    BY <1>1, <1>2, LastOfPath DEF Component
<1>4. Start = (IF path.absolute THEN <<>> ELSE <<".">>) \o q
  BY <1>3 DEF Start, ParentPath
<1>5. Meant = M[Leg(Root, Start, yes, none)]
  BY DEF Meant
<1>6. yes \in BOOLEAN /\ no \in BOOLEAN
  OBVIOUS
<1> HIDE DEF p, q, yes, no, none
<1>7. Meant = l
  <2>1. CASE path.absolute
    <3>1. Start = q
      BY <1>3, <1>4, <2>1, ConcatEmptySeq
    <3> QED
      BY <1>5, <3>1
  <2>2. CASE ~path.absolute
    <3>1. Start = <<".">> \o q
      BY <1>4, <2>2
    <3>2. M[Leg(Root, <<".">> \o q, yes, none)] = M[Leg(Root, q, yes, none)]
      BY <1>2, <1>3, <1>6, DotMeansHere
    <3> QED
      BY <1>5, <3>1, <3>2
  <2> QED
    BY <2>1, <2>2
<1>8. l.status = "found" /\ l.node = current /\ l.links = followed
  BY <1>1, <1>7 DEF Here
<1>9. Joins(tree, q, <<c>>, no, Root, none)
  <2> HIDE DEF c
  <2> QED
    BY <1>2, <1>3, <1>6, Joined
<1>10. m = Then(tree, l, <<c>>, no)
  <2> DEFINE x == <<c>>
  <2>1. Joins(tree, q, x, no, Root, none) /\ p = q \o x
    BY <1>3, <1>9
  <2>2. M[Leg(Root, q \o x, no, none)] = Then(tree, M[Leg(Root, q, TRUE, none)], x, no)
    BY <2>1 DEF Joins
  <2>3. l = M[Leg(Root, q, TRUE, none)]
    BY DEF yes
  <2>4. m = M[Leg(Root, q \o x, no, none)]
    BY <2>1
  <2> HIDE DEF x, l, m, M
  <2>5. m = Then(tree, l, x, no)
    BY <2>2, <2>3, <2>4
  <2> QED
    BY <2>5 DEF x
<1>11. m = M[Leg(current, <<c>>, no, followed)]
  <2> HIDE DEF l, m, c
  <2> QED
    BY <1>8, <1>10 DEF Then
<1> QED
  <2> DEFINE x == MeaningIn(tree)[Leg(current, <<c>>, no, followed)]
  <2>1. m = x
    BY <1>11
  <2>2. c \in Names /\ ~no
    BY <1>3 DEF no
  <2> HIDE DEF m, c
  <2>3. IF Has(tree, current, c) THEN x.status = "found" /\ x.node = tree.entry[current][c]
        ELSE x.status = "not_found" /\ x.node = current
    BY <1>1, <1>2, <1>6, <2>2, LastNameMeans
  <2> HIDE DEF x
  <2> QED
    BY <2>1, <2>3

\* resolve() ends where its path means to and fails as it means to, however the
\* targets of links are nested, and what resolve_parent() finds free or taken
\* is where the whole path leads.
THEOREM ResolvesToMeaning == Spec => []AgreesWithMeaning
<1>1. IInv /\ StaysMeant => AgreesWithMeaning
  BY ResolvesAsMeant, CreatesAsMeant DEF AgreesWithMeaning
<1> QED
  BY Inductive, MeaningIsKept, <1>1, PTL

-----------------------------------------------------------------------------
-----------------------------------------------------------------------------
(* Paths of names as walk() spells them: entries one after the other, none *)
(* of them a link that is followed.                                        *)

SpeltBy(t, j, p, i) ==
  /\ t[1] = j /\ t[Len(p) + 1] = i
  /\ \A k \in 1 .. Len(p) : Has(tree, t[k], p[k]) /\ tree.entry[t[k]][p[k]] = t[k + 1]

\* p leads from inode j to inode i.
Spells(j, p, i) == \E t \in [1 .. Len(p) + 1 -> Nodes] : SpeltBy(t, j, p, i)

LEMMA SpellsNothing ==
  ASSUME NEW j, NEW i, Spells(j, <<>>, i)
  PROVE  j = i
BY DEF Spells, SpeltBy

LEMMA SpellsMore ==
  ASSUME Arguments, NEW p \in Seq(Names), NEW j, NEW i \in Nodes, Spells(j, p, i),
         NEW n, Has(tree, i, n)
  PROVE  Spells(j, Append(p, n), tree.entry[i][n])
<1> DEFINE q == Append(p, n)
           e == tree.entry[i][n]
<1>1. e \in Nodes /\ n \in Names
  BY EntryFacts
<1>2. /\ Len(p) \in Nat /\ Len(q) = Len(p) + 1 /\ q[Len(p) + 1] = n
      /\ \A k \in 1 .. Len(p) : q[k] = p[k]
  BY <1>1, AppendProperties
<1>3. PICK t \in [1 .. Len(p) + 1 -> Nodes] : SpeltBy(t, j, p, i)
  BY DEF Spells
<1> HIDE DEF q, e
<1> DEFINE u == [k \in 1 .. Len(q) + 1 |-> IF k = Len(p) + 2 THEN e ELSE t[k]]
<1>4. u \in [1 .. Len(q) + 1 -> Nodes]
  BY <1>1, <1>2, <1>3
<1>5. u[1] = j /\ u[Len(q) + 1] = e
  BY <1>2, <1>3 DEF SpeltBy
<1>6. ASSUME NEW k \in 1 .. Len(q)
      PROVE  Has(tree, u[k], q[k]) /\ tree.entry[u[k]][q[k]] = u[k + 1]
  <2>1. CASE k = Len(q)
    <3>1. u[k] = i /\ u[k + 1] = e /\ q[k] = n
      BY <1>2, <1>3, <2>1 DEF SpeltBy
    <3> QED
      BY <3>1 DEF e
  <2>2. CASE k # Len(q)
    <3>1. k \in 1 .. Len(p) /\ q[k] = p[k] /\ u[k] = t[k] /\ u[k + 1] = t[k + 1]
      BY <1>2, <2>2
    <3> QED
      BY <1>3, <3>1 DEF SpeltBy
  <2> QED
    BY <2>1, <2>2
<1> HIDE DEF u
<1>7. SpeltBy(u, j, q, e)
  BY <1>5, <1>6 DEF SpeltBy
<1> QED
  BY <1>4, <1>7 DEF Spells, q, e

LEMMA SpellsLess ==
  ASSUME Arguments, NEW p \in Seq(Names), NEW n \in Names, NEW j, NEW i,
         Spells(j, Append(p, n), i)
  PROVE  \E d \in Nodes : /\ Spells(j, p, d) /\ Has(tree, d, n)
                          /\ tree.entry[d][n] = i
<1> DEFINE q == Append(p, n)
<1>1. /\ Len(p) \in Nat /\ Len(q) = Len(p) + 1 /\ q[Len(p) + 1] = n
      /\ \A k \in 1 .. Len(p) : q[k] = p[k]
  BY AppendProperties
<1>2. PICK t \in [1 .. Len(q) + 1 -> Nodes] : SpeltBy(t, j, q, i)
  BY DEF Spells
<1> HIDE DEF q
<1> DEFINE d == t[Len(p) + 1]
           u == [k \in 1 .. Len(p) + 1 |-> t[k]]
<1>3. d \in Nodes /\ u \in [1 .. Len(p) + 1 -> Nodes]
  BY <1>1, <1>2
<1>4. u[1] = j /\ u[Len(p) + 1] = d
  BY <1>1, <1>2 DEF SpeltBy
<1>5. ASSUME NEW k \in 1 .. Len(p)
      PROVE  Has(tree, u[k], p[k]) /\ tree.entry[u[k]][p[k]] = u[k + 1]
  <2>1. k \in 1 .. Len(q) /\ q[k] = p[k] /\ u[k] = t[k] /\ u[k + 1] = t[k + 1]
    BY <1>1
  <2> QED
    BY <1>2, <2>1 DEF SpeltBy
<1>6. Has(tree, d, n) /\ tree.entry[d][n] = i
  <2>1. Len(p) + 1 \in 1 .. Len(q) /\ (Len(p) + 1) + 1 = Len(q) + 1
    BY <1>1
  <2> QED
    BY <1>1, <1>2, <2>1 DEF SpeltBy
<1> HIDE DEF u, d
<1>7. SpeltBy(u, j, p, d)
  BY <1>4, <1>5 DEF SpeltBy
<1> QED
  BY <1>3, <1>6, <1>7 DEF Spells

LEMMA SpellsTail ==
  ASSUME Arguments, NEW p \in Seq(Names), p # <<>>, NEW j, NEW i, Spells(j, p, i)
  PROVE  Has(tree, j, Head(p)) /\ Spells(tree.entry[j][Head(p)], Tail(p), i)
<1> DEFINE q == Tail(p)
           e == tree.entry[j][Head(p)]
<1>1. /\ Len(p) \in Nat \ {0} /\ Len(q) = Len(p) - 1 /\ Head(p) = p[1]
      /\ \A k \in 1 .. Len(q) : q[k] = p[k + 1]
  BY TailFacts, HeadTailProperties
<1>2. PICK t \in [1 .. Len(p) + 1 -> Nodes] : SpeltBy(t, j, p, i)
  BY DEF Spells
<1>3. Has(tree, j, Head(p)) /\ e = t[2]
  <2>1. 1 \in 1 .. Len(p) /\ 1 + 1 = 2
    BY <1>1
  <2>2. Has(tree, t[1], p[1]) /\ tree.entry[t[1]][p[1]] = t[1 + 1]
    BY <1>2, <2>1 DEF SpeltBy
  <2> QED
    BY <1>1, <1>2, <2>1, <2>2 DEF SpeltBy
<1> HIDE DEF q, e
<1> DEFINE u == [k \in 1 .. Len(q) + 1 |-> t[k + 1]]
<1>4. u \in [1 .. Len(q) + 1 -> Nodes]
  BY <1>1, <1>2
<1>5. u[1] = e /\ u[Len(q) + 1] = i
  BY <1>1, <1>2, <1>3 DEF SpeltBy
<1>6. ASSUME NEW k \in 1 .. Len(q)
      PROVE  Has(tree, u[k], q[k]) /\ tree.entry[u[k]][q[k]] = u[k + 1]
  <2> DEFINE m == k + 1
  <2>1. m \in 1 .. Len(p) /\ q[k] = p[m] /\ u[k] = t[m] /\ u[k + 1] = t[m + 1]
    BY <1>1
  <2> HIDE DEF m, u
  <2> QED
    BY <1>2, <2>1 DEF SpeltBy
<1> HIDE DEF u
<1>7. SpeltBy(u, e, q, i)
  BY <1>5, <1>6 DEF SpeltBy
<1> QED
  BY <1>3, <1>4, <1>7 DEF Spells, q, e

\* A directory has one path.
LEMMA OnePlace ==
  ASSUME Arguments
  PROVE  \A p, q \in Seq(Names), i \in Nodes :
           Spells(Root, p, i) /\ Spells(Root, q, i) /\ IsDirectory(tree, i) => p = q
<1> DEFINE Two(p, q, i) == /\ Spells(Root, p, i) /\ Spells(Root, q, i)
                           /\ IsDirectory(tree, i) /\ p # q
           Bad == {k \in Nat : \E p, q \in Seq(Names), i \in Nodes : Len(p) = k /\ Two(p, q, i)}
<1> SUFFICES Bad = {}
  <2> SUFFICES ASSUME NEW p \in Seq(Names), NEW q \in Seq(Names), NEW i \in Nodes,
                      Two(p, q, i), Bad = {}
               PROVE  FALSE
    OBVIOUS
  <2>1. Len(p) \in Nat
    OBVIOUS
  <2> QED
    BY <2>1
<1> SUFFICES ASSUME Bad # {} PROVE FALSE
  OBVIOUS
<1>1. PICK k \in Bad : \A y \in Bad : k <= y
  <2>1. Bad \subseteq Nat
    OBVIOUS
  <2> HIDE DEF Bad
  <2> QED
    BY <2>1, LeastOf
<1>2. PICK p \in Seq(Names), q \in Seq(Names), i \in Nodes : Len(p) = k /\ Two(p, q, i)
  BY <1>1
<1>3. ASSUME NEW r \in Seq(Names), r # <<>>, Spells(Root, r, i)
      PROVE  \E s \in Seq(Names), n \in Names, d \in Nodes :
               /\ r = Append(s, n) /\ Spells(Root, s, d) /\ Has(tree, d, n)
               /\ tree.entry[d][n] = i
  <2>1. PICK s \in Seq(Names), n \in Names : r = Append(s, n)
    BY <1>3, SequenceEmptyOrAppend
  <2>2. Spells(Root, Append(s, n), i)
    BY <1>3, <2>1
  <2>3. PICK d \in Nodes : Spells(Root, s, d) /\ Has(tree, d, n) /\ tree.entry[d][n] = i
    BY <2>2, SpellsLess
  <2> QED
    BY <2>1, <2>3
<1>4. \A d \in Nodes, n \in Names : Has(tree, d, n) /\ tree.entry[d][n] = i => i # Root
  BY <1>2, TreeFacts DEF Rooted, Has
<1>5. ASSUME NEW r \in Seq(Names), r # <<>>, Spells(Root, r, i)
      PROVE  i # Root
  BY <1>3, <1>4, <1>5
<1>6. ASSUME NEW r \in Seq(Names), r = <<>>, Spells(Root, r, i)
      PROVE  i = Root
  BY <1>6, SpellsNothing
<1>7. p # <<>> /\ q # <<>>
  BY <1>2, <1>5, <1>6
<1>8. PICK s \in Seq(Names), m \in Names, d \in Nodes :
        /\ p = Append(s, m) /\ Spells(Root, s, d) /\ Has(tree, d, m)
        /\ tree.entry[d][m] = i
  BY <1>2, <1>3, <1>7
<1>9. PICK t \in Seq(Names), n \in Names, e \in Nodes :
        /\ q = Append(t, n) /\ Spells(Root, t, e) /\ Has(tree, e, n)
        /\ tree.entry[e][n] = i
  BY <1>2, <1>3, <1>7
<1>10. d = e
  <2>1. IsDirectory(tree, i)
    BY <1>2
  <2>2. tree.up[i] = d
    BY <1>8, <2>1, UpIsBack
  <2>3. tree.up[i] = e
    BY <1>9, <2>1, UpIsBack
  <2> QED
    BY <2>2, <2>3
<1>11. m = n
  <2>1. NamedOnce(tree)
    BY TreeWalkAssumption DEF Arguments
  <2> QED
    BY <1>2, <1>8, <1>9, <1>10, <2>1 DEF NamedOnce
<1>12. s # t
  BY <1>2, <1>8, <1>9, <1>11
<1>13. IsDirectory(tree, d)
  BY <1>8 DEF Has
<1>14. Len(s) \in Nat /\ ~(k <= Len(s))
  BY <1>2, <1>8, AppendProperties
<1>15. Len(s) \in Bad
  BY <1>8, <1>9, <1>10, <1>12, <1>13, <1>14
<1> HIDE DEF Bad
<1> QED
  BY <1>1, <1>14, <1>15

\* resolve() finds what a path spells, for no component of it is a link but
\* the last one.
Found(j, p, i) == LET m == Meaning(j, p, FALSE, 0) IN m.status = "found" /\ m.node = i

LEMMA SpeltIsFound ==
  ASSUME Arguments
  PROVE  \A p \in Seq(Names), j, i \in Nodes : Spells(j, p, i) => Found(j, p, i)
<1> DEFINE Bad == {k \in Nat : \E p \in Seq(Names), j, i \in Nodes :
                     Len(p) = k /\ Spells(j, p, i) /\ ~Found(j, p, i)}
<1> SUFFICES Bad = {}
  <2> SUFFICES ASSUME NEW p \in Seq(Names), NEW j \in Nodes, NEW i \in Nodes,
                      Spells(j, p, i), ~Found(j, p, i), Bad = {}
               PROVE  FALSE
    OBVIOUS
  <2>1. Len(p) \in Nat
    OBVIOUS
  <2> QED
    BY <2>1
<1> SUFFICES ASSUME Bad # {} PROVE FALSE
  OBVIOUS
<1>1. PICK k \in Bad : \A y \in Bad : k <= y
  <2>1. Bad \subseteq Nat
    OBVIOUS
  <2> HIDE DEF Bad
  <2> QED
    BY <2>1, LeastOf
<1>2. PICK p \in Seq(Names), j \in Nodes, i \in Nodes :
        Len(p) = k /\ Spells(j, p, i) /\ ~Found(j, p, i)
  BY <1>1
<1> DEFINE no == FALSE
           o == 0
           M == MeaningIn(tree)
           w == Leg(j, p, no, o)
<1>3. /\ tree \in Tree /\ no \in BOOLEAN /\ ~no /\ o \in 0 .. MaxDepth
      /\ p \in Seq(Component) /\ Seq(Names) \subseteq Seq(Component)
  <2>1. Names \subseteq Component
    BY DEF Component
  <2>2. Seq(Names) \subseteq Seq(Component)
    BY <2>1, SeqMonotonic
  <2> QED
    BY <2>2, TreeFacts, PathWalkAssumption
<1>4. ~(M[w].status = "found" /\ M[w].node = i)
  BY <1>2 DEF Found, Meaning
<1> HIDE DEF no, o
<1>5. w \in Legs /\ w.node = j /\ w.rest = p /\ w.final = no /\ w.links = o
  BY <1>3, LegIn
<1>6. M[w] = Leads(tree, M, w)
  BY <1>3, <1>5, MeaningUnfolds
<1> HIDE DEF w, M
<1>7. CASE p = <<>>
  <2>1. i = j
    BY <1>2, <1>7, SpellsNothing
  <2>2. M[w] = End(w, "found")
    BY <1>5, <1>6, <1>7 DEF Leads
  <2> QED
    BY <1>4, <1>5, <2>1, <2>2 DEF End
<1>8. CASE p # <<>>
  <2> DEFINE c == Head(p)
             q == Tail(p)
             e == tree.entry[j][c]
             v == Leg(e, q, no, o)
  <2>1. Has(tree, j, c) /\ Spells(e, q, i)
    BY <1>2, <1>8, SpellsTail
  <2>2. c \in Names /\ e \in Nodes /\ c # "." /\ c # ".." /\ IsDirectory(tree, j)
    <3>1. c \in Names /\ e \in Nodes /\ IsDirectory(tree, j)
      BY <2>1, EntryFacts DEF Has
    <3> QED
      BY <3>1, NameFacts
  <2>3. q \in Seq(Names) /\ Len(q) \in Nat /\ ~(k <= Len(q))
    BY <1>2, <1>8, TailFacts
  <2>4. q # <<>> => tree.type[e] # "symlink"
    <3> SUFFICES ASSUME q # <<>> PROVE tree.type[e] # "symlink"
      OBVIOUS
    <3>1. Has(tree, e, Head(q))
      BY <2>1, <2>3, SpellsTail
    <3> QED
      BY <3>1 DEF Has, IsDirectory
  <2>5. Found(e, q, i)
    <3>1. Len(q) \notin Bad
      <4> HIDE DEF Bad, q
      <4> QED
        BY <1>1, <2>3
    <3> QED
      BY <2>1, <2>2, <2>3, <3>1
  <2>6. M[v].status = "found" /\ M[v].node = i
    BY <2>5 DEF Found, Meaning, M, no, o
  <2>7. Onward(w, e, o) = v
    BY <1>5 DEF Onward
  <2>8. Head(w.rest) = c /\ Tail(w.rest) = q /\ w.rest # <<>>
    BY <1>5, <1>8
  <2>9. ~(tree.type[e] = "symlink" /\ (w.final \/ Tail(w.rest) # <<>>))
    BY <1>3, <1>5, <2>4, <2>8
  <2> HIDE DEF v, q, c
  <2>10. M[w] = M[v]
    BY <1>5, <1>6, <2>1, <2>2, <2>7, <2>8, <2>9 DEF Leads
  <2> QED
    BY <1>4, <2>6, <2>10
<1> QED
  BY <1>7, <1>8

\* f holds what g makes of a in up to N steps.
Iterates(g, a, N, V) ==
  \E f \in [0 .. N -> V] : f[0] = a /\ \A n \in 1 .. N : f[n] = g[f[n - 1]]

\* A value that is made from a first one in N steps exists after each of them.
LEMMA Iterated ==
  ASSUME NEW V, NEW a \in V, NEW N \in Nat, NEW g \in [V -> V]
  PROVE  Iterates(g, a, N, V)
<1> DEFINE Made(f, M) == f[0] = a /\ \A n \in 1 .. M : f[n] = g[f[n - 1]]
           Bad == {M \in 0 .. N : ~\E f \in [0 .. M -> V] : Made(f, M)}
<1> SUFFICES ASSUME Bad # {} PROVE FALSE
  <2>1. N \in 0 .. N
    OBVIOUS
  <2> QED
    BY <2>1 DEF Iterates
<1>1. PICK M \in Bad : \A k \in Bad : M <= k
  <2>1. Bad \subseteq Nat
    OBVIOUS
  <2> HIDE DEF Bad
  <2> QED
    BY <2>1, LeastOf
<1>2. M \in 0 .. N /\ ~\E f \in [0 .. M -> V] : Made(f, M)
  BY <1>1
<1>3. M # 0
  <2>1. [n \in 0 .. 0 |-> a] \in [0 .. 0 -> V] /\ Made([n \in 0 .. 0 |-> a], 0)
    OBVIOUS
  <2> QED
    BY <1>2, <2>1
<1>4. M - 1 \in 0 .. N /\ ~(M <= M - 1) /\ M \in 1 .. N
  BY <1>2, <1>3
<1>5. PICK f \in [0 .. M - 1 -> V] : Made(f, M - 1)
  BY <1>1, <1>4
<1> DEFINE h == [n \in 0 .. M |-> IF n = M THEN g[f[M - 1]] ELSE f[n]]
<1>6. h \in [0 .. M -> V]
  <2>1. M - 1 \in 0 .. M - 1 /\ \A n \in 0 .. M : n = M \/ n \in 0 .. M - 1
    BY <1>2, <1>4
  <2>2. g[f[M - 1]] \in V
    BY <2>1
  <2> QED
    BY <2>1, <2>2
<1>7. h[0] = a
  BY <1>2, <1>3, <1>5
<1>8. ASSUME NEW n \in 1 .. M PROVE h[n] = g[h[n - 1]]
  <2>1. n \in 0 .. M /\ n - 1 \in 0 .. M /\ n - 1 # M
    BY <1>2
  <2>2. h[n - 1] = f[n - 1]
    BY <2>1
  <2>3. CASE n = M
    BY <2>1, <2>2, <2>3
  <2>4. CASE n # M
    <3>1. n \in 1 .. M - 1 /\ h[n] = f[n]
      BY <1>2, <2>1, <2>4
    <3>2. f[n] = g[f[n - 1]]
      BY <1>5, <3>1
    <3> QED
      BY <2>2, <3>1, <3>2
  <2> QED
    BY <2>3, <2>4
<1> HIDE DEF h
<1> QED
  BY <1>2, <1>6, <1>7, <1>8

-----------------------------------------------------------------------------
(* The levels below the inode that is walked from. *)

Down(S) == UNION {{tree.entry[d][n] : n \in DOMAIN tree.entry[d]} :
                    d \in {d \in S : IsDirectory(tree, d)}}

LEMMA DownFacts ==
  ASSUME Arguments, NEW S \in SUBSET Nodes
  PROVE  /\ Down(S) \in SUBSET Nodes
         /\ \A e : e \in Down(S) <=> \E d \in S : \E n \in Names :
                                       Has(tree, d, n) /\ e = tree.entry[d][n]
<1>1. \A d \in S : \A n : Has(tree, d, n) => tree.entry[d][n] \in Nodes /\ n \in Names
  BY EntryFacts
<1>2. \A e : e \in Down(S) <=> \E d \in S : \E n : Has(tree, d, n) /\ e = tree.entry[d][n]
  BY DEF Down, Has
<1> QED
  BY <1>1, <1>2

LEMMA LevelFacts ==
  ASSUME Arguments, current \in Nodes
  PROVE  /\ Level[0] = {current}
         /\ \A k \in 0 .. MaxWalkDepth : Level[k + 1] = Down(Level[k])
         /\ \A k \in 0 .. MaxWalkDepth + 1 : Level[k] \in SUBSET Nodes
<1> DEFINE V == SUBSET Nodes
           g == [S \in V |-> Down(S)]
           N == MaxWalkDepth + 1
<1>1. {current} \in V /\ N \in Nat /\ g \in [V -> V] /\ MaxWalkDepth \in Nat
  BY DownFacts, TreeWalkAssumption
<1>2. PICK f \in [0 .. N -> V] : f[0] = {current} /\ \A k \in 1 .. N : f[k] = g[f[k - 1]]
  <2> DEFINE a == {current}
  <2>1. a \in V
    BY <1>1
  <2>2. N \in Nat
    BY <1>1
  <2>3. g \in [V -> V]
    BY <1>1
  <2> HIDE DEF V, g, N, a
  <2>4. Iterates(g, a, N, V)
    BY <2>1, <2>2, <2>3, Iterated
  <2> QED
    BY <2>4 DEF a, Iterates
<1>3. ASSUME NEW k \in 1 .. N PROVE f[k] = Down(f[k - 1])
  <2>1. k - 1 \in 0 .. N
    BY <1>1
  <2>2. f[k - 1] \in V /\ f[k] = g[f[k - 1]]
    BY <1>2, <2>1
  <2> HIDE DEF V
  <2> QED
    BY <2>2
<1>4. f = [k \in 0 .. N |-> IF k = 0 THEN {current} ELSE Down(f[k - 1])]
  <2>1. f = [k \in 0 .. N |-> f[k]]
    BY <1>2
  <2>2. \A k \in 0 .. N : f[k] = IF k = 0 THEN {current} ELSE Down(f[k - 1])
    BY <1>1, <1>2, <1>3
  <2> HIDE DEF V, N
  <2> QED
    BY <2>1, <2>2
<1> HIDE DEF V, g
<1>5. \E h : h = [k \in 0 .. N |-> IF k = 0 THEN {current} ELSE Down(h[k - 1])]
  BY <1>4
<1>6. Level = [k \in 0 .. N |-> IF k = 0 THEN {current} ELSE Down(Level[k - 1])]
  BY <1>5 DEF Level, Down
<1>7. Level[0] = {current} /\ \A k \in 0 .. MaxWalkDepth : Level[k + 1] = Down(Level[k])
  <2>1. 0 \in 0 .. N
    BY <1>1
  <2>2. Level[0] = {current}
    BY <1>6, <2>1
  <2>3. ASSUME NEW k \in 0 .. MaxWalkDepth PROVE Level[k + 1] = Down(Level[k])
    <3>1. k + 1 \in 0 .. N /\ k + 1 # 0 /\ (k + 1) - 1 = k
      BY <1>1
    <3> DEFINE m == k + 1
    <3>2. m \in 0 .. N /\ m # 0 /\ m - 1 = k
      BY <3>1
    <3> HIDE DEF m, N
    <3>3. Level[m] = Down(Level[m - 1])
      BY <1>6, <3>2
    <3> QED
      BY <3>2, <3>3 DEF m
  <2> QED
    BY <2>2, <2>3
<1>8. ASSUME NEW k \in 0 .. N PROVE Level[k] \in SUBSET Nodes
  <2>1. Level = f
    <3> DEFINE Bad == {n \in Nat : n \in 0 .. N /\ Level[n] # f[n]}
    <3>1. Bad = {}
      <4> SUFFICES ASSUME Bad # {} PROVE FALSE
        OBVIOUS
      <4>1. PICK n \in Bad : \A y \in Bad : n <= y
        <5>1. Bad \subseteq Nat
          OBVIOUS
        <5> HIDE DEF Bad
        <5> QED
          BY <5>1, LeastOf
      <4>2. n \in 0 .. N /\ Level[n] # f[n]
        BY <4>1
      <4>3. n # 0
        BY <1>2, <1>7, <4>2
      <4>4. n - 1 \in 0 .. MaxWalkDepth /\ n \in 1 .. N /\ n - 1 \in Nat
            /\ ~(n <= n - 1) /\ (n - 1) + 1 = n /\ n - 1 \in 0 .. N
        BY <1>1, <4>2, <4>3
      <4>5. Level[n - 1] = f[n - 1]
        <5>1. n - 1 \notin Bad
          <6> HIDE DEF Bad
          <6> QED
            BY <4>1, <4>4
        <5> HIDE DEF N
        <5> QED
          BY <4>4, <5>1
      <4>6. Level[n] = Down(Level[n - 1])
        BY <1>7, <4>4
      <4> QED
        BY <1>3, <4>2, <4>4, <4>5, <4>6
    <3>2. \A n \in 0 .. N : Level[n] = f[n]
      BY <1>1, <3>1
    <3>3. Level = [n \in 0 .. N |-> Level[n]]
      BY <1>6
    <3> HIDE DEF N
    <3> QED
      BY <1>2, <3>2, <3>3
  <2> QED
    BY <1>2, <2>1 DEF V
<1> QED
  BY <1>7, <1>8

-----------------------------------------------------------------------------
(* The children of a directory, in the order in which they are queued. *)

Visits == [inode : Nodes, path : Seq(Names), depth : Nat]

LEMMA Enumerated ==
  ASSUME NEW S, IsFiniteSet(S)
  PROVE  /\ Cardinality(S) \in Nat
         /\ SetToSeq(S) \in [1 .. Cardinality(S) -> S]
         /\ \A j, k \in 1 .. Cardinality(S) : SetToSeq(S)[j] = SetToSeq(S)[k] => j = k
         /\ \A x \in S : \E k \in 1 .. Cardinality(S) : SetToSeq(S)[k] = x
<1> DEFINE c == Cardinality(S)
           q == SetToSeq(S)
<1>1. c \in Nat /\ ExistsBijection(1 .. c, S)
  BY FS_CardinalityType
<1>2. \E f \in [1 .. c -> S] : IsInjective(f)
  BY <1>1 DEF ExistsBijection, Bijection, Injection
<1>3. q \in [1 .. c -> S] /\ IsInjective(q)
  BY <1>2 DEF SetToSeq
<1>4. Cardinality(1 .. c) = c
  <2>1. 1 \in Int /\ c \in Int
    BY <1>1
  <2> HIDE DEF c
  <2>2. Cardinality(1 .. c) = IF 1 > c THEN 0 ELSE c - 1 + 1
    BY <2>1, FS_Interval
  <2> QED
    BY <1>1, <2>2
<1>5. q \in Injection(1 .. c, S)
  BY <1>3 DEF Injection
<1>6. q \in Surjection(1 .. c, S)
  <2> DEFINE D == 1 .. c
  <2>1. q \in Injection(D, S) /\ Cardinality(D) = Cardinality(S)
    BY <1>4, <1>5
  <2> HIDE DEF D, q, c
  <2>2. q \in Surjection(D, S)
    BY <2>1, FS_Injection
  <2> QED
    BY <2>2 DEF D
<1> HIDE DEF q, c
<1>7. \A x \in S : \E k \in 1 .. c : q[k] = x
  BY <1>6 DEF Surjection
<1>8. \A j, k \in 1 .. c : q[j] = q[k] => j = k
  BY <1>3 DEF IsInjective
<1> QED
  BY <1>1, <1>3, <1>7, <1>8 DEF q, c

\* The names in a directory are among the entries that the limit counts.
LEMMA NamesFinite ==
  ASSUME Arguments, NEW i \in Nodes, IsDirectory(tree, i)
  PROVE  IsFiniteSet(DOMAIN tree.entry[i])
<1> DEFINE S == DOMAIN tree.entry[i]
           T == EntriesIn(tree)
           f == [n \in S |-> <<i, n>>]
<1>1. IsFiniteSet(T)
  BY TreeWalkAssumption DEF Arguments
<1>2. \A n \in S : <<i, n>> \in T
  <2>1. \A n \in S : Has(tree, i, n) /\ n \in Names
    BY EntryFacts DEF Has
  <2> QED
    BY <2>1 DEF EntriesIn, Component
<1>3. f \in [S -> T]
  BY <1>2
<1>4. \A m, n \in S : f[m] = f[n] => m = n
  OBVIOUS
<1>5. f \in Injection(S, T)
  <2> HIDE DEF S, T, f
  <2> QED
    BY <1>3, <1>4 DEF Injection, IsInjective
<1> HIDE DEF S, T, f
<1> QED
  BY <1>1, <1>5, FS_Injection DEF S

LEMMA ChildFacts ==
  ASSUME Arguments, NEW v \in Visits, NEW n, Has(tree, v.inode, n)
  PROVE  /\ Child(v, n) \in Visits /\ n \in Names
         /\ Child(v, n).inode = tree.entry[v.inode][n]
         /\ Child(v, n).path = Append(v.path, n)
         /\ Child(v, n).depth = v.depth + 1
<1>1. v.inode \in Nodes /\ v.path \in Seq(Names) /\ v.depth \in Nat
  BY DEF Visits
<1>2. tree.entry[v.inode][n] \in Nodes /\ n \in Names
  BY <1>1, EntryFacts
<1>3. Append(v.path, n) \in Seq(Names) /\ v.depth + 1 \in Nat
  BY <1>1, <1>2, AppendProperties
<1> QED
  BY <1>2, <1>3 DEF Child, ChildPath, Visit, Visits

\* Children has one visit for every name.
IsListed(v, q) ==
  /\ q \in Seq(Visits)
  /\ \A k \in 1 .. Len(q) : \E n \in Names : Has(tree, v.inode, n) /\ q[k] = Child(v, n)
  /\ \A n \in Names : Has(tree, v.inode, n) => \E k \in 1 .. Len(q) : q[k] = Child(v, n)
  /\ \A j, k \in 1 .. Len(q) : q[j].path = q[k].path => j = k

LEMMA ChildrenListed ==
  ASSUME Arguments, NEW v \in Visits, IsDirectory(tree, v.inode)
  PROVE  IsListed(v, Children(v))
<1> DEFINE S == DOMAIN tree.entry[v.inode]
           c == Cardinality(S)
           names == SetToSeq(S)
           q == Children(v)
<1>1. v.inode \in Nodes /\ v.path \in Seq(Names)
  BY DEF Visits
<1>2. IsFiniteSet(S)
  BY <1>1, NamesFinite
<1>3. /\ c \in Nat /\ names \in [1 .. c -> S]
      /\ \A j, k \in 1 .. c : names[j] = names[k] => j = k
      /\ \A x \in S : \E k \in 1 .. c : names[k] = x
  BY <1>2, Enumerated
<1>4. \A n : n \in S <=> Has(tree, v.inode, n)
  BY DEF Has
<1>5. Len(names) = c
  <2> HIDE DEF names, c, S
  <2>1. names \in Seq(S)
    BY <1>3
  <2> QED
    BY <1>3
<1>6. q = [k \in 1 .. c |-> Child(v, names[k])]
  BY <1>5 DEF Children
<1> HIDE DEF S, c, names, q
<1>7. \A k \in 1 .. c : /\ Has(tree, v.inode, names[k]) /\ names[k] \in Names
                        /\ Child(v, names[k]) \in Visits
                        /\ Child(v, names[k]).path = Append(v.path, names[k])
  BY <1>3, <1>4, ChildFacts
<1>8. q \in Seq(Visits) /\ Len(q) = c /\ \A k \in 1 .. c : q[k] = Child(v, names[k])
  BY <1>3, <1>6, <1>7
<1>9. ASSUME NEW j \in 1 .. c, NEW k \in 1 .. c, q[j].path = q[k].path
      PROVE  j = k
  <2>1. Append(v.path, names[j]) = Append(v.path, names[k])
    BY <1>7, <1>8, <1>9
  <2>2. names[j] \in Names /\ names[k] \in Names
    BY <1>7
  <2>3. names[j] = names[k]
    BY <1>1, <2>1, <2>2, AppendInjective
  <2> QED
    BY <1>3, <2>3
<1>10. ASSUME NEW n \in Names, Has(tree, v.inode, n)
       PROVE  \E k \in 1 .. Len(q) : q[k] = Child(v, n)
  <2>1. PICK k \in 1 .. c : names[k] = n
    BY <1>3, <1>4, <1>10
  <2> QED
    BY <1>8, <2>1
<1>11. \A k \in 1 .. Len(q) : \E n \in Names : Has(tree, v.inode, n) /\ q[k] = Child(v, n)
  BY <1>7, <1>8
<1>12. \A j, k \in 1 .. Len(q) : q[j].path = q[k].path => j = k
  BY <1>8, <1>9
<1> QED
  BY <1>8, <1>10, <1>11, <1>12 DEF IsListed, q

-----------------------------------------------------------------------------
(* The visits in the order in which they are queued, of which the first o  *)
(* have been made.                                                         *)

Placed == Arguments /\ current \in Nodes /\ canonical \in Seq(Names) /\ CanonicalLeadsHere

Top == Visit(current, canonical, 0)

\* No path is queued twice.
Distinct(s) == \A j, k \in 1 .. Len(s) : s[j].path = s[k].path => j = k

\* Every visit but the first is a child of one that was made.
HasParent(s, o, k) ==
  \E j \in 1 .. o : \E n \in Names :
    j < k /\ Has(tree, s[j].inode, n) /\ s[k] = Child(s[j], n)

\* What was visited has its children queued after it.
HasChild(s, j, n) == \E k \in 1 .. Len(s) : j < k /\ s[k] = Child(s[j], n)

\* A visit is where its path leads, on the level of its depth.
IsThere(v) ==
  /\ Spells(Root, v.path, v.inode) /\ v.depth <= MaxWalkDepth + 1
  /\ v.inode \in Level[v.depth] /\ Len(v.path) = Len(canonical) + v.depth

Good(s, o) ==
  /\ s \in Seq(Visits) /\ Len(s) # 0 /\ o \in 0 .. Len(s)
  /\ s[1] = Top /\ Distinct(s)
  /\ \A k \in 2 .. Len(s) : HasParent(s, o, k)
  /\ \A j \in 1 .. o : \A n \in Names : Has(tree, s[j].inode, n) => HasChild(s, j, n)
  /\ \A k \in 1 .. Len(s) : IsThere(s[k])
  /\ \A j \in 1 .. o : s[j].depth <= MaxWalkDepth

LEMMA VisitFacts ==
  ASSUME NEW s \in Seq(Visits), NEW k \in 1 .. Len(s)
  PROVE  /\ s[k] \in Visits /\ s[k].inode \in Nodes
         /\ s[k].path \in Seq(Names) /\ s[k].depth \in Nat
<1>1. s[k] \in Visits
  OBVIOUS
<1> QED
  BY <1>1 DEF Visits

LEMMA TopFacts ==
  ASSUME Placed
  PROVE  /\ Top \in Visits /\ Top.inode = current /\ Top.path = canonical /\ Top.depth = 0
         /\ IsThere(Top)
<1>1. /\ Top \in Visits /\ Top.inode = current /\ Top.path = canonical /\ Top.depth = 0
  BY DEF Placed, Top, Visit, Visits
<1>2. Spells(Root, canonical, current)
  BY DEF Placed, CanonicalLeadsHere, Trail, Spells, SpeltBy
<1>3. Level[0] = {current} /\ MaxWalkDepth \in Nat
  BY LevelFacts, TreeWalkAssumption DEF Placed
<1>4. Len(canonical) \in Nat
  BY DEF Placed
<1> QED
  BY <1>1, <1>2, <1>3, <1>4 DEF IsThere

LEMMA GoodFirst ==
  ASSUME Placed
  PROVE  Good(<<Top>>, 0)
<1> DEFINE s == <<Top>>
<1>1. s \in Seq(Visits) /\ Len(s) = 1 /\ s[1] = Top
  BY TopFacts
<1> HIDE DEF s
<1>2. \A k \in 1 .. Len(s) : k = 1 /\ s[k] = Top
  BY <1>1
<1>3. Distinct(s)
  BY <1>2 DEF Distinct
<1> QED
  BY <1>1, <1>2, <1>3, TopFacts DEF Good, s

\* What a child of a visit is on its level.
LEMMA ChildIsThere ==
  ASSUME Placed, NEW v \in Visits, IsThere(v), v.depth <= MaxWalkDepth,
         NEW n \in Names, Has(tree, v.inode, n)
  PROVE  IsThere(Child(v, n))
<1> DEFINE u == Child(v, n)
<1>1. /\ u \in Visits /\ u.inode = tree.entry[v.inode][n]
      /\ u.path = Append(v.path, n) /\ u.depth = v.depth + 1
  BY ChildFacts DEF Placed
<1> HIDE DEF u
<1>2. /\ v.inode \in Nodes /\ v.path \in Seq(Names) /\ v.depth \in 0 .. MaxWalkDepth
      /\ MaxWalkDepth \in Nat /\ Len(canonical) \in Nat
  BY TreeWalkAssumption DEF Visits, Placed
<1>3. Spells(Root, u.path, u.inode)
  BY <1>1, <1>2, SpellsMore DEF Placed, IsThere
<1>4. Len(u.path) = Len(canonical) + u.depth
  BY <1>1, <1>2, AppendProperties DEF IsThere
<1>5. u.inode \in Level[u.depth]
  <2>1. Level[v.depth + 1] = Down(Level[v.depth]) /\ Level[v.depth] \in SUBSET Nodes
    BY <1>2, LevelFacts DEF Placed
  <2>2. v.inode \in Level[v.depth]
    BY DEF IsThere
  <2>3. u.inode \in Down(Level[v.depth])
    BY <1>1, <2>1, <2>2, DownFacts DEF Placed
  <2> QED
    BY <1>1, <2>1, <2>3
<1> QED
  BY <1>1, <1>2, <1>3, <1>4, <1>5 DEF IsThere, u

\* A path that ends in a name of the visit that is next is not queued yet.
LEMMA NotYetQueued ==
  ASSUME Placed, NEW s, NEW o, Good(s, o), o < Len(s), NEW n \in Names,
         NEW j \in 1 .. Len(s)
  PROVE  s[j].path # Append(s[o + 1].path, n)
<1> DEFINE v == s[o + 1]
<1>1. s \in Seq(Visits) /\ o + 1 \in 1 .. Len(s) /\ o \in Nat /\ Len(s) \in Nat
  BY DEF Good
<1>2. v.path \in Seq(Names) /\ v.depth \in Nat /\ Len(canonical) \in Nat
      /\ Len(v.path) = Len(canonical) + v.depth
  BY <1>1, VisitFacts DEF Good, IsThere, Placed
<1>3. CASE j = 1
  <2>1. s[j].path = canonical
    BY <1>3, TopFacts DEF Good
  <2>2. Len(Append(v.path, n)) = Len(v.path) + 1
    BY <1>2, AppendProperties
  <2> QED
    BY <1>2, <2>1, <2>2
<1>4. CASE j # 1
  <2>1. PICK i \in 1 .. o, m \in Names :
          i < j /\ Has(tree, s[i].inode, m) /\ s[j] = Child(s[i], m)
    <3>1. j \in 2 .. Len(s)
      BY <1>4
    <3> QED
      BY <3>1 DEF Good, HasParent
  <2>2. i \in 1 .. Len(s) /\ i # o + 1
    BY <1>1
  <2>3. s[i] \in Visits /\ s[i].path \in Seq(Names)
    BY <1>1, <2>2, VisitFacts
  <2>4. s[j].path = Append(s[i].path, m)
    BY <2>1, <2>3, ChildFacts DEF Placed
  <2>5. s[i].path # v.path
    BY <1>1, <2>2 DEF Good, Distinct
  <2> DEFINE a == s[i].path
             b == v.path
  <2>6. a \in Seq(Names) /\ b \in Seq(Names) /\ a # b
    BY <1>2, <2>3, <2>5
  <2> HIDE DEF a, b
  <2>7. Append(a, m) # Append(b, n)
    BY <2>6, AppendInjective
  <2> QED
    BY <2>4, <2>7 DEF a, b
<1> QED
  BY <1>3, <1>4

\* The next visit is made: its children are queued.
LEMMA GoodAdvances ==
  ASSUME Placed, NEW s, NEW o, Good(s, o), o < Len(s), s[o + 1].depth <= MaxWalkDepth,
         NEW q, IsListed(s[o + 1], q)
  PROVE  Good(s \o q, o + 1)
<1> DEFINE v == s[o + 1]
           r == s \o q
           l == Len(s)
           c == Len(q)
<1>1. /\ s \in Seq(Visits) /\ q \in Seq(Visits) /\ l \in Nat /\ l # 0 /\ c \in Nat
      /\ o \in Nat /\ o + 1 \in 1 .. l /\ o < l
  BY DEF Good, IsListed
<1>2. /\ r \in Seq(Visits) /\ Len(r) = l + c
      /\ \A k \in 1 .. l : r[k] = s[k]
      /\ \A m \in 1 .. c : r[l + m] = q[m]
  <2>1. /\ r \in Seq(Visits) /\ Len(r) = l + c
        /\ \A k \in 1 .. l + c : r[k] = IF k <= l THEN s[k] ELSE q[k - l]
    BY <1>1, ConcatProperties
  <2> HIDE DEF r, l, c
  <2>2. \A k \in 1 .. l : k \in 1 .. l + c /\ k <= l
    BY <1>1
  <2>3. \A m \in 1 .. c : l + m \in 1 .. l + c /\ ~(l + m <= l) /\ (l + m) - l = m
    BY <1>1
  <2> QED
    BY <2>1, <2>2, <2>3
<1>3. v \in Visits /\ IsThere(v) /\ v.depth <= MaxWalkDepth
  BY <1>1, VisitFacts DEF Good
<1>4. ASSUME NEW m \in 1 .. c
      PROVE  \E n \in Names : Has(tree, v.inode, n) /\ q[m] = Child(v, n)
                              /\ q[m].path = Append(v.path, n) /\ IsThere(q[m])
  <2>1. PICK n \in Names : Has(tree, v.inode, n) /\ q[m] = Child(v, n)
    BY DEF IsListed
  <2> HIDE DEF v
  <2>2. Child(v, n).path = Append(v.path, n)
    BY <1>3, <2>1, ChildFacts DEF Placed
  <2>3. IsThere(Child(v, n))
    BY <1>3, <2>1, ChildIsThere
  <2> QED
    BY <2>1, <2>2, <2>3
<1> HIDE DEF r
<1>5. ASSUME NEW k \in 1 .. l + c
      PROVE  k \in 1 .. l \/ \E m \in 1 .. c : k = l + m
  <2> DEFINE m == k - l
  <2>1. k = l + m /\ (k \in 1 .. l \/ m \in 1 .. c)
    BY <1>1
  <2> HIDE DEF m, l, c
  <2> QED
    BY <2>1
<1>6. r[1] = Top
  BY <1>1, <1>2 DEF Good
<1>7. Distinct(r)
  <2>1. ASSUME NEW j \in 1 .. l, NEW m \in 1 .. c PROVE r[j].path # r[l + m].path
    <3>1. PICK n \in Names : q[m].path = Append(v.path, n)
      BY <1>4
    <3>2. s[j].path # Append(v.path, n)
      BY NotYetQueued
    <3> QED
      BY <1>2, <3>1, <3>2
  <2>2. ASSUME NEW j \in 1 .. l, NEW k \in 1 .. l, r[j].path = r[k].path PROVE j = k
    BY <1>2, <2>2 DEF Good, Distinct
  <2>3. ASSUME NEW j \in 1 .. c, NEW k \in 1 .. c, r[l + j].path = r[l + k].path
        PROVE  j = k
    BY <1>2, <2>3 DEF IsListed
  <2> SUFFICES ASSUME NEW j \in 1 .. l + c, NEW k \in 1 .. l + c, r[j].path = r[k].path
               PROVE  j = k
    BY <1>2 DEF Distinct
  <2> HIDE DEF l, c, v
  <2> QED
    BY <1>5, <2>1, <2>2, <2>3
<1>8. ASSUME NEW k \in 2 .. l + c PROVE HasParent(r, o + 1, k)
  <2>1. CASE k \in 1 .. l
    <3>1. PICK j \in 1 .. o, n \in Names :
            j < k /\ Has(tree, s[j].inode, n) /\ s[k] = Child(s[j], n)
      BY <2>1 DEF Good, HasParent
    <3>2. j \in 1 .. o + 1 /\ r[j] = s[j] /\ r[k] = s[k]
      BY <1>1, <1>2, <2>1
    <3> QED
      BY <3>1, <3>2 DEF HasParent
  <2>2. CASE k \notin 1 .. l
    <3>1. PICK m \in 1 .. c : k = l + m
      BY <1>5, <2>2
    <3>2. PICK n \in Names : Has(tree, v.inode, n) /\ q[m] = Child(v, n)
      BY <1>4
    <3>3. r[o + 1] = v /\ r[k] = q[m] /\ o + 1 < k /\ o + 1 \in 1 .. o + 1
      BY <1>1, <1>2, <3>1
    <3> HIDE DEF v, l, c
    <3> QED
      BY <3>2, <3>3 DEF HasParent
  <2> QED
    BY <2>1, <2>2
<1>9. ASSUME NEW j \in 1 .. o + 1, NEW n \in Names, Has(tree, r[j].inode, n)
      PROVE  HasChild(r, j, n)
  <2>1. j \in 1 .. l /\ r[j] = s[j]
    BY <1>1, <1>2
  <2>2. CASE j \in 1 .. o
    <3>1. PICK k \in 1 .. l : j < k /\ s[k] = Child(s[j], n)
      BY <1>9, <2>1, <2>2 DEF Good, HasChild
    <3>2. k \in 1 .. Len(r) /\ r[k] = s[k]
      BY <1>1, <1>2
    <3> QED
      BY <2>1, <3>1, <3>2 DEF HasChild
  <2>3. CASE j \notin 1 .. o
    <3>1. j = o + 1
      BY <1>1, <2>3
    <3>2. PICK m \in 1 .. c : q[m] = Child(v, n)
      BY <1>9, <2>1, <3>1 DEF IsListed
    <3>3. l + m \in 1 .. Len(r) /\ r[l + m] = q[m] /\ j < l + m
      BY <1>1, <1>2, <3>1
    <3>4. r[j] = v
      BY <2>1, <3>1
    <3> HIDE DEF v, l, c
    <3> QED
      BY <3>2, <3>3, <3>4 DEF HasChild
  <2> QED
    BY <2>2, <2>3
<1>10. ASSUME NEW k \in 1 .. l + c PROVE IsThere(r[k])
  <2>1. CASE k \in 1 .. l
    BY <1>2, <2>1 DEF Good
  <2>2. CASE k \notin 1 .. l
    <3>1. PICK m \in 1 .. c : k = l + m
      BY <1>5, <2>2
    <3>2. r[k] = q[m]
      BY <1>2, <3>1
    <3> QED
      BY <1>4, <3>2
  <2> QED
    BY <2>1, <2>2
<1>11. ASSUME NEW j \in 1 .. o + 1 PROVE r[j].depth <= MaxWalkDepth
  <2>1. j \in 1 .. l /\ r[j] = s[j] /\ (j \in 1 .. o \/ j = o + 1)
    BY <1>1, <1>2
  <2> QED
    BY <1>3, <2>1 DEF Good
<1>12. Len(r) # 0 /\ o + 1 \in 0 .. Len(r) /\ Len(r) = l + c
  BY <1>1, <1>2
<1> HIDE DEF v, l, c
<1> QED
  BY <1>2, <1>6, <1>7, <1>8, <1>9, <1>10, <1>11, <1>12 DEF Good, r

\* A directory is queued once.
LEMMA DirectoriesOnce ==
  ASSUME Placed, NEW s, NEW o, Good(s, o), NEW j \in 1 .. Len(s), NEW k \in 1 .. Len(s),
         s[j].inode = s[k].inode, IsDirectory(tree, s[j].inode)
  PROVE  j = k
<1>1. /\ s[j].path \in Seq(Names) /\ s[k].path \in Seq(Names) /\ s[j].inode \in Nodes
      /\ Spells(Root, s[j].path, s[j].inode) /\ Spells(Root, s[k].path, s[j].inode)
  BY VisitFacts DEF Good, IsThere
<1>2. s[j].path = s[k].path
  BY <1>1, OnePlace DEF Placed
<1> QED
  BY <1>2 DEF Good, Distinct

\* Every visit has an entry of its own, so there are no more than the limit.
LEMMA NotTooMany ==
  ASSUME Placed, NEW s, NEW o, Good(s, o)
  PROVE  Len(s) <= MaxEntries
<1> DEFINE T == EntriesIn(tree)
           D == 1 .. Len(s)
           IsEdge(e, k) == \E j \in D : \E n \in Names :
                             /\ Has(tree, s[j].inode, n) /\ e = <<s[j].inode, n>>
                             /\ s[k] = Child(s[j], n)
           f == [k \in D |-> IF k = 1 THEN <<Root, ".">> ELSE CHOOSE e \in T : IsEdge(e, k)]
<1>1. s \in Seq(Visits) /\ Len(s) \in Nat /\ o \in 0 .. Len(s)
  BY DEF Good
<1>2. IsFiniteSet(T) /\ Cardinality(T) <= MaxEntries /\ MaxEntries \in Nat
  BY TreeWalkAssumption DEF Placed, Arguments
<1>3. <<Root, ".">> \in T
  BY UpFacts DEF Placed, EntriesIn, Component
<1>4. ASSUME NEW k \in D, k # 1 PROVE f[k] \in T /\ IsEdge(f[k], k)
  <2>1. PICK j \in 1 .. o, n \in Names : Has(tree, s[j].inode, n) /\ s[k] = Child(s[j], n)
    <3>1. k \in 2 .. Len(s)
      BY <1>4
    <3> QED
      BY <3>1 DEF Good, HasParent
  <2>2. j \in D /\ s[j].inode \in Nodes
    BY <1>1, VisitFacts
  <2>3. <<s[j].inode, n>> \in T
    BY <2>1, <2>2 DEF EntriesIn, Component, Has
  <2>4. IsEdge(<<s[j].inode, n>>, k)
    BY <2>1, <2>2
  <2> HIDE DEF T, IsEdge
  <2> QED
    BY <1>4, <2>3, <2>4
<1>5. f \in [D -> T]
  <2>1. \A k \in D : f[k] \in T
    BY <1>3, <1>4
  <2>2. f = [k \in D |-> f[k]]
    OBVIOUS
  <2> HIDE DEF f, T, D
  <2> QED
    BY <2>1, <2>2
<1>6. f[1] = <<Root, ".">>
  <2>1. 1 \in D
    BY <1>1 DEF Good
  <2> QED
    BY <2>1
<1> HIDE DEF f
<1>7. ASSUME NEW j \in D, NEW k \in D, f[j] = f[k] PROVE j = k
  <2>1. ASSUME NEW m \in D, m # 1 PROVE f[m] # <<Root, ".">>
    <3>1. PICK i \in D, n \in Names : f[m] = <<s[i].inode, n>>
      BY <1>4, <2>1
    <3>2. n # "."
      BY NameFacts
    <3> QED
      BY <3>1, <3>2
  <2>2. CASE j = 1 \/ k = 1
    BY <1>6, <1>7, <2>1, <2>2
  <2>3. CASE j # 1 /\ k # 1
    <3>1. PICK a \in D, m \in Names : /\ Has(tree, s[a].inode, m) /\ f[j] = <<s[a].inode, m>>
                                      /\ s[j] = Child(s[a], m)
      BY <1>4, <2>3
    <3>2. PICK b \in D, n \in Names : /\ Has(tree, s[b].inode, n) /\ f[k] = <<s[b].inode, n>>
                                      /\ s[k] = Child(s[b], n)
      BY <1>4, <2>3
    <3>3. s[a].inode = s[b].inode /\ m = n
      <4> DEFINE x == s[a].inode
                 y == s[b].inode
      <4>1. <<x, m>> = <<y, n>>
        BY <1>7, <3>1, <3>2
      <4> HIDE DEF x, y
      <4>2. x = y /\ m = n
        BY <4>1
      <4> QED
        BY <4>2 DEF x, y
    <3>4. a = b
      BY <3>1, <3>3, DirectoriesOnce DEF Has
    <3>5. s[j].path = s[k].path
      BY <3>1, <3>2, <3>3, <3>4
    <3> QED
      BY <3>5 DEF Good, Distinct
  <2> QED
    BY <2>2, <2>3
<1>8. f \in Injection(D, T)
  <2> HIDE DEF D, T
  <2> QED
    BY <1>5, <1>7 DEF Injection, IsInjective
<1>9. Cardinality(D) <= Cardinality(T)
  <2> HIDE DEF D, T
  <2> QED
    BY <1>2, <1>8, FS_Injection
<1>10. Cardinality(D) = Len(s)
  <2> DEFINE l == Len(s)
  <2>1. 1 \in Int /\ l \in Int
    BY <1>1
  <2>2. D = 1 .. l
    OBVIOUS
  <2> HIDE DEF l, D
  <2>3. Cardinality(1 .. l) = IF 1 > l THEN 0 ELSE l - 1 + 1
    BY <2>1, FS_Interval
  <2> QED
    BY <1>1, <2>2, <2>3 DEF l
<1>11. Cardinality(T) \in Nat
  <2> HIDE DEF T
  <2> QED
    BY <1>2, FS_CardinalityType
<1> HIDE DEF T, D
<1> QED
  BY <1>1, <1>2, <1>9, <1>10, <1>11

\* When all visits are made, every level was reached.
LEMMA LevelsReached ==
  ASSUME Placed, NEW s, Good(s, Len(s))
  PROVE  \A l \in 0 .. MaxWalkDepth + 1 : \A i \in Level[l] :
           \E k \in 1 .. Len(s) : s[k].inode = i /\ s[k].depth = l
<1> DEFINE N == MaxWalkDepth + 1
           Reached(l, i) == \E k \in 1 .. Len(s) : s[k].inode = i /\ s[k].depth = l
           Bad == {l \in Nat : l \in 0 .. N /\ \E i \in Level[l] : ~Reached(l, i)}
<1>0. MaxWalkDepth \in Nat /\ N \in Nat /\ Len(s) \in Nat /\ s \in Seq(Visits)
      /\ Len(s) # 0
  BY TreeWalkAssumption DEF Good
<1>1. ASSUME Bad # {} PROVE FALSE
  <2>1. PICK l \in Bad : \A y \in Bad : l <= y
    <3>1. Bad \subseteq Nat
      OBVIOUS
    <3> HIDE DEF Bad
    <3> QED
      BY <1>1, <3>1, LeastOf
  <2>2. PICK i \in Level[l] : l \in 0 .. N /\ ~Reached(l, i)
    BY <2>1
  <2>3. l # 0
    <3> SUFFICES ASSUME l = 0 PROVE FALSE
      OBVIOUS
    <3>1. i = current
      BY <2>2, LevelFacts DEF Placed
    <3>2. s[1].inode = current /\ s[1].depth = 0 /\ 1 \in 1 .. Len(s)
      BY <1>0, TopFacts DEF Good
    <3> QED
      BY <2>2, <3>1, <3>2
  <2> DEFINE m == l - 1
  <2>4. /\ m \in 0 .. MaxWalkDepth /\ m \in 0 .. N /\ m \in Nat /\ ~(l <= m) /\ l = m + 1
    BY <1>0, <2>2, <2>3
  <2> HIDE DEF m
  <2>5. m \notin Bad
    <3> HIDE DEF Bad
    <3> QED
      BY <2>1, <2>4
  <2>6. Level[m + 1] = Down(Level[m]) /\ Level[m] \in SUBSET Nodes
    <3>1. m \in 0 .. MaxWalkDepth + 1
      BY <2>4
    <3> QED
      BY <2>4, <3>1, LevelFacts DEF Placed
  <2>7. PICK d \in Level[m], n \in Names : Has(tree, d, n) /\ i = tree.entry[d][n]
    <3>1. i \in Down(Level[m])
      BY <2>2, <2>4, <2>6
    <3> QED
      BY <2>6, <3>1, DownFacts DEF Placed
  <2>8. PICK j \in 1 .. Len(s) : s[j].inode = d /\ s[j].depth = m
    BY <2>4, <2>5
  <2>9. PICK k \in 1 .. Len(s) : s[k] = Child(s[j], n)
    BY <2>7, <2>8 DEF Good, HasChild
  <2>10. s[k].inode = i /\ s[k].depth = m + 1
    BY <1>0, <2>7, <2>8, <2>9, VisitFacts, ChildFacts DEF Placed
  <2> QED
    BY <2>2, <2>4, <2>10
<1>2. \A l \in 0 .. N : l \in Nat
  BY <1>0
<1> QED
  BY <1>1, <1>2

-----------------------------------------------------------------------------
(* The loop of walk(). *)

WalkState == [status : {"walking", "done", "too_deep", "too_many", "loop"},
              queue : Seq(Visits), output : Seq(Visits), active : SUBSET Nodes]

\* The directories among the first o visits.
Opened(s, o) == {i \in Nodes : \E j \in 1 .. o : s[j].inode = i /\ IsDirectory(tree, i)}

\* What n turns of the loop have come to.
After(w, n) ==
  /\ w \in WalkState /\ w.status \in {"walking", "done", "too_deep"}
  /\ w.status = "walking" => LET s == w.output \o w.queue IN
       Good(s, n) /\ Len(w.output) = n /\ w.active = Opened(s, n)
  /\ w.status = "done" => Good(w.output, Len(w.output))
  /\ w.status = "too_deep" => w.output = <<>> /\ Level[MaxWalkDepth + 1] # {}

LEMMA WalkStateFacts ==
  ASSUME NEW w \in WalkState
  PROVE  w.queue \in Seq(Visits) /\ w.output \in Seq(Visits) /\ w.active \in SUBSET Nodes
BY DEF WalkState

LEMMA BeginsAfterNone ==
  ASSUME Placed
  PROVE  After(Begin, 0)
<1> DEFINE q == <<Top>>
           o == 0
           s == Begin.output \o Begin.queue
<1>1. /\ Begin.status = "walking" /\ Begin.queue = q /\ Begin.output = <<>>
      /\ Begin.active = {}
  BY DEF Begin, Top
<1>2. q \in Seq(Visits) /\ <<>> \in Seq(Visits) /\ Len(<<>>) = 0
  BY TopFacts
<1>3. Begin \in WalkState
  BY <1>2 DEF Begin, WalkState, Top
<1>4. Good(s, o)
  <2>1. s = q
    BY <1>1, <1>2, ConcatEmptySeq
  <2> QED
    BY <2>1, GoodFirst
<1>5. Opened(s, o) = {}
  BY DEF Opened
<1> HIDE DEF s, o
<1>6. Len(Begin.output) = o /\ Begin.active = Opened(s, o)
  BY <1>1, <1>2, <1>5 DEF o
<1> QED
  BY <1>1, <1>3, <1>4, <1>6 DEF After, s, o

\* The first of b goes to the end of a, and c to the end of what is left of b.
MovesOn(a, b, c) ==
  /\ Append(a, Head(b)) \o (Tail(b) \o c) = (a \o b) \o c
  /\ Len(Append(a, Head(b))) = Len(a) + 1
  /\ Len(a) < Len(a \o b) /\ (a \o b)[Len(a) + 1] = Head(b)

\* What is left to visit, by its first.
LEMMA NextVisit ==
  ASSUME NEW S, NEW a \in Seq(S), NEW b \in Seq(S), b # <<>>, NEW c \in Seq(S)
  PROVE  /\ MovesOn(a, b, c)
         /\ Append(a, Head(b)) \in Seq(S) /\ Tail(b) \o c \in Seq(S)
<1> DEFINE v == Head(b)
           t == Tail(b)
<1>1. v \in S /\ t \in Seq(S) /\ Len(b) \in Nat \ {0} /\ Len(a) \in Nat /\ v = b[1]
  BY TailFacts
<1>2. b = <<v>> \o t
  <2>1. b = SubSeq(b, 1, Len(b)) /\ 1 \in 1 .. Len(b) /\ Len(b) \in 1 .. Len(b)
    BY <1>1, SubSeqFull
  <2>2. SubSeq(b, 1, Len(b)) = <<b[1]>> \o SubSeq(b, 2, Len(b))
    <3> DEFINE one == 1
               n == Len(b)
    <3>1. one \in 1 .. Len(b) /\ n \in one .. Len(b)
      BY <1>1
    <3> HIDE DEF one, n
    <3>2. SubSeq(b, one, n) = <<b[one]>> \o SubSeq(b, one + 1, n)
      BY <3>1, SubSeqRecursiveFirst
    <3> QED
      BY <3>2 DEF one, n
  <2>3. t = SubSeq(b, 2, Len(b))
    BY TailIsSubSeq
  <2> QED
    BY <1>1, <2>1, <2>2, <2>3
<1>3. Append(a, v) = a \o <<v>> /\ <<v>> \in Seq(S)
  BY <1>1, AppendIsConcat
<1> HIDE DEF v, t
<1> DEFINE x == <<v>>
<1>4. x \in Seq(S) /\ b = x \o t /\ Append(a, v) = a \o x
  BY <1>2, <1>3
<1>5. Len(Append(a, v)) = Len(a) + 1 /\ Append(a, v) \in Seq(S)
  BY <1>1, AppendProperties
<1> HIDE DEF x
<1>6. t \o c \in Seq(S) /\ x \o (t \o c) = (x \o t) \o c
  <2>1. x \in Seq(S) /\ t \in Seq(S)
    BY <1>1, <1>4
  <2>2. t \o c \in Seq(S)
    BY <2>1, ConcatProperties
  <2>3. (x \o t) \o c = x \o (t \o c)
    BY <2>1, ConcatAssociative
  <2> QED
    BY <2>2, <2>3
<1>7. (a \o x) \o (t \o c) = a \o (x \o (t \o c))
  <2> DEFINE d == t \o c
  <2>1. x \in Seq(S) /\ d \in Seq(S)
    BY <1>4, <1>6
  <2> HIDE DEF d
  <2>2. (a \o x) \o d = a \o (x \o d)
    BY <2>1, ConcatAssociative, SMTT(60)
  <2> QED
    BY <2>2 DEF d
<1>8. a \o (b \o c) = (a \o b) \o c
  BY ConcatAssociative, SMTT(60)
<1>9. /\ Len(a \o b) = Len(a) + Len(b)
      /\ \A i \in 1 .. Len(a) + Len(b) : (a \o b)[i] = IF i <= Len(a) THEN a[i] ELSE b[i - Len(a)]
  BY ConcatProperties
<1>10. (a \o b)[Len(a) + 1] = v
  <2> DEFINE k == Len(a) + 1
  <2>1. k \in 1 .. Len(a) + Len(b) /\ ~(k <= Len(a)) /\ k - Len(a) = 1
    BY <1>1
  <2> HIDE DEF k
  <2> QED
    BY <1>1, <1>9, <2>1 DEF k
<1>11. Len(a) < Len(a \o b)
  BY <1>1, <1>9
<1> QED
  BY <1>4, <1>5, <1>6, <1>7, <1>8, <1>10, <1>11 DEF v, t, MovesOn

LEMMA OpenedNext ==
  ASSUME NEW s \in Seq(Visits), NEW o \in Nat, o < Len(s), NEW q \in Seq(Visits)
  PROVE  Opened(s \o q, o + 1) =
           IF IsDirectory(tree, s[o + 1].inode) THEN Opened(s, o) \cup {s[o + 1].inode}
           ELSE Opened(s, o)
<1> DEFINE r == s \o q
           v == s[o + 1]
<1>1. o + 1 \in 1 .. Len(s) /\ Len(s) \in Nat
  OBVIOUS
<1>2. \A k \in 1 .. o + 1 : r[k] = s[k]
  <2>1. \A k \in 1 .. Len(s) + Len(q) : r[k] = IF k <= Len(s) THEN s[k] ELSE q[k - Len(s)]
    BY ConcatProperties
  <2>2. \A k \in 1 .. o + 1 : k \in 1 .. Len(s) + Len(q) /\ k <= Len(s)
    BY <1>1
  <2> HIDE DEF r
  <2> QED
    BY <2>1, <2>2
<1>3. v.inode \in Nodes
  BY <1>1, VisitFacts
<1> HIDE DEF r
<1>4. \A k : k \in 1 .. o + 1 <=> k \in 1 .. o \/ k = o + 1
  OBVIOUS
<1>5. \A i : (\E j \in 1 .. o + 1 : r[j].inode = i) <=> (\E j \in 1 .. o : s[j].inode = i) \/ v.inode = i
  BY <1>2, <1>4
<1> HIDE DEF v
<1>6. \A i \in Nodes : i \in Opened(r, o + 1) <=>
        i \in Opened(s, o) \/ (v.inode = i /\ IsDirectory(tree, i))
  BY <1>5 DEF Opened
<1>7. Opened(r, o + 1) \subseteq Nodes /\ Opened(s, o) \subseteq Nodes
  BY DEF Opened
<1> QED
  BY <1>3, <1>6, <1>7 DEF r, v

\* A turn that visits v and queues its children q.
LEMMA VisitMade ==
  ASSUME Placed, NEW n \in Nat, NEW w, After(w, n), w.status = "walking", w.queue # <<>>,
         ~TooDeep(Head(w.queue)), NEW q, IsListed(Head(w.queue), q), NEW x \in WalkState,
         x.status = "walking", x.output = Append(w.output, Head(w.queue)),
         x.queue = Tail(w.queue) \o q,
         x.active = IF IsDirectory(tree, Head(w.queue).inode)
                    THEN w.active \cup {Head(w.queue).inode} ELSE w.active
  PROVE  After(x, n + 1)
<1> DEFINE s == w.output \o w.queue
           v == Head(w.queue)
           r == x.output \o x.queue
<1>1. w.output \in Seq(Visits) /\ w.queue \in Seq(Visits) /\ q \in Seq(Visits)
  BY WalkStateFacts DEF After, IsListed
<1>2. Good(s, n) /\ Len(w.output) = n /\ w.active = Opened(s, n)
  BY DEF After
<1>3. r = s \o q /\ Len(x.output) = n + 1 /\ n < Len(s) /\ s[n + 1] = v
  <2> DEFINE a == w.output
             b == w.queue
  <2>1. a \in Seq(Visits) /\ b \in Seq(Visits) /\ b # <<>> /\ Len(a) = n
    BY <1>1, <1>2
  <2>2. q \in Seq(Visits)
    BY <1>1
  <2>3. r = Append(a, Head(b)) \o (Tail(b) \o q) /\ x.output = Append(a, Head(b))
        /\ s = a \o b /\ v = Head(b)
    OBVIOUS
  <2> HIDE DEF a, b, r, s, v
  <2>4. MovesOn(a, b, q)
    BY <2>1, <2>2, NextVisit
  <2> QED
    BY <2>1, <2>3, <2>4 DEF MovesOn
<1>4. v \in Visits /\ s \in Seq(Visits)
  BY <1>1, TailFacts, ConcatProperties
<1>5. v.depth <= MaxWalkDepth
  BY <1>4, TreeWalkAssumption DEF TooDeep, Visits
<1> HIDE DEF s, v, r
<1>6. Good(r, n + 1)
  <2>1. IsListed(s[n + 1], q) /\ s[n + 1].depth <= MaxWalkDepth
    BY <1>3, <1>5 DEF v
  <2>2. Good(s \o q, n + 1)
    BY <1>2, <1>3, <2>1, GoodAdvances
  <2> QED
    BY <1>3, <2>2
<1>7. x.active = Opened(r, n + 1)
  <2>1. Opened(s \o q, n + 1) =
           IF IsDirectory(tree, s[n + 1].inode) THEN Opened(s, n) \cup {s[n + 1].inode}
           ELSE Opened(s, n)
    BY <1>1, <1>3, <1>4, OpenedNext
  <2> QED
    BY <1>2, <1>3, <2>1 DEF v
<1> QED
  BY <1>3, <1>6, <1>7 DEF After, r

LEMMA PassMade ==
  ASSUME Placed, NEW n \in Nat, NEW w, After(w, n)
  PROVE  After(Pass(w), n + 1)
<1> DEFINE v == Head(w.queue)
           visited == Append(w.output, v)
           next == [w EXCEPT !.queue = Tail(w.queue), !.output = visited]
           s == w.output \o w.queue
<1>1. /\ w \in WalkState /\ w.output \in Seq(Visits) /\ w.queue \in Seq(Visits)
      /\ w.active \in SUBSET Nodes
  BY WalkStateFacts DEF After
<1>2. CASE w.status # "walking"
  <2>1. Pass(w) = w
    BY <1>2 DEF Pass
  <2> QED
    BY <1>2, <2>1 DEF After
<1>3. CASE w.status = "walking" /\ w.queue = <<>>
  <2> DEFINE x == [w EXCEPT !.status = "done"]
  <2>1. Pass(w) = x
    BY <1>3 DEF Pass
  <2>2. x \in WalkState /\ x.status = "done" /\ x.output = w.output
    BY <1>1 DEF WalkState
  <2>3. s = w.output
    BY <1>1, <1>3, ConcatEmptySeq
  <2>4. Good(w.output, Len(w.output))
    BY <1>3, <2>3 DEF After
  <2> HIDE DEF x
  <2> QED
    BY <2>1, <2>2, <2>4 DEF After
<1>4. CASE w.status = "walking" /\ w.queue # <<>>
  <2>1. Good(s, n) /\ Len(w.output) = n /\ w.active = Opened(s, n) /\ s \in Seq(Visits)
    BY <1>4 DEF After, Good
  <2>2. /\ v \in Visits /\ visited \in Seq(Visits) /\ Tail(w.queue) \in Seq(Visits)
        /\ Len(visited) = n + 1 /\ n < Len(s) /\ s[n + 1] = v /\ v.inode \in Nodes
    <3>1. v \in Visits /\ Tail(w.queue) \in Seq(Visits) /\ <<>> \in Seq(Visits)
      BY <1>1, <1>4, TailFacts
    <3>2. /\ visited \in Seq(Visits)
          /\ Len(visited) = n + 1 /\ n < Len(s) /\ s[n + 1] = v
      <4> DEFINE a == w.output
                 b == w.queue
                 c == <<>>
      <4>1. /\ a \in Seq(Visits) /\ b \in Seq(Visits) /\ b # <<>> /\ Len(a) = n
            /\ c \in Seq(Visits)
        BY <1>1, <1>4, <2>1, <3>1
      <4>2. visited = Append(a, Head(b)) /\ s = a \o b /\ v = Head(b)
        OBVIOUS
      <4> HIDE DEF a, b, c, visited, s, v
      <4>3. /\ Append(a, Head(b)) \in Seq(Visits) /\ Len(Append(a, Head(b))) = Len(a) + 1
            /\ Len(a) < Len(a \o b) /\ (a \o b)[Len(a) + 1] = Head(b)
        BY <4>1, NextVisit
      <4> QED
        BY <4>1, <4>2, <4>3
    <3> QED
      BY <3>1, <3>2 DEF Visits
  <2> HIDE DEF s, visited
  <2>3. n + 1 \in 1 .. Len(s) /\ Len(s) \in Nat
    BY <2>1, <2>2
  <2>4. ~(Len(visited) > MaxEntries)
    <3>1. Len(s) <= MaxEntries
      BY <2>1, NotTooMany
    <3> QED
      BY <2>2, <2>3, <3>1, TreeWalkAssumption
  <2>5. IsThere(v) /\ v.depth \in Nat /\ MaxWalkDepth \in Nat
    BY <2>1, <2>2, <2>3, TreeWalkAssumption DEF Good, Visits
  <2>6. /\ next \in WalkState /\ next.status = "walking" /\ next.output = visited
        /\ next.queue = Tail(w.queue) /\ next.active = w.active
    BY <1>1, <1>4, <2>2 DEF WalkState
  <2>7. CASE TooDeep(v)
    <3> DEFINE x == Failed("too_deep")
    <3>1. Pass(w) = x
      BY <1>4, <2>7 DEF Pass
    <3>2. x \in WalkState /\ x.status = "too_deep" /\ x.output = <<>>
      BY EmptySeq DEF Failed, WalkState
    <3>3. v.depth = MaxWalkDepth + 1
      BY <2>5, <2>7 DEF TooDeep, IsThere
    <3>4. v.inode \in Level[MaxWalkDepth + 1]
      BY <2>5, <3>3 DEF IsThere
    <3> HIDE DEF x
    <3> QED
      BY <3>1, <3>2, <3>4 DEF After
  <2>8. CASE ~TooDeep(v) /\ ~IsDirectory(tree, v.inode)
    <3> DEFINE q == <<>>
    <3>1. Pass(w) = next
      BY <1>4, <2>4, <2>8 DEF Pass, visited
    <3>2. IsListed(v, q)
      BY <2>8 DEF IsListed, Has
    <3>3. next.queue = Tail(w.queue) \o q
      BY <2>2, <2>6, ConcatEmptySeq
    <3> HIDE DEF next, q
    <3> QED
      BY <1>4, <2>6, <2>8, <3>1, <3>2, <3>3, VisitMade DEF visited
  <2>9. CASE ~TooDeep(v) /\ IsDirectory(tree, v.inode)
    <3> DEFINE q == Children(v)
               x == [next EXCEPT !.queue = Tail(w.queue) \o Children(v),
                                 !.active = w.active \cup {v.inode}]
    <3>1. v.inode \notin w.active
      <4> SUFFICES ASSUME v.inode \in w.active PROVE FALSE
        OBVIOUS
      <4>1. PICK j \in 1 .. n : s[j].inode = v.inode
        BY <2>1 DEF Opened
      <4>2. j \in 1 .. Len(s) /\ j # n + 1
        BY <2>3
      <4> QED
        BY <2>1, <2>2, <2>3, <2>9, <4>1, <4>2, DirectoriesOnce
    <3>2. Pass(w) = x
      BY <1>4, <2>4, <2>9, <3>1 DEF Pass, visited
    <3>3. IsListed(v, q)
      BY <2>2, <2>9, ChildrenListed DEF Placed
    <3> HIDE DEF q
    <3>4. q \in Seq(Visits)
      BY <3>3 DEF IsListed
    <3>5. Tail(w.queue) \o q \in Seq(Visits)
      BY <2>2, <3>4, ConcatProperties
    <3>6. /\ x \in WalkState /\ x.status = "walking" /\ x.output = visited
          /\ x.queue = Tail(w.queue) \o q /\ x.active = w.active \cup {v.inode}
      <4> DEFINE b == Tail(w.queue) \o q
                 a == w.active \cup {v.inode}
      <4>1. b \in Seq(Visits) /\ a \in SUBSET Nodes
        BY <1>1, <2>2, <3>5
      <4>2. x = [next EXCEPT !.queue = b, !.active = a]
        BY DEF q
      <4> HIDE DEF b, a, x, next
      <4>3. /\ x \in WalkState /\ x.status = next.status /\ x.output = next.output
            /\ x.queue = b /\ x.active = a
        BY <2>6, <4>1, <4>2 DEF WalkState
      <4> QED
        BY <2>6, <4>3 DEF b, a
    <3> HIDE DEF x
    <3> QED
      BY <1>4, <2>9, <3>2, <3>3, <3>6, VisitMade DEF visited
  <2> QED
    BY <2>7, <2>8, <2>9
<1> QED
  BY <1>2, <1>3, <1>4

\* walk() ends, and not by its tests for cycles and for too many entries.
LEMMA WalkEnds ==
  ASSUME Placed
  PROVE  Walk.status # "walking" /\ After(Walk, Passes)
<1> DEFINE V == {w \in WalkState : \E n \in Nat : After(w, n)}
           g == [w \in V |-> Pass(w)]
           N == Passes
<1>1. N \in Nat /\ MaxEntries \in Nat /\ N = MaxEntries + 1
  BY TreeWalkAssumption DEF Passes
<1>2. Begin \in V
  BY BeginsAfterNone DEF After
<1>3. \A w \in V : Pass(w) \in V
  <2> SUFFICES ASSUME NEW w \in WalkState, NEW n \in Nat, After(w, n)
               PROVE  Pass(w) \in V
    OBVIOUS
  <2>1. After(Pass(w), n + 1) /\ n + 1 \in Nat
    BY PassMade
  <2> QED
    BY <2>1 DEF After
<1>4. g \in [V -> V] /\ \A w \in V : g[w] = Pass(w)
  <2> HIDE DEF V
  <2> QED
    BY <1>3
<1>5. PICK f \in [0 .. N -> V] : f[0] = Begin /\ \A k \in 1 .. N : f[k] = g[f[k - 1]]
  <2> DEFINE a == Begin
  <2>1. a \in V
    BY <1>2
  <2>2. N \in Nat
    BY <1>1
  <2> HIDE DEF V, g, N, a
  <2>3. g \in [V -> V]
    BY <1>4
  <2>4. Iterates(g, a, N, V)
    BY <2>1, <2>2, <2>3, Iterated
  <2> QED
    BY <2>4 DEF a, Iterates
<1> HIDE DEF V, g
<1>6. ASSUME NEW k \in 1 .. N PROVE f[k] = Pass(f[k - 1])
  <2>1. k - 1 \in 0 .. N
    BY <1>1
  <2>2. f[k - 1] \in V
    BY <1>5, <2>1
  <2> QED
    BY <1>4, <1>5, <2>2
<1>7. f = [k \in 0 .. N |-> IF k = 0 THEN Begin ELSE Pass(f[k - 1])]
  <2>1. f = [k \in 0 .. N |-> f[k]]
    BY <1>5
  <2>2. \A k \in 0 .. N : f[k] = IF k = 0 THEN Begin ELSE Pass(f[k - 1])
    BY <1>1, <1>5, <1>6
  <2> HIDE DEF N
  <2> QED
    BY <2>1, <2>2
<1> DEFINE h == CHOOSE h : h = [k \in 0 .. N |-> IF k = 0 THEN Begin ELSE Pass(h[k - 1])]
<1>8. h = [k \in 0 .. N |-> IF k = 0 THEN Begin ELSE Pass(h[k - 1])]
  BY <1>7
<1>9. Walk = h[N]
  BY DEF Walk
<1> HIDE DEF h
<1>10. h[0] = Begin /\ \A k \in 1 .. N : h[k] = Pass(h[k - 1])
  <2>1. 0 \in 0 .. N
    BY <1>1
  <2>2. h[0] = Begin
    BY <1>8, <2>1
  <2>3. ASSUME NEW k \in 1 .. N PROVE h[k] = Pass(h[k - 1])
    <3>1. k \in 0 .. N /\ k # 0
      BY <1>1
    <3> HIDE DEF N
    <3> QED
      BY <1>8, <3>1
  <2> QED
    BY <2>2, <2>3
<1>11. After(h[N], N)
  <2> DEFINE Bad == {k \in Nat : k \in 0 .. N /\ ~After(h[k], k)}
  <2>1. ASSUME Bad # {} PROVE FALSE
    <3>1. PICK k \in Bad : \A y \in Bad : k <= y
      <4>1. Bad \subseteq Nat
        OBVIOUS
      <4> HIDE DEF Bad
      <4> QED
        BY <2>1, <4>1, LeastOf
    <3>2. k \in 0 .. N /\ ~After(h[k], k)
      BY <3>1
    <3>3. k # 0
      <4> SUFFICES ASSUME k = 0 PROVE FALSE
        OBVIOUS
      <4>1. After(h[0], 0)
        BY <1>10, BeginsAfterNone
      <4> QED
        BY <3>2, <4>1
    <3> DEFINE m == k - 1
    <3>4. m \in 0 .. N /\ k \in 1 .. N /\ m \in Nat /\ ~(k <= m) /\ k = m + 1
      BY <1>1, <3>2, <3>3
    <3>5. h[k] = Pass(h[m])
      BY <1>10, <3>4
    <3> HIDE DEF m
    <3>6. m \notin Bad
      <4> HIDE DEF Bad
      <4> QED
        BY <3>1, <3>4
    <3>7. After(h[m], m)
      BY <3>4, <3>6
    <3>8. After(Pass(h[m]), m + 1)
      BY <3>4, <3>7, PassMade
    <3> QED
      BY <3>2, <3>4, <3>5, <3>8
  <2>2. N \in 0 .. N
    BY <1>1
  <2> QED
    BY <1>1, <2>1, <2>2
<1>12. Walk.status # "walking"
  <2> SUFFICES ASSUME Walk.status = "walking" PROVE FALSE
    OBVIOUS
  <2> DEFINE s == Walk.output \o Walk.queue
  <2>1. Good(s, N)
    BY <1>9, <1>11 DEF After
  <2> HIDE DEF s
  <2>2. Len(s) <= MaxEntries
    BY <2>1, NotTooMany
  <2>3. N \in 0 .. Len(s) /\ Len(s) \in Nat
    BY <2>1 DEF Good
  <2> QED
    BY <1>1, <2>2, <2>3
<1> QED
  BY <1>9, <1>11, <1>12

LEMMA VisitsAll ==
  ASSUME Placed
  PROVE  WalkVisitsAll
<1> DEFINE s == Walk.output
           l == Len(s)
           Of(k) == s[k].inode
           At(j, n) == {k \in 1 .. l : s[k].path = Append(s[j].path, n)}
<1>1. After(Walk, Passes) /\ Walk.status \in {"done", "too_deep"}
  BY WalkEnds DEF After
<1>2. CASE Level[MaxWalkDepth + 1] # {}
  <2>1. Walk.status # "done"
    <3> SUFFICES ASSUME Walk.status = "done" PROVE FALSE
      OBVIOUS
    <3>1. Good(s, l) /\ MaxWalkDepth \in Nat
      BY <1>1, TreeWalkAssumption DEF After
    <3> DEFINE m == MaxWalkDepth + 1
    <3>2. PICK i : i \in Level[m]
      BY <1>2
    <3>3. m \in 0 .. MaxWalkDepth + 1
      BY <3>1
    <3> HIDE DEF m, s
    <3>4. PICK k \in 1 .. Len(s) : s[k].depth = m
      BY <3>1, <3>2, <3>3, LevelsReached DEF l
    <3>5. s[k].depth <= MaxWalkDepth
      BY <3>1, <3>4 DEF Good, l
    <3> QED
      BY <3>1, <3>4, <3>5 DEF m
  <2>2. Walk.status = "too_deep"
    BY <1>1, <2>1
  <2> QED
    BY <1>2, <2>2 DEF WalkVisitsAll
<1>3. CASE Level[MaxWalkDepth + 1] = {}
  <2>1. Walk.status = "done" /\ Good(s, l)
    BY <1>1, <1>3 DEF After
  <2> HIDE DEF s
  <2>2. l \in Nat /\ s \in Seq(Visits) /\ MaxWalkDepth \in Nat
    BY <2>1, TreeWalkAssumption DEF Good
  <2>3. {Of(k) : k \in 1 .. l} = UNION {Level[k] : k \in 0 .. MaxWalkDepth}
    <3>1. ASSUME NEW k \in 1 .. l
          PROVE  \E d \in 0 .. MaxWalkDepth : Of(k) \in Level[d]
      <4>1. s[k].depth \in 0 .. MaxWalkDepth
        BY <2>1, <2>2, VisitFacts DEF Good
      <4>2. s[k].inode \in Level[s[k].depth]
        BY <2>1 DEF Good, IsThere
      <4> QED
        BY <4>1, <4>2
    <3>2. ASSUME NEW d \in 0 .. MaxWalkDepth, NEW i \in Level[d]
          PROVE  \E k \in 1 .. l : Of(k) = i
      <4>1. d \in 0 .. MaxWalkDepth + 1
        BY <2>2
      <4>2. Good(s, Len(s))
        BY <2>1
      <4>3. \E k \in 1 .. Len(s) : s[k].inode = i /\ s[k].depth = d
        BY <4>1, <4>2, LevelsReached
      <4> QED
        BY <4>3
    <3> QED
      BY <3>1, <3>2
  <2>4. \A j, k \in 1 .. l : j # k => Of(j) # Of(k) \/ ~IsDirectory(tree, Of(j))
    BY <2>1, DirectoriesOnce
  <2>5. ASSUME NEW j \in 1 .. l, NEW n \in Names, Has(tree, Of(j), n)
        PROVE  \E k \in 1 .. l : At(j, n) = {k} /\ j < k /\ Of(k) = tree.entry[Of(j)][n]
    <3>1. PICK k \in 1 .. l : j < k /\ s[k] = Child(s[j], n)
      BY <2>1, <2>5 DEF Good, HasChild
    <3>2. s[j] \in Visits
      BY <2>2, VisitFacts
    <3>3. s[k].path = Append(s[j].path, n) /\ s[k].inode = tree.entry[s[j].inode][n]
      BY <2>5, <3>1, <3>2, ChildFacts DEF Placed
    <3>4. \A m \in 1 .. l : s[m].path = s[k].path => m = k
      BY <2>1 DEF Good, Distinct
    <3>5. At(j, n) = {k}
      BY <3>3, <3>4
    <3> QED
      BY <3>1, <3>3, <3>5
  <2> QED
    BY <1>3, <2>1, <2>3, <2>4, <2>5 DEF WalkVisitsAll, s
<1> QED
  BY <1>2, <1>3

LEMMA PathsResolve ==
  ASSUME Placed
  PROVE  WalkPathsResolve
<1> DEFINE s == Walk.output
<1> SUFFICES ASSUME NEW k \in 1 .. Len(s)
             PROVE  LET m == Meaning(Root, s[k].path, FALSE, 0)
                    IN m.status = "found" /\ m.node = s[k].inode
  BY DEF WalkPathsResolve
<1>1. After(Walk, Passes) /\ Walk.status \in {"done", "too_deep"}
  BY WalkEnds DEF After
<1>2. Walk.status = "done"
  <2> SUFFICES ASSUME Walk.status = "too_deep" PROVE FALSE
    BY <1>1
  <2>1. s = <<>>
    BY <1>1 DEF After
  <2> QED
    BY <2>1
<1>3. Good(s, Len(s))
  BY <1>1, <1>2 DEF After
<1> HIDE DEF s
<1>4. /\ s[k].path \in Seq(Names) /\ s[k].inode \in Nodes
      /\ Spells(Root, s[k].path, s[k].inode)
  BY <1>3, VisitFacts DEF Good, IsThere
<1>5. Root \in Nodes
  BY PathWalkAssumption
<1>6. Found(Root, s[k].path, s[k].inode)
  BY <1>4, <1>5, SpeltIsFound DEF Placed
<1> QED
  BY <1>6 DEF Found

\* walk() lists everything below the path that it is given, each name once and
\* after its directory, with a path that leads to it, or it fails because the
\* tree is too deep; its tests for cycles and for too many entries never fire.
THEOREM WalksCompletely == Spec => []WalkIsComplete
<1>1. IInv => Placed
  BY DEF IInv, TypeOK, Placed
<1>2. IInv => WalkIsComplete
  BY <1>1, VisitsAll, PathsResolve DEF WalkIsComplete
<1> QED
  BY Inductive, <1>2, PTL
=============================================================================
