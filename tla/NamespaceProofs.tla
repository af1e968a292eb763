--------------------------- MODULE NamespaceProofs ---------------------------
(***************************************************************************)
(* For every set of names and every limit: the tables of inodes and of     *)
(* directories agree after any calls, no identifier is lost, calls change  *)
(* one name at a time, and only a rename cuts a directory off; and what    *)
(* the checker, the planner and the statistics make of the names is what   *)
(* the tables say.                                                         *)
(***************************************************************************)
EXTENDS Statistics, FiniteSetTheorems, FunctionTheorems, WellFoundedInduction, TLAPS

(* What the invariants say of tables nd and ds, given as values so that it *)
(* can be said of the tables before and after a step alike.                *)

\* Position k of directory d is in use; it leads to inode i.
In(ds, d, k) == /\ d \in DOMAIN ds /\ k \in 1 .. Len(ds[d].list)
                /\ ~ds[d].list[k].deleted
Leads(ds, d, k, i) == In(ds, d, k) /\ ds[d].list[k].inode = i
LinksIn(ds, i) == {p \in Ids \X Nat : Leads(ds, p[1], p[2], i)}

Tables(ds) == ds \in [DOMAIN ds -> Directory] /\ DOMAIN ds \subseteq Ids
Typed(nd, ds) == /\ nd \in [DOMAIN nd -> Node] /\ DOMAIN nd \subseteq Ids
                 /\ Tables(ds)

\* Each directory has a table of entries, and nothing else has.
Rooted(nd, ds) == /\ Root \in DOMAIN ds /\ ds[Root].up = Root
                  /\ DOMAIN ds = {i \in DOMAIN nd : nd[i].type = "directory"}

EntriesFit(nd, ds) ==
  \A d, k : In(ds, d, k) => /\ ds[d].list[k].inode \in DOMAIN nd
                            /\ ds[d].list[k].type = nd[ds[d].list[k].inode].type

\* An entry in use is the last of its name, the deleted ones included: so the
\* undo of a rename finds the entry that it marked.
LastOfName(ds) ==
  \A d, k : In(ds, d, k) =>
    \A j \in k + 1 .. Len(ds[d].list) : ds[d].list[j].name # ds[d].list[k].name

\* A directory has one name, in the directory that its ".." leads to; the root
\* has none.
OnlyAt(ds, i, k) == \A d, j : Leads(ds, d, j, i) <=> d = ds[i].up /\ j = k

OneName(nd, ds) ==
  /\ \A d, k : ~Leads(ds, d, k, Root)
  /\ \A i \in DOMAIN ds \ {Root} : \E k : OnlyAt(ds, i, k)
  /\ \A i \in DOMAIN ds : nd[i].links = 2

FileLinks(nd, ds) ==
  \A i \in DOMAIN nd : nd[i].type = "file" =>
    /\ IsFiniteSet(LinksIn(ds, i)) /\ nd[i].links = Cardinality(LinksIn(ds, i))
    /\ nd[i].links \in 1 .. MaxLinks

Sound(nd, ds) == /\ Typed(nd, ds) /\ Rooted(nd, ds) /\ EntriesFit(nd, ds)
                 /\ LastOfName(ds) /\ OneName(nd, ds) /\ FileLinks(nd, ds)
                 /\ Total(ds) <= MaxEntries

\* r is an entry in use of its directory.
IsEntry(ds, r) == \E k : /\ Leads(ds, r.dir, k, r.inode)
                         /\ ds[r.dir].list[k].name = r.name

\* Each call of a recursive remove() is about an entry of the directory that the
\* call outside it removes; the outermost may have come by "..".
Pending(ds, calls) ==
  /\ \A j \in 1 .. Len(calls) :
       \/ IsEntry(ds, calls[j])
       \/ j = Len(calls) /\ calls[j].dir = calls[j].inode /\ calls[j].dir \in DOMAIN ds
  /\ \A j \in 1 .. Len(calls) - 1 : calls[j].dir = calls[j + 1].inode

IInv == TypeOK /\ NoInodeLost /\ Sound(nodes, dirs) /\ Pending(dirs, removing)

-----------------------------------------------------------------------------
(* Sums, and the least of a set of numbers. *)

LEMMA LeastNatural ==
  ASSUME NEW S, S \subseteq Nat, S # {}
  PROVE  Least(S) \in S /\ \A y \in S : Least(S) <= y
<1> DEFINE R == {p \in Nat \X Nat : p[1] < p[2]}
<1>1. IsWellFoundedOn(R, Nat)
  BY NatLessThanWellFounded DEF OpToRel
<1>2. \A x, y \in Nat : <<y, x>> \in R <=> y < x
  OBVIOUS
<1> HIDE DEF R
<1>3. PICK x \in S : \A y \in S : ~(<<y, x>> \in R)
  BY <1>1, WFMin
<1>4. ASSUME NEW y \in S PROVE x <= y
  <2>1. x \in Nat /\ y \in Nat /\ ~(<<y, x>> \in R)
    BY <1>3
  <2>2. ~(y < x)
    BY <1>2, <2>1
  <2> QED
    BY <2>1, <2>2
<1> QED
  BY <1>3, <1>4 DEF Least

Pairs(f) == UNION {{x} \X (1 .. f[x]) : x \in DOMAIN f}

LEMMA PairsMember ==
  ASSUME NEW f, NEW p
  PROVE  p \in Pairs(f) <=> \E x \in DOMAIN f : \E j \in 1 .. f[x] : p = <<x, j>>
BY DEF Pairs

LEMMA SumType ==
  ASSUME NEW f, IsFiniteSet(DOMAIN f), \A x \in DOMAIN f : f[x] \in Nat
  PROVE  /\ IsFiniteSet(Pairs(f)) /\ SumOf(f) = Cardinality(Pairs(f))
         /\ SumOf(f) \in Nat
<1> DEFINE part == [x \in DOMAIN f |-> {x} \X (1 .. f[x])]
           parts == {{x} \X (1 .. f[x]) : x \in DOMAIN f}
<1>1. part \in Surjection(DOMAIN f, parts)
  BY DEF Surjection
<1>2. IsFiniteSet(parts)
  <2> HIDE DEF part, parts
  <2> QED
    BY <1>1, FS_Surjection
<1>3. ASSUME NEW x \in DOMAIN f PROVE IsFiniteSet({x} \X (1 .. f[x]))
  <2>1. IsFiniteSet({x})
    BY FS_Singleton
  <2>2. IsFiniteSet(1 .. f[x])
    BY FS_Interval
  <2> QED
    BY <2>1, <2>2, FS_Product
<1>4. IsFiniteSet(UNION parts)
  <2>1. \A T \in parts : IsFiniteSet(T)
    BY <1>3
  <2> HIDE DEF parts
  <2> QED
    BY <1>2, <2>1, FS_UNION
<1> QED
  BY <1>4, FS_CardinalityType DEF SumOf, Pairs

LEMMA SumIncremented ==
  ASSUME NEW f, NEW g, IsFiniteSet(DOMAIN f), \A x \in DOMAIN f : f[x] \in Nat,
         DOMAIN g = DOMAIN f, NEW y \in DOMAIN f, g[y] = f[y] + 1,
         \A x \in DOMAIN f \ {y} : g[x] = f[x]
  PROVE  SumOf(g) = SumOf(f) + 1
<1>1. \A x \in DOMAIN g : g[x] \in Nat
  OBVIOUS
<1>2. <<y, f[y] + 1>> \notin Pairs(f)
  BY PairsMember
<1>3. Pairs(g) = Pairs(f) \cup {<<y, f[y] + 1>>}
  <2>1. ASSUME NEW p PROVE p \in Pairs(g) <=> p \in Pairs(f) \/ p = <<y, f[y] + 1>>
    <3>1. ASSUME NEW x \in DOMAIN f, NEW j
          PROVE  j \in 1 .. g[x] <=> j \in 1 .. f[x] \/ (x = y /\ j = f[y] + 1)
      <4>1. CASE x = y
        BY <4>1
      <4>2. CASE x # y
        BY <4>2
      <4> QED
        BY <4>1, <4>2
    <3> QED
      BY <3>1, PairsMember
  <2> QED
    BY <2>1
<1> QED
  BY <1>1, <1>2, <1>3, SumType, FS_AddElement

LEMMA SumRestricted ==
  ASSUME NEW f, NEW g, IsFiniteSet(DOMAIN f), \A x \in DOMAIN f : f[x] \in Nat,
         DOMAIN g \subseteq DOMAIN f, \A x \in DOMAIN g : g[x] = f[x]
  PROVE  SumOf(g) <= SumOf(f)
<1>1. IsFiniteSet(DOMAIN g) /\ \A x \in DOMAIN g : g[x] \in Nat
  BY FS_Subset
<1>2. Pairs(g) \subseteq Pairs(f)
  BY PairsMember
<1> QED
  BY <1>1, <1>2, SumType, FS_Subset

LEMMA SumBounds ==
  ASSUME NEW f, IsFiniteSet(DOMAIN f), \A x \in DOMAIN f : f[x] \in Nat,
         NEW x \in DOMAIN f
  PROVE  f[x] <= SumOf(f)
<1>1. {x} \X (1 .. f[x]) \subseteq Pairs(f)
  BY DEF Pairs
<1>2. /\ IsFiniteSet({x} \X (1 .. f[x]))
      /\ Cardinality({x} \X (1 .. f[x])) = 1 * f[x]
  <2>1. IsFiniteSet({x}) /\ Cardinality({x}) = 1
    BY FS_Singleton
  <2>2. IsFiniteSet(1 .. f[x]) /\ Cardinality(1 .. f[x]) = f[x]
    BY FS_Interval
  <2> QED
    BY <2>1, <2>2, FS_Product
<1> QED
  BY <1>1, <1>2, SumType, FS_Subset

Sizes(ds) == [d \in DOMAIN ds |-> 2 + Len(ds[d].list)]

LEMMA SizesType ==
  ASSUME NEW ds, Tables(ds)
  PROVE  /\ IsFiniteSet(DOMAIN ds) /\ DOMAIN Sizes(ds) = DOMAIN ds
         /\ \A d \in DOMAIN ds : /\ Len(ds[d].list) \in Nat
                                 /\ Sizes(ds)[d] = 2 + Len(ds[d].list)
                                 /\ Sizes(ds)[d] \in Nat
         /\ Total(ds) = SumOf(Sizes(ds)) /\ Total(ds) \in Nat
<1>1. IsFiniteSet(DOMAIN ds)
  <2>1. IsFiniteSet(1 .. MaxInodes)
    BY FS_Interval, NamespaceAssumption
  <2> QED
    BY <2>1, FS_Subset DEF Tables, Ids
<1>2. DOMAIN Sizes(ds) = DOMAIN ds
  BY DEF Sizes
<1>3. ASSUME NEW d \in DOMAIN ds
      PROVE  /\ Len(ds[d].list) \in Nat
             /\ Sizes(ds)[d] = 2 + Len(ds[d].list)
             /\ Sizes(ds)[d] \in Nat
  <2>1. ds[d].list \in Seq(Entry)
    BY DEF Tables, Directory
  <2> QED
    BY <2>1 DEF Sizes
<1>4. Total(ds) = SumOf(Sizes(ds))
  BY DEF Total, Sizes
<1> QED
  BY <1>1, <1>2, <1>3, <1>4, SumType

-----------------------------------------------------------------------------
(* What the calls do to a table: an entry is appended, one is marked, a     *)
(* directory comes, goes or moves.                                          *)

LEMMA TableFacts ==
  ASSUME NEW ds, Tables(ds), NEW d \in DOMAIN ds
  PROVE  /\ ds[d] \in Directory /\ d \in Ids /\ ds[d].up \in Ids
         /\ ds[d].list \in Seq(Entry) /\ Len(ds[d].list) \in Nat
         /\ \A k \in 1 .. Len(ds[d].list) : ds[d].list[k] \in Entry
<1>1. ds[d] \in Directory /\ d \in Ids
  BY DEF Tables
<1>2. ds[d].up \in Ids /\ ds[d].list \in Seq(Entry)
  BY <1>1 DEF Directory
<1> QED
  BY <1>1, <1>2

LEMMA DirectoryUpdated ==
  ASSUME NEW ds, Tables(ds), NEW d \in DOMAIN ds, NEW l \in Seq(Entry)
  PROVE  LET c == [ds EXCEPT ![d].list = l]
         IN /\ Tables(c) /\ DOMAIN c = DOMAIN ds
            /\ c[d].list = l /\ c[d].up = ds[d].up
            /\ \A x \in DOMAIN ds \ {d} : c[x] = ds[x]
<1> DEFINE c == [ds EXCEPT ![d].list = l]
<1>1. ds[d] \in Directory /\ ds \in [DOMAIN ds -> Directory] /\ DOMAIN ds \subseteq Ids
  BY DEF Tables
<1>2. c[d] = [ds[d] EXCEPT !.list = l] /\ DOMAIN c = DOMAIN ds
  OBVIOUS
<1>3. [ds[d] EXCEPT !.list = l] \in Directory
  BY <1>1 DEF Directory
<1>4. c[d].list = l /\ c[d].up = ds[d].up
  BY <1>1, <1>2 DEF Directory
<1>5. \A x \in DOMAIN ds \ {d} : c[x] = ds[x]
  OBVIOUS
<1>6. Tables(c)
  <2>1. c \in [DOMAIN ds -> Directory]
    BY <1>1, <1>3
  <2> HIDE DEF c
  <2> QED
    BY <1>1, <1>2, <2>1 DEF Tables
<1> QED
  BY <1>2, <1>4, <1>5, <1>6

LEMMA AddedFacts ==
  ASSUME NEW ds, Tables(ds), NEW d \in DOMAIN ds, NEW e \in Entry
  PROVE  LET a == Added(ds, d, e)
         IN /\ Tables(a) /\ DOMAIN a = DOMAIN ds
            /\ Len(a[d].list) = Len(ds[d].list) + 1
            /\ \A k \in 1 .. Len(ds[d].list) : a[d].list[k] = ds[d].list[k]
            /\ a[d].list[Len(ds[d].list) + 1] = e
            /\ \A x \in DOMAIN ds : a[x].up = ds[x].up
            /\ \A x \in DOMAIN ds \ {d} : a[x] = ds[x]
            /\ Total(a) = Total(ds) + 1
<1> DEFINE l == Append(ds[d].list, e)
           a == [ds EXCEPT ![d].list = l]
<1>1. Added(ds, d, e) = a
  BY DEF Added
<1>2. ds[d].list \in Seq(Entry) /\ Len(ds[d].list) \in Nat
  BY TableFacts
<1>3. /\ l \in Seq(Entry) /\ Len(l) = Len(ds[d].list) + 1
      /\ \A k \in 1 .. Len(ds[d].list) : l[k] = ds[d].list[k]
      /\ l[Len(ds[d].list) + 1] = e
  BY <1>2
<1>4. /\ Tables(a) /\ DOMAIN a = DOMAIN ds
      /\ a[d].list = l /\ a[d].up = ds[d].up
      /\ \A x \in DOMAIN ds \ {d} : a[x] = ds[x]
  <2> HIDE DEF l
  <2> QED
    BY <1>3, DirectoryUpdated
<1> HIDE DEF a, l
<1>5. Total(a) = Total(ds) + 1
  <2>1. Sizes(a)[d] = Sizes(ds)[d] + 1
    BY <1>2, <1>3, <1>4, SizesType
  <2>2. \A x \in DOMAIN ds \ {d} : Sizes(a)[x] = Sizes(ds)[x]
    BY <1>4, SizesType
  <2> QED
    BY <1>4, <2>1, <2>2, SizesType, SumIncremented
<1> QED
  BY <1>1, <1>3, <1>4, <1>5

\* Added, in terms of the entries in use.
LEMMA AddedNames ==
  ASSUME NEW ds, Tables(ds), NEW d \in DOMAIN ds, NEW e \in Entry
  PROVE  LET a == Added(ds, d, e) p == Len(ds[d].list) + 1
         IN /\ \A x, k : In(a, x, k) <=> In(ds, x, k) \/ (x = d /\ k = p /\ ~e.deleted)
            /\ \A x, k : In(ds, x, k) => a[x].list[k] = ds[x].list[k]
            /\ a[d].list[p] = e /\ ~In(ds, d, p)
            /\ \A x, k, i : Leads(a, x, k, i) <=>
                 \/ Leads(ds, x, k, i)
                 \/ x = d /\ k = p /\ ~e.deleted /\ i = e.inode
<1> DEFINE a == Added(ds, d, e)
           p == Len(ds[d].list) + 1
<1>1. /\ DOMAIN a = DOMAIN ds /\ Len(a[d].list) = p
      /\ \A k \in 1 .. Len(ds[d].list) : a[d].list[k] = ds[d].list[k]
      /\ a[d].list[p] = e
      /\ \A x \in DOMAIN ds \ {d} : a[x] = ds[x]
  BY AddedFacts
<1>2. Len(ds[d].list) \in Nat
  BY TableFacts
<1>3. \A k : k \in 1 .. p <=> k \in 1 .. Len(ds[d].list) \/ k = p
  BY <1>2
<1>4. p \notin 1 .. Len(ds[d].list)
  BY <1>2
<1> HIDE DEF a, p
<1>5. ASSUME NEW x, NEW k
      PROVE  In(a, x, k) <=> In(ds, x, k) \/ (x = d /\ k = p /\ ~e.deleted)
  <2>1. CASE x = d
    BY <1>1, <1>3, <1>4, <2>1 DEF In
  <2>2. CASE x # d
    BY <1>1, <2>2 DEF In
  <2> QED
    BY <2>1, <2>2
<1>6. ASSUME NEW x, NEW k, In(ds, x, k) PROVE a[x].list[k] = ds[x].list[k]
  BY <1>1, <1>6 DEF In
<1>7. ~In(ds, d, p)
  BY <1>4 DEF In
<1>8. \A x, k, i : Leads(a, x, k, i) <=>
        Leads(ds, x, k, i) \/ (x = d /\ k = p /\ ~e.deleted /\ i = e.inode)
  BY <1>1, <1>5, <1>6, <1>7 DEF Leads
<1> QED
  BY <1>1, <1>5, <1>6, <1>7, <1>8 DEF a, p

Replaced(ds, d, k, e) == [ds EXCEPT ![d].list[k] = e]

LEMMA ReplacedFacts ==
  ASSUME NEW ds, Tables(ds), NEW d \in DOMAIN ds, NEW k \in 1 .. Len(ds[d].list),
         NEW e \in Entry
  PROVE  LET c == Replaced(ds, d, k, e)
         IN /\ Tables(c) /\ DOMAIN c = DOMAIN ds
            /\ Len(c[d].list) = Len(ds[d].list)
            /\ c[d].list[k] = e
            /\ \A j \in 1 .. Len(ds[d].list) : j # k => c[d].list[j] = ds[d].list[j]
            /\ \A x \in DOMAIN ds : c[x].up = ds[x].up
            /\ \A x \in DOMAIN ds \ {d} : c[x] = ds[x]
            /\ Total(c) = Total(ds)
<1> DEFINE l == [ds[d].list EXCEPT ![k] = e]
           c == [ds EXCEPT ![d].list = l]
<1>1. Replaced(ds, d, k, e) = c
  BY DEF Replaced
<1>2. ds[d].list \in Seq(Entry) /\ Len(ds[d].list) \in Nat
  BY TableFacts
<1>3. /\ l \in Seq(Entry) /\ Len(l) = Len(ds[d].list) /\ l[k] = e
      /\ \A j \in 1 .. Len(ds[d].list) : j # k => l[j] = ds[d].list[j]
  BY <1>2
<1>4. /\ Tables(c) /\ DOMAIN c = DOMAIN ds
      /\ c[d].list = l /\ c[d].up = ds[d].up
      /\ \A x \in DOMAIN ds \ {d} : c[x] = ds[x]
  <2> HIDE DEF l
  <2> QED
    BY <1>3, DirectoryUpdated
<1> HIDE DEF c, l
<1>5. Sizes(c) = Sizes(ds)
  <2>1. \A x \in DOMAIN ds : Len(c[x].list) = Len(ds[x].list)
    BY <1>3, <1>4
  <2> QED
    BY <1>4, <2>1 DEF Sizes
<1> QED
  BY <1>1, <1>3, <1>4, <1>5, SizesType

\* The entry at a position with the mark of deletion, and without it.
Gone(ds, d, k) == [ds[d].list[k] EXCEPT !.deleted = TRUE]
Flagged(ds, d, k) == Replaced(ds, d, k, Gone(ds, d, k))
Unflagged(ds, d, k) == Replaced(ds, d, k, [ds[d].list[k] EXCEPT !.deleted = FALSE])

LEMMA GoneFacts ==
  ASSUME NEW ds, Tables(ds), NEW d \in DOMAIN ds, NEW k \in 1 .. Len(ds[d].list)
  PROVE  /\ Gone(ds, d, k) \in Entry /\ Gone(ds, d, k).deleted
         /\ Gone(ds, d, k).name = ds[d].list[k].name
         /\ Gone(ds, d, k).inode = ds[d].list[k].inode
         /\ Gone(ds, d, k).type = ds[d].list[k].type
<1>1. ds[d].list[k] \in Entry
  BY TableFacts
<1> QED
  BY <1>1 DEF Gone, Entry

LEMMA FlaggedFacts ==
  ASSUME NEW ds, Tables(ds), NEW d \in DOMAIN ds, NEW k \in 1 .. Len(ds[d].list)
  PROVE  LET c == Flagged(ds, d, k)
         IN /\ Tables(c) /\ DOMAIN c = DOMAIN ds
            /\ Len(c[d].list) = Len(ds[d].list)
            /\ c[d].list[k] = Gone(ds, d, k)
            /\ \A j \in 1 .. Len(ds[d].list) :
                 /\ c[d].list[j].name = ds[d].list[j].name
                 /\ c[d].list[j].inode = ds[d].list[j].inode
                 /\ c[d].list[j].type = ds[d].list[j].type
                 /\ j # k => c[d].list[j] = ds[d].list[j]
            /\ \A x \in DOMAIN ds : c[x].up = ds[x].up
            /\ \A x \in DOMAIN ds \ {d} : c[x] = ds[x]
            /\ Total(c) = Total(ds)
BY GoneFacts, ReplacedFacts DEF Flagged

\* Marked, in terms of the entries in use.
LEMMA FlaggedNames ==
  ASSUME NEW ds, Tables(ds), NEW d, NEW k, In(ds, d, k)
  PROVE  LET m == Flagged(ds, d, k)
         IN /\ \A x, j : In(m, x, j) <=> In(ds, x, j) /\ ~(x = d /\ j = k)
            /\ \A x, j : In(ds, x, j) =>
                 /\ m[x].list[j].name = ds[x].list[j].name
                 /\ m[x].list[j].inode = ds[x].list[j].inode
                 /\ m[x].list[j].type = ds[x].list[j].type
            /\ \A x, j, i : Leads(m, x, j, i) <=>
                              Leads(ds, x, j, i) /\ ~(x = d /\ j = k)
<1> DEFINE m == Flagged(ds, d, k)
<1>1. d \in DOMAIN ds /\ k \in 1 .. Len(ds[d].list)
  BY DEF In
<1>2. /\ DOMAIN m = DOMAIN ds /\ Len(m[d].list) = Len(ds[d].list)
      /\ \A j \in 1 .. Len(ds[d].list) :
           /\ m[d].list[j].name = ds[d].list[j].name
           /\ m[d].list[j].inode = ds[d].list[j].inode
           /\ m[d].list[j].type = ds[d].list[j].type
           /\ j # k => m[d].list[j] = ds[d].list[j]
      /\ m[d].list[k].deleted
      /\ \A x \in DOMAIN ds \ {d} : m[x] = ds[x]
  BY <1>1, FlaggedFacts, GoneFacts
<1> HIDE DEF m
<1>3. ASSUME NEW x, NEW j
      PROVE  In(m, x, j) <=> In(ds, x, j) /\ ~(x = d /\ j = k)
  <2>1. CASE x = d
    BY <1>2, <2>1 DEF In
  <2>2. CASE x # d
    BY <1>2, <2>2 DEF In
  <2> QED
    BY <2>1, <2>2
<1>4. ASSUME NEW x, NEW j, In(ds, x, j)
      PROVE  /\ m[x].list[j].name = ds[x].list[j].name
             /\ m[x].list[j].inode = ds[x].list[j].inode
             /\ m[x].list[j].type = ds[x].list[j].type
  <2>1. CASE x = d
    BY <1>2, <1>4, <2>1 DEF In
  <2>2. CASE x # d
    BY <1>2, <1>4, <2>2 DEF In
  <2> QED
    BY <2>1, <2>2
<1>5. \A x, j, i : Leads(m, x, j, i) <=> Leads(ds, x, j, i) /\ ~(x = d /\ j = k)
  BY <1>3, <1>4 DEF Leads
<1> QED
  BY <1>3, <1>4, <1>5 DEF m

\* What Undone puts back is what was marked.
LEMMA FlaggedBack ==
  ASSUME NEW ds, Tables(ds), NEW d, NEW k, In(ds, d, k)
  PROVE  Unflagged(Flagged(ds, d, k), d, k) = ds
<1> DEFINE m == Flagged(ds, d, k)
           c == Unflagged(m, d, k)
<1>1. /\ d \in DOMAIN ds /\ k \in 1 .. Len(ds[d].list) /\ ds[d].list[k].deleted = FALSE
      /\ ds[d].list[k] \in Entry
  <2>1. d \in DOMAIN ds /\ k \in 1 .. Len(ds[d].list) /\ ~ds[d].list[k].deleted
    BY DEF In
  <2>2. ds[d].list[k] \in Entry
    BY <2>1, TableFacts
  <2>3. ds[d].list[k].deleted \in BOOLEAN
    BY <2>2 DEF Entry
  <2> QED
    BY <2>1, <2>2, <2>3
<1>2. /\ Tables(m) /\ DOMAIN m = DOMAIN ds /\ Len(m[d].list) = Len(ds[d].list)
      /\ m[d].list[k] = Gone(ds, d, k)
      /\ \A j \in 1 .. Len(ds[d].list) : j # k => m[d].list[j] = ds[d].list[j]
      /\ \A x \in DOMAIN ds : m[x].up = ds[x].up
      /\ \A x \in DOMAIN ds \ {d} : m[x] = ds[x]
  BY <1>1, FlaggedFacts
<1> HIDE DEF m
<1>3. [m[d].list[k] EXCEPT !.deleted = FALSE] = ds[d].list[k]
  BY <1>1, <1>2 DEF Gone, Entry
<1>4. /\ Tables(c) /\ DOMAIN c = DOMAIN m /\ Len(c[d].list) = Len(m[d].list)
      /\ c[d].list[k] = ds[d].list[k]
      /\ \A j \in 1 .. Len(m[d].list) : j # k => c[d].list[j] = m[d].list[j]
      /\ \A x \in DOMAIN m : c[x].up = m[x].up
      /\ \A x \in DOMAIN m \ {d} : c[x] = m[x]
  <2>1. c = Replaced(m, d, k, ds[d].list[k])
    BY <1>3 DEF Unflagged
  <2> HIDE DEF c
  <2> QED
    BY <1>1, <1>2, <2>1, ReplacedFacts
<1> HIDE DEF c
<1>5. c[d] = ds[d]
  <2>1. /\ c[d] \in Directory /\ c[d].list \in Seq(Entry)
        /\ ds[d] \in Directory /\ ds[d].list \in Seq(Entry)
    BY <1>1, <1>2, <1>4, TableFacts
  <2>2. \A j \in 1 .. Len(ds[d].list) : c[d].list[j] = ds[d].list[j]
    BY <1>2, <1>4
  <2>3. c[d].list = ds[d].list
    BY <1>2, <1>4, <2>1, <2>2
  <2>4. c[d].up = ds[d].up
    BY <1>1, <1>2, <1>4
  <2> QED
    BY <2>1, <2>3, <2>4 DEF Directory
<1>6. c \in [DOMAIN ds -> Directory] /\ ds \in [DOMAIN ds -> Directory]
  BY <1>2, <1>4 DEF Tables
<1>7. \A x \in DOMAIN ds : c[x] = ds[x]
  BY <1>2, <1>4, <1>5
<1> QED
  BY <1>6, <1>7 DEF c, m

\* A change of tables that no entry in use notices.
SameEntries(ds, c) ==
  \A d, k : /\ In(c, d, k) <=> In(ds, d, k)
            /\ In(ds, d, k) => c[d].list = ds[d].list

LEMMA SameNames ==
  ASSUME NEW ds, NEW c, SameEntries(ds, c)
  PROVE  /\ \A d, k, i : Leads(c, d, k, i) <=> Leads(ds, d, k, i)
         /\ LastOfName(ds) => LastOfName(c)
         /\ \A i : LinksIn(c, i) = LinksIn(ds, i)
<1>1. ASSUME NEW d, NEW k, NEW i PROVE Leads(c, d, k, i) <=> Leads(ds, d, k, i)
  BY DEF SameEntries, Leads
<1>2. ASSUME LastOfName(ds) PROVE LastOfName(c)
  BY <1>2 DEF SameEntries, LastOfName
<1>3. \A i : LinksIn(c, i) = LinksIn(ds, i)
  BY <1>1 DEF LinksIn
<1> QED
  BY <1>1, <1>2, <1>3

\* The ".." of a directory leads somewhere else.
WithUp(ds, x, t) == [ds EXCEPT ![x].up = t]

LEMMA UpFacts ==
  ASSUME NEW ds, Tables(ds), NEW x \in DOMAIN ds, NEW t \in Ids
  PROVE  LET c == WithUp(ds, x, t)
         IN /\ Tables(c) /\ DOMAIN c = DOMAIN ds /\ c[x].up = t
            /\ \A y \in DOMAIN ds \ {x} : c[y].up = ds[y].up
            /\ SameEntries(ds, c) /\ Total(c) = Total(ds)
<1> DEFINE c == [ds EXCEPT ![x].up = t]
<1>1. ds[x] \in Directory /\ ds \in [DOMAIN ds -> Directory] /\ DOMAIN ds \subseteq Ids
  BY DEF Tables
<1>2. c[x] = [ds[x] EXCEPT !.up = t] /\ DOMAIN c = DOMAIN ds
  OBVIOUS
<1>3. [ds[x] EXCEPT !.up = t] \in Directory
  BY <1>1 DEF Directory
<1>4. c[x].list = ds[x].list /\ c[x].up = t
  BY <1>1, <1>2 DEF Directory
<1>5. \A y \in DOMAIN ds \ {x} : c[y] = ds[y]
  OBVIOUS
<1>6. Tables(c)
  <2>1. c \in [DOMAIN ds -> Directory]
    BY <1>1, <1>3
  <2> HIDE DEF c
  <2> QED
    BY <1>1, <1>2, <2>1 DEF Tables
<1> HIDE DEF c
<1>7. \A y \in DOMAIN ds : c[y].list = ds[y].list
  BY <1>4, <1>5
<1>8. SameEntries(ds, c)
  BY <1>2, <1>7 DEF SameEntries, In
<1>9. Sizes(c) = Sizes(ds)
  BY <1>2, <1>7 DEF Sizes
<1> QED
  BY <1>2, <1>4, <1>5, <1>6, <1>8, <1>9, SizesType DEF c, WithUp

LEMMA LastOfNameAdded ==
  ASSUME NEW ds, Tables(ds), LastOfName(ds), NEW d \in DOMAIN ds, NEW e \in Entry,
         \A k : In(ds, d, k) => ds[d].list[k].name # e.name
  PROVE  LastOfName(Added(ds, d, e))
<1> DEFINE a == Added(ds, d, e)
           p == Len(ds[d].list) + 1
<1>1. /\ \A x, k : In(a, x, k) <=> In(ds, x, k) \/ (x = d /\ k = p /\ ~e.deleted)
      /\ \A x, k : In(ds, x, k) => a[x].list[k] = ds[x].list[k]
      /\ a[d].list[p] = e
  BY AddedNames
<1>2. /\ Len(a[d].list) = p
      /\ \A k \in 1 .. Len(ds[d].list) : a[d].list[k] = ds[d].list[k]
      /\ \A x \in DOMAIN ds \ {d} : a[x] = ds[x]
  BY AddedFacts
<1>3. Len(ds[d].list) \in Nat
  BY TableFacts
<1> SUFFICES ASSUME NEW x, NEW k, In(a, x, k), NEW j \in k + 1 .. Len(a[x].list)
             PROVE  a[x].list[j].name # a[x].list[k].name
  BY DEF LastOfName
<1> HIDE DEF a
<1>4. CASE x = d /\ k = p
  BY <1>2, <1>3, <1>4
<1>5. CASE ~(x = d /\ k = p)
  <2>1. /\ In(ds, x, k) /\ x \in DOMAIN ds /\ k \in 1 .. Len(ds[x].list)
        /\ a[x].list[k] = ds[x].list[k]
    BY <1>1, <1>5 DEF In
  <2>2. \A i \in k + 1 .. Len(ds[x].list) : ds[x].list[i].name # ds[x].list[k].name
    BY <2>1 DEF LastOfName
  <2>3. CASE x # d
    BY <1>2, <2>1, <2>2, <2>3
  <2>4. CASE x = d /\ j = p
    BY <1>1, <2>1, <2>4
  <2>5. CASE x = d /\ j # p
    <3>1. j \in k + 1 .. Len(ds[x].list) /\ j \in 1 .. Len(ds[x].list)
      BY <1>2, <1>3, <2>1, <2>5
    <3> QED
      BY <1>2, <2>1, <2>2, <2>5, <3>1
  <2> QED
    BY <2>3, <2>4, <2>5
<1> QED
  BY <1>4, <1>5

LEMMA LastOfNameFlagged ==
  ASSUME NEW ds, Tables(ds), LastOfName(ds), NEW d, NEW k, In(ds, d, k)
  PROVE  LastOfName(Flagged(ds, d, k))
<1> DEFINE m == Flagged(ds, d, k)
<1>1. d \in DOMAIN ds /\ k \in 1 .. Len(ds[d].list)
  BY DEF In
<1>2. \A x, j : In(m, x, j) => In(ds, x, j)
  BY FlaggedNames
<1>3. /\ Len(m[d].list) = Len(ds[d].list)
      /\ \A j \in 1 .. Len(ds[d].list) : m[d].list[j].name = ds[d].list[j].name
      /\ \A x \in DOMAIN ds \ {d} : m[x] = ds[x]
  BY <1>1, FlaggedFacts
<1> SUFFICES ASSUME NEW x, NEW i, In(m, x, i), NEW j \in i + 1 .. Len(m[x].list)
             PROVE  m[x].list[j].name # m[x].list[i].name
  BY DEF LastOfName
<1> HIDE DEF m
<1>4. x \in DOMAIN ds /\ i \in 1 .. Len(ds[x].list)
  BY <1>2 DEF In
<1>5. j \in i + 1 .. Len(ds[x].list)
  BY <1>3, <1>4
<1>6. ds[x].list[j].name # ds[x].list[i].name
  BY <1>2, <1>5 DEF LastOfName
<1>7. Len(ds[x].list) \in Nat
  BY <1>4, TableFacts
<1>8. j \in 1 .. Len(ds[x].list)
  BY <1>4, <1>5, <1>7
<1> QED
  BY <1>3, <1>4, <1>6, <1>8

-----------------------------------------------------------------------------
(* The operators of Namespace in these terms. *)

LEMMA UsedMember ==
  ASSUME NEW d \in DOMAIN dirs, NEW k
  PROVE  /\ k \in Used(d) <=> In(dirs, d, k)
         /\ \A n : k \in Found(d, n) <=> In(dirs, d, k) /\ dirs[d].list[k].name = n
BY DEF Used, Found, In

LEMMA NotInUse ==
  ASSUME NEW d \in DOMAIN dirs, NEW n
  PROVE  InUse(d, n) <=> \E k : In(dirs, d, k) /\ dirs[d].list[k].name = n
BY UsedMember DEF InUse

LEMMA LeastUsed ==
  ASSUME Tables(dirs), NEW d \in DOMAIN dirs, Used(d) # {}
  PROVE  In(dirs, d, Least(Used(d)))
<1>1. Len(dirs[d].list) \in Nat
  BY TableFacts
<1>2. Used(d) \subseteq Nat
  BY <1>1 DEF Used
<1>3. Least(Used(d)) \in Used(d)
  BY <1>2, LeastNatural
<1> QED
  BY <1>3, UsedMember

Place(d, n) == Least(Found(d, n))

\* The entry that a name leads to is the only one of that name.
LEMMA FoundPlace ==
  ASSUME Tables(dirs), LastOfName(dirs), NEW d \in DOMAIN dirs, NEW n, InUse(d, n)
  PROVE  /\ In(dirs, d, Place(d, n)) /\ Place(d, n) \in 1 .. Len(dirs[d].list)
         /\ dirs[d].list[Place(d, n)].name = n
         /\ EntryOf(d, n) = dirs[d].list[Place(d, n)]
         /\ EntryOf(d, n) \in Entry
         /\ \A k : In(dirs, d, k) /\ dirs[d].list[k].name = n => k = Place(d, n)
<1>1. Len(dirs[d].list) \in Nat
  BY TableFacts
<1>2. Found(d, n) \subseteq Nat /\ Found(d, n) # {}
  BY <1>1 DEF Found, Used, InUse
<1>3. Place(d, n) \in Found(d, n)
  BY <1>2, LeastNatural DEF Place
<1>4. In(dirs, d, Place(d, n)) /\ dirs[d].list[Place(d, n)].name = n
  BY <1>3, UsedMember
<1>5. Place(d, n) \in 1 .. Len(dirs[d].list)
  BY <1>4 DEF In
<1>6. ASSUME NEW k, In(dirs, d, k), dirs[d].list[k].name = n PROVE k = Place(d, n)
  <2>1. k \in 1 .. Len(dirs[d].list)
    BY <1>6 DEF In
  <2>2. ~(k \in Place(d, n) + 1 .. Len(dirs[d].list))
    BY <1>4, <1>6 DEF LastOfName
  <2>3. ~(Place(d, n) \in k + 1 .. Len(dirs[d].list))
    BY <1>4, <1>6 DEF LastOfName
  <2> QED
    BY <1>1, <1>5, <2>1, <2>2, <2>3
<1>7. EntryOf(d, n) = dirs[d].list[Place(d, n)]
  BY DEF EntryOf, Place
<1> QED
  BY <1>4, <1>5, <1>6, <1>7, TableFacts

LEMMA MarkedIsFlagged ==
  ASSUME NEW d, NEW n
  PROVE  Marked(dirs, d, n) = Flagged(dirs, d, Place(d, n))
BY DEF Marked, Flagged, Replaced, Gone, Place

\* The undo of a rename puts back what the rename marked.
LEMMA UndoneIsBack ==
  ASSUME Tables(dirs), LastOfName(dirs), NEW d \in DOMAIN dirs, NEW n, InUse(d, n)
  PROVE  Undone(Marked(dirs, d, n), d, n) = dirs
<1> DEFINE k == Place(d, n)
           m == Flagged(dirs, d, k)
           gone == {j \in 1 .. Len(m[d].list) : m[d].list[j].deleted
                                                /\ m[d].list[j].name = n}
<1>1. /\ In(dirs, d, k) /\ k \in 1 .. Len(dirs[d].list)
      /\ dirs[d].list[k].name = n
  BY FoundPlace
<1>2. \A j \in k + 1 .. Len(dirs[d].list) : dirs[d].list[j].name # n
  BY <1>1 DEF LastOfName
<1>3. Len(dirs[d].list) \in Nat
  BY TableFacts
<1> HIDE DEF k
<1>4. /\ Len(m[d].list) = Len(dirs[d].list)
      /\ m[d].list[k].deleted /\ m[d].list[k].name = n
      /\ \A j \in 1 .. Len(dirs[d].list) : m[d].list[j].name = dirs[d].list[j].name
  BY <1>1, FlaggedFacts, GoneFacts
<1> HIDE DEF m
<1>5. k \in gone
  BY <1>1, <1>4
<1>6. \A j \in gone : j <= k
  BY <1>1, <1>2, <1>3, <1>4
<1>7. gone \subseteq Nat
  BY <1>3, <1>4
<1>8. Greatest(gone) = k
  <2> HIDE DEF gone
  <2>1. Greatest(gone) \in gone /\ \A j \in gone : j <= Greatest(gone)
    BY <1>5, <1>6 DEF Greatest
  <2>2. Greatest(gone) \in Nat /\ k \in Nat
    BY <1>5, <1>7, <2>1
  <2>3. Greatest(gone) <= k /\ k <= Greatest(gone)
    BY <1>5, <1>6, <2>1
  <2> QED
    BY <2>2, <2>3
<1>9. Undone(m, d, n) = [m EXCEPT ![d].list[k].deleted = FALSE]
  BY <1>8 DEF Undone
<1>10. Undone(m, d, n) = Unflagged(m, d, k)
  BY <1>9 DEF Unflagged, Replaced
<1>11. Unflagged(m, d, k) = dirs
  BY <1>1, FlaggedBack DEF m
<1> QED
  BY <1>10, <1>11, MarkedIsFlagged DEF m, k

LEMMA WithDirectoryFacts ==
  ASSUME Tables(dirs), NEW i \in Ids \ DOMAIN dirs, NEW p \in Ids
  PROVE  LET c == WithDirectory(i, p)
         IN /\ Tables(c) /\ DOMAIN c = DOMAIN dirs \cup {i} /\ c[i].up = p
            /\ \A x \in DOMAIN dirs : c[x] = dirs[x]
            /\ SameEntries(dirs, c)
<1> DEFINE c == WithDirectory(i, p)
<1>1. /\ DOMAIN c = DOMAIN dirs \cup {i} /\ c[i] = [up |-> p, list |-> <<>>]
      /\ \A x \in DOMAIN dirs : c[x] = dirs[x]
  BY DEF WithDirectory, NewDirectory
<1>2. [up |-> p, list |-> <<>>] \in Directory
  BY DEF Directory
<1>3. Tables(c)
  <2>1. /\ dirs \in [DOMAIN dirs -> Directory] /\ DOMAIN dirs \subseteq Ids
    BY DEF Tables
  <2>2. c \in [DOMAIN dirs \cup {i} -> Directory]
    BY <1>2, <2>1 DEF WithDirectory, NewDirectory
  <2> HIDE DEF c
  <2> QED
    BY <1>1, <2>1, <2>2 DEF Tables
<1>4. Len(c[i].list) = 0
  BY <1>1
<1> HIDE DEF c
<1>5. SameEntries(dirs, c)
  BY <1>1, <1>4 DEF SameEntries, In
<1> QED
  BY <1>1, <1>3, <1>5 DEF c

LEMMA WithoutFacts ==
  ASSUME NEW ds, Tables(ds), NEW i, \A k : ~In(ds, i, k)
  PROVE  LET c == Without(ds, i)
         IN /\ Tables(c) /\ DOMAIN c = DOMAIN ds \ {i}
            /\ \A x \in DOMAIN ds \ {i} : c[x] = ds[x]
            /\ SameEntries(ds, c) /\ Total(c) <= Total(ds)
<1> DEFINE c == Without(ds, i)
<1>1. DOMAIN c = DOMAIN ds \ {i} /\ \A x \in DOMAIN ds \ {i} : c[x] = ds[x]
  BY DEF Without
<1>2. Tables(c)
  <2>1. ds \in [DOMAIN ds -> Directory] /\ DOMAIN ds \subseteq Ids
    BY DEF Tables
  <2>2. c \in [DOMAIN ds \ {i} -> Directory]
    BY <2>1 DEF Without
  <2> HIDE DEF c
  <2> QED
    BY <1>1, <2>1, <2>2 DEF Tables
<1> HIDE DEF c
<1>3. SameEntries(ds, c)
  BY <1>1 DEF SameEntries, In
<1>4. Total(c) <= Total(ds)
  <2>1. \A x \in DOMAIN c : Sizes(c)[x] = Sizes(ds)[x]
    BY <1>1, <1>2, SizesType
  <2>2. DOMAIN Sizes(c) \subseteq DOMAIN Sizes(ds)
    BY <1>1, <1>2, SizesType
  <2> QED
    BY <1>2, <2>1, <2>2, SizesType, SumRestricted
<1> QED
  BY <1>1, <1>2, <1>3, <1>4 DEF c

LEMMA InType ==
  ASSUME NEW ds, Tables(ds), NEW d, NEW k, In(ds, d, k)
  PROVE  /\ d \in DOMAIN ds /\ d \in Ids /\ k \in Nat /\ k \in 1 .. Len(ds[d].list)
         /\ ds[d].list[k] \in Entry
<1>1. d \in DOMAIN ds /\ k \in 1 .. Len(ds[d].list)
  BY DEF In
<1> QED
  BY <1>1, TableFacts

LEMMA LinksAdded ==
  ASSUME NEW ds, Tables(ds), NEW d \in DOMAIN ds, NEW e \in Entry, e.deleted = FALSE
  PROVE  /\ LinksIn(Added(ds, d, e), e.inode) =
              LinksIn(ds, e.inode) \cup {<<d, Len(ds[d].list) + 1>>}
         /\ \A i : i # e.inode => LinksIn(Added(ds, d, e), i) = LinksIn(ds, i)
         /\ \A i : <<d, Len(ds[d].list) + 1>> \notin LinksIn(ds, i)
<1> DEFINE a == Added(ds, d, e)
           p == Len(ds[d].list) + 1
<1>1. /\ \A x, k, i : Leads(a, x, k, i) <=>
           \/ Leads(ds, x, k, i)
           \/ x = d /\ k = p /\ ~e.deleted /\ i = e.inode
      /\ ~In(ds, d, p)
  BY AddedNames
<1>2. d \in Ids /\ p \in Nat
  BY TableFacts
<1> HIDE DEF a, p
<1>3. LinksIn(a, e.inode) = LinksIn(ds, e.inode) \cup {<<d, p>>}
  BY <1>1, <1>2 DEF LinksIn
<1>4. \A i : i # e.inode => LinksIn(a, i) = LinksIn(ds, i)
  BY <1>1 DEF LinksIn
<1>5. \A i : <<d, p>> \notin LinksIn(ds, i)
  BY <1>1 DEF LinksIn, Leads
<1> QED
  BY <1>3, <1>4, <1>5 DEF a, p

LEMMA LinksFlagged ==
  ASSUME NEW ds, Tables(ds), NEW d, NEW k, In(ds, d, k)
  PROVE  \A i : /\ LinksIn(Flagged(ds, d, k), i) = LinksIn(ds, i) \ {<<d, k>>}
                /\ <<d, k>> \in LinksIn(ds, i) <=> i = ds[d].list[k].inode
<1> DEFINE m == Flagged(ds, d, k)
<1>1. \A x, j, i : Leads(m, x, j, i) <=> Leads(ds, x, j, i) /\ ~(x = d /\ j = k)
  BY FlaggedNames
<1>2. d \in Ids /\ k \in Nat
  BY InType
<1> HIDE DEF m
<1>3. \A i : LinksIn(m, i) = LinksIn(ds, i) \ {<<d, k>>}
  BY <1>1, <1>2 DEF LinksIn
<1>4. \A i : <<d, k>> \in LinksIn(ds, i) <=> i = ds[d].list[k].inode
  BY <1>2 DEF LinksIn, Leads
<1> QED
  BY <1>3, <1>4 DEF m

-----------------------------------------------------------------------------
(* The parts of Sound, one call after the other. *)

Opened(i, d, t) == IF t = "directory" THEN WithDirectory(i, d) ELSE dirs

LEMMA OpenedFacts ==
  ASSUME Tables(dirs), NEW i \in Ids \ DOMAIN dirs, NEW d \in DOMAIN dirs,
         NEW t \in Types
  PROVE  /\ Tables(Opened(i, d, t)) /\ SameEntries(dirs, Opened(i, d, t))
         /\ DOMAIN Opened(i, d, t) =
              DOMAIN dirs \cup (IF t = "directory" THEN {i} ELSE {})
         /\ t = "directory" => Opened(i, d, t)[i].up = d
         /\ \A x \in DOMAIN dirs : Opened(i, d, t)[x] = dirs[x]
<1>1. d \in Ids
  BY TableFacts
<1>2. CASE t = "directory"
  <2>1. Opened(i, d, t) = WithDirectory(i, d)
    BY <1>2 DEF Opened
  <2>2. /\ Tables(WithDirectory(i, d)) /\ SameEntries(dirs, WithDirectory(i, d))
        /\ DOMAIN WithDirectory(i, d) = DOMAIN dirs \cup {i}
        /\ WithDirectory(i, d)[i].up = d
        /\ \A x \in DOMAIN dirs : WithDirectory(i, d)[x] = dirs[x]
    BY <1>1, WithDirectoryFacts
  <2> QED
    BY <1>2, <2>1, <2>2
<1>3. CASE t # "directory"
  <2>1. Opened(i, d, t) = dirs
    BY <1>3 DEF Opened
  <2> QED
    BY <1>3, <2>1 DEF SameEntries
<1> QED
  BY <1>2, <1>3

LEMMA NodeFacts ==
  ASSUME Sound(nodes, dirs), NEW i \in Ids \ DOMAIN nodes, NEW t \in Types
  PROVE  LET w == WithNode(i, t)
         IN /\ w \in [DOMAIN w -> Node] /\ DOMAIN w = DOMAIN nodes \cup {i}
            /\ DOMAIN w \subseteq Ids
            /\ w[i].type = t /\ w[i].links = IF t = "directory" THEN 2 ELSE 1
            /\ \A x \in DOMAIN nodes : w[x] = nodes[x]
<1> DEFINE w == WithNode(i, t)
<1>1. nodes \in [DOMAIN nodes -> Node] /\ DOMAIN nodes \subseteq Ids
  BY DEF Sound, Typed
<1>2. NewNode(t) \in Node
  BY DEF NewNode, Node
<1>3. /\ DOMAIN w = DOMAIN nodes \cup {i} /\ w[i] = NewNode(t)
      /\ \A x \in DOMAIN nodes : w[x] = nodes[x]
  BY DEF WithNode
<1>4. w \in [DOMAIN nodes \cup {i} -> Node]
  BY <1>1, <1>2 DEF WithNode
<1> HIDE DEF w
<1> QED
  BY <1>1, <1>3, <1>4 DEF NewNode, w

LEMMA CreatedSound ==
  ASSUME Sound(nodes, dirs), NEW i \in Ids \ DOMAIN nodes, NEW d \in DOMAIN dirs,
         NEW n \in Names, NEW t \in Types, CanAdd(Opened(i, d, t), d, n)
  PROVE  Sound(WithNode(i, t), Added(Opened(i, d, t), d, NewEntry(n, i, t)))
<1> DEFINE o == Opened(i, d, t)
           e == NewEntry(n, i, t)
           a == Added(o, d, e)
           p == Len(o[d].list) + 1
           w == WithNode(i, t)
<1>1. /\ Tables(dirs) /\ Rooted(nodes, dirs) /\ EntriesFit(nodes, dirs)
      /\ LastOfName(dirs) /\ OneName(nodes, dirs) /\ FileLinks(nodes, dirs)
  BY DEF Sound, Typed
<1>2. i \notin DOMAIN dirs /\ Root \in DOMAIN dirs
  BY <1>1 DEF Rooted
<1>3. /\ Tables(o) /\ SameEntries(dirs, o)
      /\ DOMAIN o = DOMAIN dirs \cup (IF t = "directory" THEN {i} ELSE {})
      /\ t = "directory" => o[i].up = d
      /\ \A x \in DOMAIN dirs : o[x] = dirs[x]
  BY <1>1, <1>2, OpenedFacts
<1>4. /\ e \in Entry /\ e.deleted = FALSE /\ e.inode = i /\ e.name = n /\ e.type = t
  BY DEF NewEntry, Entry
<1>5. /\ w \in [DOMAIN w -> Node] /\ DOMAIN w = DOMAIN nodes \cup {i}
      /\ DOMAIN w \subseteq Ids
      /\ w[i].type = t /\ w[i].links = IF t = "directory" THEN 2 ELSE 1
      /\ \A x \in DOMAIN nodes : w[x] = nodes[x]
  BY NodeFacts
<1>6. ~InUse(d, n) /\ Total(o) < MaxEntries
  BY DEF CanAdd
<1> HIDE DEF o, e, w
<1>7. /\ Tables(a) /\ DOMAIN a = DOMAIN o /\ \A x \in DOMAIN o : a[x].up = o[x].up
      /\ Total(a) = Total(o) + 1
  BY <1>3, <1>4, AddedFacts
<1>8. /\ \A x, k : In(a, x, k) <=> In(o, x, k) \/ (x = d /\ k = p)
      /\ \A x, k : In(o, x, k) => a[x].list[k] = o[x].list[k]
      /\ a[d].list[p] = e /\ ~In(o, d, p)
      /\ \A x, k, j : Leads(a, x, k, j) <=> Leads(o, x, k, j)
                                              \/ (x = d /\ k = p /\ j = i)
  BY <1>3, <1>4, AddedNames
<1>9. /\ LinksIn(a, i) = LinksIn(o, i) \cup {<<d, p>>}
      /\ \A j : j # i => LinksIn(a, j) = LinksIn(o, j)
  <2>1. /\ LinksIn(a, e.inode) = LinksIn(o, e.inode) \cup {<<d, p>>}
        /\ \A j : j # e.inode => LinksIn(a, j) = LinksIn(o, j)
    <3>1. Tables(o) /\ d \in DOMAIN o /\ e \in Entry /\ e.deleted = FALSE
      BY <1>3, <1>4
    <3>2. LinksIn(Added(o, d, e), e.inode) = LinksIn(o, e.inode) \cup {<<d, Len(o[d].list) + 1>>}
      BY <3>1, LinksAdded
    <3>3. \A j : j # e.inode => LinksIn(Added(o, d, e), j) = LinksIn(o, j)
      BY <3>1, LinksAdded
    <3> QED
      BY <3>2, <3>3
  <2> QED
    BY <1>4, <2>1
<1>10. /\ \A x, k, j : Leads(o, x, k, j) <=> Leads(dirs, x, k, j)
       /\ LastOfName(o) /\ \A j : LinksIn(o, j) = LinksIn(dirs, j)
  BY <1>1, <1>3, SameNames
<1>11. /\ \A x, k : In(o, x, k) <=> In(dirs, x, k)
       /\ \A x, k : In(dirs, x, k) => o[x].list[k] = dirs[x].list[k]
  BY <1>3 DEF SameEntries
<1>12. \A x, k : ~Leads(dirs, x, k, i)
  BY <1>1 DEF EntriesFit, Leads
<1>13. LastOfName(a)
  <2>1. \A k : In(o, d, k) => o[d].list[k].name # e.name
    BY <1>4, <1>6, <1>11, NotInUse
  <2> QED
    BY <1>3, <1>4, <1>10, <2>1, LastOfNameAdded
<1> HIDE DEF a, p
<1>14. Typed(w, a)
  BY <1>5, <1>7 DEF Typed
<1>15. Rooted(w, a)
  <2>1. Root \in DOMAIN a /\ a[Root].up = Root
    BY <1>1, <1>2, <1>3, <1>7 DEF Rooted
  <2>2. DOMAIN a = {x \in DOMAIN w : w[x].type = "directory"}
    BY <1>1, <1>3, <1>5, <1>7 DEF Rooted
  <2> QED
    BY <2>1, <2>2 DEF Rooted
<1>16. EntriesFit(w, a)
  <2> SUFFICES ASSUME NEW x, NEW k, In(a, x, k)
               PROVE  /\ a[x].list[k].inode \in DOMAIN w
                      /\ a[x].list[k].type = w[a[x].list[k].inode].type
    BY DEF EntriesFit
  <2>1. CASE x = d /\ k = p
    BY <1>4, <1>5, <1>8, <2>1
  <2>2. CASE In(dirs, x, k)
    <3>1. a[x].list[k] = dirs[x].list[k]
      BY <1>8, <1>11, <2>2
    <3>2. /\ dirs[x].list[k].inode \in DOMAIN nodes
          /\ dirs[x].list[k].type = nodes[dirs[x].list[k].inode].type
      BY <1>1, <2>2 DEF EntriesFit
    <3> QED
      BY <1>5, <3>1, <3>2
  <2> QED
    BY <1>8, <1>11, <2>1, <2>2
<1>17. OneName(w, a)
  <2>1. \A x, k : ~Leads(a, x, k, Root)
    BY <1>1, <1>2, <1>8, <1>10 DEF OneName
  <2>2. ASSUME NEW j \in DOMAIN a \ {Root}
        PROVE  \E k : OnlyAt(a, j, k)
    <3>1. CASE j \in DOMAIN dirs
      <4>1. PICK k : OnlyAt(dirs, j, k)
        BY <1>1, <3>1 DEF OneName
      <4>2. a[j].up = dirs[j].up /\ j # i
        BY <1>2, <1>3, <1>7, <3>1
      <4>3. OnlyAt(a, j, k)
        BY <1>8, <1>10, <4>1, <4>2 DEF OnlyAt
      <4> QED
        BY <4>3
    <3>2. CASE t = "directory" /\ j = i
      <4>1. a[j].up = d
        BY <1>3, <1>7, <3>2
      <4>2. OnlyAt(a, j, p)
        BY <1>8, <1>10, <1>12, <3>2, <4>1 DEF OnlyAt
      <4> QED
        BY <4>2
    <3> QED
      BY <1>3, <1>7, <3>1, <3>2
  <2>3. \A j \in DOMAIN a : w[j].links = 2
    BY <1>1, <1>3, <1>5, <1>7 DEF OneName, Rooted
  <2> QED
    BY <2>1, <2>2, <2>3 DEF OneName
<1>18. FileLinks(w, a)
  <2> SUFFICES ASSUME NEW j \in DOMAIN w, w[j].type = "file"
               PROVE  /\ IsFiniteSet(LinksIn(a, j))
                      /\ w[j].links = Cardinality(LinksIn(a, j))
                      /\ w[j].links \in 1 .. MaxLinks
    BY DEF FileLinks
  <2>1. CASE j = i
    <3>1. LinksIn(a, i) = {<<d, p>>}
      BY <1>9, <1>10, <1>12 DEF LinksIn
    <3>2. w[j].links = 1
      BY <1>5, <2>1
    <3> QED
      <4>1. IsFiniteSet(LinksIn(a, i)) /\ Cardinality(LinksIn(a, i)) = 1
        BY <3>1, FS_Singleton
      <4>2. 1 \in 1 .. MaxLinks
        BY NamespaceAssumption
      <4> QED
        BY <2>1, <3>2, <4>1, <4>2
  <2>2. CASE j # i
    BY <1>1, <1>5, <1>9, <1>10, <2>2 DEF FileLinks
  <2> QED
    BY <2>1, <2>2
<1>19. Total(a) <= MaxEntries
  BY <1>3, <1>6, <1>7, SizesType, NamespaceAssumption
<1> QED
  BY <1>13, <1>14, <1>15, <1>16, <1>17, <1>18, <1>19 DEF Sound, a, w, o, e

\* A file whose content was not stored leaves a deleted entry behind.
LEMMA AbandonedSound ==
  ASSUME Sound(nodes, dirs), NEW d \in DOMAIN dirs, NEW e \in Entry,
         e.deleted = FALSE, ~InUse(d, e.name), Total(dirs) < MaxEntries
  PROVE  LET a == Added(dirs, d, e) m == Flagged(a, d, Len(a[d].list))
         IN /\ Sound(nodes, m)
            /\ \A x, k : /\ In(m, x, k) <=> In(dirs, x, k)
                         /\ In(dirs, x, k) =>
                              /\ m[x].list[k].name = dirs[x].list[k].name
                              /\ m[x].list[k].inode = dirs[x].list[k].inode
<1> DEFINE a == Added(dirs, d, e)
           p == Len(dirs[d].list) + 1
           m == Flagged(a, d, Len(a[d].list))
<1>1. /\ Typed(nodes, dirs) /\ Tables(dirs) /\ Rooted(nodes, dirs)
      /\ EntriesFit(nodes, dirs) /\ LastOfName(dirs) /\ OneName(nodes, dirs)
      /\ FileLinks(nodes, dirs)
  BY DEF Sound, Typed
<1>2. /\ Tables(a) /\ DOMAIN a = DOMAIN dirs /\ \A x \in DOMAIN dirs : a[x].up = dirs[x].up
      /\ Len(a[d].list) = p /\ Total(a) = Total(dirs) + 1
  BY <1>1, AddedFacts
<1>3. /\ \A x, k : In(a, x, k) <=> In(dirs, x, k) \/ (x = d /\ k = p /\ ~e.deleted)
      /\ \A x, k : In(dirs, x, k) => a[x].list[k] = dirs[x].list[k]
      /\ a[d].list[p] = e /\ ~In(dirs, d, p)
  BY <1>1, AddedNames
<1>4. LastOfName(a)
  <2>1. \A k : In(dirs, d, k) => dirs[d].list[k].name # e.name
    BY NotInUse
  <2> QED
    BY <1>1, <2>1, LastOfNameAdded
<1>5. In(a, d, p)
  BY <1>3
<1> HIDE DEF a, p
<1>6. /\ Tables(m) /\ DOMAIN m = DOMAIN a /\ \A x \in DOMAIN a : m[x].up = a[x].up
      /\ Total(m) = Total(a)
  <2>1. d \in DOMAIN a /\ p \in 1 .. Len(a[d].list)
    BY <1>5, <1>2, InType
  <2> QED
    BY <1>2, <2>1, FlaggedFacts
<1>7. /\ \A x, j : In(m, x, j) <=> In(a, x, j) /\ ~(x = d /\ j = p)
      /\ \A x, j : In(a, x, j) =>
           /\ m[x].list[j].name = a[x].list[j].name
           /\ m[x].list[j].inode = a[x].list[j].inode
           /\ m[x].list[j].type = a[x].list[j].type
  BY <1>2, <1>5, FlaggedNames
<1>8. LastOfName(m)
  BY <1>2, <1>4, <1>5, LastOfNameFlagged
<1> HIDE DEF m
<1>9. \A x, k : In(m, x, k) <=> In(dirs, x, k)
  BY <1>3, <1>7
<1>10. \A x, k : In(dirs, x, k) =>
         /\ m[x].list[k].name = dirs[x].list[k].name
         /\ m[x].list[k].inode = dirs[x].list[k].inode
         /\ m[x].list[k].type = dirs[x].list[k].type
  BY <1>3, <1>7
<1>11. \A x, k, i : Leads(m, x, k, i) <=> Leads(dirs, x, k, i)
  BY <1>9, <1>10 DEF Leads
<1>12. \A i : LinksIn(m, i) = LinksIn(dirs, i)
  BY <1>11 DEF LinksIn
<1>13. Sound(nodes, m)
  <2>1. Typed(nodes, m)
    BY <1>1, <1>6 DEF Typed
  <2>2. Rooted(nodes, m)
    BY <1>1, <1>2, <1>6 DEF Rooted
  <2>3. EntriesFit(nodes, m)
    BY <1>1, <1>9, <1>10 DEF EntriesFit
  <2>4. OneName(nodes, m)
    <3>1. \A x, k : ~Leads(m, x, k, Root)
      BY <1>1, <1>11 DEF OneName
    <3>2. ASSUME NEW j \in DOMAIN m \ {Root}
          PROVE  \E k : OnlyAt(m, j, k)
      <4>1. m[j].up = dirs[j].up /\ j \in DOMAIN dirs \ {Root}
        BY <1>2, <1>6
      <4>2. PICK k : OnlyAt(dirs, j, k)
        BY <1>1, <4>1 DEF OneName
      <4>3. OnlyAt(m, j, k)
        BY <1>11, <4>1, <4>2 DEF OnlyAt
      <4> QED
        BY <4>3
    <3>3. \A j \in DOMAIN m : nodes[j].links = 2
      BY <1>1, <1>2, <1>6 DEF OneName
    <3> QED
      BY <3>1, <3>2, <3>3 DEF OneName
  <2>5. FileLinks(nodes, m)
    BY <1>1, <1>12 DEF FileLinks
  <2>6. Total(m) <= MaxEntries
    BY <1>1, <1>2, <1>6, SizesType, NamespaceAssumption
  <2> QED
    BY <1>8, <2>1, <2>2, <2>3, <2>4, <2>5, <2>6 DEF Sound
<1> QED
  BY <1>9, <1>10, <1>13 DEF a, m

LEMMA LinkedSound ==
  ASSUME Sound(nodes, dirs), NEW i \in DOMAIN nodes, nodes[i].type = "file",
         nodes[i].links < MaxLinks, NEW d \in DOMAIN dirs, NEW n \in Names,
         CanAdd(dirs, d, n)
  PROVE  Sound([nodes EXCEPT ![i].links = @ + 1],
               Added(dirs, d, NewEntry(n, i, nodes[i].type)))
<1> DEFINE e == NewEntry(n, i, nodes[i].type)
           a == Added(dirs, d, e)
           p == Len(dirs[d].list) + 1
           w == [nodes EXCEPT ![i].links = @ + 1]
<1>1. /\ Tables(dirs) /\ Rooted(nodes, dirs) /\ EntriesFit(nodes, dirs)
      /\ LastOfName(dirs) /\ OneName(nodes, dirs) /\ FileLinks(nodes, dirs)
      /\ nodes \in [DOMAIN nodes -> Node] /\ DOMAIN nodes \subseteq Ids
  BY DEF Sound, Typed
<1>2. i \notin DOMAIN dirs /\ i \in Ids /\ nodes[i] \in Node
  BY <1>1 DEF Rooted
<1>3. /\ e \in Entry /\ e.deleted = FALSE /\ e.inode = i /\ e.name = n
      /\ e.type = nodes[i].type
  BY <1>2 DEF NewEntry, Entry, Node
<1>4. ~InUse(d, n) /\ Total(dirs) < MaxEntries
  BY DEF CanAdd
<1>5. /\ w \in [DOMAIN w -> Node] /\ DOMAIN w = DOMAIN nodes
      /\ w[i].links = nodes[i].links + 1 /\ w[i].type = nodes[i].type
      /\ \A x \in DOMAIN nodes \ {i} : w[x] = nodes[x]
  <2>1. w = [nodes EXCEPT ![i] = [nodes[i] EXCEPT !.links = nodes[i].links + 1]]
    OBVIOUS
  <2>2. [nodes[i] EXCEPT !.links = nodes[i].links + 1] \in Node
    BY <1>2 DEF Node
  <2> QED
    BY <1>1, <1>2, <2>1, <2>2 DEF Node
<1> HIDE DEF e, w
<1>6. /\ Tables(a) /\ DOMAIN a = DOMAIN dirs
      /\ \A x \in DOMAIN dirs : a[x].up = dirs[x].up
      /\ Total(a) = Total(dirs) + 1
  BY <1>1, <1>3, AddedFacts
<1>7. /\ \A x, k : In(a, x, k) <=> In(dirs, x, k) \/ (x = d /\ k = p)
      /\ \A x, k : In(dirs, x, k) => a[x].list[k] = dirs[x].list[k]
      /\ a[d].list[p] = e
      /\ \A x, k, j : Leads(a, x, k, j) <=> Leads(dirs, x, k, j)
                                              \/ (x = d /\ k = p /\ j = i)
  BY <1>1, <1>3, AddedNames
<1>8. /\ LinksIn(a, i) = LinksIn(dirs, i) \cup {<<d, p>>}
      /\ \A j : j # i => LinksIn(a, j) = LinksIn(dirs, j)
      /\ <<d, p>> \notin LinksIn(dirs, i)
  <2>1. Tables(dirs) /\ d \in DOMAIN dirs /\ e \in Entry /\ e.deleted = FALSE
    BY <1>1, <1>3
  <2>2. LinksIn(a, e.inode) = LinksIn(dirs, e.inode) \cup {<<d, p>>}
    BY <2>1, LinksAdded
  <2>3. \A j : j # e.inode => LinksIn(a, j) = LinksIn(dirs, j)
    BY <2>1, LinksAdded
  <2>4. <<d, p>> \notin LinksIn(dirs, i)
    BY <2>1, LinksAdded
  <2> QED
    BY <1>3, <2>2, <2>3, <2>4
<1>9. LastOfName(a)
  <2>1. \A k : In(dirs, d, k) => dirs[d].list[k].name # e.name
    BY <1>3, <1>4, NotInUse
  <2> QED
    BY <1>1, <1>3, <2>1, LastOfNameAdded
<1> HIDE DEF a, p
<1>10. Typed(w, a)
  BY <1>1, <1>5, <1>6 DEF Typed
<1>11. \A x \in DOMAIN nodes : w[x].type = nodes[x].type
  BY <1>5
<1>12. Rooted(w, a)
  <2>1. DOMAIN a = {x \in DOMAIN w : w[x].type = "directory"}
    BY <1>1, <1>5, <1>6, <1>11 DEF Rooted
  <2> QED
    BY <1>1, <1>6, <2>1 DEF Rooted
<1>13. EntriesFit(w, a)
  BY <1>1, <1>3, <1>5, <1>7, <1>11 DEF EntriesFit
<1>14. OneName(w, a)
  <2>1. \A x, k : ~Leads(a, x, k, Root)
    <3>1. i # Root
      BY <1>1, <1>2 DEF Rooted
    <3> QED
      BY <1>1, <1>7, <3>1 DEF OneName
  <2>2. ASSUME NEW j \in DOMAIN a \ {Root}
        PROVE  \E k : OnlyAt(a, j, k)
    <3>1. a[j].up = dirs[j].up /\ j \in DOMAIN dirs \ {Root} /\ j # i
      BY <1>2, <1>6
    <3>2. PICK q : OnlyAt(dirs, j, q)
      BY <1>1, <3>1 DEF OneName
    <3>3. OnlyAt(a, j, q)
      BY <1>7, <3>1, <3>2 DEF OnlyAt
    <3> QED
      BY <3>3
  <2>3. \A j \in DOMAIN a : w[j].links = 2
    BY <1>1, <1>2, <1>5, <1>6 DEF OneName, Rooted
  <2> QED
    BY <2>1, <2>2, <2>3 DEF OneName
<1>15. FileLinks(w, a)
  <2> SUFFICES ASSUME NEW j \in DOMAIN w, w[j].type = "file"
               PROVE  /\ IsFiniteSet(LinksIn(a, j))
                      /\ w[j].links = Cardinality(LinksIn(a, j))
                      /\ w[j].links \in 1 .. MaxLinks
    BY DEF FileLinks
  <2>1. /\ IsFiniteSet(LinksIn(dirs, j)) /\ nodes[j].links = Cardinality(LinksIn(dirs, j))
        /\ nodes[j].links \in 1 .. MaxLinks
    BY <1>1, <1>5, <1>11 DEF FileLinks
  <2>2. CASE j = i
    <3>1. /\ IsFiniteSet(LinksIn(a, i))
          /\ Cardinality(LinksIn(a, i)) = Cardinality(LinksIn(dirs, i)) + 1
      <4>1. IsFiniteSet(LinksIn(dirs, i)) /\ <<d, p>> \notin LinksIn(dirs, i)
        BY <1>8, <2>1, <2>2
      <4>2. /\ IsFiniteSet(LinksIn(dirs, i) \cup {<<d, p>>})
            /\ Cardinality(LinksIn(dirs, i) \cup {<<d, p>>}) =
                 Cardinality(LinksIn(dirs, i)) + 1
        BY <4>1, FS_AddElement
      <4> QED
        BY <1>8, <4>2
    <3> QED
      BY <1>5, <2>1, <2>2, <3>1, NamespaceAssumption
  <2>3. CASE j # i
    BY <1>5, <1>8, <2>1, <2>3
  <2> QED
    BY <2>2, <2>3
<1>16. Total(a) <= MaxEntries
  BY <1>1, <1>4, <1>6, SizesType, NamespaceAssumption
<1> QED
  BY <1>9, <1>10, <1>12, <1>13, <1>14, <1>15, <1>16 DEF Sound, a, w, e

\* The tables after a rename that succeeds.
Renamed(s, o, d, n) ==
  Moved(Added(Marked(dirs, s, o), d, NewEntry(n, EntryOf(s, o).inode, EntryOf(s, o).type)),
        EntryOf(s, o), s, d)

\* The tables with the old name marked, and the new entry.
OldMarked(s, o) == Flagged(dirs, s, Place(s, o))
NewName(s, o, n) == NewEntry(n, EntryOf(s, o).inode, EntryOf(s, o).type)

NamedAs(f, n, e) == /\ f \in Entry /\ f.deleted = FALSE /\ f.name = n
                    /\ f.inode = e.inode /\ f.type = e.type

LEMMA NewNameFacts ==
  ASSUME NEW s, NEW o, NEW n \in Names, EntryOf(s, o) \in Entry
  PROVE  NamedAs(NewName(s, o, n), n, EntryOf(s, o))
BY DEF NewName, NewEntry, Entry, NamedAs

LEMMA RenamedFacts ==
  ASSUME Sound(nodes, dirs), NEW s \in DOMAIN dirs, NEW o, InUse(s, o),
         NEW d \in DOMAIN dirs, NEW n \in Names
  PROVE  LET c == Renamed(s, o, d, n)
             e == EntryOf(s, o)
             m == OldMarked(s, o)
             f == NewName(s, o, n)
         IN /\ In(dirs, s, Place(s, o)) /\ e = dirs[s].list[Place(s, o)] /\ e \in Entry
            /\ Leads(dirs, s, Place(s, o), e.inode)
            /\ Tables(m) /\ DOMAIN m = DOMAIN dirs /\ Total(m) = Total(dirs)
            /\ Tables(Added(m, d, f)) /\ Total(Added(m, d, f)) = Total(m) + 1
            /\ Tables(c) /\ DOMAIN c = DOMAIN dirs /\ SameEntries(Added(m, d, f), c)
            /\ Total(c) = Total(Added(m, d, f))
            /\ \A y \in DOMAIN dirs \ {e.inode} : c[y].up = dirs[y].up
            /\ e.inode \in DOMAIN dirs => c[e.inode].up = d
<1> DEFINE e == EntryOf(s, o)
           k == Place(s, o)
           m == OldMarked(s, o)
           f == NewName(s, o, n)
           a == Added(m, d, f)
           c == Moved(a, e, s, d)
<1>1. /\ Tables(dirs) /\ Rooted(nodes, dirs) /\ EntriesFit(nodes, dirs)
      /\ LastOfName(dirs) /\ OneName(nodes, dirs)
  BY DEF Sound, Typed
<1>2. /\ In(dirs, s, k) /\ e = dirs[s].list[k] /\ e \in Entry
      /\ k \in 1 .. Len(dirs[s].list)
  BY <1>1, FoundPlace
<1>a. m = Flagged(dirs, s, k)
  BY DEF OldMarked
<1> HIDE DEF e, k, m, f
<1>3. Leads(dirs, s, k, e.inode)
  BY <1>2 DEF Leads
<1>4. /\ Tables(m) /\ DOMAIN m = DOMAIN dirs /\ Total(m) = Total(dirs)
      /\ \A y \in DOMAIN dirs : m[y].up = dirs[y].up
  BY <1>1, <1>2, <1>a, FlaggedFacts
<1>5. /\ f \in Entry /\ f.deleted = FALSE /\ f.inode = e.inode
      /\ f.name = n /\ f.type = e.type
  <2>1. NamedAs(f, n, e)
    BY <1>2, NewNameFacts DEF e, f
  <2> QED
    BY <2>1 DEF NamedAs
<1>6. /\ Tables(a) /\ DOMAIN a = DOMAIN dirs /\ Total(a) = Total(m) + 1
      /\ \A y \in DOMAIN dirs : a[y].up = dirs[y].up
  BY <1>4, <1>5, AddedFacts
<1> HIDE DEF a
<1>7. e.inode \in DOMAIN dirs <=> e.type = "directory"
  BY <1>1, <1>2 DEF Rooted, EntriesFit
<1>8. e.inode \in DOMAIN dirs => dirs[e.inode].up = s
  <2>1. e.inode # Root
    BY <1>1, <1>3 DEF OneName
  <2>2. ASSUME e.inode \in DOMAIN dirs PROVE dirs[e.inode].up = s
    <3>1. PICK q : OnlyAt(dirs, e.inode, q)
      BY <1>1, <2>1, <2>2 DEF OneName
    <3> QED
      BY <1>3, <3>1 DEF OnlyAt
  <2> QED
    BY <2>2
<1>9. /\ Tables(c) /\ DOMAIN c = DOMAIN dirs /\ SameEntries(a, c) /\ Total(c) = Total(a)
      /\ \A y \in DOMAIN dirs \ {e.inode} : c[y].up = dirs[y].up
      /\ e.inode \in DOMAIN dirs => c[e.inode].up = d
  <2>1. CASE e.type = "directory" /\ s # d
    <3>1. c = WithUp(a, e.inode, d)
      BY <2>1 DEF Moved, WithUp
    <3>2. e.inode \in DOMAIN a /\ d \in Ids
      BY <1>1, <1>6, <1>7, <2>1, TableFacts
    <3> HIDE DEF c
    <3>3. /\ Tables(c) /\ DOMAIN c = DOMAIN a /\ c[e.inode].up = d
          /\ \A y \in DOMAIN a \ {e.inode} : c[y].up = a[y].up
          /\ SameEntries(a, c) /\ Total(c) = Total(a)
      BY <1>6, <3>1, <3>2, UpFacts
    <3> QED
      BY <1>6, <3>3
  <2>2. CASE ~(e.type = "directory" /\ s # d)
    <3>1. c = a
      BY <2>2 DEF Moved
    <3>2. SameEntries(a, a)
      BY DEF SameEntries
    <3> QED
      BY <1>6, <1>7, <1>8, <2>2, <3>1, <3>2
  <2> QED
    BY <2>1, <2>2
<1>10. Renamed(s, o, d, n) = c
  BY MarkedIsFlagged DEF Renamed, OldMarked, NewName, a, m, f, e, k
<1> HIDE DEF c
<1> QED
  BY <1>2, <1>3, <1>4, <1>5, <1>6, <1>9, <1>10 DEF a, f, m, e, k

\* In terms of the entries in use: one goes and one comes.
LEMMA RenamedNames ==
  ASSUME Sound(nodes, dirs), NEW s \in DOMAIN dirs, NEW o, InUse(s, o),
         NEW d \in DOMAIN dirs, NEW n \in Names
  PROVE  LET c == Renamed(s, o, d, n)
             e == EntryOf(s, o)
             k == Place(s, o)
             p == Len(OldMarked(s, o)[d].list) + 1
         IN /\ \A x, j : In(c, x, j) <=> \/ In(dirs, x, j) /\ ~(x = s /\ j = k)
                                         \/ x = d /\ j = p
            /\ \A x, j : In(dirs, x, j) /\ ~(x = s /\ j = k) =>
                 /\ c[x].list[j].name = dirs[x].list[j].name
                 /\ c[x].list[j].inode = dirs[x].list[j].inode
                 /\ c[x].list[j].type = dirs[x].list[j].type
            /\ c[d].list[p] = NewName(s, o, n)
            /\ \A x, j, i : Leads(c, x, j, i) <=>
                              \/ Leads(dirs, x, j, i) /\ ~(x = s /\ j = k)
                              \/ x = d /\ j = p /\ i = e.inode
            /\ ~(In(dirs, d, p) /\ ~(d = s /\ p = k))
<1> DEFINE e == EntryOf(s, o)
           k == Place(s, o)
           m == OldMarked(s, o)
           p == Len(m[d].list) + 1
           f == NewName(s, o, n)
           a == Added(m, d, f)
           c == Renamed(s, o, d, n)
<1>1. /\ In(dirs, s, k) /\ Tables(m) /\ DOMAIN m = DOMAIN dirs
      /\ f \in Entry /\ f.deleted = FALSE /\ f.inode = e.inode
      /\ SameEntries(a, c)
  <2>1. In(dirs, s, k) /\ Tables(m) /\ DOMAIN m = DOMAIN dirs
    BY RenamedFacts
  <2>2. e \in Entry
    BY RenamedFacts
  <2>3. f \in Entry /\ f.deleted = FALSE /\ f.inode = e.inode
    <3>1. NamedAs(f, n, e)
      BY <2>2, NewNameFacts
    <3> QED
      BY <3>1 DEF NamedAs
  <2>4. SameEntries(a, c)
    BY RenamedFacts
  <2> QED
    BY <2>1, <2>3, <2>4
<1>2. Tables(dirs)
  BY DEF Sound, Typed
<1>3. /\ \A x, j : In(m, x, j) <=> In(dirs, x, j) /\ ~(x = s /\ j = k)
      /\ \A x, j : In(dirs, x, j) =>
           /\ m[x].list[j].name = dirs[x].list[j].name
           /\ m[x].list[j].inode = dirs[x].list[j].inode
           /\ m[x].list[j].type = dirs[x].list[j].type
      /\ \A x, j, i : Leads(m, x, j, i) <=> Leads(dirs, x, j, i) /\ ~(x = s /\ j = k)
  BY <1>1, <1>2, FlaggedNames DEF OldMarked
<1> HIDE DEF m, f, c, k
<1>4. /\ \A x, j : In(a, x, j) <=> In(m, x, j) \/ (x = d /\ j = p)
      /\ \A x, j : In(m, x, j) => a[x].list[j] = m[x].list[j]
      /\ a[d].list[p] = f /\ ~In(m, d, p)
      /\ \A x, j, i : Leads(a, x, j, i) <=>
           Leads(m, x, j, i) \/ (x = d /\ j = p /\ i = e.inode)
  BY <1>1, AddedNames
<1> HIDE DEF a, p, e
<1>5. \A x, j, i : Leads(c, x, j, i) <=> Leads(a, x, j, i)
  BY <1>1, SameNames
<1>6. /\ \A x, j : In(c, x, j) <=> In(a, x, j)
      /\ \A x, j : In(a, x, j) => c[x].list[j] = a[x].list[j]
  BY <1>1 DEF SameEntries
<1>7. \A x, j : In(c, x, j) <=> \/ In(dirs, x, j) /\ ~(x = s /\ j = k)
                                \/ x = d /\ j = p
  BY <1>3, <1>4, <1>6
<1>8. \A x, j : In(dirs, x, j) /\ ~(x = s /\ j = k) =>
                 /\ c[x].list[j].name = dirs[x].list[j].name
                 /\ c[x].list[j].inode = dirs[x].list[j].inode
                 /\ c[x].list[j].type = dirs[x].list[j].type
  BY <1>3, <1>4, <1>6
<1>9. c[d].list[p] = f
  BY <1>4, <1>6
<1>10. \A x, j, i : Leads(c, x, j, i) <=>
                              \/ Leads(dirs, x, j, i) /\ ~(x = s /\ j = k)
                              \/ x = d /\ j = p /\ i = e.inode
  BY <1>3, <1>4, <1>5
<1>11. ~(In(dirs, d, p) /\ ~(d = s /\ p = k))
  BY <1>3, <1>4
<1> QED
  BY <1>7, <1>8, <1>9, <1>10, <1>11 DEF c, e, k, p, m, f

LEMMA RenamedSound ==
  ASSUME Sound(nodes, dirs), NEW s \in DOMAIN dirs, NEW o, InUse(s, o),
         NEW d \in DOMAIN dirs, NEW n \in Names, ~InUse(d, n),
         Total(Marked(dirs, s, o)) < MaxEntries
  PROVE  Sound(nodes, Renamed(s, o, d, n))
<1> DEFINE e == EntryOf(s, o)
           k == Place(s, o)
           m == OldMarked(s, o)
           p == Len(m[d].list) + 1
           f == NewName(s, o, n)
           a == Added(m, d, f)
           c == Renamed(s, o, d, n)
<1>1. /\ Tables(dirs) /\ Rooted(nodes, dirs) /\ EntriesFit(nodes, dirs)
      /\ LastOfName(dirs) /\ OneName(nodes, dirs) /\ FileLinks(nodes, dirs)
      /\ Typed(nodes, dirs)
  BY DEF Sound, Typed
<1>2. /\ In(dirs, s, k) /\ e = dirs[s].list[k] /\ e \in Entry
      /\ Leads(dirs, s, k, e.inode)
      /\ Tables(m) /\ DOMAIN m = DOMAIN dirs /\ Total(m) = Total(dirs)
  BY RenamedFacts
<1>3. /\ f \in Entry /\ f.deleted = FALSE /\ f.name = n
      /\ f.inode = e.inode /\ f.type = e.type
  <2>1. NamedAs(f, n, e)
    BY <1>2, NewNameFacts
  <2> QED
    BY <2>1 DEF NamedAs
<1>4. /\ Tables(c) /\ DOMAIN c = DOMAIN dirs /\ SameEntries(a, c)
      /\ Total(c) = Total(a) /\ Total(a) = Total(m) + 1
      /\ \A y \in DOMAIN dirs \ {e.inode} : c[y].up = dirs[y].up
      /\ e.inode \in DOMAIN dirs => c[e.inode].up = d
  BY RenamedFacts
<1>5. /\ \A x, j : In(c, x, j) <=> \/ In(dirs, x, j) /\ ~(x = s /\ j = k)
                                   \/ x = d /\ j = p
      /\ \A x, j : In(dirs, x, j) /\ ~(x = s /\ j = k) =>
           /\ c[x].list[j].name = dirs[x].list[j].name
           /\ c[x].list[j].inode = dirs[x].list[j].inode
           /\ c[x].list[j].type = dirs[x].list[j].type
      /\ c[d].list[p] = f
  BY RenamedNames
<1>6. /\ \A x, j, i : Leads(c, x, j, i) <=>
                        \/ Leads(dirs, x, j, i) /\ ~(x = s /\ j = k)
                        \/ x = d /\ j = p /\ i = e.inode
      /\ ~(In(dirs, d, p) /\ ~(d = s /\ p = k))
  BY RenamedNames
<1>7. m = Flagged(dirs, s, k)
  BY DEF OldMarked
<1>8. Total(m) < MaxEntries
  BY <1>7, MarkedIsFlagged
<1>9. LastOfName(c)
  <2>1. LastOfName(m)
    BY <1>1, <1>2, <1>7, LastOfNameFlagged
  <2>2. \A j : In(m, d, j) => m[d].list[j].name # n
    BY <1>1, <1>2, <1>7, FlaggedNames, NotInUse
  <2>3. LastOfName(a)
    BY <1>2, <1>3, <2>1, <2>2, LastOfNameAdded
  <2> QED
    BY <1>4, <2>3, SameNames
<1>10. e.inode # Root
  BY <1>1, <1>2 DEF OneName
<1>11. e.inode \in DOMAIN nodes /\ e.type = nodes[e.inode].type
  BY <1>1, <1>2 DEF EntriesFit
<1> HIDE DEF e, k, m, p, f, a, c
<1>12. Typed(nodes, c)
  BY <1>1, <1>4 DEF Typed
<1>13. Rooted(nodes, c)
  BY <1>1, <1>4, <1>10 DEF Rooted
<1>14. EntriesFit(nodes, c)
  <2> SUFFICES ASSUME NEW x, NEW j, In(c, x, j)
               PROVE  /\ c[x].list[j].inode \in DOMAIN nodes
                      /\ c[x].list[j].type = nodes[c[x].list[j].inode].type
    BY DEF EntriesFit
  <2>1. CASE x = d /\ j = p
    BY <1>3, <1>5, <1>11, <2>1
  <2>2. CASE In(dirs, x, j) /\ ~(x = s /\ j = k)
    <3>1. /\ dirs[x].list[j].inode \in DOMAIN nodes
          /\ dirs[x].list[j].type = nodes[dirs[x].list[j].inode].type
      BY <1>1, <2>2 DEF EntriesFit
    <3> QED
      BY <1>5, <2>2, <3>1
  <2> QED
    BY <1>5, <2>1, <2>2
<1>15. OneName(nodes, c)
  <2>1. \A x, j : ~Leads(c, x, j, Root)
    BY <1>1, <1>6, <1>10 DEF OneName
  <2>2. ASSUME NEW i \in DOMAIN c \ {Root}
        PROVE  \E q : OnlyAt(c, i, q)
    <3>1. i \in DOMAIN dirs \ {Root}
      BY <1>4
    <3>2. PICK q : OnlyAt(dirs, i, q)
      BY <1>1, <3>1 DEF OneName
    <3>3. CASE i = e.inode
      <4>1. s = dirs[i].up /\ k = q
        BY <1>2, <3>2, <3>3 DEF OnlyAt
      <4>2. c[i].up = d
        BY <1>4, <3>1, <3>3
      <4>3. OnlyAt(c, i, p)
        BY <1>6, <3>2, <3>3, <4>1, <4>2 DEF OnlyAt
      <4> QED
        BY <4>3
    <3>4. CASE i # e.inode
      <4>1. c[i].up = dirs[i].up
        BY <1>4, <3>1, <3>4
      <4>2. ~Leads(dirs, s, k, i)
        BY <1>2, <3>4 DEF Leads
      <4>3. OnlyAt(c, i, q)
        BY <1>6, <3>2, <3>4, <4>1, <4>2 DEF OnlyAt
      <4> QED
        BY <4>3
    <3> QED
      BY <3>3, <3>4
  <2>3. \A i \in DOMAIN c : nodes[i].links = 2
    BY <1>1, <1>4 DEF OneName
  <2> QED
    BY <2>1, <2>2, <2>3 DEF OneName
<1>16. FileLinks(nodes, c)
  <2>1. <<s, k>> \in Ids \X Nat /\ <<d, p>> \in Ids \X Nat
    <3>1. s \in Ids /\ k \in Nat
      BY <1>1, <1>2, InType
    <3>2. d \in Ids /\ p \in Nat
      BY <1>2, TableFacts DEF p
    <3> QED
      BY <3>1, <3>2
  <2> SUFFICES ASSUME NEW i \in DOMAIN nodes, nodes[i].type = "file"
               PROVE  /\ IsFiniteSet(LinksIn(c, i))
                      /\ nodes[i].links = Cardinality(LinksIn(c, i))
                      /\ nodes[i].links \in 1 .. MaxLinks
    BY DEF FileLinks
  <2>2. /\ IsFiniteSet(LinksIn(dirs, i)) /\ nodes[i].links = Cardinality(LinksIn(dirs, i))
        /\ nodes[i].links \in 1 .. MaxLinks
    BY <1>1 DEF FileLinks
  <2>3. CASE i # e.inode
    <3>1. LinksIn(c, i) = LinksIn(dirs, i)
      BY <1>2, <1>6, <2>3 DEF LinksIn, Leads
    <3> QED
      BY <2>2, <3>1
  <2>4. CASE i = e.inode
    <3>1. LinksIn(c, i) = (LinksIn(dirs, i) \ {<<s, k>>}) \cup {<<d, p>>}
      BY <1>6, <2>1, <2>4 DEF LinksIn
    <3>2. <<s, k>> \in LinksIn(dirs, i)
      BY <1>2, <2>1, <2>4 DEF LinksIn
    <3>3. <<d, p>> \notin LinksIn(dirs, i) \ {<<s, k>>}
      BY <1>6 DEF LinksIn, Leads
    <3>4. /\ IsFiniteSet(LinksIn(dirs, i) \ {<<s, k>>})
          /\ Cardinality(LinksIn(dirs, i) \ {<<s, k>>}) = Cardinality(LinksIn(dirs, i)) - 1
      BY <2>2, <3>2, FS_RemoveElement
    <3>5. /\ IsFiniteSet(LinksIn(c, i))
          /\ Cardinality(LinksIn(c, i)) = Cardinality(LinksIn(dirs, i) \ {<<s, k>>}) + 1
      <4> DEFINE L == LinksIn(dirs, i) \ {<<s, k>>}
      <4>1. LinksIn(c, i) = L \cup {<<d, p>>} /\ <<d, p>> \notin L /\ IsFiniteSet(L)
        BY <3>1, <3>3, <3>4
      <4> HIDE DEF L
      <4>2. /\ IsFiniteSet(L \cup {<<d, p>>})
            /\ Cardinality(L \cup {<<d, p>>}) = Cardinality(L) + 1
        BY <4>1, FS_AddElement
      <4> QED
        BY <4>1, <4>2 DEF L
    <3> QED
      BY <2>2, <3>4, <3>5, NamespaceAssumption
  <2> QED
    BY <2>3, <2>4
<1>17. Total(c) <= MaxEntries
  BY <1>2, <1>4, <1>8, SizesType, NamespaceAssumption
<1> QED
  BY <1>9, <1>12, <1>13, <1>14, <1>15, <1>16, <1>17 DEF Sound, c

\* An entry is marked whose inode keeps other names.
LEMMA UnlinkedMoreSound ==
  ASSUME Sound(nodes, dirs), NEW s \in DOMAIN dirs, NEW o, InUse(s, o),
         NEW x, x = EntryOf(s, o).inode, nodes[x].type # "directory",
         ~(nodes[x].links <= 1)
  PROVE  Sound([nodes EXCEPT ![x].links = @ - 1], OldMarked(s, o))
<1> DEFINE k == Place(s, o)
           m == OldMarked(s, o)
           w == [nodes EXCEPT ![x].links = @ - 1]
<1>1. /\ Tables(dirs) /\ Rooted(nodes, dirs) /\ EntriesFit(nodes, dirs)
      /\ LastOfName(dirs) /\ OneName(nodes, dirs) /\ FileLinks(nodes, dirs)
      /\ nodes \in [DOMAIN nodes -> Node] /\ DOMAIN nodes \subseteq Ids
      /\ Total(dirs) <= MaxEntries
  BY DEF Sound, Typed
<1>2. /\ In(dirs, s, k) /\ dirs[s].list[k].inode = x /\ k \in 1 .. Len(dirs[s].list)
  BY <1>1, FoundPlace
<1>3. x \in DOMAIN nodes /\ x \in Ids /\ nodes[x] \in Node
  BY <1>1, <1>2 DEF EntriesFit
<1>4. nodes[x].type = "file" /\ nodes[x].links \in Nat /\ x \notin DOMAIN dirs
  BY <1>1, <1>3 DEF Node, Types, Rooted
<1>5. m = Flagged(dirs, s, k)
  BY DEF OldMarked
<1>6. /\ w \in [DOMAIN w -> Node] /\ DOMAIN w = DOMAIN nodes
      /\ w[x].links = nodes[x].links - 1 /\ w[x].type = nodes[x].type
      /\ \A y \in DOMAIN nodes \ {x} : w[y] = nodes[y]
  <2>1. w = [nodes EXCEPT ![x] = [nodes[x] EXCEPT !.links = nodes[x].links - 1]]
    OBVIOUS
  <2>2. nodes[x].links - 1 \in Nat
    BY <1>4
  <2>3. [nodes[x] EXCEPT !.links = nodes[x].links - 1] \in Node
    BY <1>3, <2>2 DEF Node
  <2> QED
    BY <1>1, <1>3, <2>1, <2>3 DEF Node
<1> HIDE DEF m, k, w
<1>7. /\ Tables(m) /\ DOMAIN m = DOMAIN dirs /\ Total(m) = Total(dirs)
      /\ \A y \in DOMAIN dirs : m[y].up = dirs[y].up
  BY <1>1, <1>2, <1>5, FlaggedFacts
<1>8. /\ \A y, j : In(m, y, j) <=> In(dirs, y, j) /\ ~(y = s /\ j = k)
      /\ \A y, j : In(dirs, y, j) =>
           /\ m[y].list[j].name = dirs[y].list[j].name
           /\ m[y].list[j].inode = dirs[y].list[j].inode
           /\ m[y].list[j].type = dirs[y].list[j].type
      /\ \A y, j, i : Leads(m, y, j, i) <=> Leads(dirs, y, j, i) /\ ~(y = s /\ j = k)
  BY <1>1, <1>2, <1>5, FlaggedNames
<1>9. \A i : /\ LinksIn(m, i) = LinksIn(dirs, i) \ {<<s, k>>}
             /\ <<s, k>> \in LinksIn(dirs, i) <=> i = x
  BY <1>1, <1>2, <1>5, LinksFlagged
<1>10. LastOfName(m)
  BY <1>1, <1>2, <1>5, LastOfNameFlagged
<1>11. \A y \in DOMAIN nodes : w[y].type = nodes[y].type
  BY <1>6
<1>12. Typed(w, m)
  BY <1>1, <1>6, <1>7 DEF Typed
<1>13. Rooted(w, m)
  <2>1. DOMAIN m = {y \in DOMAIN w : w[y].type = "directory"}
    BY <1>1, <1>6, <1>7, <1>11 DEF Rooted
  <2> QED
    BY <1>1, <1>7, <2>1 DEF Rooted
<1>14. EntriesFit(w, m)
  BY <1>1, <1>6, <1>8, <1>11 DEF EntriesFit
<1>15. OneName(w, m)
  <2>1. \A y, j : ~Leads(m, y, j, Root)
    BY <1>1, <1>8 DEF OneName
  <2>2. ASSUME NEW i \in DOMAIN m \ {Root} PROVE \E q : OnlyAt(m, i, q)
    <3>1. i \in DOMAIN dirs \ {Root} /\ i # x /\ m[i].up = dirs[i].up
      BY <1>4, <1>7
    <3>2. PICK q : OnlyAt(dirs, i, q)
      BY <1>1, <3>1 DEF OneName
    <3>3. ~Leads(dirs, s, k, i)
      BY <1>2, <3>1 DEF Leads
    <3>4. OnlyAt(m, i, q)
      BY <1>8, <3>1, <3>2, <3>3 DEF OnlyAt
    <3> QED
      BY <3>4
  <2>3. \A i \in DOMAIN m : w[i].links = 2
    BY <1>1, <1>4, <1>6, <1>7 DEF OneName, Rooted
  <2> QED
    BY <2>1, <2>2, <2>3 DEF OneName
<1>16. FileLinks(w, m)
  <2> SUFFICES ASSUME NEW i \in DOMAIN w, w[i].type = "file"
               PROVE  /\ IsFiniteSet(LinksIn(m, i))
                      /\ w[i].links = Cardinality(LinksIn(m, i))
                      /\ w[i].links \in 1 .. MaxLinks
    BY DEF FileLinks
  <2>1. /\ IsFiniteSet(LinksIn(dirs, i)) /\ nodes[i].links = Cardinality(LinksIn(dirs, i))
        /\ nodes[i].links \in 1 .. MaxLinks
    BY <1>1, <1>6, <1>11 DEF FileLinks
  <2>2. CASE i = x
    <3>1. /\ IsFiniteSet(LinksIn(m, i))
          /\ Cardinality(LinksIn(m, i)) = Cardinality(LinksIn(dirs, i)) - 1
      BY <1>9, <2>1, <2>2, FS_RemoveElement
    <3> QED
      BY <1>6, <2>1, <2>2, <3>1, NamespaceAssumption
  <2>3. CASE i # x
    <3>1. LinksIn(m, i) = LinksIn(dirs, i)
      BY <1>9, <2>3
    <3> QED
      BY <1>6, <2>1, <2>3, <3>1
  <2> QED
    BY <2>2, <2>3
<1> QED
  BY <1>1, <1>7, <1>10, <1>12, <1>13, <1>14, <1>15, <1>16 DEF Sound, m, w

\* The entry at position k of d is gone from the tables c, and no other.
Loses(ds, c, d, k) ==
  /\ \A y, j : In(c, y, j) <=> In(ds, y, j) /\ ~(y = d /\ j = k)
  /\ \A y, j : In(c, y, j) => /\ c[y].list[j].name = ds[y].list[j].name
                               /\ c[y].list[j].inode = ds[y].list[j].inode
  /\ \A y, j, i : Leads(c, y, j, i) <=> Leads(ds, y, j, i) /\ ~(y = d /\ j = k)

\* The last name of an inode goes, and the inode with it.
LEMMA UnlinkedLastSound ==
  ASSUME Sound(nodes, dirs), NEW s \in DOMAIN dirs, NEW o, InUse(s, o),
         NEW x, x = EntryOf(s, o).inode, \A k : ~In(dirs, x, k),
         nodes[x].type = "directory" \/ nodes[x].links <= 1
  PROVE  LET c == Without(OldMarked(s, o), x) k == Place(s, o)
         IN /\ Sound(Without(nodes, x), c) /\ DOMAIN c = DOMAIN dirs \ {x}
            /\ Loses(dirs, c, s, k)
<1> DEFINE k == Place(s, o)
           m == OldMarked(s, o)
           c == Without(m, x)
           w == Without(nodes, x)
<1>1. /\ Tables(dirs) /\ Rooted(nodes, dirs) /\ EntriesFit(nodes, dirs)
      /\ LastOfName(dirs) /\ OneName(nodes, dirs) /\ FileLinks(nodes, dirs)
      /\ nodes \in [DOMAIN nodes -> Node] /\ DOMAIN nodes \subseteq Ids
      /\ Total(dirs) <= MaxEntries
  BY DEF Sound, Typed
<1>2. /\ In(dirs, s, k) /\ dirs[s].list[k].inode = x /\ k \in 1 .. Len(dirs[s].list)
  BY <1>1, FoundPlace
<1>3. x \in DOMAIN nodes /\ x \in Ids /\ nodes[x] \in Node
  BY <1>1, <1>2 DEF EntriesFit
<1>4. m = Flagged(dirs, s, k)
  BY DEF OldMarked
<1>5. /\ w \in [DOMAIN w -> Node] /\ DOMAIN w = DOMAIN nodes \ {x}
      /\ \A y \in DOMAIN w : w[y] = nodes[y]
  BY <1>1 DEF Without
<1> HIDE DEF m, k, w
<1>6. /\ Tables(m) /\ DOMAIN m = DOMAIN dirs /\ Total(m) = Total(dirs)
      /\ \A y \in DOMAIN dirs : m[y].up = dirs[y].up
  BY <1>1, <1>2, <1>4, FlaggedFacts
<1>7. /\ \A y, j : In(m, y, j) <=> In(dirs, y, j) /\ ~(y = s /\ j = k)
      /\ \A y, j : In(dirs, y, j) =>
           /\ m[y].list[j].name = dirs[y].list[j].name
           /\ m[y].list[j].inode = dirs[y].list[j].inode
           /\ m[y].list[j].type = dirs[y].list[j].type
      /\ \A y, j, i : Leads(m, y, j, i) <=> Leads(dirs, y, j, i) /\ ~(y = s /\ j = k)
  BY <1>1, <1>2, <1>4, FlaggedNames
<1>8. LastOfName(m)
  BY <1>1, <1>2, <1>4, LastOfNameFlagged
<1>9. \A j : ~In(m, x, j)
  BY <1>7
<1>10. /\ Tables(c) /\ DOMAIN c = DOMAIN m \ {x} /\ SameEntries(m, c)
       /\ \A y \in DOMAIN m \ {x} : c[y] = m[y]
       /\ Total(c) <= Total(m)
  BY <1>6, <1>9, WithoutFacts
<1> HIDE DEF c
<1>11. /\ \A y, j : In(c, y, j) <=> In(m, y, j)
       /\ \A y, j : In(m, y, j) => c[y].list = m[y].list
  BY <1>10 DEF SameEntries
<1>12. \A y, j, i : Leads(c, y, j, i) <=> Leads(dirs, y, j, i) /\ ~(y = s /\ j = k)
  BY <1>7, <1>10, SameNames
<1>13. Leads(dirs, s, k, x) /\ x # Root
  BY <1>1, <1>2 DEF Leads, OneName
\* No other entry leads to x.
<1>14. \A y, j : ~Leads(c, y, j, x)
  <2>1. CASE nodes[x].type = "directory"
    <3>1. PICK q : OnlyAt(dirs, x, q)
      BY <1>1, <1>3, <1>13, <2>1 DEF OneName, Rooted
    <3> QED
      BY <1>12, <1>13, <3>1 DEF OnlyAt
  <2>2. CASE nodes[x].type = "file"
    <3>1. /\ IsFiniteSet(LinksIn(dirs, x)) /\ nodes[x].links = Cardinality(LinksIn(dirs, x))
          /\ nodes[x].links \in 1 .. MaxLinks
      BY <1>1, <1>3, <2>2 DEF FileLinks
    <3>2. Cardinality(LinksIn(dirs, x)) = 1
      BY <2>2, <3>1, NamespaceAssumption
    <3>3. PICK z : LinksIn(dirs, x) = {z}
      BY <3>1, <3>2, FS_Singleton
    <3>4. ASSUME NEW y, NEW j, Leads(dirs, y, j, x) PROVE <<y, j>> = z
      <4>1. y \in Ids /\ j \in Nat
        BY <1>1, <3>4, InType DEF Leads
      <4>2. <<y, j>> \in LinksIn(dirs, x)
        BY <3>4, <4>1 DEF LinksIn
      <4> QED
        BY <3>3, <4>2
    <3>5. <<s, k>> = z
      BY <1>13, <3>4
    <3> QED
      BY <1>12, <3>4, <3>5
  <2> QED
    BY <1>3, <2>1, <2>2 DEF Node, Types
<1>15. \A y, j : In(c, y, j) =>
                 /\ c[y].list[j].name = dirs[y].list[j].name
                 /\ c[y].list[j].inode = dirs[y].list[j].inode
                 /\ c[y].list[j].type = dirs[y].list[j].type
  BY <1>7, <1>11
<1>16. Typed(w, c)
  BY <1>1, <1>5, <1>10 DEF Typed
<1>17. Rooted(w, c)
  <2>1. DOMAIN c = {y \in DOMAIN w : w[y].type = "directory"}
    BY <1>1, <1>5, <1>6, <1>10 DEF Rooted
  <2>2. Root \in DOMAIN c /\ c[Root].up = Root
    BY <1>1, <1>6, <1>10, <1>13 DEF Rooted
  <2> QED
    BY <2>1, <2>2 DEF Rooted
<1>18. EntriesFit(w, c)
  <2> SUFFICES ASSUME NEW y, NEW j, In(c, y, j)
               PROVE  /\ c[y].list[j].inode \in DOMAIN w
                      /\ c[y].list[j].type = w[c[y].list[j].inode].type
    BY DEF EntriesFit
  <2>1. c[y].list[j].inode # x
    BY <1>14 DEF Leads
  <2>2. In(dirs, y, j)
    BY <1>7, <1>11
  <2>3. /\ dirs[y].list[j].inode \in DOMAIN nodes
        /\ dirs[y].list[j].type = nodes[dirs[y].list[j].inode].type
    BY <1>1, <2>2 DEF EntriesFit
  <2> QED
    BY <1>5, <1>15, <2>1, <2>3
<1>19. OneName(w, c)
  <2>1. \A y, j : ~Leads(c, y, j, Root)
    BY <1>1, <1>12 DEF OneName
  <2>2. ASSUME NEW i \in DOMAIN c \ {Root} PROVE \E q : OnlyAt(c, i, q)
    <3>1. i \in DOMAIN dirs \ {Root} /\ i # x /\ c[i].up = dirs[i].up
      BY <1>6, <1>10
    <3>2. PICK q : OnlyAt(dirs, i, q)
      BY <1>1, <3>1 DEF OneName
    <3>3. ~Leads(dirs, s, k, i)
      BY <1>2, <3>1 DEF Leads
    <3>4. OnlyAt(c, i, q)
      BY <1>12, <3>1, <3>2, <3>3 DEF OnlyAt
    <3> QED
      BY <3>4
  <2>3. \A i \in DOMAIN c : w[i].links = 2
    BY <1>1, <1>5, <1>6, <1>10 DEF OneName, Rooted
  <2> QED
    BY <2>1, <2>2, <2>3 DEF OneName
<1>20. FileLinks(w, c)
  <2> SUFFICES ASSUME NEW i \in DOMAIN w, w[i].type = "file"
               PROVE  /\ IsFiniteSet(LinksIn(c, i))
                      /\ w[i].links = Cardinality(LinksIn(c, i))
                      /\ w[i].links \in 1 .. MaxLinks
    BY DEF FileLinks
  <2>1. i # x /\ ~Leads(dirs, s, k, i)
    BY <1>2, <1>5 DEF Leads
  <2>2. LinksIn(c, i) = LinksIn(dirs, i)
    BY <1>12, <2>1 DEF LinksIn
  <2> QED
    BY <1>1, <1>5, <2>2 DEF FileLinks
<1>21. Total(c) <= MaxEntries
  BY <1>1, <1>6, <1>10, SizesType, NamespaceAssumption
<1>22. LastOfName(c)
  BY <1>8, <1>10, SameNames
<1>23. Sound(w, c)
  BY <1>16, <1>17, <1>18, <1>19, <1>20, <1>21, <1>22 DEF Sound
<1>24. Loses(dirs, c, s, k)
  BY <1>7, <1>11, <1>12, <1>15 DEF Loses
<1> QED
  BY <1>6, <1>10, <1>23, <1>24 DEF c, m, k, w

-----------------------------------------------------------------------------
(* The table of names. *)

Name == [dir : Ids, name : Names, inode : Ids]
RecordAt(ds, d, k) == [dir |-> d, name |-> ds[d].list[k].name,
                       inode |-> ds[d].list[k].inode]
TableOf(ds) == UNION {{RecordAt(ds, d, k) : k \in {k \in 1 .. Len(ds[d].list) :
                                                     ~ds[d].list[k].deleted}} :
                        d \in DOMAIN ds}

LEMMA TableIs == Table = TableOf(dirs)
BY DEF Table, TableOf, RecordAt, Used

LEMMA TableMember ==
  ASSUME NEW ds, NEW r
  PROVE  r \in TableOf(ds) <=> \E d, k : In(ds, d, k) /\ r = RecordAt(ds, d, k)
BY DEF TableOf, In

LEMMA TableEntry ==
  ASSUME NEW ds, Tables(ds), NEW r \in TableOf(ds)
  PROVE  IsEntry(ds, r) /\ r \in Name /\ r.dir \in DOMAIN ds
<1>1. PICK d, k : In(ds, d, k) /\ r = RecordAt(ds, d, k)
  BY TableMember
<1>2. d \in DOMAIN ds /\ d \in Ids /\ ds[d].list[k] \in Entry
  BY <1>1, InType
<1>3. r.dir = d /\ r.name = ds[d].list[k].name /\ r.inode = ds[d].list[k].inode
  BY <1>1 DEF RecordAt
<1>4. r \in Name
  BY <1>1, <1>2 DEF RecordAt, Name, Entry
<1>5. IsEntry(ds, r)
  BY <1>1, <1>3 DEF IsEntry, Leads
<1> QED
  BY <1>2, <1>3, <1>4, <1>5

\* An entry is the one that its name leads to.
LEMMA EntryFound ==
  ASSUME Sound(nodes, dirs), NEW r, IsEntry(dirs, r)
  PROVE  /\ r.dir \in DOMAIN dirs /\ InUse(r.dir, r.name)
         /\ EntryOf(r.dir, r.name).inode = r.inode /\ r.inode \in DOMAIN nodes
         /\ Leads(dirs, r.dir, Place(r.dir, r.name), r.inode)
<1>1. PICK k : Leads(dirs, r.dir, k, r.inode) /\ dirs[r.dir].list[k].name = r.name
  BY DEF IsEntry
<1>2. /\ In(dirs, r.dir, k) /\ dirs[r.dir].list[k].inode = r.inode
      /\ r.dir \in DOMAIN dirs
  BY <1>1 DEF Leads, In
<1>3. InUse(r.dir, r.name)
  BY <1>1, <1>2, NotInUse
<1>4. k = Place(r.dir, r.name) /\ EntryOf(r.dir, r.name) = dirs[r.dir].list[k]
  BY <1>1, <1>2, <1>3, FoundPlace DEF Sound, Typed
<1>5. r.inode \in DOMAIN nodes
  BY <1>2 DEF Sound, EntriesFit
<1> QED
  BY <1>1, <1>2, <1>3, <1>4, <1>5

LEMMA ResolvedFacts ==
  ASSUME Sound(nodes, dirs), NEW r \in Resolved
  PROVE  /\ r \in Name /\ r.dir \in DOMAIN dirs /\ r.inode \in DOMAIN nodes
         /\ IsEntry(dirs, r) \/ r.dir = r.inode
<1>1. Tables(dirs)
  BY DEF Sound, Typed
<1>2. ASSUME NEW e \in Entries
      PROVE  /\ IsEntry(dirs, e) /\ e \in Name /\ e.dir \in DOMAIN dirs
             /\ e.inode \in DOMAIN nodes
  <2>1. e \in TableOf(dirs)
    BY TableIs DEF Entries
  <2>2. IsEntry(dirs, e) /\ e \in Name /\ e.dir \in DOMAIN dirs
    BY <1>1, <2>1, TableEntry
  <2> QED
    BY <2>2, EntryFound
<1>3. CASE r \in Entries
  BY <1>2, <1>3
<1>4. CASE r \in DotDot
  <2>1. PICK e \in Entries, f \in Entries : f.dir = e.inode /\ r = [e EXCEPT !.dir = e.inode]
    BY <1>4 DEF DotDot
  <2>2. e \in Name /\ f.dir \in DOMAIN dirs
    BY <1>2
  <2>3. /\ r \in Name /\ r.dir = e.inode /\ r.inode = e.inode
    BY <2>1, <2>2 DEF Name
  <2>4. r.inode \in DOMAIN nodes
    BY <1>2, <2>3
  <2> QED
    BY <2>1, <2>2, <2>3, <2>4
<1> QED
  BY <1>3, <1>4 DEF Resolved

-----------------------------------------------------------------------------
(* The invariant is inductive. *)

LEMMA NewIdFacts ==
  ASSUME TypeOK, NoInodeLost, Free # {}
  PROVE  /\ NewId \in Ids \ DOMAIN nodes /\ NewId \in 1 .. MaxInodes
         /\ \A i \in 1 .. NewId - 1 : i \in DOMAIN nodes
<1>1. next \in 1 .. MaxInodes + 1 /\ MaxInodes \in Nat
  BY NamespaceAssumption DEF TypeOK
<1>2. Free \subseteq Nat
  BY <1>1 DEF Free
<1>3. NewId \in Free /\ \A j \in Free : NewId <= j
  BY <1>2, LeastNatural DEF NewId
<1>4. NewId \in next .. MaxInodes /\ NewId \notin DOMAIN nodes
  BY <1>3 DEF Free
<1>5. ASSUME NEW i \in 1 .. NewId - 1 PROVE i \in DOMAIN nodes
  <2>1. CASE i \in 1 .. next - 1
    BY <2>1 DEF NoInodeLost
  <2>2. CASE i \notin 1 .. next - 1
    <3>1. i \in next .. MaxInodes
      BY <1>1, <1>4, <2>2
    <3>2. ~(NewId <= i)
      BY <1>1, <1>4
    <3> QED
      BY <1>3, <3>1, <3>2 DEF Free
  <2> QED
    BY <2>1, <2>2
<1> QED
  BY <1>1, <1>4, <1>5 DEF Ids

LEMMA NextTyped ==
  ASSUME Sound(nodes', dirs'), next' \in 1 .. MaxInodes + 1,
         removing' \in Seq(Name), ok' \in BOOLEAN
  PROVE  TypeOK'
BY DEF TypeOK, Sound, Typed, Tables, Name

LEMMA NoCalls == \A ds : Pending(ds, <<>>)
BY DEF Pending

LEMMA ReachableIn == Reachable \subseteq DOMAIN dirs
BY DEF Reachable

LEMMA InitHolds == Init => IInv
<1> SUFFICES ASSUME Init PROVE IInv
  OBVIOUS
<1> USE NamespaceAssumption
<1>1. /\ DOMAIN nodes = {Root} /\ nodes[Root] = NewNode("directory")
      /\ DOMAIN dirs = {Root} /\ dirs[Root] = NewDirectory(Root)
      /\ nodes = [i \in {Root} |-> NewNode("directory")]
      /\ dirs = [i \in {Root} |-> NewDirectory(Root)]
  BY DEF Init
<1>2. Root = 1 /\ Root \in Ids
  BY DEF Root, Ids
<1>3. NewNode("directory") \in Node /\ NewDirectory(Root) \in Directory
  BY <1>2 DEF NewNode, Node, Types, NewDirectory, Directory
<1>4. /\ nodes[Root].type = "directory" /\ nodes[Root].links = 2
      /\ dirs[Root].up = Root /\ Len(dirs[Root].list) = 0
  BY <1>1 DEF NewNode, NewDirectory
<1>5. \A d, k : ~In(dirs, d, k)
  BY <1>1, <1>4 DEF In
<1>6. Typed(nodes, dirs)
  BY <1>1, <1>2, <1>3 DEF Typed, Tables
<1>7. Rooted(nodes, dirs)
  BY <1>1, <1>4 DEF Rooted
<1>8. Total(dirs) <= MaxEntries
  <2>1. Tables(dirs)
    BY <1>6 DEF Typed
  <2>2. /\ IsFiniteSet(Pairs(Sizes(dirs))) /\ Total(dirs) = Cardinality(Pairs(Sizes(dirs)))
    BY <2>1, SizesType, SumType
  <2>3. DOMAIN Sizes(dirs) = {Root} /\ Sizes(dirs)[Root] = 2
    BY <1>1, <1>4, <2>1, SizesType
  <2>4. Pairs(Sizes(dirs)) = {Root} \X (1 .. 2)
    BY <2>3 DEF Pairs
  <2>5. Cardinality({Root} \X (1 .. 2)) = 1 * 2
    <3>1. IsFiniteSet({Root}) /\ Cardinality({Root}) = 1
      BY FS_Singleton
    <3>2. IsFiniteSet(1 .. 2) /\ Cardinality(1 .. 2) = 2
      <4>1. 1 \in Int /\ 2 \in Int /\ ~(1 > 2) /\ 2 - 1 + 1 = 2
        OBVIOUS
      <4> QED
        BY <4>1, FS_Interval
    <3> QED
      BY <3>1, <3>2, FS_Product
  <2> QED
    BY <2>2, <2>4, <2>5
<1>9. Sound(nodes, dirs)
  BY <1>1, <1>4, <1>5, <1>6, <1>7, <1>8
     DEF Sound, EntriesFit, LastOfName, OneName, FileLinks, Leads
<1>10. NoInodeLost
  BY <1>1, <1>2 DEF Init, NoInodeLost
<1>11. TypeOK
  BY <1>2, <1>6 DEF Init, TypeOK, Typed, Tables
<1>12. Pending(dirs, removing)
  BY NoCalls DEF Init
<1> QED
  BY <1>9, <1>10, <1>11, <1>12 DEF IInv

LEMMA CreateStep ==
  ASSUME IInv, removing = <<>>, NEW d \in Reachable, NEW n \in Names, NEW t \in Types,
         Create(d, n, t)
  PROVE  IInv'
<1> DEFINE i == NewId
           o == Opened(i, d, t)
           e == NewEntry(n, i, t)
           a == Added(o, d, e)
<1>1. /\ TypeOK /\ NoInodeLost /\ Sound(nodes, dirs)
      /\ Tables(dirs) /\ Rooted(nodes, dirs)
  BY DEF IInv, Sound, Typed
<1>2. d \in DOMAIN dirs
  BY ReachableIn
<1>3. /\ ~InUse(d, n) /\ Free # {} /\ UNCHANGED removing
      /\ \/ /\ next' = i /\ ok' = FALSE /\ UNCHANGED <<nodes, dirs>>
         \/ /\ CanAdd(o, d, n) /\ nodes' = WithNode(i, t) /\ dirs' = a
            /\ next' = i + 1 /\ ok' \in BOOLEAN
         \/ /\ CanAdd(o, d, n) /\ t = "file"
            /\ dirs' = [a EXCEPT ![d].list[Len(a[d].list)].deleted = TRUE]
            /\ next' = i /\ ok' = FALSE /\ UNCHANGED nodes
  BY DEF Create, CanAllocate, Opened
<1>4. /\ i \in Ids \ DOMAIN nodes /\ i \in 1 .. MaxInodes
      /\ \A j \in 1 .. i - 1 : j \in DOMAIN nodes
  BY <1>1, <1>3, NewIdFacts
<1>5. i \in 1 .. MaxInodes + 1 /\ i + 1 \in 1 .. MaxInodes + 1 /\ i \in Nat
  BY <1>4, NamespaceAssumption
<1>6. removing' = <<>> /\ removing' \in Seq(Name)
  BY <1>3
<1>7. Pending(dirs', removing')
  BY <1>6, NoCalls
<1> HIDE DEF i
<1>8. CASE next' = i /\ ok' = FALSE /\ UNCHANGED <<nodes, dirs>>
  <2>1. Sound(nodes', dirs') /\ NoInodeLost'
    BY <1>1, <1>4, <1>8 DEF NoInodeLost
  <2>2. TypeOK'
    BY <1>5, <1>6, <1>8, <2>1, NextTyped
  <2> QED
    BY <1>7, <2>1, <2>2 DEF IInv
<1>9. CASE /\ CanAdd(o, d, n) /\ nodes' = WithNode(i, t) /\ dirs' = a
           /\ next' = i + 1 /\ ok' \in BOOLEAN
  <2>1. Sound(nodes', dirs')
    BY <1>1, <1>2, <1>4, <1>9, CreatedSound
  <2>2. NoInodeLost'
    <3>1. DOMAIN nodes' = DOMAIN nodes \cup {i}
      BY <1>9 DEF WithNode
    <3>2. \A j \in 1 .. (i + 1) - 1 : j = i \/ j \in 1 .. i - 1
      BY <1>5
    <3> QED
      BY <1>4, <1>9, <3>1, <3>2 DEF NoInodeLost
  <2>3. TypeOK'
    BY <1>5, <1>6, <1>9, <2>1, NextTyped
  <2> QED
    BY <1>7, <2>1, <2>2, <2>3 DEF IInv
<1>10. CASE /\ CanAdd(o, d, n) /\ t = "file"
            /\ dirs' = [a EXCEPT ![d].list[Len(a[d].list)].deleted = TRUE]
            /\ next' = i /\ ok' = FALSE /\ UNCHANGED nodes
  <2>1. o = dirs
    BY <1>10 DEF Opened
  <2>2. e \in Entry /\ e.deleted = FALSE /\ e.name = n
    BY <1>4 DEF NewEntry, Entry
  <2>3. Total(dirs) < MaxEntries
    BY <1>10, <2>1 DEF CanAdd
  <2>4. dirs' = Flagged(Added(dirs, d, e), d, Len(Added(dirs, d, e)[d].list))
    BY <1>10, <2>1 DEF Flagged, Replaced, Gone
  <2> HIDE DEF e
  <2>5. Sound(nodes, Flagged(Added(dirs, d, e), d, Len(Added(dirs, d, e)[d].list)))
    BY <1>1, <1>2, <1>3, <2>2, <2>3, AbandonedSound
  <2>6. Sound(nodes', dirs') /\ NoInodeLost'
    BY <1>4, <1>10, <2>4, <2>5 DEF NoInodeLost
  <2>7. TypeOK'
    BY <1>5, <1>6, <1>10, <2>6, NextTyped
  <2> QED
    BY <1>7, <2>6, <2>7 DEF IInv
<1> QED
  BY <1>3, <1>8, <1>9, <1>10

LEMMA CreateRefusedStep ==
  ASSUME IInv, removing = <<>>, NEW d, NEW n, CreateRefused(d, n)
  PROVE  IInv'
<1>1. TypeOK /\ NoInodeLost /\ Sound(nodes, dirs)
  BY DEF IInv
<1>2. UNCHANGED <<nodes, dirs, removing>> /\ ok' = FALSE
  BY DEF CreateRefused, NotAllocated
<1>3. next \in 1 .. MaxInodes + 1 /\ MaxInodes \in Nat
  BY <1>1, NamespaceAssumption DEF TypeOK
<1>4. next' \in 1 .. MaxInodes + 1 /\ NoInodeLost'
  <2>1. CASE UNCHANGED next
    BY <1>1, <1>2, <1>3, <2>1 DEF NoInodeLost
  <2>2. CASE ~CanAllocate /\ NotAllocated
    <3>1. CASE Cardinality(DOMAIN nodes) < MaxInodes /\ next <= MaxInodes
      <4>1. Free = {} /\ next' = MaxInodes + 1
        BY <2>2, <3>1 DEF CanAllocate, NotAllocated
      <4>2. ASSUME NEW i \in 1 .. MaxInodes PROVE i \in DOMAIN nodes
        <5>1. CASE i \in 1 .. next - 1
          BY <1>1, <5>1 DEF NoInodeLost
        <5>2. CASE i \in next .. MaxInodes
          BY <4>1, <5>2 DEF Free
        <5> QED
          BY <1>3, <5>1, <5>2
      <4>3. next' - 1 = MaxInodes /\ next' \in 1 .. MaxInodes + 1
        BY <1>3, <4>1
      <4> QED
        BY <1>2, <4>2, <4>3 DEF NoInodeLost
    <3>2. CASE ~(Cardinality(DOMAIN nodes) < MaxInodes /\ next <= MaxInodes)
      <4>1. UNCHANGED next
        BY <2>2, <3>2 DEF NotAllocated
      <4> QED
        BY <2>1, <4>1
    <3> QED
      BY <3>1, <3>2
  <2> QED
    BY <2>1, <2>2 DEF CreateRefused
<1>5. Sound(nodes', dirs')
  BY <1>1, <1>2
<1>6. removing' = <<>> /\ removing' \in Seq(Name)
  BY <1>2
<1>7. TypeOK'
  BY <1>2, <1>4, <1>5, <1>6, NextTyped
<1> QED
  BY <1>4, <1>5, <1>6, <1>7, NoCalls DEF IInv

LEMMA RefuseStep ==
  ASSUME IInv, Refuse
  PROVE  IInv'
<1>1. TypeOK /\ NoInodeLost /\ Sound(nodes, dirs) /\ Pending(dirs, removing)
  BY DEF IInv
<1>2. UNCHANGED <<nodes, next, dirs, removing>> /\ ok' \in BOOLEAN
  BY DEF Refuse
<1>3. Sound(nodes', dirs') /\ Pending(dirs', removing') /\ NoInodeLost'
  BY <1>1, <1>2 DEF NoInodeLost
<1>4. TypeOK'
  BY <1>1, <1>2, <1>3, NextTyped DEF TypeOK, Name
<1> QED
  BY <1>3, <1>4 DEF IInv

LEMMA LinkStep ==
  ASSUME IInv, removing = <<>>, NEW r \in Resolved, NEW d \in Reachable,
         NEW n \in Names, Link(r, d, n)
  PROVE  IInv'
<1>1. TypeOK /\ NoInodeLost /\ Sound(nodes, dirs)
  BY DEF IInv
<1>2. CASE Refuse
  BY <1>2, RefuseStep
<1>3. CASE ~Refuse
  <2>1. /\ ~IsDirectory(r.inode) /\ ~(nodes[r.inode].links >= MaxLinks)
        /\ CanAdd(dirs, d, n)
        /\ dirs' = Added(dirs, d, NewEntry(n, r.inode, nodes[r.inode].type))
        /\ nodes' = [nodes EXCEPT ![r.inode].links = @ + 1]
        /\ ok' = TRUE /\ UNCHANGED <<next, removing>>
    BY <1>3 DEF Link
  <2>2. r.inode \in DOMAIN nodes /\ d \in DOMAIN dirs
    BY <1>1, ResolvedFacts, ReachableIn
  <2>3. nodes[r.inode] \in Node
    BY <1>1, <2>2 DEF TypeOK
  <2>4. nodes[r.inode].type = "file" /\ nodes[r.inode].links < MaxLinks
    BY <2>1, <2>3, NamespaceAssumption DEF IsDirectory, Node, Types
  <2>5. Sound(nodes', dirs')
    BY <1>1, <2>1, <2>2, <2>4, LinkedSound
  <2>6. DOMAIN nodes' = DOMAIN nodes
    BY <2>1
  <2>7. NoInodeLost'
    BY <1>1, <2>1, <2>6 DEF NoInodeLost
  <2>8. removing' = <<>> /\ removing' \in Seq(Name)
    BY <2>1
  <2>9. TypeOK'
    BY <1>1, <2>1, <2>5, <2>8, NextTyped DEF TypeOK
  <2> QED
    BY <2>5, <2>7, <2>8, <2>9, NoCalls DEF IInv
<1> QED
  BY <1>2, <1>3

\* A rename either refuses or moves the name.
LEMMA RenameCases ==
  ASSUME Sound(nodes, dirs), NEW r \in Resolved, NEW d \in Reachable,
         NEW n \in Names, Rename(r, d, n)
  PROVE  /\ UNCHANGED <<nodes, next, removing>>
         /\ \/ ok' = FALSE /\ UNCHANGED dirs
            \/ /\ ok' = TRUE /\ r.dir \in DOMAIN dirs /\ d \in DOMAIN dirs
               /\ InUse(r.dir, r.name) /\ ~InUse(d, n)
               /\ Total(Marked(dirs, r.dir, r.name)) < MaxEntries
               /\ dirs' = Renamed(r.dir, r.name, d, n)
<1>1. r.dir \in DOMAIN dirs /\ d \in DOMAIN dirs
  BY ResolvedFacts, ReachableIn
<1>2. UNCHANGED <<nodes, next, removing>>
  BY DEF Rename
<1>3. CASE InUse(d, n) \/ ~InUse(r.dir, r.name)
  BY <1>2, <1>3 DEF Rename
<1>4. CASE ~(InUse(d, n) \/ ~InUse(r.dir, r.name))
  <2> DEFINE m == Marked(dirs, r.dir, r.name)
  <2>1. CASE CanAdd(m, d, n)
    BY <1>1, <1>2, <1>4, <2>1 DEF Rename, Renamed, CanAdd
  <2>2. CASE ~CanAdd(m, d, n)
    <3>1. dirs' = Undone(m, r.dir, r.name) /\ ok' = FALSE
      BY <1>4, <2>2 DEF Rename
    <3>2. Undone(m, r.dir, r.name) = dirs
      BY <1>1, <1>4, UndoneIsBack DEF Sound, Typed
    <3> QED
      BY <1>2, <3>1, <3>2
  <2> QED
    BY <2>1, <2>2
<1> QED
  BY <1>3, <1>4

LEMMA RenameStep ==
  ASSUME IInv, removing = <<>>, NEW r \in Resolved, NEW d \in Reachable,
         NEW n \in Names, Rename(r, d, n)
  PROVE  IInv'
<1>1. TypeOK /\ NoInodeLost /\ Sound(nodes, dirs)
  BY DEF IInv
<1>2. /\ UNCHANGED <<nodes, next, removing>> /\ ok' \in BOOLEAN
      /\ Sound(nodes', dirs')
  <2>1. UNCHANGED <<nodes, next, removing>>
    BY <1>1, RenameCases
  <2>2. CASE ok' = FALSE /\ UNCHANGED dirs
    BY <1>1, <2>1, <2>2
  <2>3. CASE /\ ok' = TRUE /\ r.dir \in DOMAIN dirs /\ d \in DOMAIN dirs
             /\ InUse(r.dir, r.name) /\ ~InUse(d, n)
             /\ Total(Marked(dirs, r.dir, r.name)) < MaxEntries
             /\ dirs' = Renamed(r.dir, r.name, d, n)
    <3>1. Sound(nodes, Renamed(r.dir, r.name, d, n))
      BY <1>1, <2>3, RenamedSound
    <3> QED
      BY <2>1, <2>3, <3>1
  <2> QED
    BY <1>1, <2>2, <2>3, RenameCases
<1>3. NoInodeLost'
  BY <1>1, <1>2 DEF NoInodeLost
<1>4. removing' = <<>> /\ removing' \in Seq(Name)
  BY <1>2
<1>5. TypeOK'
  BY <1>1, <1>2, <1>4, NextTyped DEF TypeOK
<1> QED
  BY <1>2, <1>3, <1>4, <1>5, NoCalls DEF IInv

LEMMA RemoveStep ==
  ASSUME IInv, removing = <<>>, NEW r \in Resolved, NEW recursive \in BOOLEAN,
         Remove(r, recursive)
  PROVE  IInv'
<1>1. TypeOK /\ NoInodeLost /\ Sound(nodes, dirs)
  BY DEF IInv
<1>2. CASE Refuse
  BY <1>2, RefuseStep
<1>3. CASE ~Refuse
  <2>1. removing' = <<r>> /\ UNCHANGED <<nodes, next, dirs, ok>>
    BY <1>3 DEF Remove
  <2>2. /\ r \in Name /\ r.dir \in DOMAIN dirs
        /\ IsEntry(dirs, r) \/ r.dir = r.inode
    BY <1>1, ResolvedFacts
  <2>3. removing' \in Seq(Name) /\ Len(removing') = 1 /\ removing'[1] = r
    BY <2>1, <2>2
  <2>4. Pending(dirs', removing')
    BY <2>1, <2>2, <2>3 DEF Pending
  <2>5. Sound(nodes', dirs') /\ NoInodeLost'
    BY <1>1, <2>1 DEF NoInodeLost
  <2>6. TypeOK'
    BY <1>1, <2>1, <2>3, <2>5, NextTyped DEF TypeOK
  <2> QED
    BY <2>4, <2>5, <2>6 DEF IInv
<1> QED
  BY <1>2, <1>3

LEMMA DescendStep ==
  ASSUME IInv, Descend
  PROVE  IInv'
<1> DEFINE r == Head(removing)
           k == Least(Used(r.inode))
           e == dirs[r.inode].list[k]
           q == [dir |-> r.inode, name |-> e.name, inode |-> e.inode]
<1>1. /\ TypeOK /\ NoInodeLost /\ Sound(nodes, dirs) /\ Pending(dirs, removing)
      /\ Tables(dirs) /\ Rooted(nodes, dirs)
  BY DEF IInv, Sound, Typed
<1>2. /\ removing # <<>> /\ IsDirectory(r.inode) /\ ~Empty(r.inode)
      /\ removing' = <<q>> \o removing /\ UNCHANGED <<nodes, next, dirs, ok>>
  BY DEF Descend
<1>3. removing \in Seq(Name) /\ Len(removing) \in Nat /\ Len(removing) >= 1
      /\ r = removing[1]
  BY <1>1, <1>2 DEF TypeOK, Name
<1>4. r.inode \in DOMAIN nodes
  <2>1. CASE IsEntry(dirs, r)
    BY <1>1, <2>1, EntryFound
  <2>2. CASE r.dir = r.inode /\ r.dir \in DOMAIN dirs
    BY <1>1, <2>2 DEF Rooted
  <2> QED
    BY <1>1, <1>3, <2>1, <2>2 DEF Pending
<1>5. r.inode \in DOMAIN dirs
  BY <1>1, <1>2, <1>4 DEF Rooted, IsDirectory
<1>6. In(dirs, r.inode, k)
  BY <1>1, <1>2, <1>5, LeastUsed DEF Empty
<1>7. e \in Entry /\ r.inode \in Ids
  BY <1>1, <1>6, InType
<1>8. q \in Name /\ q.dir = r.inode /\ q.name = e.name /\ q.inode = e.inode
  BY <1>7 DEF Name, Entry
<1>9. IsEntry(dirs, q)
  BY <1>6, <1>8 DEF IsEntry, Leads
<1> HIDE DEF q, r
<1>10. /\ removing' \in Seq(Name) /\ Len(removing') = Len(removing) + 1
       /\ removing'[1] = q
       /\ \A j \in 2 .. Len(removing') : removing'[j] = removing[j - 1]
  BY <1>2, <1>3, <1>8
<1>11. Pending(dirs', removing')
  <2>1. ASSUME NEW j \in 1 .. Len(removing')
        PROVE  \/ IsEntry(dirs, removing'[j])
               \/ /\ j = Len(removing') /\ removing'[j].dir = removing'[j].inode
                  /\ removing'[j].dir \in DOMAIN dirs
    <3>1. CASE j = 1
      BY <1>9, <1>10, <3>1
    <3>2. CASE j # 1
      <4>1. j - 1 \in 1 .. Len(removing) /\ removing'[j] = removing[j - 1]
            /\ (j - 1 = Len(removing) => j = Len(removing'))
        BY <1>3, <1>10, <3>2
      <4> QED
        BY <1>1, <4>1 DEF Pending
    <3> QED
      BY <3>1, <3>2
  <2>2. ASSUME NEW j \in 1 .. Len(removing') - 1
        PROVE  removing'[j].dir = removing'[j + 1].inode
    <3>1. CASE j = 1
      <4>1. removing'[j + 1] = removing[1]
        BY <1>3, <1>10, <3>1
      <4> QED
        BY <1>3, <1>8, <1>10, <3>1, <4>1
    <3>2. CASE j # 1
      <4>1. /\ j - 1 \in 1 .. Len(removing) - 1 /\ removing'[j] = removing[j - 1]
            /\ removing'[j + 1] = removing[(j - 1) + 1]
        BY <1>3, <1>10, <3>2
      <4> QED
        BY <1>1, <4>1 DEF Pending
    <3> QED
      BY <3>1, <3>2
  <2> QED
    BY <1>2, <2>1, <2>2 DEF Pending
<1>12. Sound(nodes', dirs') /\ NoInodeLost'
  BY <1>1, <1>2 DEF NoInodeLost
<1>13. TypeOK'
  BY <1>1, <1>2, <1>10, <1>12, NextTyped DEF TypeOK
<1> QED
  BY <1>11, <1>12, <1>13 DEF IInv

LEMMA DescendFailedStep ==
  ASSUME IInv, DescendFailed
  PROVE  IInv'
<1>1. TypeOK /\ NoInodeLost /\ Sound(nodes, dirs)
  BY DEF IInv
<1>2. removing' = <<>> /\ ok' = FALSE /\ UNCHANGED <<nodes, next, dirs>>
  BY DEF DescendFailed
<1>3. Sound(nodes', dirs') /\ NoInodeLost' /\ removing' \in Seq(Name)
  BY <1>1, <1>2 DEF NoInodeLost
<1>4. TypeOK'
  BY <1>1, <1>2, <1>3, NextTyped DEF TypeOK
<1> QED
  BY <1>2, <1>3, <1>4, NoCalls DEF IInv

\* What Unlink does when the name is still there.
LEMMA UnlinkCases ==
  ASSUME IInv, Unlink
  PROVE  LET r == Head(removing)
         IN /\ removing \in Seq(Name) /\ Len(removing) \in Nat /\ Len(removing) >= 1
            /\ r = removing[1]
            /\ \/ removing' = <<>> /\ ok' = FALSE /\ UNCHANGED <<nodes, next, dirs>>
               \/ /\ IsEntry(dirs, r) /\ r.dir \in DOMAIN dirs
                  /\ InUse(r.dir, r.name) /\ r.inode = EntryOf(r.dir, r.name).inode
                  /\ r.inode \in DOMAIN nodes /\ \A k : ~In(dirs, r.inode, k)
                  /\ removing' = Tail(removing) /\ ok' = TRUE
                  /\ \/ /\ nodes[r.inode].type = "directory" \/ nodes[r.inode].links <= 1
                        /\ nodes' = Without(nodes, r.inode)
                        /\ dirs' = Without(OldMarked(r.dir, r.name), r.inode)
                        /\ next' = Lowered(r.inode)
                     \/ /\ nodes[r.inode].type # "directory"
                        /\ ~(nodes[r.inode].links <= 1)
                        /\ nodes' = [nodes EXCEPT ![r.inode].links = @ - 1]
                        /\ dirs' = OldMarked(r.dir, r.name)
                        /\ UNCHANGED next
<1> DEFINE r == Head(removing)
<1>1. /\ TypeOK /\ Sound(nodes, dirs) /\ Pending(dirs, removing)
      /\ Tables(dirs) /\ Rooted(nodes, dirs)
  BY DEF IInv, Sound, Typed
<1>2. removing # <<>> /\ ~(IsDirectory(r.inode) /\ ~Empty(r.inode))
  BY DEF Unlink
<1>3. /\ removing \in Seq(Name) /\ Len(removing) \in Nat /\ Len(removing) >= 1
      /\ r = removing[1]
  BY <1>1, <1>2 DEF TypeOK, Name
<1>4. \A k : ~In(dirs, r.inode, k)
  <2>1. CASE r.inode \in DOMAIN dirs
    <3>1. Used(r.inode) = {}
      BY <1>1, <1>2, <2>1 DEF Rooted, IsDirectory, Empty
    <3> QED
      BY <2>1, <3>1, UsedMember
  <2>2. CASE r.inode \notin DOMAIN dirs
    BY <2>2 DEF In
  <2> QED
    BY <2>1, <2>2
<1>5. CASE ~InUse(r.dir, r.name)
  BY <1>3, <1>5 DEF Unlink
<1>6. CASE InUse(r.dir, r.name)
  <2>1. IsEntry(dirs, r)
    <3>1. CASE r.dir = r.inode /\ r.dir \in DOMAIN dirs
      BY <1>4, <1>6, <3>1, NotInUse
    <3> QED
      BY <1>1, <1>3, <3>1 DEF Pending
  <2>2. /\ r.dir \in DOMAIN dirs /\ r.inode = EntryOf(r.dir, r.name).inode
        /\ r.inode \in DOMAIN nodes
    BY <1>1, <2>1, EntryFound
  <2>3. Marked(dirs, r.dir, r.name) = OldMarked(r.dir, r.name)
    BY MarkedIsFlagged DEF OldMarked
  <2>4. removing' = Tail(removing) /\ ok' = TRUE
    BY <1>6 DEF Unlink
  <2>5. \/ /\ nodes[r.inode].type = "directory" \/ nodes[r.inode].links <= 1
           /\ nodes' = Without(nodes, r.inode)
           /\ dirs' = Without(OldMarked(r.dir, r.name), r.inode)
           /\ next' = Lowered(r.inode)
        \/ /\ nodes[r.inode].type # "directory"
           /\ ~(nodes[r.inode].links <= 1)
           /\ nodes' = [nodes EXCEPT ![r.inode].links = @ - 1]
           /\ dirs' = OldMarked(r.dir, r.name)
           /\ UNCHANGED next
    BY <1>6, <2>3 DEF Unlink, LastLink, IsDirectory
  <2> QED
    BY <1>3, <1>4, <1>6, <2>1, <2>2, <2>4, <2>5
<1> QED
  BY <1>5, <1>6

\* What the two ways to unlink have in common: one entry is gone.
LEMMA UnlinkedNames ==
  ASSUME IInv, Unlink, ok' = TRUE
  PROVE  LET r == Head(removing) k == Place(r.dir, r.name)
         IN /\ Sound(nodes', dirs')
            /\ DOMAIN dirs \ {r.inode} \subseteq DOMAIN dirs'
            /\ DOMAIN dirs' \subseteq DOMAIN dirs
            /\ Loses(dirs, dirs', r.dir, k)
<1> DEFINE r == Head(removing)
           k == Place(r.dir, r.name)
           x == r.inode
<1>1. Sound(nodes, dirs) /\ Tables(dirs) /\ LastOfName(dirs)
  BY DEF IInv, Sound, Typed
<1>2. /\ IsEntry(dirs, r) /\ r.dir \in DOMAIN dirs
      /\ InUse(r.dir, r.name) /\ x = EntryOf(r.dir, r.name).inode
      /\ x \in DOMAIN nodes /\ \A j : ~In(dirs, x, j)
      /\ \/ /\ nodes[x].type = "directory" \/ nodes[x].links <= 1
            /\ nodes' = Without(nodes, x)
            /\ dirs' = Without(OldMarked(r.dir, r.name), x)
         \/ /\ nodes[x].type # "directory" /\ ~(nodes[x].links <= 1)
            /\ nodes' = [nodes EXCEPT ![x].links = @ - 1]
            /\ dirs' = OldMarked(r.dir, r.name)
  BY UnlinkCases
<1> HIDE DEF r, x
<1>3. CASE /\ nodes[x].type = "directory" \/ nodes[x].links <= 1
           /\ nodes' = Without(nodes, x)
           /\ dirs' = Without(OldMarked(r.dir, r.name), x)
  <2> DEFINE c == Without(OldMarked(r.dir, r.name), x)
  <2>1. /\ Sound(Without(nodes, x), c) /\ DOMAIN c = DOMAIN dirs \ {x}
        /\ Loses(dirs, c, r.dir, k)
    <3>1. /\ Sound(nodes, dirs) /\ r.dir \in DOMAIN dirs /\ InUse(r.dir, r.name)
          /\ x = EntryOf(r.dir, r.name).inode /\ \A j : ~In(dirs, x, j)
          /\ nodes[x].type = "directory" \/ nodes[x].links <= 1
      BY <1>1, <1>2, <1>3
    <3> QED
      BY <3>1, UnlinkedLastSound
  <2>2. dirs' = c /\ nodes' = Without(nodes, x)
    BY <1>3
  <2> HIDE DEF c
  <2> QED
    BY <2>1, <2>2 DEF r, x
<1>4. CASE /\ nodes[x].type # "directory" /\ ~(nodes[x].links <= 1)
           /\ nodes' = [nodes EXCEPT ![x].links = @ - 1]
           /\ dirs' = OldMarked(r.dir, r.name)
  <2> DEFINE c == OldMarked(r.dir, r.name)
  <2>1. Sound([nodes EXCEPT ![x].links = @ - 1], c)
    BY <1>1, <1>2, <1>4, UnlinkedMoreSound
  <2>2. In(dirs, r.dir, k) /\ k \in 1 .. Len(dirs[r.dir].list)
    BY <1>1, <1>2, FoundPlace
  <2>3. c = Flagged(dirs, r.dir, k)
    BY DEF OldMarked
  <2> HIDE DEF c, k
  <2>4. DOMAIN c = DOMAIN dirs
    BY <1>1, <1>2, <2>2, <2>3, FlaggedFacts
  <2>5. /\ \A y, j : In(c, y, j) <=> In(dirs, y, j) /\ ~(y = r.dir /\ j = k)
        /\ \A y, j : In(dirs, y, j) =>
           /\ c[y].list[j].name = dirs[y].list[j].name
           /\ c[y].list[j].inode = dirs[y].list[j].inode
           /\ c[y].list[j].type = dirs[y].list[j].type
        /\ \A y, j, i : Leads(c, y, j, i) <=>
             Leads(dirs, y, j, i) /\ ~(y = r.dir /\ j = k)
    BY <1>1, <2>2, <2>3, FlaggedNames
  <2>6. dirs' = c /\ nodes' = [nodes EXCEPT ![x].links = @ - 1]
    BY <1>4 DEF c
  <2>7. Loses(dirs, c, r.dir, k)
    BY <2>5 DEF Loses
  <2> QED
    BY <2>1, <2>4, <2>6, <2>7 DEF r, x, k
<1> QED
  BY <1>2, <1>3, <1>4

LEMMA UnlinkPending ==
  ASSUME IInv, Unlink
  PROVE  Pending(dirs', removing')
<1> DEFINE r == Head(removing)
           k == Place(r.dir, r.name)
           x == r.inode
<1>1. Sound(nodes, dirs) /\ Pending(dirs, removing)
  BY DEF IInv
<1>2. CASE removing' = <<>>
  BY <1>2, NoCalls
<1>3. CASE removing' # <<>>
  <2>1. /\ removing \in Seq(Name) /\ Len(removing) \in Nat /\ Len(removing) >= 1
        /\ removing' = Tail(removing) /\ ok' = TRUE
        /\ IsEntry(dirs, r) /\ \A j : ~In(dirs, x, j)
    BY <1>3, UnlinkCases
  <2>2. DOMAIN dirs \ {x} \subseteq DOMAIN dirs' /\ Loses(dirs, dirs', r.dir, k)
    BY <2>1, UnlinkedNames
  <2>3. Leads(dirs, r.dir, k, x)
    BY <1>1, <2>1, EntryFound
  <2> HIDE DEF r, k, x
  <2>4. /\ Len(removing') = Len(removing) - 1
        /\ \A j \in 1 .. Len(removing') : removing'[j] = removing[j + 1]
    BY <2>1
  <2>5. ASSUME NEW j \in 1 .. Len(removing')
        PROVE  \/ IsEntry(dirs', removing'[j])
               \/ /\ j = Len(removing') /\ removing'[j].dir = removing'[j].inode
                  /\ removing'[j].dir \in DOMAIN dirs'
    <3> DEFINE q == removing[j + 1]
    <3>1. /\ j \in 1 .. Len(removing) /\ j # Len(removing)
          /\ j \in 1 .. Len(removing) - 1 /\ j + 1 \in 1 .. Len(removing)
          /\ (j + 1 = Len(removing) => j = Len(removing'))
          /\ removing'[j] = q
      BY <2>1, <2>4
    <3>2. IsEntry(dirs, removing[j]) /\ removing[j].dir = q.inode
      BY <1>1, <3>1 DEF Pending
    <3>3. q.inode # x
      BY <2>1, <3>2 DEF IsEntry, Leads
    <3>4. CASE IsEntry(dirs, q)
      <4>1. PICK l : Leads(dirs, q.dir, l, q.inode) /\ dirs[q.dir].list[l].name = q.name
        BY <3>4 DEF IsEntry
      <4>2. ~(q.dir = r.dir /\ l = k)
        BY <2>3, <3>3, <4>1 DEF Leads
      <4>3. Leads(dirs', q.dir, l, q.inode)
        BY <2>2, <4>1, <4>2 DEF Loses
      <4>4. dirs'[q.dir].list[l].name = q.name
        BY <2>2, <4>1, <4>3 DEF Leads, Loses
      <4> QED
        BY <3>1, <4>3, <4>4 DEF IsEntry
    <3>5. CASE j + 1 = Len(removing) /\ q.dir = q.inode /\ q.dir \in DOMAIN dirs
      BY <2>2, <3>1, <3>3, <3>5
    <3> QED
      BY <1>1, <3>1, <3>4, <3>5 DEF Pending
  <2>6. ASSUME NEW j \in 1 .. Len(removing') - 1
        PROVE  removing'[j].dir = removing'[j + 1].inode
    <3>1. /\ j + 1 \in 1 .. Len(removing) - 1 /\ removing'[j] = removing[j + 1]
          /\ removing'[j + 1] = removing[(j + 1) + 1]
      BY <2>1, <2>4
    <3> QED
      BY <1>1, <3>1 DEF Pending
  <2> QED
    BY <2>5, <2>6 DEF Pending
<1> QED
  BY <1>2, <1>3

LEMMA Below ==
  ASSUME NEW a \in Nat, NEW b \in Nat, NEW x \in Nat, a <= b, a <= x,
         NEW j \in 1 .. a - 1
  PROVE  j \in 1 .. b - 1 /\ j # x
OBVIOUS

LEMMA UnlinkStep ==
  ASSUME IInv, Unlink
  PROVE  IInv'
<1> DEFINE r == Head(removing)
           x == r.inode
<1>1. TypeOK /\ NoInodeLost /\ Sound(nodes, dirs)
  BY DEF IInv
<1>2. Pending(dirs', removing')
  BY UnlinkPending
<1>3. removing \in Seq(Name) /\ Len(removing) >= 1
  BY UnlinkCases
<1>4. next \in 1 .. MaxInodes + 1 /\ MaxInodes \in Nat
  BY <1>1, NamespaceAssumption DEF TypeOK
<1>5. CASE removing' = <<>> /\ ok' = FALSE /\ UNCHANGED <<nodes, next, dirs>>
  <2>1. Sound(nodes', dirs') /\ NoInodeLost' /\ removing' \in Seq(Name)
    BY <1>1, <1>5 DEF NoInodeLost
  <2>2. TypeOK'
    BY <1>4, <1>5, <2>1, NextTyped
  <2> QED
    BY <1>2, <2>1, <2>2 DEF IInv
<1>6. CASE ~(removing' = <<>> /\ ok' = FALSE /\ UNCHANGED <<nodes, next, dirs>>)
  <2>1. /\ removing' = Tail(removing) /\ ok' = TRUE /\ x \in DOMAIN nodes
        /\ IsEntry(dirs, r)
        /\ \/ nodes' = Without(nodes, x) /\ next' = Lowered(x)
           \/ nodes' = [nodes EXCEPT ![x].links = @ - 1] /\ UNCHANGED next
    BY <1>6, UnlinkCases
  <2>2. removing' \in Seq(Name)
    BY <1>3, <2>1
  <2>3. Sound(nodes', dirs')
    BY <2>1, UnlinkedNames
  <2> HIDE DEF x, r
  <2>4. next' \in 1 .. MaxInodes + 1 /\ NoInodeLost'
    <3>1. CASE nodes' = Without(nodes, x) /\ next' = Lowered(x)
      <4>1. DOMAIN nodes' = DOMAIN nodes \ {x} /\ x \in 1 .. MaxInodes
        BY <1>1, <2>1, <3>1 DEF Without, TypeOK, Ids
      <4>2. next' \in 1 .. MaxInodes + 1 /\ next' <= next /\ next' <= x
        BY <1>4, <3>1, <4>1 DEF Lowered
      <4>3. ASSUME NEW j \in 1 .. next' - 1 PROVE j \in 1 .. next - 1 /\ j # x
        <5>1. next \in Nat /\ next' \in Nat /\ x \in Nat
          BY <1>4, <4>1, <4>2
        <5>2. next' <= next /\ next' <= x
          BY <4>2
        <5> QED
          BY <5>1, <5>2, Below
      <4> QED
        BY <1>1, <4>1, <4>2, <4>3 DEF NoInodeLost
    <3>2. CASE nodes' = [nodes EXCEPT ![x].links = @ - 1] /\ UNCHANGED next
      <4>1. DOMAIN nodes' = DOMAIN nodes
        BY <3>2
      <4> QED
        BY <1>1, <1>4, <3>2, <4>1 DEF NoInodeLost
    <3> QED
      BY <2>1, <3>1, <3>2
  <2>5. TypeOK'
    BY <2>1, <2>2, <2>3, <2>4, NextTyped
  <2> QED
    BY <1>2, <2>3, <2>4, <2>5 DEF IInv
<1> QED
  BY <1>5, <1>6

LEMMA StepHolds == IInv /\ [Next]_vars => IInv'
<1> SUFFICES ASSUME IInv, [Next]_vars PROVE IInv'
  OBVIOUS
<1>1. CASE UNCHANGED vars
  <2>1. UNCHANGED <<nodes, next, dirs, removing, ok>>
    BY <1>1 DEF vars
  <2>2. Sound(nodes', dirs') /\ Pending(dirs', removing') /\ NoInodeLost'
    BY <2>1 DEF IInv, NoInodeLost
  <2>3. TypeOK'
    BY <2>1, <2>2, NextTyped DEF IInv, TypeOK, Name
  <2> QED
    BY <2>2, <2>3 DEF IInv
<1>2. CASE Call
  <2>1. removing = <<>>
    BY <1>2 DEF Call
  <2>2. ASSUME NEW d \in Reachable, NEW n \in Names, NEW t \in Types, Create(d, n, t)
        PROVE  IInv'
    BY <2>1, <2>2, CreateStep
  <2>3. ASSUME NEW d \in Reachable, NEW n \in Names, CreateRefused(d, n)
        PROVE  IInv'
    BY <2>1, <2>3, CreateRefusedStep
  <2>4. ASSUME NEW r \in Resolved, NEW recursive \in BOOLEAN, Remove(r, recursive)
        PROVE  IInv'
    BY <2>1, <2>4, RemoveStep
  <2>5. ASSUME NEW r \in Resolved, NEW d \in Reachable, NEW n \in Names, Link(r, d, n)
        PROVE  IInv'
    BY <2>1, <2>5, LinkStep
  <2>6. ASSUME NEW r \in Resolved, NEW d \in Reachable, NEW n \in Names, Rename(r, d, n)
        PROVE  IInv'
    BY <2>1, <2>6, RenameStep
  <2> QED
    BY <1>2, <2>2, <2>3, <2>4, <2>5, <2>6 DEF Call
<1>3. CASE Descend
  BY <1>3, DescendStep
<1>4. CASE DescendFailed
  BY <1>4, DescendFailedStep
<1>5. CASE Unlink
  BY <1>5, UnlinkStep
<1> QED
  BY <1>1, <1>2, <1>3, <1>4, <1>5 DEF Next

\* The two tables agree after any calls, whatever failed on the way, and in the
\* middle of a recursive remove().
THEOREM Inductive == Spec => []IInv
<1>1. Init => IInv
  BY InitHolds
<1>2. IInv /\ [Next]_vars => IInv'
  BY StepHolds
<1> QED
  BY <1>1, <1>2, PTL DEF Spec

\* All variables keep their types.
THEOREM TypeCorrect == Spec => []TypeOK
<1>1. IInv => TypeOK
  BY DEF IInv
<1> QED
  BY <1>1, Inductive, PTL

\* No free identifier is below the next one: erase() lowers it, and what a
\* failed create_node() erases it gets back.
THEOREM NothingLost == Spec => []NoInodeLost
<1>1. IInv => NoInodeLost
  BY DEF IInv
<1> QED
  BY <1>1, Inductive, PTL

\* The ".." of a directory leads to a directory.
LEMMA UpIn ==
  ASSUME Sound(nodes, dirs), NEW d \in DOMAIN dirs
  PROVE  dirs[d].up \in DOMAIN dirs
<1>1. CASE d = Root
  BY <1>1 DEF Sound, Rooted
<1>2. CASE d # Root
  <2>1. PICK k : OnlyAt(dirs, d, k)
    BY <1>2 DEF Sound, OneName
  <2> QED
    BY <2>1 DEF OnlyAt, Leads, In
<1> QED
  BY <1>1, <1>2

LEMMA VerifiedHolds ==
  ASSUME Sound(nodes, dirs)
  PROVE  Verified
<1>1. /\ Tables(dirs) /\ Rooted(nodes, dirs) /\ EntriesFit(nodes, dirs)
      /\ LastOfName(dirs) /\ Total(dirs) <= MaxEntries
  BY DEF Sound, Typed
<1>2. ASSUME NEW d \in DOMAIN dirs
      PROVE  d \in DOMAIN nodes /\ IsDirectory(d) /\ dirs[d].up \in DOMAIN nodes
  <2>1. dirs[d].up \in DOMAIN dirs
    BY UpIn
  <2> QED
    BY <1>1, <2>1 DEF Rooted, IsDirectory
<1>3. ASSUME NEW d \in DOMAIN dirs, NEW k \in Used(d)
      PROVE  /\ dirs[d].list[k].inode \in DOMAIN nodes
             /\ dirs[d].list[k].type = nodes[dirs[d].list[k].inode].type
             /\ Found(d, dirs[d].list[k].name) = {k}
  <2>1. In(dirs, d, k)
    BY UsedMember
  <2>2. InUse(d, dirs[d].list[k].name)
    BY <2>1, NotInUse
  <2> DEFINE n == dirs[d].list[k].name
  <2>3. \A j : In(dirs, d, j) /\ dirs[d].list[j].name = n => j = Place(d, n)
    <3> HIDE DEF n
    <3> QED
      BY <1>1, <2>2, FoundPlace DEF n
  <2>4. k = Place(d, n)
    BY <2>1, <2>3
  <2>5. \A j : j \in Found(d, n) <=> In(dirs, d, j) /\ dirs[d].list[j].name = n
    BY UsedMember
  <2>6. \A j : j \in Found(d, n) <=> j = k
    BY <2>1, <2>3, <2>4, <2>5
  <2> QED
    BY <1>1, <2>1, <2>6 DEF EntriesFit
<1> QED
  BY <1>1, <1>2, <1>3 DEF Verified, Rooted

\* mount() takes the directories back: DirectoryTable::verify succeeds.
THEOREM TablesVerify == Spec => []Verified
<1>1. IInv => Verified
  BY VerifiedHolds DEF IInv
<1> QED
  BY <1>1, Inductive, PTL

LEMMA LinksAre ==
  ASSUME Tables(dirs), NEW i
  PROVE  Links(i) = LinksIn(dirs, i)
<1>1. ASSUME NEW z PROVE z \in Links(i) <=> z \in LinksIn(dirs, i)
  <2>1. z \in Links(i) <=> \E d, k : Leads(dirs, d, k, i) /\ z = <<d, k>>
    BY DEF Links, Used, Leads, In
  <2>2. \A d, k : Leads(dirs, d, k, i) => d \in Ids /\ k \in Nat
    BY InType DEF Leads
  <2> QED
    BY <2>1, <2>2 DEF LinksIn
<1> QED
  BY <1>1

LEMMA LinksCountedHolds ==
  ASSUME Sound(nodes, dirs)
  PROVE  LinksCounted
<1>1. /\ Tables(dirs) /\ Rooted(nodes, dirs) /\ OneName(nodes, dirs)
      /\ FileLinks(nodes, dirs) /\ Total(dirs) <= MaxEntries
      /\ nodes \in [DOMAIN nodes -> Node]
  BY DEF Sound, Typed
<1>2. ASSUME NEW i \in DOMAIN nodes, IsDirectory(i)
      PROVE  /\ i \in DOMAIN dirs /\ nodes[i].links = 2
             /\ IF i = Root THEN Links(i) = {}
                ELSE \E k \in 1 .. MaxEntries : Links(i) = {<<dirs[i].up, k>>}
  <2>1. i \in DOMAIN dirs /\ nodes[i].links = 2
    BY <1>1, <1>2 DEF Rooted, IsDirectory, OneName
  <2>2. Links(i) = LinksIn(dirs, i)
    BY <1>1, LinksAre
  <2>3. CASE i = Root
    BY <1>1, <2>1, <2>2, <2>3 DEF OneName, LinksIn
  <2>4. CASE i # Root
    <3>1. PICK k : OnlyAt(dirs, i, k)
      BY <1>1, <2>1, <2>4 DEF OneName
    <3> DEFINE d == dirs[i].up
    <3>2. In(dirs, d, k)
      BY <3>1 DEF OnlyAt, Leads
    <3>3. d \in Ids /\ d \in DOMAIN dirs /\ k \in Nat /\ k \in 1 .. Len(dirs[d].list)
      BY <1>1, <3>2, InType
    <3>4. LinksIn(dirs, i) = {<<d, k>>}
      BY <3>1, <3>3 DEF OnlyAt, LinksIn
    <3>5. k \in 1 .. MaxEntries
      <4>1. /\ 2 + Len(dirs[d].list) = Sizes(dirs)[d] /\ Len(dirs[d].list) \in Nat
            /\ Total(dirs) \in Nat
        BY <1>1, <3>3, SizesType
      <4>2. Sizes(dirs)[d] <= Total(dirs)
        BY <1>1, <3>3, SizesType, SumBounds
      <4> HIDE DEF d
      <4> QED
        BY <1>1, <3>3, <4>1, <4>2, NamespaceAssumption
    <3> QED
      BY <2>1, <2>2, <2>4, <3>4, <3>5
  <2> QED
    BY <2>3, <2>4, <2>1
<1>3. ASSUME NEW i \in DOMAIN nodes, ~IsDirectory(i)
      PROVE  nodes[i].links = Cardinality(Links(i)) /\ nodes[i].links \in 1 .. MaxLinks
  <2>1. nodes[i].type = "file"
    BY <1>1, <1>3 DEF IsDirectory, Node, Types
  <2> QED
    BY <1>1, <2>1, LinksAre DEF FileLinks
<1> QED
  BY <1>2, <1>3 DEF LinksCounted

\* An inode's link count is the number of its names, and a directory has one
\* name, where its ".." leads.
THEOREM LinkCountsRight == Spec => []LinksCounted
<1>1. IInv => LinksCounted
  BY LinksCountedHolds DEF IInv
<1> QED
  BY <1>1, Inductive, PTL

-----------------------------------------------------------------------------
(* What a step does to the entries in use: nothing, or one comes, goes or      *)
(* moves.                                                                      *)

Keeps(ds, c) ==
  \A x, k : /\ In(c, x, k) <=> In(ds, x, k)
            /\ In(ds, x, k) => /\ c[x].list[k].name = ds[x].list[k].name
                               /\ c[x].list[k].inode = ds[x].list[k].inode

Gains(ds, c, d, p, n, i) ==
  /\ \A x, k : In(c, x, k) <=> In(ds, x, k) \/ (x = d /\ k = p)
  /\ \A x, k : In(ds, x, k) => /\ c[x].list[k].name = ds[x].list[k].name
                               /\ c[x].list[k].inode = ds[x].list[k].inode
  /\ ~In(ds, d, p) /\ c[d].list[p].name = n /\ c[d].list[p].inode = i
  /\ \A k : In(ds, d, k) => ds[d].list[k].name # n

Moves(ds, c, s, k, d, p, n, i) ==
  /\ In(ds, s, k) /\ ds[s].list[k].inode = i
  /\ \A x, j : In(c, x, j) <=> \/ In(ds, x, j) /\ ~(x = s /\ j = k)
                               \/ x = d /\ j = p
  /\ \A x, j : In(ds, x, j) /\ ~(x = s /\ j = k) =>
       /\ c[x].list[j].name = ds[x].list[j].name
       /\ c[x].list[j].inode = ds[x].list[j].inode
  /\ ~(In(ds, d, p) /\ ~(d = s /\ p = k))
  /\ c[d].list[p].name = n /\ c[d].list[p].inode = i
  /\ \A j : In(ds, d, j) => ds[d].list[j].name # n

Stays == Keeps(dirs, dirs') /\ DOMAIN dirs' = DOMAIN dirs

Comes == \E d \in Reachable, n \in Names : \E p, i :
           /\ Gains(dirs, dirs', d, p, n, i)
           /\ \/ DOMAIN dirs' = DOMAIN dirs
              \/ i \notin DOMAIN dirs /\ DOMAIN dirs' = DOMAIN dirs \cup {i}

Goes == \E d, k, i :
          /\ Leads(dirs, d, k, i) /\ Loses(dirs, dirs', d, k)
          /\ \A j : ~In(dirs, i, j)
          /\ DOMAIN dirs \ {i} \subseteq DOMAIN dirs'
          /\ DOMAIN dirs' \subseteq DOMAIN dirs

Travels == \E d \in Reachable, n \in Names : \E s, k, p, i :
             Moves(dirs, dirs', s, k, d, p, n, i) /\ DOMAIN dirs' = DOMAIN dirs

LEMMA StaysUnchanged ==
  ASSUME UNCHANGED dirs
  PROVE  Stays
BY DEF Stays, Keeps

LEMMA CreateKind ==
  ASSUME IInv, NEW d \in Reachable, NEW n \in Names, NEW t \in Types, Create(d, n, t)
  PROVE  Stays \/ Comes
<1> DEFINE i == NewId
           o == Opened(i, d, t)
           e == NewEntry(n, i, t)
           a == Added(o, d, e)
           p == Len(o[d].list) + 1
<1>1. /\ TypeOK /\ NoInodeLost /\ Sound(nodes, dirs)
      /\ Tables(dirs) /\ Rooted(nodes, dirs)
  BY DEF IInv, Sound, Typed
<1>2. d \in DOMAIN dirs
  BY ReachableIn
<1>3. /\ ~InUse(d, n) /\ Free # {}
      /\ \/ UNCHANGED dirs
         \/ dirs' = a
         \/ /\ CanAdd(o, d, n) /\ t = "file"
            /\ dirs' = [a EXCEPT ![d].list[Len(a[d].list)].deleted = TRUE]
  BY DEF Create, CanAllocate, Opened
<1>4. i \in Ids \ DOMAIN nodes /\ i \notin DOMAIN dirs
  BY <1>1, <1>3, NewIdFacts DEF Rooted
<1> HIDE DEF i
<1>5. /\ e \in Entry /\ e.deleted = FALSE /\ e.name = n /\ e.inode = i
  BY <1>4 DEF NewEntry, Entry
<1>6. \A k : In(dirs, d, k) => dirs[d].list[k].name # n
  BY <1>2, <1>3, NotInUse
<1> HIDE DEF e
<1>7. CASE UNCHANGED dirs
  BY <1>7, StaysUnchanged
<1>8. CASE dirs' = a
  <2>1. /\ Tables(o) /\ SameEntries(dirs, o)
        /\ DOMAIN o = DOMAIN dirs \cup (IF t = "directory" THEN {i} ELSE {})
    BY <1>1, <1>2, <1>4, OpenedFacts
  <2> HIDE DEF o
  <2>2. d \in DOMAIN o
    BY <1>2, <2>1
  <2>3. DOMAIN a = DOMAIN o
    BY <1>5, <2>1, <2>2, AddedFacts
  <2>4. /\ \A x, k : In(a, x, k) <=> In(o, x, k) \/ (x = d /\ k = p /\ ~e.deleted)
        /\ \A x, k : In(o, x, k) => a[x].list[k] = o[x].list[k]
        /\ a[d].list[p] = e /\ ~In(o, d, p)
    <3>1. Tables(o) /\ d \in DOMAIN o /\ e \in Entry
      BY <1>5, <2>1, <2>2
    <3> QED
      BY <3>1, AddedNames
  <2> HIDE DEF p
  <2>5. /\ \A x, k : In(o, x, k) <=> In(dirs, x, k)
        /\ \A x, k : In(dirs, x, k) => o[x].list = dirs[x].list
    BY <2>1 DEF SameEntries
  <2> HIDE DEF a
  <2>6. Gains(dirs, a, d, p, n, i)
    BY <1>5, <1>6, <2>4, <2>5 DEF Gains
  <2>7. DOMAIN a = DOMAIN dirs \/ DOMAIN a = DOMAIN dirs \cup {i}
    BY <2>1, <2>3
  <2> QED
    BY <1>4, <1>8, <2>6, <2>7 DEF Comes
<1>9. CASE /\ CanAdd(o, d, n) /\ t = "file"
           /\ dirs' = [a EXCEPT ![d].list[Len(a[d].list)].deleted = TRUE]
  <2>1. o = dirs
    BY <1>9 DEF Opened
  <2> DEFINE b == Added(dirs, d, e)
             m == Flagged(b, d, Len(b[d].list))
  <2>2. dirs' = m
    BY <1>9, <2>1 DEF Flagged, Replaced, Gone
  <2>3. Total(dirs) < MaxEntries
    BY <1>9, <2>1 DEF CanAdd
  <2>4. /\ Sound(nodes, m)
        /\ \A x, k : /\ In(m, x, k) <=> In(dirs, x, k)
                     /\ In(dirs, x, k) =>
                          /\ m[x].list[k].name = dirs[x].list[k].name
                          /\ m[x].list[k].inode = dirs[x].list[k].inode
    BY <1>1, <1>2, <1>3, <1>5, <2>3, AbandonedSound
  <2> HIDE DEF m
  <2>5. Keeps(dirs, m)
    BY <2>4 DEF Keeps
  <2>6. DOMAIN m = DOMAIN dirs
    BY <1>1, <2>4 DEF Sound, Rooted
  <2> QED
    BY <2>2, <2>5, <2>6 DEF Stays
<1> QED
  BY <1>3, <1>7, <1>8, <1>9

LEMMA LinkKind ==
  ASSUME IInv, NEW r \in Resolved, NEW d \in Reachable, NEW n \in Names, Link(r, d, n)
  PROVE  Stays \/ Comes
<1>1. Sound(nodes, dirs) /\ Tables(dirs)
  BY DEF IInv, Sound, Typed
<1>2. CASE Refuse
  BY <1>2, StaysUnchanged DEF Refuse
<1>3. CASE ~Refuse
  <2> DEFINE e == NewEntry(n, r.inode, nodes[r.inode].type)
             a == Added(dirs, d, e)
             p == Len(dirs[d].list) + 1
  <2>1. CanAdd(dirs, d, n) /\ dirs' = a
    BY <1>3 DEF Link
  <2>2. r \in Name /\ r.inode \in DOMAIN nodes /\ d \in DOMAIN dirs
    BY <1>1, ResolvedFacts, ReachableIn
  <2>3. nodes[r.inode] \in Node /\ r.inode \in Ids
    BY <2>2 DEF IInv, TypeOK, Name
  <2>4. /\ e \in Entry /\ e.deleted = FALSE /\ e.name = n /\ e.inode = r.inode
    BY <2>3 DEF NewEntry, Entry, Node
  <2>5. \A k : In(dirs, d, k) => dirs[d].list[k].name # n
    BY <2>1, <2>2, NotInUse DEF CanAdd
  <2> HIDE DEF e, p
  <2>6. DOMAIN a = DOMAIN dirs
    BY <1>1, <2>2, <2>4, AddedFacts
  <2>7. /\ \A x, k : In(a, x, k) <=> In(dirs, x, k) \/ (x = d /\ k = p /\ ~e.deleted)
        /\ \A x, k : In(dirs, x, k) => a[x].list[k] = dirs[x].list[k]
        /\ a[d].list[p] = e /\ ~In(dirs, d, p)
    BY <1>1, <2>2, <2>4, AddedNames DEF p
  <2> HIDE DEF a
  <2>8. Gains(dirs, a, d, p, n, r.inode)
    BY <2>4, <2>5, <2>7 DEF Gains
  <2> QED
    BY <2>1, <2>6, <2>8 DEF Comes
<1> QED
  BY <1>2, <1>3

LEMMA RenameKind ==
  ASSUME IInv, NEW r \in Resolved, NEW d \in Reachable, NEW n \in Names, Rename(r, d, n)
  PROVE  Stays \/ (Travels /\ ok' = TRUE)
<1>1. Sound(nodes, dirs) /\ Tables(dirs)
  BY DEF IInv, Sound, Typed
<1>2. CASE UNCHANGED dirs
  BY <1>2, StaysUnchanged
<1>3. CASE /\ ok' = TRUE /\ r.dir \in DOMAIN dirs /\ d \in DOMAIN dirs
           /\ InUse(r.dir, r.name) /\ ~InUse(d, n)
           /\ dirs' = Renamed(r.dir, r.name, d, n)
  <2> DEFINE s == r.dir
             o == r.name
             c == Renamed(s, o, d, n)
             e == EntryOf(s, o)
             k == Place(s, o)
             p == Len(OldMarked(s, o)[d].list) + 1
             f == NewName(s, o, n)
  <2> HIDE DEF s, o
  <2>1. s \in DOMAIN dirs /\ InUse(s, o) /\ d \in DOMAIN dirs /\ dirs' = c
    BY <1>3 DEF s, o
  <2>2. /\ In(dirs, s, k) /\ e = dirs[s].list[k] /\ e \in Entry
        /\ DOMAIN c = DOMAIN dirs
    BY <1>1, <2>1, RenamedFacts
  <2>3. /\ \A x, j : In(c, x, j) <=> \/ In(dirs, x, j) /\ ~(x = s /\ j = k)
                                     \/ x = d /\ j = p
        /\ \A x, j : In(dirs, x, j) /\ ~(x = s /\ j = k) =>
             /\ c[x].list[j].name = dirs[x].list[j].name
             /\ c[x].list[j].inode = dirs[x].list[j].inode
             /\ c[x].list[j].type = dirs[x].list[j].type
        /\ c[d].list[p] = f
        /\ ~(In(dirs, d, p) /\ ~(d = s /\ p = k))
    BY <1>1, <2>1, RenamedNames
  <2>4. NamedAs(f, n, e)
    BY <2>2, NewNameFacts
  <2>5. \A j : In(dirs, d, j) => dirs[d].list[j].name # n
    BY <1>3, NotInUse
  <2> HIDE DEF c, e, k, p, f
  <2>6. Moves(dirs, c, s, k, d, p, n, e.inode)
    BY <2>2, <2>3, <2>4, <2>5 DEF Moves, NamedAs
  <2>7. Moves(dirs, dirs', s, k, d, p, n, e.inode) /\ DOMAIN dirs' = DOMAIN dirs
    BY <2>1, <2>2, <2>6
  <2>8. Travels
    BY <2>7 DEF Travels
  <2> QED
    BY <1>3, <2>8
<1> QED
  BY <1>1, <1>2, <1>3, RenameCases

LEMMA UnlinkKind ==
  ASSUME IInv, Unlink
  PROVE  Stays \/ (Goes /\ ok' = TRUE)
<1> DEFINE r == Head(removing)
           k == Place(r.dir, r.name)
<1>1. Sound(nodes, dirs)
  BY DEF IInv
<1>2. CASE UNCHANGED dirs
  BY <1>2, StaysUnchanged
<1>3. CASE ~UNCHANGED dirs
  <2>1. IsEntry(dirs, r) /\ ok' = TRUE /\ \A j : ~In(dirs, r.inode, j)
    BY <1>3, UnlinkCases
  <2>2. Leads(dirs, r.dir, k, r.inode)
    BY <1>1, <2>1, EntryFound
  <2>3. /\ DOMAIN dirs \ {r.inode} \subseteq DOMAIN dirs'
        /\ DOMAIN dirs' \subseteq DOMAIN dirs
        /\ Loses(dirs, dirs', r.dir, k)
    BY <2>1, UnlinkedNames
  <2> HIDE DEF r, k
  <2> QED
    BY <2>1, <2>2, <2>3 DEF Goes
<1> QED
  BY <1>2, <1>3

LEMMA StepKinds ==
  ASSUME IInv, [Next]_vars
  PROVE  Stays \/ Comes \/ (Goes /\ ok' = TRUE) \/ (Travels /\ ok' = TRUE)
<1>1. CASE UNCHANGED vars
  BY <1>1, StaysUnchanged DEF vars
<1>2. CASE Call
  <2>1. ASSUME NEW d \in Reachable, NEW n \in Names, CreateRefused(d, n) PROVE Stays
    BY <2>1, StaysUnchanged DEF CreateRefused
  <2>2. ASSUME NEW r \in Resolved, NEW recursive \in BOOLEAN, Remove(r, recursive)
        PROVE  Stays
    BY <2>2, StaysUnchanged DEF Remove, Refuse
  <2> QED
    BY <1>2, <2>1, <2>2, CreateKind, LinkKind, RenameKind DEF Call
<1>3. CASE Descend
  BY <1>3, StaysUnchanged DEF Descend
<1>4. CASE DescendFailed
  BY <1>4, StaysUnchanged DEF DescendFailed
<1>5. CASE Unlink
  BY <1>5, UnlinkKind
<1> QED
  BY <1>1, <1>2, <1>3, <1>4, <1>5 DEF Next

-----------------------------------------------------------------------------
(* What such a step does to the table of names. *)

LEMMA SamePlace ==
  ASSUME NEW ds, Tables(ds), LastOfName(ds), NEW d, NEW j, NEW k,
         In(ds, d, j), In(ds, d, k), ds[d].list[j].name = ds[d].list[k].name
  PROVE  j = k
<1>1. /\ Len(ds[d].list) \in Nat /\ j \in 1 .. Len(ds[d].list)
      /\ k \in 1 .. Len(ds[d].list)
  BY TableFacts DEF In
<1>2. ~(j \in k + 1 .. Len(ds[d].list)) /\ ~(k \in j + 1 .. Len(ds[d].list))
  BY DEF LastOfName
<1> QED
  BY <1>1, <1>2

LEMMA RecordFields ==
  ASSUME NEW ds, NEW d, NEW k
  PROVE  /\ RecordAt(ds, d, k).dir = d
         /\ RecordAt(ds, d, k).name = ds[d].list[k].name
         /\ RecordAt(ds, d, k).inode = ds[d].list[k].inode
BY DEF RecordAt

LEMMA KeepsTable ==
  ASSUME NEW ds, NEW c, Keeps(ds, c)
  PROVE  TableOf(c) = TableOf(ds)
<1>1. \A x, k : In(ds, x, k) => RecordAt(c, x, k) = RecordAt(ds, x, k)
  BY DEF Keeps, RecordAt
<1>2. \A x, k : In(c, x, k) <=> In(ds, x, k)
  BY DEF Keeps
<1>3. ASSUME NEW r PROVE r \in TableOf(c) <=> r \in TableOf(ds)
  BY <1>1, <1>2, TableMember
<1> QED
  BY <1>3

\* In these tables the name n is free in directory d.
FreeIn(ds, d, n) == \A r \in TableOf(ds) : ~(r.dir = d /\ r.name = n)

LEMMA FreeName ==
  ASSUME NEW ds, NEW d, NEW n, \A k : In(ds, d, k) => ds[d].list[k].name # n
  PROVE  FreeIn(ds, d, n)
<1>1. ASSUME NEW r \in TableOf(ds), r.dir = d, r.name = n PROVE FALSE
  <2>1. PICK x, k : In(ds, x, k) /\ r = RecordAt(ds, x, k)
    BY TableMember
  <2>2. x = d /\ ds[x].list[k].name = n
    BY <1>1, <2>1, RecordFields
  <2> QED
    BY <2>1, <2>2
<1> QED
  BY <1>1 DEF FreeIn

LEMMA GainsTable ==
  ASSUME NEW ds, NEW c, NEW d, NEW p, NEW n, NEW i, Gains(ds, c, d, p, n, i)
  PROVE  /\ TableOf(c) = TableOf(ds) \cup {RecordAt(c, d, p)}
         /\ RecordAt(c, d, p).dir = d /\ RecordAt(c, d, p).name = n
         /\ FreeIn(ds, d, n)
<1>1. \A x, k : In(ds, x, k) => RecordAt(c, x, k) = RecordAt(ds, x, k)
  BY DEF Gains, RecordAt
<1>2. \A x, k : In(c, x, k) <=> In(ds, x, k) \/ (x = d /\ k = p)
  BY DEF Gains
<1>3. ASSUME NEW r PROVE r \in TableOf(c) <=> r \in TableOf(ds) \cup {RecordAt(c, d, p)}
  BY <1>1, <1>2, TableMember
<1>4. c[d].list[p].name = n /\ \A k : In(ds, d, k) => ds[d].list[k].name # n
  BY DEF Gains
<1> QED
  BY <1>3, <1>4, RecordFields, FreeName

LEMMA LosesTable ==
  ASSUME NEW ds, NEW c, NEW d, NEW k, Tables(ds), LastOfName(ds),
         In(ds, d, k), Loses(ds, c, d, k)
  PROVE  /\ RecordAt(ds, d, k) \in TableOf(ds)
         /\ TableOf(c) = TableOf(ds) \ {RecordAt(ds, d, k)}
<1>1. \A x, j : In(c, x, j) => RecordAt(c, x, j) = RecordAt(ds, x, j)
  BY DEF Loses, RecordAt
<1>2. \A x, j : In(c, x, j) <=> In(ds, x, j) /\ ~(x = d /\ j = k)
  BY DEF Loses
<1>3. ASSUME NEW x, NEW j, In(ds, x, j), RecordAt(ds, x, j) = RecordAt(ds, d, k)
      PROVE  x = d /\ j = k
  <2>1. x = d /\ ds[x].list[j].name = ds[d].list[k].name
    BY <1>3, RecordFields
  <2> QED
    BY <1>3, <2>1, SamePlace
<1>4. ASSUME NEW r PROVE r \in TableOf(c) <=> r \in TableOf(ds) \ {RecordAt(ds, d, k)}
  BY <1>1, <1>2, <1>3, TableMember
<1> QED
  BY <1>4, TableMember

LEMMA MovesTable ==
  ASSUME NEW ds, NEW c, NEW s, NEW k, NEW d, NEW p, NEW n, NEW i,
         Tables(ds), LastOfName(ds), Moves(ds, c, s, k, d, p, n, i)
  PROVE  /\ RecordAt(ds, s, k) \in TableOf(ds)
         /\ TableOf(c) = (TableOf(ds) \ {RecordAt(ds, s, k)}) \cup {RecordAt(c, d, p)}
         /\ RecordAt(ds, s, k).inode = i /\ RecordAt(c, d, p).inode = i
         /\ RecordAt(c, d, p).dir = d /\ RecordAt(c, d, p).name = n
         /\ FreeIn(ds, d, n)
<1>1. \A x, j : In(ds, x, j) /\ ~(x = s /\ j = k) => RecordAt(c, x, j) = RecordAt(ds, x, j)
  BY DEF Moves, RecordAt
<1>2. /\ In(ds, s, k) /\ ds[s].list[k].inode = i
      /\ \A x, j : In(c, x, j) <=> \/ In(ds, x, j) /\ ~(x = s /\ j = k)
                                   \/ x = d /\ j = p
      /\ ~(In(ds, d, p) /\ ~(d = s /\ p = k))
      /\ c[d].list[p].name = n /\ c[d].list[p].inode = i
      /\ \A j : In(ds, d, j) => ds[d].list[j].name # n
  BY DEF Moves
<1>3. ASSUME NEW x, NEW j, In(ds, x, j), RecordAt(ds, x, j) = RecordAt(ds, s, k)
      PROVE  x = s /\ j = k
  <2>1. x = s /\ ds[x].list[j].name = ds[s].list[k].name
    BY <1>3, RecordFields
  <2> QED
    BY <1>2, <1>3, <2>1, SamePlace
<1>4. ASSUME NEW r
      PROVE  r \in TableOf(c) <=>
               r \in (TableOf(ds) \ {RecordAt(ds, s, k)}) \cup {RecordAt(c, d, p)}
  BY <1>1, <1>2, <1>3, TableMember
<1> QED
  BY <1>2, <1>4, RecordFields, FreeName, TableMember

LEMMA FirstTable == Init => Promise!Init
<1> SUFFICES ASSUME Init PROVE Promise!Init
  OBVIOUS
<1>1. dirs = [i \in {Root} |-> NewDirectory(Root)] /\ ok = TRUE
  BY DEF Init
<1>2. \A d, k : ~In(dirs, d, k)
  BY <1>1 DEF In, NewDirectory
<1>3. Table = {}
  BY <1>2, TableMember, TableIs
<1> QED
  BY <1>1, <1>3 DEF Promise!Init

LEMMA NextTable == Table' = TableOf(dirs')
BY DEF Table, TableOf, RecordAt, Used

\* Every step of a call adds one name, drops one, moves one or keeps them all.
LEMMA StepKeepsPromise ==
  ASSUME IInv, [Next]_vars
  PROVE  [Promise!Next]_<<Table, ok>>
<1>1. Tables(dirs) /\ LastOfName(dirs) /\ Sound(nodes, dirs)
  BY DEF IInv, Sound, Typed
<1>2. ok' \in BOOLEAN
  BY StepHolds DEF IInv, TypeOK
<1>3. CASE Stays
  <2>1. TableOf(dirs') = TableOf(dirs)
    BY <1>3, KeepsTable DEF Stays
  <2> QED
    BY <1>2, <2>1, TableIs, NextTable DEF Promise!Next, Promise!Keep
<1>4. CASE Comes
  <2>1. PICK d \in Reachable, n \in Names : \E p, i : Gains(dirs, dirs', d, p, n, i)
    BY <1>4 DEF Comes
  <2>2. PICK p, i : Gains(dirs, dirs', d, p, n, i)
    BY <2>1
  <2> DEFINE e == RecordAt(dirs', d, p)
  <2>3. /\ TableOf(dirs') = TableOf(dirs) \cup {e}
        /\ e.dir = d /\ e.name = n /\ FreeIn(dirs, d, n)
    BY <2>2, GainsTable
  <2> HIDE DEF e
  <2>4. Table' = Table \cup {e} /\ e \in Table'
    BY <2>3, TableIs, NextTable
  <2>5. ~Promise!Taken(e.dir, e.name)
    BY <2>3, TableIs DEF Promise!Taken, FreeIn
  <2> QED
    BY <1>2, <2>4, <2>5 DEF Promise!Next, Promise!Add
<1>5. CASE Goes /\ ok' = TRUE
  <2>1. PICK d, k, i : Leads(dirs, d, k, i) /\ Loses(dirs, dirs', d, k)
    BY <1>5 DEF Goes
  <2> DEFINE e == RecordAt(dirs, d, k)
  <2>2. In(dirs, d, k)
    BY <2>1 DEF Leads
  <2>3. e \in TableOf(dirs) /\ TableOf(dirs') = TableOf(dirs) \ {e}
    BY <1>1, <2>1, <2>2, LosesTable
  <2> HIDE DEF e
  <2>4. e \in Table /\ Table' = Table \ {e}
    BY <2>3, TableIs, NextTable
  <2> QED
    BY <1>5, <2>4 DEF Promise!Next, Promise!Drop
<1>6. CASE Travels /\ ok' = TRUE
  <2>1. PICK d \in Reachable, n \in Names :
          \E s, k, p, i : Moves(dirs, dirs', s, k, d, p, n, i)
    BY <1>6 DEF Travels
  <2>2. PICK s, k, p, i : Moves(dirs, dirs', s, k, d, p, n, i)
    BY <2>1
  <2> DEFINE e == RecordAt(dirs, s, k)
             f == RecordAt(dirs', d, p)
  <2>3. /\ e \in TableOf(dirs)
        /\ TableOf(dirs') = (TableOf(dirs) \ {e}) \cup {f}
        /\ e.inode = i /\ f.inode = i /\ f.dir = d /\ f.name = n
        /\ FreeIn(dirs, d, n)
    BY <1>1, <2>2, MovesTable
  <2> HIDE DEF e, f
  <2>4. e \in Table /\ Table' = (Table \ {e}) \cup {f} /\ f \in Table'
    BY <2>3, TableIs, NextTable
  <2>5. ~Promise!Taken(f.dir, f.name) /\ e.inode = f.inode
    BY <2>3, TableIs DEF Promise!Taken, FreeIn
  <2> QED
    BY <1>6, <2>4, <2>5 DEF Promise!Next, Promise!Move
<1> QED
  BY <1>3, <1>4, <1>5, <1>6, StepKinds

\* The tables of directories implement a table of names in which calls add,
\* drop and move one name at a time: a name is never taken twice, a rename that
\* finds no room leaves all names as they were, and what a recursive remove()
\* drops before it stops is dropped name by name.
THEOREM Implements == Spec => OneNameAtATime
<1>1. Init => Promise!Init
  BY FirstTable
<1>2. IInv /\ [Next]_vars => [Promise!Next]_<<Table, ok>>
  BY StepKeepsPromise
<1> QED
  BY <1>1, <1>2, Inductive, PTL DEF Spec, OneNameAtATime, Promise!Spec

-----------------------------------------------------------------------------
(* What such a step does to the directories that a path reaches. *)

ClosedIn(ds, S) ==
  \A d, k, i : d \in S /\ Leads(ds, d, k, i) /\ i \in DOMAIN ds => i \in S

OnPath(ds) == {d \in DOMAIN ds :
                 \A S \in SUBSET DOMAIN ds : Root \in S /\ ClosedIn(ds, S) => d \in S}

LEMMA ReachableIs == IInv => Reachable = OnPath(dirs)
<1> SUFFICES ASSUME IInv PROVE Reachable = OnPath(dirs)
  OBVIOUS
<1>1. Rooted(nodes, dirs) /\ EntriesFit(nodes, dirs)
  BY DEF IInv, Sound
<1>2. ASSUME NEW S \in SUBSET DOMAIN dirs
      PROVE  Closed(S) <=> ClosedIn(dirs, S)
  <2>1. ASSUME NEW d \in S, NEW i
        PROVE  i \in Subdirectories(d) <=> i \in DOMAIN dirs /\ \E k : Leads(dirs, d, k, i)
    <3>1. d \in DOMAIN dirs
      BY <1>2
    <3>2. \A k : k \in Used(d) <=> In(dirs, d, k)
      BY <3>1, UsedMember
    <3>3. \A k : In(dirs, d, k) => dirs[d].list[k].inode \in DOMAIN nodes
      BY <1>1 DEF EntriesFit
    <3>4. \A j \in DOMAIN nodes : IsDirectory(j) <=> j \in DOMAIN dirs
      BY <1>1 DEF Rooted, IsDirectory
    <3> QED
      BY <3>2, <3>3, <3>4 DEF Subdirectories, Leads
  <2> QED
    BY <2>1 DEF Closed, ClosedIn
<1> QED
  BY <1>2 DEF Reachable, OnPath

LEMMA NextReachable == (IInv => Reachable = OnPath(dirs))'
BY ReachableIs, PTL

LEMMA StaysOnPath ==
  ASSUME NEW ds, NEW c, Keeps(ds, c), DOMAIN c = DOMAIN ds
  PROVE  OnPath(c) = OnPath(ds)
<1>1. \A d, k, i : Leads(c, d, k, i) <=> Leads(ds, d, k, i)
  BY DEF Keeps, Leads
<1>2. \A S : ClosedIn(c, S) <=> ClosedIn(ds, S)
  BY <1>1 DEF ClosedIn
<1> QED
  BY <1>2 DEF OnPath

\* A new entry of a directory that a path reaches.
LEMMA ComesOnPath ==
  ASSUME NEW ds, NEW c, NEW d \in OnPath(ds), NEW p, NEW n, NEW i,
         Gains(ds, c, d, p, n, i), Root \in DOMAIN ds,
         DOMAIN c = DOMAIN ds \/ (i \notin DOMAIN ds /\ DOMAIN c = DOMAIN ds \cup {i})
  PROVE  DOMAIN c \ OnPath(c) \subseteq DOMAIN ds \ OnPath(ds)
<1>1. \A x, k, j : Leads(ds, x, k, j) => Leads(c, x, k, j)
  BY DEF Gains, Leads
<1>2. Leads(c, d, p, i)
  BY DEF Gains, Leads
<1>3. ASSUME NEW S \in SUBSET DOMAIN c, Root \in S, ClosedIn(c, S)
      PROVE  OnPath(ds) \subseteq S /\ (i \in DOMAIN c => i \in S)
  <2> DEFINE S0 == S \cap DOMAIN ds
  <2>1. ClosedIn(ds, S0)
    BY <1>1, <1>3 DEF ClosedIn
  <2>2. S0 \in SUBSET DOMAIN ds /\ Root \in S0
    BY <1>3
  <2>3. OnPath(ds) \subseteq S0
    BY <2>1, <2>2 DEF OnPath
  <2> QED
    BY <1>2, <1>3, <2>3 DEF ClosedIn
<1>4. \A x \in DOMAIN c : x \in OnPath(ds) \/ x = i => x \in OnPath(c)
  BY <1>3 DEF OnPath
<1>5. OnPath(ds) \subseteq DOMAIN ds
  BY DEF OnPath
<1> QED
  BY <1>4, <1>5

\* The only entry of an inode that leads nowhere.
LEMMA GoesOnPath ==
  ASSUME NEW nd, NEW ds, NEW e, NEW c, OneName(nd, ds), OneName(e, c),
         NEW d, NEW k, NEW i, Leads(ds, d, k, i), Loses(ds, c, d, k),
         \A j : ~In(ds, i, j),
         DOMAIN ds \ {i} \subseteq DOMAIN c, DOMAIN c \subseteq DOMAIN ds
  PROVE  DOMAIN c \ OnPath(c) \subseteq DOMAIN ds \ OnPath(ds)
<1>1. \A x, j, y : Leads(c, x, j, y) <=> Leads(ds, x, j, y) /\ ~(x = d /\ j = k)
  BY DEF Loses
<1>2. i # Root
  BY DEF OneName
<1>3. i \notin DOMAIN c
  <2> SUFFICES ASSUME i \in DOMAIN c PROVE FALSE
    OBVIOUS
  <2>1. PICK j : OnlyAt(c, i, j)
    BY <1>2 DEF OneName
  <2>2. Leads(c, c[i].up, j, i)
    BY <2>1 DEF OnlyAt
  <2>3. PICK h : OnlyAt(ds, i, h)
    BY <1>2 DEF OneName
  <2>4. Leads(ds, c[i].up, j, i) /\ ~(c[i].up = d /\ j = k)
    BY <1>1, <2>2
  <2> QED
    BY <2>3, <2>4 DEF OnlyAt
<1>4. ASSUME NEW S \in SUBSET DOMAIN c, Root \in S, ClosedIn(c, S)
      PROVE  OnPath(ds) \subseteq S \cup {i}
  <2> DEFINE S1 == S \cup ({i} \cap DOMAIN ds)
  <2>1. ASSUME NEW x, NEW j, NEW y, x \in S1, Leads(ds, x, j, y), y \in DOMAIN ds
        PROVE  y \in S1
    <3>1. x # i
      BY <2>1 DEF Leads
    <3>2. CASE x = d /\ j = k
      BY <2>1, <3>2 DEF Leads
    <3>3. CASE ~(x = d /\ j = k)
      <4>1. Leads(c, x, j, y)
        BY <1>1, <2>1, <3>3
      <4> QED
        BY <1>4, <2>1, <3>1, <4>1 DEF ClosedIn
    <3> QED
      BY <3>2, <3>3
  <2>2. ClosedIn(ds, S1)
    BY <2>1 DEF ClosedIn
  <2>3. S1 \in SUBSET DOMAIN ds /\ Root \in S1
    BY <1>4
  <2>4. OnPath(ds) \subseteq S1
    BY <2>2, <2>3 DEF OnPath
  <2> QED
    BY <2>4
<1>5. \A x \in DOMAIN c : x \in OnPath(ds) => x \in OnPath(c)
  BY <1>3, <1>4 DEF OnPath
<1> QED
  BY <1>5

\* An entry that moves to a directory that a path still reaches.
LEMMA TravelsOnPath ==
  ASSUME NEW ds, NEW c, NEW s, NEW k, NEW d, NEW p, NEW n, NEW i,
         Moves(ds, c, s, k, d, p, n, i), DOMAIN c = DOMAIN ds, d \in OnPath(c)
  PROVE  DOMAIN c \ OnPath(c) \subseteq DOMAIN ds \ OnPath(ds)
<1>1. \A x, j, y : Leads(ds, x, j, y) /\ ~(x = s /\ j = k) => Leads(c, x, j, y)
  BY DEF Moves, Leads
<1>2. ds[s].list[k].inode = i /\ Leads(c, d, p, i)
  BY DEF Moves, Leads
<1>3. ASSUME NEW S \in SUBSET DOMAIN c, Root \in S, ClosedIn(c, S)
      PROVE  OnPath(ds) \subseteq S
  <2>1. d \in S
    BY <1>3 DEF OnPath
  <2>2. ASSUME NEW x, NEW j, NEW y, x \in S, Leads(ds, x, j, y), y \in DOMAIN ds
        PROVE  y \in S
    <3>1. CASE x = s /\ j = k
      <4>1. y = i
        BY <1>2, <2>2, <3>1 DEF Leads
      <4> QED
        BY <1>2, <1>3, <2>1, <2>2, <4>1 DEF ClosedIn
    <3>2. CASE ~(x = s /\ j = k)
      BY <1>1, <1>3, <2>2, <3>2 DEF ClosedIn
    <3> QED
      BY <3>1, <3>2
  <2>3. ClosedIn(ds, S)
    BY <2>2 DEF ClosedIn
  <2> QED
    BY <1>3, <2>3 DEF OnPath
<1> QED
  BY <1>3 DEF OnPath

\* A step that puts a directory out of reach moves a name to a directory out of
\* reach.
LEMMA StepCutsOff ==
  ASSUME IInv, [Next]_vars
  PROVE  CutOff' \subseteq CutOff
         \/ \E e \in Table \ Table', f \in Table' \ Table :
              e.inode = f.inode /\ f.dir \in CutOff'
<1>1. /\ Tables(dirs) /\ LastOfName(dirs) /\ OneName(nodes, dirs)
      /\ Root \in DOMAIN dirs
  BY DEF IInv, Sound, Typed, Rooted
<1>2. IInv'
  BY StepHolds
<1>3. OneName(nodes', dirs')
  BY <1>2 DEF IInv, Sound
<1>4. Reachable = OnPath(dirs) /\ Reachable' = OnPath(dirs')
  BY <1>2, ReachableIs, NextReachable
<1>5. /\ CutOff = DOMAIN dirs \ OnPath(dirs)
      /\ CutOff' = DOMAIN dirs' \ OnPath(dirs')
  BY <1>4 DEF CutOff
<1>6. CASE Stays
  BY <1>5, <1>6, StaysOnPath DEF Stays
<1>7. CASE Comes
  <2>1. PICK d \in Reachable, n \in Names : \E p, i :
          /\ Gains(dirs, dirs', d, p, n, i)
          /\ \/ DOMAIN dirs' = DOMAIN dirs
             \/ i \notin DOMAIN dirs /\ DOMAIN dirs' = DOMAIN dirs \cup {i}
    BY <1>7 DEF Comes
  <2>2. d \in OnPath(dirs)
    BY <1>4
  <2>3. DOMAIN dirs' \ OnPath(dirs') \subseteq DOMAIN dirs \ OnPath(dirs)
    BY <1>1, <2>1, <2>2, ComesOnPath
  <2> QED
    BY <1>5, <2>3
<1>8. CASE Goes
  <2>1. DOMAIN dirs' \ OnPath(dirs') \subseteq DOMAIN dirs \ OnPath(dirs)
    BY <1>1, <1>3, <1>8, GoesOnPath DEF Goes
  <2> QED
    BY <1>5, <2>1
<1>9. CASE Travels
  <2>1. PICK d \in Reachable, n \in Names : \E s, k, p, i :
          Moves(dirs, dirs', s, k, d, p, n, i) /\ DOMAIN dirs' = DOMAIN dirs
    BY <1>9 DEF Travels
  <2>2. PICK s, k, p, i :
          Moves(dirs, dirs', s, k, d, p, n, i) /\ DOMAIN dirs' = DOMAIN dirs
    BY <2>1
  <2>3. CASE d \in OnPath(dirs')
    BY <1>5, <2>2, <2>3, TravelsOnPath
  <2>4. CASE d \notin OnPath(dirs')
    <3> DEFINE e == RecordAt(dirs, s, k)
               f == RecordAt(dirs', d, p)
    <3>1. /\ e \in TableOf(dirs)
          /\ TableOf(dirs') = (TableOf(dirs) \ {e}) \cup {f}
          /\ e.inode = i /\ f.inode = i /\ f.dir = d /\ f.name = n
          /\ FreeIn(dirs, d, n)
      BY <1>1, <2>2, MovesTable
    <3>2. d \in DOMAIN dirs'
      BY <2>2, ReachableIn
    <3> HIDE DEF e, f
    <3>3. f \notin TableOf(dirs)
      BY <3>1 DEF FreeIn
    <3>4. e \in Table \ Table' /\ f \in Table' \ Table
      BY <3>1, <3>3, TableIs, NextTable
    <3>5. e.inode = f.inode /\ f.dir \in CutOff'
      BY <1>5, <2>4, <3>1, <3>2
    <3> QED
      BY <3>4, <3>5
  <2> QED
    BY <2>3, <2>4
<1> QED
  BY <1>6, <1>7, <1>8, <1>9, StepKinds

\* Only a rename that moves a directory below itself puts one out of the reach
\* of every path: no failed call does, and no recursive remove() that stops
\* half-way.
THEOREM OnlyMovesCutOff == Spec => OnlyRenameCutsOff
<1>1. IInv /\ [Next]_vars =>
        [CutOff' \subseteq CutOff
         \/ \E e \in Table \ Table', f \in Table' \ Table :
              e.inode = f.inode /\ f.dir \in CutOff']_vars
  BY StepCutsOff
<1> QED
  BY <1>1, Inductive, PTL DEF Spec, OnlyRenameCutsOff

-----------------------------------------------------------------------------
(* What the checker looks at: the entries in use, and each "..". *)

LEMMA PositionMember ==
  ASSUME Tables(dirs), NEW p
  PROVE  p \in Positions(DOMAIN dirs) <=>
           \E d, k : d \in DOMAIN dirs /\ p = <<d, k>> /\ (k = 0 \/ In(dirs, d, k))
<1>1. \A d \in DOMAIN dirs : \A k : k \in InTable(d) <=> In(dirs, d, k)
  BY UsedMember DEF InTable
<1> QED
  BY <1>1 DEF Positions

LEMMA PositionFacts ==
  ASSUME Tables(dirs), NEW d, NEW k, In(dirs, d, k)
  PROVE  k # 0 /\ At(<<d, k>>) = dirs[d].list[k]
<1>1. k \in 1 .. Len(dirs[d].list) /\ Len(dirs[d].list) \in Nat
  BY TableFacts DEF In
<1> QED
  BY <1>1 DEF At

LEMMA ParentFacts ==
  ASSUME NEW d
  PROVE  At(<<d, 0>>).inode = dirs[d].up /\ At(<<d, 0>>).type = "directory"
BY DEF At

LEMMA NoDirectoryMissing ==
  ASSUME Sound(nodes, dirs)
  PROVE  NoDirectory = {} /\ Scanned = Positions(DOMAIN dirs)
<1>1. Rooted(nodes, dirs)
  BY DEF Sound
<1>2. NoDirectory = {}
  BY <1>1 DEF Rooted, NoDirectory, IsDirectory
<1> QED
  BY <1>2 DEF Scanned

LEMMA NoError ==
  ASSUME Sound(nodes, dirs)
  PROVE  MissingInode = {} /\ WrongType = {} /\ SameName = {} /\ Errors = {}
<1>1. /\ Tables(dirs) /\ LastOfName(dirs) /\ Rooted(nodes, dirs) /\ EntriesFit(nodes, dirs)
  BY DEF Sound, Typed
<1>2. NoDirectory = {} /\ Scanned = Positions(DOMAIN dirs)
  BY NoDirectoryMissing
<1>3. ASSUME NEW p \in Scanned
      PROVE  At(p).inode \in DOMAIN nodes /\ nodes[At(p).inode].type = At(p).type
  <2>1. PICK d, k : d \in DOMAIN dirs /\ p = <<d, k>> /\ (k = 0 \/ In(dirs, d, k))
    BY <1>1, <1>2, PositionMember
  <2>2. CASE k = 0
    <3>1. dirs[d].up \in DOMAIN dirs
      BY <2>1, UpIn
    <3> QED
      BY <1>1, <2>1, <2>2, <3>1, ParentFacts DEF Rooted
  <2>3. CASE In(dirs, d, k)
    <3>1. At(p) = dirs[d].list[k]
      BY <1>1, <2>1, <2>3, PositionFacts
    <3> QED
      BY <1>1, <2>3, <3>1 DEF EntriesFit
  <2> QED
    BY <2>1, <2>2, <2>3
<1>4. ASSUME NEW p \in Scanned, NEW j \in InTable(p[1]),
             j < p[2], dirs[p[1]].list[j].name = At(p).name
      PROVE  FALSE
  <2>1. PICK d, k : d \in DOMAIN dirs /\ p = <<d, k>> /\ (k = 0 \/ In(dirs, d, k))
    BY <1>1, <1>2, PositionMember
  <2>2. p[1] = d /\ p[2] = k
    BY <2>1
  <2>3. In(dirs, d, j) /\ j \in Nat
    BY <1>1, <1>4, <2>1, <2>2, UsedMember, InType DEF InTable
  <2>4. k # 0
    BY <1>4, <2>2, <2>3
  <2>5. In(dirs, d, k) /\ At(p) = dirs[d].list[k] /\ k \in Nat
    BY <1>1, <2>1, <2>4, PositionFacts, InType
  <2>6. j = k
    BY <1>1, <1>4, <2>2, <2>3, <2>5, SamePlace
  <2> QED
    BY <1>4, <2>2, <2>5, <2>6
<1>5. MissingInode = {} /\ WrongType = {}
  BY <1>3 DEF MissingInode, WrongType
<1>6. SameName = {}
  BY <1>4 DEF SameName
<1> QED
  BY <1>2, <1>5, <1>6 DEF Errors

\* Every inode but the root has a name.
LEMMA Named ==
  ASSUME Sound(nodes, dirs), NEW i \in DOMAIN nodes \ {Root}
  PROVE  \E d, k : Leads(dirs, d, k, i)
<1>1. /\ Rooted(nodes, dirs) /\ OneName(nodes, dirs) /\ FileLinks(nodes, dirs)
      /\ nodes[i].type \in Types
  BY DEF Sound, Typed, Node
<1>2. CASE nodes[i].type = "directory"
  <2>1. PICK k : OnlyAt(dirs, i, k)
    BY <1>1, <1>2 DEF Rooted, OneName
  <2> QED
    BY <2>1 DEF OnlyAt
<1>3. CASE nodes[i].type = "file"
  <2>1. /\ IsFiniteSet(LinksIn(dirs, i)) /\ nodes[i].links = Cardinality(LinksIn(dirs, i))
        /\ nodes[i].links \in 1 .. MaxLinks
    BY <1>1, <1>3 DEF FileLinks
  <2>2. LinksIn(dirs, i) # {}
    BY <2>1, FS_EmptySet, NamespaceAssumption
  <2> QED
    BY <2>2 DEF LinksIn
<1> QED
  BY <1>1, <1>2, <1>3 DEF Types

LEMMA NoOrphan ==
  ASSUME Sound(nodes, dirs)
  PROVE  Orphans = {}
<1>1. Tables(dirs)
  BY DEF Sound, Typed
<1>2. ASSUME NEW i \in DOMAIN nodes \ {Root}
      PROVE  \E p \in Scanned : p[2] # 0 /\ At(p).inode = i
  <2>1. PICK d, k : Leads(dirs, d, k, i)
    BY Named
  <2>2. In(dirs, d, k) /\ dirs[d].list[k].inode = i /\ d \in DOMAIN dirs
    BY <2>1 DEF Leads, In
  <2>3. k # 0 /\ At(<<d, k>>) = dirs[d].list[k]
    BY <1>1, <2>2, PositionFacts
  <2>4. <<d, k>> \in Scanned
    BY <1>1, <2>2, PositionMember, NoDirectoryMissing
  <2> DEFINE p == <<d, k>>
  <2>5. p \in Scanned /\ p[2] # 0 /\ At(p).inode = i
    BY <2>2, <2>3, <2>4
  <2> QED
    BY <2>5
<1> QED
  BY <1>2 DEF Orphans

-----------------------------------------------------------------------------
(* Link counts. *)

\* The ".." entries that lead to i, and all positions that do.
Parents(i) == {d \in DOMAIN dirs : dirs[d].up = i}
Naming(i) == {p \in Positions(DOMAIN dirs) : At(p).inode = i}

LEMMA NamingMember ==
  ASSUME Tables(dirs), NEW i, NEW p
  PROVE  p \in Naming(i) <=> p \in LinksIn(dirs, i) \/ \E d \in Parents(i) : p = <<d, 0>>
<1>1. p \in Positions(DOMAIN dirs) <=>
        \E d, k : d \in DOMAIN dirs /\ p = <<d, k>> /\ (k = 0 \/ In(dirs, d, k))
  BY PositionMember
<1>2. \A d, k : In(dirs, d, k) =>
        k # 0 /\ At(<<d, k>>) = dirs[d].list[k] /\ d \in Ids /\ k \in Nat /\ d \in DOMAIN dirs
  BY PositionFacts, InType
<1>3. \A d : At(<<d, 0>>).inode = dirs[d].up
  BY ParentFacts
<1>4. p \in LinksIn(dirs, i) <=> \E d, k : Leads(dirs, d, k, i) /\ p = <<d, k>>
  BY <1>2 DEF LinksIn, Leads
<1> QED
  BY <1>1, <1>2, <1>3, <1>4 DEF Naming, Parents, Leads

LEMMA ObservedIs ==
  ASSUME Sound(nodes, dirs), NEW i \in DOMAIN nodes
  PROVE  Observed(i) = Cardinality(Naming(i)) + (IF i \in DOMAIN dirs THEN 1 ELSE 0)
<1>1. Observed(i) = Cardinality(Naming(i)) + Cardinality({d \in DOMAIN dirs : d = i})
  BY NoDirectoryMissing DEF Observed, NamesOf, Naming
<1>2. CASE i \in DOMAIN dirs
  <2>1. {d \in DOMAIN dirs : d = i} = {i}
    BY <1>2
  <2> QED
    BY <1>1, <1>2, <2>1, FS_Singleton
<1>3. CASE i \notin DOMAIN dirs
  <2>1. {d \in DOMAIN dirs : d = i} = {}
    BY <1>3
  <2> QED
    BY <1>1, <1>3, <2>1, FS_EmptySet
<1> QED
  BY <1>2, <1>3

LEMMA FileNames ==
  ASSUME Sound(nodes, dirs), NEW i \in DOMAIN nodes, i \notin DOMAIN dirs
  PROVE  Observed(i) = nodes[i].links
<1>1. /\ Rooted(nodes, dirs) /\ FileLinks(nodes, dirs) /\ nodes[i] \in Node /\ Tables(dirs)
  BY DEF Sound, Typed
<1>2. nodes[i].type = "file"
  BY <1>1 DEF Rooted, Node, Types
<1>3. /\ nodes[i].links = Cardinality(LinksIn(dirs, i)) /\ nodes[i].links \in Nat
  BY <1>1, <1>2 DEF FileLinks, Node
<1>4. Parents(i) = {}
  BY UpIn DEF Parents
<1>5. Naming(i) = LinksIn(dirs, i)
  BY <1>1, <1>4, NamingMember
<1>6. Observed(i) = Cardinality(Naming(i)) + 0
  BY ObservedIs
<1> QED
  BY <1>3, <1>5, <1>6

\* A directory is named by its entry, its "." and the ".." of its
\* subdirectories.
LEMMA DirectoryNames ==
  ASSUME Sound(nodes, dirs), NEW i \in DOMAIN dirs \ {Root}
  PROVE  /\ Observed(i) \in Nat /\ Observed(i) >= 2
         /\ Observed(i) = 2 <=> Parents(i) = {}
<1>1. /\ Rooted(nodes, dirs) /\ OneName(nodes, dirs) /\ Tables(dirs) /\ i \in DOMAIN nodes
  BY DEF Sound, Typed, Rooted
<1>2. PICK k : OnlyAt(dirs, i, k)
  BY <1>1 DEF OneName
<1> DEFINE e == <<dirs[i].up, k>>
           P == {<<d, 0>> : d \in Parents(i)}
<1>3. Leads(dirs, dirs[i].up, k, i)
  BY <1>2 DEF OnlyAt
<1>4. k # 0 /\ dirs[i].up \in Ids /\ k \in Nat
  BY <1>1, <1>3, PositionFacts, InType DEF Leads
<1>5. LinksIn(dirs, i) = {e}
  BY <1>2, <1>4 DEF LinksIn, OnlyAt
<1>6. Naming(i) = P \cup {e}
  BY <1>1, <1>5, NamingMember
<1>7. e \notin P
  BY <1>4
<1>8. IsFiniteSet(P)
  <2>1. Parents(i) \subseteq Ids /\ IsFiniteSet(Ids)
    <3>1. IsFiniteSet(1 .. MaxInodes)
      BY FS_Interval, NamespaceAssumption
    <3> QED
      BY <1>1, <3>1 DEF Parents, Tables, Ids
  <2>2. IsFiniteSet(Ids \X {0})
    BY <2>1, FS_Singleton, FS_Product
  <2>3. P \subseteq Ids \X {0}
    BY <2>1
  <2> QED
    BY <2>2, <2>3, FS_Subset
<1>9. P = {} <=> Parents(i) = {}
  OBVIOUS
<1> HIDE DEF P, e
<1>10. /\ Cardinality(P \cup {e}) = Cardinality(P) + 1
       /\ Cardinality(P) \in Nat /\ (Cardinality(P) = 0 <=> P = {})
  BY <1>7, <1>8, FS_AddElement, FS_CardinalityType, FS_EmptySet
<1>11. Observed(i) = Cardinality(P \cup {e}) + 1
  BY <1>1, <1>6, ObservedIs
<1> QED
  BY <1>9, <1>10, <1>11

\* A directory's ".." leads to i exactly when i has an entry for it.
LEMMA ParentsAre ==
  ASSUME Sound(nodes, dirs), NEW i \in DOMAIN dirs \ {Root}
  PROVE  Parents(i) # {} <=> \E k \in Used(i) : IsDirectory(dirs[i].list[k].inode)
<1>1. /\ Rooted(nodes, dirs) /\ OneName(nodes, dirs) /\ EntriesFit(nodes, dirs)
  BY DEF Sound
<1>2. ASSUME NEW d \in Parents(i)
      PROVE  \E k \in Used(i) : IsDirectory(dirs[i].list[k].inode)
  <2>1. d \in DOMAIN dirs /\ dirs[d].up = i /\ d # Root
    BY <1>1 DEF Parents, Rooted
  <2>2. PICK k : OnlyAt(dirs, d, k)
    BY <1>1, <2>1 DEF OneName
  <2>3. In(dirs, i, k) /\ dirs[i].list[k].inode = d
    BY <2>1, <2>2 DEF OnlyAt, Leads
  <2> QED
    BY <1>1, <2>1, <2>3, UsedMember DEF Rooted, IsDirectory
<1>3. ASSUME NEW k \in Used(i), IsDirectory(dirs[i].list[k].inode)
      PROVE  Parents(i) # {}
  <2> DEFINE d == dirs[i].list[k].inode
  <2>1. Leads(dirs, i, k, d)
    BY UsedMember DEF Leads
  <2>2. d \in DOMAIN dirs
    BY <1>1, <1>3, <2>1 DEF EntriesFit, Leads, Rooted, IsDirectory
  <2>3. d # Root
    BY <1>1, <2>1 DEF OneName
  <2> HIDE DEF d
  <2>4. PICK j : OnlyAt(dirs, d, j)
    BY <1>1, <2>2, <2>3 DEF OneName
  <2>5. dirs[d].up = i
    BY <2>1, <2>4 DEF OnlyAt
  <2> QED
    BY <2>2, <2>5 DEF Parents
<1> QED
  BY <1>2, <1>3

LEMMA WarningsFit ==
  ASSUME Sound(nodes, dirs)
  PROVE  WarnsOfSubdirectories
<1>1. /\ Rooted(nodes, dirs) /\ OneName(nodes, dirs)
      /\ \A i \in DOMAIN nodes : IsDirectory(i) <=> i \in DOMAIN dirs
      /\ DOMAIN dirs \subseteq DOMAIN nodes
  BY DEF Sound, Rooted, IsDirectory
<1>2. ASSUME NEW i \in DOMAIN nodes \ {Root}
      PROVE  i \in WrongLinkCount <=>
               i \in DOMAIN dirs /\ \E k \in Used(i) : IsDirectory(dirs[i].list[k].inode)
  <2>1. i \in WrongLinkCount <=>
          nodes[i].links # IF IsDirectory(i) /\ Observed(i) < 2 THEN 2 ELSE Observed(i)
    BY DEF WrongLinkCount
  <2>2. CASE i \in DOMAIN dirs
    <3>1. nodes[i].links = 2
      BY <1>1, <2>2 DEF OneName
    <3>2. /\ Observed(i) \in Nat /\ Observed(i) >= 2
          /\ Observed(i) = 2 <=> Parents(i) = {}
      BY <2>2, DirectoryNames
    <3>3. Parents(i) # {} <=> \E k \in Used(i) : IsDirectory(dirs[i].list[k].inode)
      BY <2>2, ParentsAre
    <3>4. i \in WrongLinkCount <=> Observed(i) # 2
      BY <2>1, <3>1, <3>2
    <3> QED
      BY <2>2, <3>2, <3>3, <3>4
  <2>3. CASE i \notin DOMAIN dirs
    BY <1>1, <2>1, <2>3, FileNames
  <2> QED
    BY <2>2, <2>3
<1>3. WrongLinkCount \subseteq DOMAIN nodes \ {Root}
  BY DEF WrongLinkCount
<1> QED
  BY <1>1, <1>2, <1>3 DEF WarnsOfSubdirectories

-----------------------------------------------------------------------------
(* The statistics: a file's names are numbered, from 0. *)

FileNodes == {i \in DOMAIN nodes : nodes[i].type = "file"}
FileEntries == {e \in Table : ~IsDirectory(e.inode)}
More == [i \in DOMAIN nodes |-> Additional(i)]
Numbered == Pairs(More) \cup (FileNodes \X {0})

\* The position of name number m of file i.
Numbering(i) == CHOOSE g : g \in Bijection(1 .. nodes[i].links, LinksIn(dirs, i))
PlaceOf(i, m) == Numbering(i)[m + 1]

LEMMA FileNodeFacts ==
  ASSUME Sound(nodes, dirs), NEW i \in FileNodes
  PROVE  /\ i \in DOMAIN nodes /\ i \notin DOMAIN dirs /\ ~IsDirectory(i)
         /\ nodes[i].links \in Nat /\ nodes[i].links >= 1
         /\ Additional(i) = nodes[i].links - 1
         /\ Numbering(i) \in Bijection(1 .. nodes[i].links, LinksIn(dirs, i))
<1>1. /\ i \in DOMAIN nodes /\ nodes[i].type = "file" /\ nodes[i].links \in Nat
      /\ IsFiniteSet(LinksIn(dirs, i)) /\ nodes[i].links = Cardinality(LinksIn(dirs, i))
      /\ nodes[i].links \in 1 .. MaxLinks
  BY DEF FileNodes, Sound, Typed, FileLinks, Node
<1>2. i \notin DOMAIN dirs /\ ~IsDirectory(i)
  BY <1>1 DEF Sound, Rooted, IsDirectory
<1>3. nodes[i].links >= 1
  BY <1>1, NamespaceAssumption
<1>4. Additional(i) = nodes[i].links - 1
  BY <1>1, <1>2, <1>3 DEF Additional
<1>5. ExistsBijection(1 .. nodes[i].links, LinksIn(dirs, i))
  BY <1>1, FS_CardinalityType
<1>6. \E g : g \in Bijection(1 .. nodes[i].links, LinksIn(dirs, i))
  BY <1>5 DEF ExistsBijection
<1>7. Numbering(i) \in Bijection(1 .. nodes[i].links, LinksIn(dirs, i))
  BY <1>6 DEF Numbering
<1> QED
  BY <1>1, <1>2, <1>3, <1>4, <1>7

LEMMA NumberedMember ==
  ASSUME Sound(nodes, dirs), NEW x
  PROVE  x \in Numbered <=> \E i \in FileNodes : \E m \in 0 .. nodes[i].links - 1 : x = <<i, m>>
<1>1. x \in Pairs(More) <=> \E i \in DOMAIN nodes : \E m \in 1 .. Additional(i) : x = <<i, m>>
  BY PairsMember DEF More
<1>2. \A i \in DOMAIN nodes : i \notin FileNodes => Additional(i) = 0
  <2>1. \A i \in DOMAIN nodes : i \notin FileNodes => nodes[i].type = "directory"
    BY DEF Sound, Typed, Node, Types, FileNodes
  <2> QED
    BY <2>1 DEF Additional, IsDirectory
<1>3. \A i \in FileNodes : /\ i \in DOMAIN nodes /\ nodes[i].links \in Nat
                           /\ nodes[i].links >= 1
                           /\ Additional(i) = nodes[i].links - 1
  BY FileNodeFacts
<1>4. x \in Pairs(More) <=>
        \E i \in FileNodes : \E m \in 1 .. nodes[i].links - 1 : x = <<i, m>>
  BY <1>1, <1>2, <1>3
<1>5. x \in FileNodes \X {0} <=> \E i \in FileNodes : x = <<i, 0>>
  OBVIOUS
<1>6. \A i \in FileNodes : \A m : m \in 0 .. nodes[i].links - 1
                                <=> m = 0 \/ m \in 1 .. nodes[i].links - 1
  BY <1>3
<1> QED
  BY <1>4, <1>5, <1>6 DEF Numbered

LEMMA NumberedSize ==
  ASSUME Sound(nodes, dirs)
  PROVE  /\ IsFiniteSet(Numbered)
         /\ Cardinality(Numbered) = CountOf("file") + HardLinks
<1>1. IsFiniteSet(DOMAIN nodes)
  <2>1. IsFiniteSet(1 .. MaxInodes)
    BY FS_Interval, NamespaceAssumption
  <2> QED
    BY <2>1, FS_Subset DEF Sound, Typed, Ids
<1>2. \A i \in DOMAIN nodes : Additional(i) \in Nat
  <2>1. \A i \in DOMAIN nodes : nodes[i].links \in Nat
    BY DEF Sound, Typed, Node
  <2> QED
    BY <2>1 DEF Additional
<1>3. IsFiniteSet(Pairs(More)) /\ HardLinks = Cardinality(Pairs(More)) /\ HardLinks \in Nat
  <2>1. DOMAIN More = DOMAIN nodes /\ \A i \in DOMAIN More : More[i] \in Nat
    BY <1>2 DEF More
  <2>2. HardLinks = SumOf(More)
    BY DEF HardLinks, More
  <2> QED
    BY <1>1, <2>1, <2>2, SumType
<1>4. IsFiniteSet(FileNodes) /\ CountOf("file") = Cardinality(FileNodes)
  BY <1>1, FS_Subset DEF FileNodes, CountOf
<1>5. /\ IsFiniteSet(FileNodes \X {0})
      /\ Cardinality(FileNodes \X {0}) = Cardinality(FileNodes) * 1
  <2>1. IsFiniteSet({0}) /\ Cardinality({0}) = 1
    BY FS_Singleton
  <2> QED
    BY <1>4, <2>1, FS_Product
<1>6. Pairs(More) \cap (FileNodes \X {0}) = {}
  BY PairsMember DEF More
<1>7. Cardinality(FileNodes) \in Nat
  BY <1>4, FS_CardinalityType
<1>8. /\ IsFiniteSet(Pairs(More) \cup (FileNodes \X {0}))
      /\ Cardinality(Pairs(More) \cup (FileNodes \X {0}))
           = HardLinks + Cardinality(FileNodes) * 1 - 0
  BY <1>3, <1>5, <1>6, FS_Union, FS_EmptySet
<1> QED
  BY <1>3, <1>4, <1>7, <1>8 DEF Numbered

LEMMA PlaceOfFacts ==
  ASSUME Sound(nodes, dirs), NEW i \in FileNodes
  PROVE  /\ \A m \in 0 .. nodes[i].links - 1 :
              Leads(dirs, PlaceOf(i, m)[1], PlaceOf(i, m)[2], i)
              /\ PlaceOf(i, m) = <<PlaceOf(i, m)[1], PlaceOf(i, m)[2]>>
         /\ \A m, n \in 0 .. nodes[i].links - 1 : PlaceOf(i, m) = PlaceOf(i, n) => m = n
         /\ \A d, k : Leads(dirs, d, k, i) =>
              \E m \in 0 .. nodes[i].links - 1 : PlaceOf(i, m) = <<d, k>>
<1> DEFINE g == Numbering(i)
           links == nodes[i].links
<1>1. links \in Nat /\ g \in Bijection(1 .. links, LinksIn(dirs, i)) /\ Tables(dirs)
  BY FileNodeFacts DEF Sound, Typed
<1>2. \A m : PlaceOf(i, m) = g[m + 1]
  BY DEF PlaceOf
<1> HIDE DEF g, links
<1>3. /\ g \in [1 .. links -> LinksIn(dirs, i)]
      /\ \A a, b \in 1 .. links : g[a] = g[b] => a = b
      /\ \A z \in LinksIn(dirs, i) : \E a \in 1 .. links : g[a] = z
  BY <1>1, Fun_BijectionProperties
<1>4. \A m \in 0 .. links - 1 : m + 1 \in 1 .. links /\ PlaceOf(i, m) \in LinksIn(dirs, i)
  BY <1>1, <1>2, <1>3
<1>5. \A z \in LinksIn(dirs, i) : Leads(dirs, z[1], z[2], i) /\ z = <<z[1], z[2]>>
  BY DEF LinksIn
<1>6. \A m, n \in 0 .. links - 1 : PlaceOf(i, m) = PlaceOf(i, n) => m = n
  <2> SUFFICES ASSUME NEW m \in 0 .. links - 1, NEW n \in 0 .. links - 1,
                      PlaceOf(i, m) = PlaceOf(i, n)
               PROVE  m = n
    OBVIOUS
  <2>1. m + 1 = n + 1
    BY <1>2, <1>3, <1>4
  <2> QED
    BY <1>1, <2>1
<1>7. ASSUME NEW d, NEW k, Leads(dirs, d, k, i)
      PROVE  \E m \in 0 .. links - 1 : PlaceOf(i, m) = <<d, k>>
  <2>1. d \in Ids /\ k \in Nat
    BY <1>1, <1>7, InType DEF Leads
  <2>2. <<d, k>> \in LinksIn(dirs, i)
    BY <1>7, <2>1 DEF LinksIn
  <2>3. PICK a \in 1 .. links : g[a] = <<d, k>>
    BY <1>3, <2>2
  <2>4. a - 1 \in 0 .. links - 1 /\ (a - 1) + 1 = a
    BY <1>1
  <2> QED
    BY <1>2, <2>3, <2>4
<1> QED
  BY <1>4, <1>5, <1>6, <1>7 DEF links

\* The names of files are as many as their numbers.
LEMMA FileEntriesCounted ==
  ASSUME Sound(nodes, dirs)
  PROVE  Cardinality(FileEntries) = Cardinality(Numbered)
<1> DEFINE EntryAt(i, m) == RecordAt(dirs, PlaceOf(i, m)[1], PlaceOf(i, m)[2])
           h == [x \in Numbered |-> EntryAt(x[1], x[2])]
<1>1. /\ Tables(dirs) /\ LastOfName(dirs) /\ Rooted(nodes, dirs) /\ EntriesFit(nodes, dirs)
      /\ nodes \in [DOMAIN nodes -> Node]
  BY DEF Sound, Typed
<1>2. \A i \in FileNodes : \A m \in 0 .. nodes[i].links - 1 :
        /\ Leads(dirs, PlaceOf(i, m)[1], PlaceOf(i, m)[2], i)
        /\ PlaceOf(i, m) = <<PlaceOf(i, m)[1], PlaceOf(i, m)[2]>>
        /\ <<i, m>> \in Numbered /\ h[<<i, m>>] = EntryAt(i, m)
        /\ EntryAt(i, m).inode = i /\ EntryAt(i, m).dir = PlaceOf(i, m)[1]
        /\ EntryAt(i, m).name = dirs[PlaceOf(i, m)[1]].list[PlaceOf(i, m)[2]].name
        /\ EntryAt(i, m) \in FileEntries
  <2> SUFFICES ASSUME NEW i \in FileNodes, NEW m \in 0 .. nodes[i].links - 1
               PROVE  /\ Leads(dirs, PlaceOf(i, m)[1], PlaceOf(i, m)[2], i)
                      /\ PlaceOf(i, m) = <<PlaceOf(i, m)[1], PlaceOf(i, m)[2]>>
                      /\ <<i, m>> \in Numbered /\ h[<<i, m>>] = EntryAt(i, m)
                      /\ EntryAt(i, m).inode = i /\ EntryAt(i, m).dir = PlaceOf(i, m)[1]
                      /\ EntryAt(i, m).name
                           = dirs[PlaceOf(i, m)[1]].list[PlaceOf(i, m)[2]].name
                      /\ EntryAt(i, m) \in FileEntries
    OBVIOUS
  <2>1. /\ Leads(dirs, PlaceOf(i, m)[1], PlaceOf(i, m)[2], i)
        /\ PlaceOf(i, m) = <<PlaceOf(i, m)[1], PlaceOf(i, m)[2]>>
    BY PlaceOfFacts
  <2>2. <<i, m>> \in Numbered
    BY NumberedMember
  <2>3. h[<<i, m>>] = EntryAt(i, m)
    BY <2>2
  <2>4. /\ EntryAt(i, m).inode = i /\ EntryAt(i, m).dir = PlaceOf(i, m)[1]
        /\ EntryAt(i, m).name = dirs[PlaceOf(i, m)[1]].list[PlaceOf(i, m)[2]].name
    BY <2>1 DEF RecordAt, Leads
  <2>5. EntryAt(i, m) \in Table
    BY <2>1, TableIs, TableMember DEF Leads
  <2>6. ~IsDirectory(i)
    BY FileNodeFacts
  <2> QED
    BY <2>1, <2>2, <2>3, <2>4, <2>5, <2>6 DEF FileEntries
<1>3. \A x \in Numbered : \E i \in FileNodes : \E m \in 0 .. nodes[i].links - 1 : x = <<i, m>>
  BY NumberedMember
<1> HIDE DEF EntryAt
<1>4. h \in [Numbered -> FileEntries]
  <2>1. ASSUME NEW x \in Numbered PROVE EntryAt(x[1], x[2]) \in FileEntries
    <3>1. PICK i \in FileNodes : \E m \in 0 .. nodes[i].links - 1 : x = <<i, m>>
      BY <1>3
    <3>2. PICK m \in 0 .. nodes[i].links - 1 : x = <<i, m>>
      BY <3>1
    <3>3. EntryAt(i, m) \in FileEntries
      BY <1>2
    <3>4. x[1] = i /\ x[2] = m
      BY <3>2
    <3> QED
      BY <3>3, <3>4
  <2> QED
    BY <2>1
<1> HIDE DEF h
<1>5. ASSUME NEW x \in Numbered, NEW y \in Numbered, h[x] = h[y]
      PROVE  x = y
  <2>1. PICK i \in FileNodes : \E m \in 0 .. nodes[i].links - 1 : x = <<i, m>>
    BY <1>3
  <2>2. PICK m \in 0 .. nodes[i].links - 1 : x = <<i, m>>
    BY <2>1
  <2>3. PICK j \in FileNodes : \E n \in 0 .. nodes[j].links - 1 : y = <<j, n>>
    BY <1>3
  <2>4. PICK n \in 0 .. nodes[j].links - 1 : y = <<j, n>>
    BY <2>3
  <2>5. EntryAt(i, m) = EntryAt(j, n)
    BY <1>2, <1>5, <2>2, <2>4
  <2>6. /\ i = j /\ PlaceOf(i, m)[1] = PlaceOf(j, n)[1]
        /\ dirs[PlaceOf(i, m)[1]].list[PlaceOf(i, m)[2]].name
             = dirs[PlaceOf(j, n)[1]].list[PlaceOf(j, n)[2]].name
    <3>1. /\ EntryAt(i, m).inode = i /\ EntryAt(i, m).dir = PlaceOf(i, m)[1]
          /\ EntryAt(i, m).name = dirs[PlaceOf(i, m)[1]].list[PlaceOf(i, m)[2]].name
      BY <1>2
    <3>2. /\ EntryAt(j, n).inode = j /\ EntryAt(j, n).dir = PlaceOf(j, n)[1]
          /\ EntryAt(j, n).name = dirs[PlaceOf(j, n)[1]].list[PlaceOf(j, n)[2]].name
      BY <1>2
    <3> QED
      BY <2>5, <3>1, <3>2
  <2>7. /\ In(dirs, PlaceOf(i, m)[1], PlaceOf(i, m)[2])
        /\ In(dirs, PlaceOf(j, n)[1], PlaceOf(j, n)[2])
    BY <1>2 DEF Leads
  <2>8. PlaceOf(i, m)[2] = PlaceOf(j, n)[2]
    BY <1>1, <2>6, <2>7, SamePlace
  <2>9. PlaceOf(i, m) = PlaceOf(i, n)
    <3>1. PlaceOf(i, m) = <<PlaceOf(i, m)[1], PlaceOf(i, m)[2]>>
      BY <1>2
    <3>2. PlaceOf(j, n) = <<PlaceOf(j, n)[1], PlaceOf(j, n)[2]>>
      BY <1>2
    <3> QED
      BY <2>6, <2>8, <3>1, <3>2
  <2>10. m = n
    BY <2>6, <2>9, PlaceOfFacts
  <2> QED
    BY <2>2, <2>4, <2>6, <2>10
<1>6. ASSUME NEW e \in FileEntries
      PROVE  \E x \in Numbered : h[x] = e
  <2>1. e \in TableOf(dirs) /\ ~IsDirectory(e.inode)
    BY TableIs DEF FileEntries
  <2>2. PICK d, k : In(dirs, d, k) /\ e = RecordAt(dirs, d, k)
    BY <2>1, TableMember
  <2> DEFINE i == e.inode
  <2>3. Leads(dirs, d, k, i)
    BY <2>2, RecordFields DEF Leads
  <2>4. i \in DOMAIN nodes
    BY <1>1, <2>3 DEF Leads, EntriesFit
  <2>5. i \in FileNodes
    BY <1>1, <2>1, <2>4 DEF FileNodes, IsDirectory, Node, Types
  <2> HIDE DEF i
  <2>6. PICK m \in 0 .. nodes[i].links - 1 : PlaceOf(i, m) = <<d, k>>
    BY <2>3, <2>5, PlaceOfFacts
  <2>7. EntryAt(i, m) = e
    BY <2>2, <2>6 DEF EntryAt
  <2> QED
    BY <1>2, <2>5, <2>7
<1>7. h \in Bijection(Numbered, FileEntries)
  BY <1>4, <1>5, <1>6, Fun_IsBij
<1>8. ExistsBijection(Numbered, FileEntries)
  BY <1>7 DEF ExistsBijection
<1> QED
  BY <1>8, NumberedSize, FS_Bijection

LEMMA StatisticsFit ==
  ASSUME Sound(nodes, dirs)
  PROVE  StatisticsCountNames
<1>1. CountOf("file") + HardLinks = Cardinality({e \in Table : ~IsDirectory(e.inode)})
  BY NumberedSize, FileEntriesCounted DEF FileEntries
<1>2. CountOf("directory") = Cardinality(Reachable) + Cardinality(CutOff)
  <2>1. CountOf("directory") = Cardinality(DOMAIN dirs)
    BY DEF CountOf, Sound, Rooted
  <2>2. IsFiniteSet(DOMAIN dirs)
    <3>1. IsFiniteSet(1 .. MaxInodes)
      BY FS_Interval, NamespaceAssumption
    <3> QED
      BY <3>1, FS_Subset DEF Sound, Typed, Tables, Ids
  <2>3. Reachable \subseteq DOMAIN dirs
    BY ReachableIn
  <2> DEFINE D == DOMAIN dirs
             R == Reachable
  <2> HIDE DEF D, R
  <2>4. IsFiniteSet(D) /\ R \in SUBSET D
    BY <2>2, <2>3 DEF D, R
  <2>5. IsFiniteSet(R) /\ IsFiniteSet(D \ R)
    BY <2>4, FS_Subset, FS_Difference
  <2>6. D = R \cup (D \ R) /\ R \cap (D \ R) = {}
    BY <2>4
  <2>7. Cardinality(D) = Cardinality(R) + Cardinality(D \ R) - 0
    BY <2>5, <2>6, FS_Union, FS_EmptySet
  <2>8. Cardinality(R) \in Nat /\ Cardinality(D \ R) \in Nat
    BY <2>5, FS_CardinalityType
  <2>9. Cardinality(D) = Cardinality(R) + Cardinality(D \ R)
    BY <2>7, <2>8
  <2> QED
    BY <2>1, <2>9 DEF CutOff, D, R
<1> QED
  BY <1>1, <1>2 DEF StatisticsCountNames

\* Whatever calls succeeded or failed, the checker finds no error and no orphan
\* and warns of the directories that have subdirectories, and the statistics
\* count every name and every directory, those out of reach included.
THEOREM ReportsFit == Spec => []ReportsFitNames
<1>1. IInv => ReportsFitNames
  BY NoError, NoOrphan, WarningsFit, StatisticsFit
     DEF IInv, ReportsFitNames, NothingWrong
<1> QED
  BY <1>1, Inductive, PTL
=============================================================================
