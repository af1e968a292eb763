---------------------------- MODULE CodecsProofs ----------------------------
(***************************************************************************)
(* For every list of extents, in whatever order the sort leaves extents    *)
(* that start at the same block: normalize() keeps what the list means and *)
(* leaves one extent per run, and verify() accepts only such lists.        *)
(*                                                                         *)
(* For every inode and every directory: what encode() takes is decoded as  *)
(* it was, what decode() accepts is encoded as it was, and a record that   *)
(* was damaged in one place is refused.  A record begins as its encoding   *)
(* does and is read one attribute or entry after the other, so each part   *)
(* gets the two directions: it is found where it was put, and what is      *)
(* found there is encoded to what is there.                                *)
(***************************************************************************)
EXTENDS Codecs, ImageRecordsProofs, FiniteSetTheorems, FunctionTheorems,
        WellFoundedInduction

\* What normalize() makes of extents: they may be longer than those of an input.
Piece == [logical : Nat, physical : Nat, count : Nat, sparse : BOOLEAN]

-----------------------------------------------------------------------------
(* Sorting. *)

\* A function on 1 .. n has a greatest value, if it has any.
LEMMA Greatest ==
  ASSUME NEW n \in Nat \ {0}, NEW b \in Nat, NEW f \in [1 .. n -> 0 .. b]
  PROVE  \E k \in 1 .. n : \A i \in 1 .. n : f[i] <= f[k]
<1> DEFINE U == {u \in Nat : \A i \in 1 .. n : f[i] <= u}
<1>1. b \in U
  OBVIOUS
<1>2. PICK u \in U : \A y \in U : u <= y
  BY <1>1, LeastOf
<1>3. CASE u = 0
  <2>1. 1 \in 1 .. n /\ f[1] \in 0 .. b
    OBVIOUS
  <2>2. \A i \in 1 .. n : f[i] <= f[1]
    BY <1>2, <1>3, <2>1
  <2> QED
    BY <2>1, <2>2
<1>4. CASE u # 0
  <2>1. u - 1 \in Nat /\ u - 1 \notin U
    BY <1>2, <1>4
  <2>2. PICK k \in 1 .. n : ~(f[k] <= u - 1)
    BY <2>1
  <2>3. \A i \in 1 .. n : f[i] <= f[k]
    BY <1>2, <2>1, <2>2
  <2> QED
    BY <2>3
<1> QED
  BY <1>3, <1>4

Orders(f, n) ==
  {p \in Bijection(1 .. n, 1 .. n) : \A i, j \in 1 .. n : i < j => f[p[i]] <= f[p[j]]}

LEMMA OrderFacts ==
  ASSUME NEW n \in Nat, NEW p \in Bijection(1 .. n, 1 .. n)
  PROVE  /\ p \in [1 .. n -> 1 .. n]
         /\ \A i, j \in 1 .. n : p[i] = p[j] => i = j
         /\ \A w \in 1 .. n : \E v \in 1 .. n : p[v] = w
BY ZenonT(60), Fun_BijectionProperties

\* Every function on 1 .. n can be sorted.
LEMMA Sortable ==
  ASSUME NEW b \in Nat
  PROVE  \A n \in Nat : \A f \in [1 .. n -> 0 .. b] : Orders(f, n) # {}
<1> DEFINE Unsortable == {n \in Nat : \E f \in [1 .. n -> 0 .. b] : Orders(f, n) = {}}
<1> SUFFICES ASSUME Unsortable # {} PROVE FALSE
  OBVIOUS
<1>1. PICK n \in Unsortable : \A k \in Unsortable : n <= k
  BY LeastOf
<1>2. PICK f \in [1 .. n -> 0 .. b] : Orders(f, n) = {}
  OBVIOUS
<1>3. n # 0
  <2>1. SUFFICES ASSUME n = 0 PROVE FALSE
    OBVIOUS
  <2>2. 1 .. n = {}
    BY <2>1
  <2>3. [i \in {} |-> i] \in Bijection({}, {})
    BY Fun_IsBij
  <2>4. [i \in {} |-> i] \in Orders(f, n)
    BY <2>2, <2>3 DEF Orders
  <2> QED
    BY <1>2, <2>4
<1>4. n \in Nat \ {0} /\ n - 1 \in Nat /\ n - 1 \notin Unsortable
  <2>1. n \in Nat \ {0}
    BY <1>1, <1>3
  <2>2. ~(n <= n - 1)
    BY <2>1
  <2> HIDE DEF Unsortable
  <2> QED
    BY <1>1, <2>1, <2>2
<1>5. PICK k \in 1 .. n : \A i \in 1 .. n : f[i] <= f[k]
  BY <1>4, Greatest
<1> DEFINE swap(i) == IF i = k THEN n ELSE IF i = n THEN k ELSE i
           g == [i \in 1 .. n - 1 |-> f[swap(i)]]
<1>6. \A i \in 1 .. n : swap(i) \in 1 .. n /\ swap(swap(i)) = i
  BY <1>4
<1>7. g \in [1 .. n - 1 -> 0 .. b]
  <2>1. \A i \in 1 .. n - 1 : swap(i) \in 1 .. n
    BY <1>4, <1>6
  <2> QED
    BY <2>1
<1>8. PICK q \in Orders(g, n - 1) : TRUE
  BY <1>4, <1>7
<1>9. /\ q \in [1 .. n - 1 -> 1 .. n - 1]
      /\ \A w \in 1 .. n - 1 : \E v \in 1 .. n - 1 : q[v] = w
      /\ \A i, j \in 1 .. n - 1 : q[i] = q[j] => i = j
      /\ \A i, j \in 1 .. n - 1 : i < j => g[q[i]] <= g[q[j]]
  <2>1. /\ q \in Bijection(1 .. n - 1, 1 .. n - 1) /\ n - 1 \in Nat
        /\ \A i, j \in 1 .. n - 1 : i < j => g[q[i]] <= g[q[j]]
    BY <1>4 DEF Orders
  <2>2. /\ q \in [1 .. n - 1 -> 1 .. n - 1]
        /\ \A i, j \in 1 .. n - 1 : q[i] = q[j] => i = j
        /\ \A w \in 1 .. n - 1 : \E v \in 1 .. n - 1 : q[v] = w
    BY <2>1, OrderFacts
  <2> HIDE DEF g
  <2> QED
    BY <2>1, <2>2
<1> DEFINE p == [i \in 1 .. n |-> IF i = n THEN k ELSE swap(q[i])]
<1>10. \A i \in 1 .. n : i = n \/ i \in 1 .. n - 1
  BY <1>4
<1>11. \A i \in 1 .. n - 1 : i \in 1 .. n /\ i # n
  BY <1>4
<1>12. p \in [1 .. n -> 1 .. n]
  BY <1>6, <1>9, <1>10, <1>11
<1>13. swap(n) = k /\ n \in 1 .. n /\ p[n] = k
  BY <1>4
<1>14. \A i \in 1 .. n - 1 : p[i] = swap(q[i])
  BY <1>11
<1> HIDE DEF p, swap
<1>15. \A w \in 1 .. n : \E v \in 1 .. n : p[v] = w
  <2> SUFFICES ASSUME NEW w \in 1 .. n PROVE \E v \in 1 .. n : p[v] = w
    OBVIOUS
  <2>1. CASE swap(w) = n
    <3>1. w = k
      BY <1>6, <1>13, <2>1
    <3> QED
      BY <1>13, <3>1
  <2>2. CASE swap(w) # n
    <3>1. swap(w) \in 1 .. n - 1
      BY <1>6, <1>10, <2>2
    <3>2. PICK v \in 1 .. n - 1 : q[v] = swap(w)
      BY <1>9, <3>1
    <3>3. p[v] = w
      BY <1>6, <1>14, <3>2
    <3> QED
      BY <1>11, <3>3
  <2> QED
    BY <2>1, <2>2
<1>16. \A i, j \in 1 .. n : i < j => f[p[i]] <= f[p[j]]
  <2> SUFFICES ASSUME NEW i \in 1 .. n, NEW j \in 1 .. n, i < j
               PROVE  f[p[i]] <= f[p[j]]
    OBVIOUS
  <2>1. CASE j = n
    BY <1>5, <1>12, <1>13, <2>1
  <2>2. CASE j # n
    <3>1. i \in 1 .. n - 1 /\ j \in 1 .. n - 1
      BY <1>4, <2>2
    <3>2. g[q[i]] <= g[q[j]] /\ q[i] \in 1 .. n - 1 /\ q[j] \in 1 .. n - 1
      BY <1>9, <3>1
    <3>3. g[q[i]] = f[swap(q[i])] /\ g[q[j]] = f[swap(q[j])]
      BY <3>2
    <3> QED
      BY <1>14, <3>1, <3>2, <3>3
  <2> QED
    BY <2>1, <2>2
<1>17. \A i, j \in 1 .. n : p[i] = p[j] => i = j
  <2>1. ASSUME NEW i \in 1 .. n - 1, NEW j \in 1 .. n - 1, p[i] = p[j] PROVE i = j
    <3>1. swap(q[i]) = swap(q[j]) /\ q[i] \in 1 .. n - 1 /\ q[j] \in 1 .. n - 1
      BY <1>9, <1>14, <2>1
    <3>2. q[i] = q[j]
      BY <1>6, <1>11, <3>1
    <3> QED
      BY <1>9, <3>2
  <2>2. ASSUME NEW i \in 1 .. n - 1 PROVE p[i] # k
    <3>1. q[i] \in 1 .. n - 1 /\ q[i] \in 1 .. n /\ q[i] # n
      BY <1>9, <1>11
    <3>2. swap(k) = n
      BY <1>6, <1>13
    <3>3. swap(q[i]) # k
      BY <1>6, <3>1, <3>2
    <3> QED
      BY <1>14, <3>3
  <2> QED
    BY <1>10, <1>13, <2>1, <2>2
<1>18. p \in Bijection(1 .. n, 1 .. n)
  BY <1>12, <1>15, <1>17, Fun_IsBij
<1>19. p \in Orders(f, n)
  BY <1>16, <1>18 DEF Orders
<1> QED
  BY <1>2, <1>19

\* Sorted(s) is s in another order, ascending.
LEMMA SortedFacts ==
  ASSUME NEW s \in Seq(Extent)
  PROVE  /\ Sorted(s) \in Seq(Extent) /\ Len(Sorted(s)) = Len(s)
         /\ \E p \in Bijection(1 .. Len(s), 1 .. Len(s)) :
              \A i \in 1 .. Len(s) : Sorted(s)[i] = s[p[i]]
         /\ \A i, j \in 1 .. Len(s) :
              i < j => Sorted(s)[i].logical <= Sorted(s)[j].logical
<1> DEFINE n == Len(s)
           f == [i \in 1 .. n |-> s[i].logical]
<1>1. n \in Nat /\ \A i \in 1 .. n : s[i] \in Extent
  OBVIOUS
<1>2. LogicalBlocks - 1 \in Nat
  BY ExtentsAssumption
<1>3. f \in [1 .. n -> 0 .. LogicalBlocks - 1]
  BY <1>1 DEF Extent
<1>4. Orders(f, n) # {}
  BY <1>1, <1>2, <1>3, Sortable
<1>5. Sortings(s) = Orders(f, n)
  <2>1. ASSUME NEW p \in Bijection(1 .. n, 1 .. n), NEW i \in 1 .. n
        PROVE  f[p[i]] = s[p[i]].logical
    <3>1. p[i] \in 1 .. n
      BY <1>1, OrderFacts
    <3> QED
      BY <3>1
  <2> QED
    BY <2>1 DEF Sortings, Orders
<1> DEFINE p == CHOOSE p \in Sortings(s) : TRUE
<1>6. p \in Sortings(s)
  BY <1>4, <1>5
<1>7. Sorted(s) = [i \in 1 .. n |-> s[p[i]]]
  BY DEF Sorted
<1> HIDE DEF p, f
<1>8. /\ p \in Bijection(1 .. n, 1 .. n)
      /\ \A i, j \in 1 .. n : i < j => s[p[i]].logical <= s[p[j]].logical
  BY <1>6 DEF Sortings
<1>9. \A i \in 1 .. n : p[i] \in 1 .. n
  BY <1>1, <1>8, OrderFacts
<1>10. \A i \in 1 .. n : Sorted(s)[i] = s[p[i]] /\ s[p[i]] \in Extent
  BY <1>1, <1>7, <1>9
<1>11. Sorted(s) \in [1 .. n -> Extent]
  BY <1>7, <1>10
<1>12. Sorted(s) \in Seq(Extent) /\ Len(Sorted(s)) = n
  BY <1>1, <1>11
<1>13. \A i, j \in 1 .. n : i < j => Sorted(s)[i].logical <= Sorted(s)[j].logical
  BY <1>8, <1>10
<1> QED
  BY <1>8, <1>10, <1>12, <1>13

-----------------------------------------------------------------------------
(* The loop of normalize(). *)

Start == [ok |-> TRUE, list |-> <<>>]

\* The recursive function that Merging names exists: what the loop has after n
\* turns is what one more turn makes of what it had before.
LEMMA MergingDefined ==
  ASSUME NEW s, Len(s) \in Nat
  PROVE  /\ Merging(s)[0] = Start
         /\ \A n \in 1 .. Len(s) : Merging(s)[n] = MergeExtent(Merging(s)[n - 1], s[n])
<1> DEFINE Turns(f, N) ==
             f = [n \in 0 .. N |-> IF n = 0 THEN Start ELSE MergeExtent(f[n - 1], s[n])]
           Undefined == {N \in Nat : ~\E f : Turns(f, N)}
<1>1. \A N \in Nat : \E f : Turns(f, N)
  <2> SUFFICES ASSUME Undefined # {} PROVE FALSE
    OBVIOUS
  <2>1. PICK N \in Undefined : \A k \in Undefined : N <= k
    <3>1. Undefined \subseteq Nat
      OBVIOUS
    <3> HIDE DEF Undefined
    <3> QED
      BY <3>1, LeastOf
  <2>2. N \in Nat /\ ~\E f : Turns(f, N)
    BY <2>1
  <2>3. N # 0
    <3>1. Turns([n \in 0 .. 0 |-> Start], 0)
      OBVIOUS
    <3> QED
      BY <2>2, <3>1
  <2>4. N - 1 \in Nat /\ ~(N <= N - 1)
    BY <2>2, <2>3
  <2>5. PICK f : Turns(f, N - 1)
    BY <2>1, <2>4
  <2> DEFINE h == [n \in 0 .. N |-> IF n = N THEN MergeExtent(f[N - 1], s[N]) ELSE f[n]]
  <2>6. \A n \in 0 .. N - 1 : h[n] = f[n]
    BY <2>2, <2>4
  <2>7. ASSUME NEW n \in 0 .. N
        PROVE  h[n] = IF n = 0 THEN Start ELSE MergeExtent(h[n - 1], s[n])
    <3>1. CASE n = 0
      <4>1. 0 \in 0 .. N - 1 /\ f[0] = Start
        BY <2>4, <2>5
      <4> QED
        BY <2>6, <3>1, <4>1
    <3>2. CASE n = N
      <4>1. N - 1 \in 0 .. N - 1
        BY <2>4
      <4>2. h[N] = MergeExtent(f[N - 1], s[N])
        BY <2>2
      <4>3. h[N - 1] = f[N - 1]
        BY <2>6, <4>1
      <4> HIDE DEF h
      <4> QED
        BY <2>3, <3>2, <4>2, <4>3
    <3>3. CASE n # 0 /\ n # N
      <4>1. n \in 0 .. N - 1 /\ n - 1 \in 0 .. N - 1
        BY <2>2, <3>3
      <4>2. f[n] = MergeExtent(f[n - 1], s[n])
        BY <2>5, <3>3, <4>1
      <4>3. h[n] = f[n] /\ h[n - 1] = f[n - 1]
        BY <2>6, <4>1
      <4> HIDE DEF h
      <4> QED
        BY <3>3, <4>2, <4>3
    <3> QED
      BY <3>1, <3>2, <3>3
  <2>8. Turns(h, N)
    <3>1. h = [n \in 0 .. N |-> h[n]]
      OBVIOUS
    <3> HIDE DEF h
    <3> QED
      BY <2>7, <3>1
  <2> QED
    BY <2>2, <2>8
<1>2. Merging(s) = CHOOSE f : Turns(f, Len(s))
  BY DEF Merging, Start
<1>3. Turns(Merging(s), Len(s))
  BY <1>1, <1>2
<1>4. \A n \in 0 .. Len(s) : Merging(s)[n] =
        IF n = 0 THEN Start ELSE MergeExtent(Merging(s)[n - 1], s[n])
  BY <1>3
<1>5. 0 \in 0 .. Len(s) /\ \A n \in 1 .. Len(s) : n \in 0 .. Len(s) /\ n # 0
  OBVIOUS
<1> QED
  BY <1>4, <1>5

Fine(e) == e.count > 0 /\ InDevice(e)

\* The first n extents of t follow one another.
Follow(t, n) ==
  \A i \in 1 .. n : Fine(t[i]) /\ \A j \in 1 .. i - 1 : LogicalEnd(t[j]) <= t[i].logical

\* And none could be joined with the next.
Canonical(q) ==
  /\ Follow(q, Len(q))
  /\ \A k \in 1 .. Len(q) - 1 : ~Adjacent(q[k], q[k + 1])

\* The first n extents of s map l to x.
Maps(s, n, l, x) == \E k \in 1 .. n : Covers(s[k], l) /\ Target(s[k], l) = x

\* What the loop has made of the first n extents of t.
AfterTurns(t, n, done) ==
  /\ done \in [ok : BOOLEAN, list : Seq(Piece)]
  /\ done.ok <=> Follow(t, n)
  /\ done.ok =>
       /\ Canonical(done.list)
       /\ n = 0 <=> done.list = <<>>
       /\ n # 0 => LogicalEnd(Last(done.list)) = LogicalEnd(t[n])
       /\ \A l \in Nat : \A x : Maps(done.list, Len(done.list), l, x) <=> Maps(t, n, l, x)

LEMMA PieceFacts ==
  ASSUME NEW e \in Piece
  PROVE  /\ e.logical \in Nat /\ e.physical \in Nat /\ e.count \in Nat /\ e.sparse \in BOOLEAN
         /\ LogicalEnd(e) \in Nat /\ PhysicalEnd(e) \in Nat
         /\ LogicalEnd(e) = e.logical + e.count /\ PhysicalEnd(e) = e.physical + e.count
BY DEF Piece, LogicalEnd, PhysicalEnd

JoinMaps(p, e, j) ==
  \A l \in Nat : \A x :
    Covers(j, l) /\ Target(j, l) = x
      <=> \/ Covers(p, l) /\ Target(p, l) = x
          \/ Covers(e, l) /\ Target(e, l) = x

\* Two extents that are adjacent are joined to one that covers what they cover
\* and maps it where they do.
LEMMA JoinFacts ==
  ASSUME NEW p \in Piece, NEW e \in Piece, Fine(p), Fine(e), Adjacent(p, e),
         NEW j \in Piece, j = [p EXCEPT !.count = p.count + e.count]
  PROVE  /\ Fine(j) /\ j.logical = p.logical
         /\ LogicalEnd(j) = LogicalEnd(e)
         /\ JoinMaps(p, e, j)
<1>1. /\ j.logical = p.logical /\ j.physical = p.physical
      /\ j.count = p.count + e.count /\ j.sparse = p.sparse
  BY DEF Piece
<1>2. /\ p.logical \in Nat /\ p.physical \in Nat /\ p.count \in Nat /\ p.sparse \in BOOLEAN
      /\ e.logical \in Nat /\ e.physical \in Nat /\ e.count \in Nat /\ e.sparse \in BOOLEAN
      /\ DeviceBlocks \in Nat
  BY ExtentsAssumption DEF Piece
<1>3. /\ e.logical = p.logical + p.count /\ p.sparse = e.sparse
      /\ p.sparse \/ e.physical = p.physical + p.count
  BY DEF Adjacent, LogicalEnd, PhysicalEnd
<1>4. p.count > 0 /\ e.count > 0 /\ (e.sparse \/ e.physical + e.count <= DeviceBlocks)
  BY DEF Fine, InDevice, PhysicalEnd
<1>5. Fine(j)
  BY <1>1, <1>2, <1>3, <1>4 DEF Fine, InDevice, PhysicalEnd
<1>6. LogicalEnd(j) = LogicalEnd(e)
  BY <1>1, <1>2, <1>3 DEF LogicalEnd
<1>7. ASSUME NEW l \in Nat
      PROVE  /\ Covers(j, l) <=> Covers(p, l) \/ Covers(e, l)
             /\ Covers(p, l) => Target(j, l) = Target(p, l)
             /\ Covers(e, l) => Target(j, l) = Target(e, l)
  <2>1. Covers(j, l) <=> Covers(p, l) \/ Covers(e, l)
    BY <1>1, <1>2, <1>3 DEF Covers, LogicalEnd
  <2>2. Target(j, l) = Target(p, l)
    BY <1>1 DEF Target
  <2>3. Target(j, l) = Target(e, l)
    <3>1. CASE p.sparse
      BY <1>1, <1>3, <3>1 DEF Target
    <3>2. CASE ~p.sparse
      <4>1. j.physical + (l - j.logical) = e.physical + (l - e.logical)
        BY <1>1, <1>2, <1>3, <3>2
      <4>2. ~j.sparse /\ ~e.sparse
        BY <1>1, <1>3, <3>2
      <4> QED
        BY <4>1, <4>2 DEF Target
    <3> QED
      BY <3>1, <3>2
  <2> QED
    BY <2>1, <2>2, <2>3
<1> QED
  BY <1>1, <1>5, <1>6, <1>7 DEF JoinMaps

\* What ends before the last ends before everything behind the last.
LEMMA FollowLast ==
  ASSUME NEW s \in Seq(Piece), NEW n \in 0 .. Len(s), NEW e \in Piece,
         Follow(s, n), n # 0 => LogicalEnd(s[n]) <= e.logical
  PROVE  \A j \in 1 .. n : LogicalEnd(s[j]) <= e.logical
<1> SUFFICES ASSUME NEW j \in 1 .. n PROVE LogicalEnd(s[j]) <= e.logical
  OBVIOUS
<1>1. n \in Nat /\ n # 0 /\ n \in 1 .. n /\ s[n] \in Piece /\ s[j] \in Piece
  OBVIOUS
<1>2. j = n \/ j \in 1 .. n - 1
  BY <1>1
<1>3. j = n \/ LogicalEnd(s[j]) <= s[n].logical
  BY <1>1, <1>2 DEF Follow
<1>4. /\ LogicalEnd(s[j]) \in Nat
      /\ s[n].logical \in Nat /\ s[n].count \in Nat
      /\ LogicalEnd(s[n]) = s[n].logical + s[n].count
      /\ e.logical \in Nat
  <2>1. LogicalEnd(s[j]) \in Nat
    BY <1>1, PieceFacts
  <2>2. /\ s[n].logical \in Nat /\ s[n].count \in Nat
        /\ LogicalEnd(s[n]) = s[n].logical + s[n].count
    BY <1>1, PieceFacts
  <2>3. e.logical \in Nat
    BY PieceFacts
  <2> QED
    BY <2>1, <2>2, <2>3
<1> QED
  BY <1>3, <1>4

\* A turn that appends the extent.
LEMMA AppendTurn ==
  ASSUME NEW t \in Seq(Piece), NEW n \in 0 .. Len(t) - 1, NEW done,
         AfterTurns(t, n, done), done.ok, Fine(t[n + 1]),
         n # 0 => /\ LogicalEnd(Last(done.list)) <= t[n + 1].logical
                  /\ ~Adjacent(Last(done.list), t[n + 1]),
         NEW next \in [ok : BOOLEAN, list : Seq(Piece)],
         next.ok, next.list = Append(done.list, t[n + 1])
  PROVE  AfterTurns(t, n + 1, next)
<1> DEFINE q == done.list
           m == Len(q)
           e == t[n + 1]
           a == Append(q, e)
<1>1. /\ q \in Seq(Piece) /\ m \in Nat /\ n \in Nat /\ e \in Piece
      /\ Follow(t, n) /\ Canonical(q)
      /\ n = 0 <=> q = <<>>
      /\ n # 0 => LogicalEnd(Last(q)) = LogicalEnd(t[n])
      /\ \A l \in Nat : \A x : Maps(q, m, l, x) <=> Maps(t, n, l, x)
  BY DEF AfterTurns
<1>2. /\ Len(a) = m + 1 /\ a[m + 1] = e /\ Last(a) = e
      /\ \A k \in 1 .. m : a[k] = q[k] /\ q[k] \in Piece /\ k # m + 1
      /\ \A k : k \in 1 .. m + 1 <=> k \in 1 .. m \/ k = m + 1
      /\ m # 0 => Last(q) = q[m] /\ m \in 1 .. m
      /\ m = 0 <=> q = <<>>
      /\ a # <<>>
  BY <1>1 DEF Last
<1>3. /\ \A i \in 1 .. n : t[i] \in Piece /\ i # n + 1
      /\ \A i : i \in 1 .. n + 1 <=> i \in 1 .. n \/ i = n + 1
      /\ n # 0 => n \in 1 .. n
  BY <1>1
<1> HIDE DEF q, m, e, a
<1>4. \A l \in Nat : \A x : Maps(a, m + 1, l, x) <=> Maps(t, n + 1, l, x)
  <2>1. \A l \in Nat : \A x :
          Maps(a, m + 1, l, x) <=> Maps(q, m, l, x) \/ (Covers(e, l) /\ Target(e, l) = x)
    BY <1>2 DEF Maps
  <2>2. \A l \in Nat : \A x :
          Maps(t, n + 1, l, x) <=> Maps(t, n, l, x) \/ (Covers(e, l) /\ Target(e, l) = x)
    BY <1>3 DEF Maps, e
  <2> QED
    BY <1>1, <2>1, <2>2
<1>5. Follow(t, n + 1)
  <2>1. \A j \in 1 .. n : LogicalEnd(t[j]) <= e.logical
    <3>1. n # 0 => LogicalEnd(t[n]) <= e.logical
      BY <1>1 DEF e, q
    <3>2. n \in 0 .. Len(t)
      OBVIOUS
    <3> QED
      BY <1>1, <3>1, <3>2, FollowLast
  <2>2. Fine(e)
    BY DEF e
  <2>3. (n + 1) - 1 = n
    BY <1>1
  <2> QED
    BY <1>1, <1>3, <2>1, <2>2, <2>3 DEF Follow, e
<1>6. Canonical(a)
  <2>1. \A j \in 1 .. m : LogicalEnd(q[j]) <= e.logical
    <3>1. m # 0 => LogicalEnd(q[m]) <= e.logical
      BY <1>1, <1>2 DEF e, q
    <3>2. m \in 0 .. Len(q) /\ Follow(q, m)
      BY <1>1 DEF m, Canonical
    <3> QED
      BY <1>1, <3>1, <3>2, FollowLast
  <2>2. Follow(a, m + 1)
    <3>1. Follow(q, m)
      BY <1>1 DEF Canonical, m
    <3>2. Fine(e) /\ (m + 1) - 1 = m
      BY <1>1 DEF e
    <3>3. \A i \in 1 .. m : \A j \in 1 .. i - 1 : j \in 1 .. m
      BY <1>1
    <3> QED
      BY <1>2, <2>1, <3>1, <3>2, <3>3 DEF Follow
  <2>3. \A k \in 1 .. m : ~Adjacent(a[k], a[k + 1])
    <3> SUFFICES ASSUME NEW k \in 1 .. m PROVE ~Adjacent(a[k], a[k + 1])
      OBVIOUS
    <3>1. CASE k = m
      <4>1. m # 0 /\ n # 0
        BY <1>1, <1>2
      <4>2. ~Adjacent(Last(q), e)
        BY <4>1 DEF q, e
      <4> QED
        BY <1>2, <3>1, <4>1, <4>2
    <3>2. CASE k # m
      <4>0. m \in Nat
        BY <1>1
      <4>1. k \in 1 .. m - 1 /\ k + 1 \in 1 .. m
        BY <3>2, <4>0
      <4>2. ~Adjacent(q[k], q[k + 1])
        BY <1>1, <4>1 DEF Canonical, m
      <4> QED
        BY <1>2, <4>1, <4>2
    <3> QED
      BY <3>1, <3>2
  <2>4. Len(a) - 1 = m
    BY <1>1, <1>2
  <2> QED
    BY <1>2, <2>2, <2>3, <2>4 DEF Canonical
<1>7. next.list = a /\ Len(next.list) = m + 1 /\ n + 1 # 0
  BY <1>1, <1>2 DEF a, q, e
<1> QED
  BY <1>2, <1>4, <1>5, <1>6, <1>7 DEF AfterTurns, e

\* A turn that joins the extent to the last one.
LEMMA JoinTurn ==
  ASSUME NEW t \in Seq(Piece), NEW n \in 1 .. Len(t) - 1, NEW done,
         AfterTurns(t, n, done), done.ok, Fine(t[n + 1]),
         Adjacent(Last(done.list), t[n + 1]),
         NEW j \in Piece,
         j = [Last(done.list) EXCEPT !.count = Last(done.list).count + t[n + 1].count],
         NEW next \in [ok : BOOLEAN, list : Seq(Piece)],
         next.ok, next.list = [done.list EXCEPT ![Len(done.list)] = j]
  PROVE  AfterTurns(t, n + 1, next)
<1> DEFINE q == done.list
           m == Len(q)
           e == t[n + 1]
           p == Last(q)
           a == [q EXCEPT ![m] = j]
<1>1. /\ q \in Seq(Piece) /\ m \in Nat /\ n \in Nat /\ e \in Piece /\ n # 0
      /\ Follow(t, n) /\ Canonical(q) /\ Follow(q, m)
      /\ q # <<>>
      /\ LogicalEnd(p) = LogicalEnd(t[n])
      /\ \A l \in Nat : \A x : Maps(q, m, l, x) <=> Maps(t, n, l, x)
  BY DEF AfterTurns, Canonical
<1>2. /\ m # 0 /\ m \in 1 .. m /\ p = q[m] /\ p \in Piece
      /\ Len(a) = m /\ a[m] = j /\ Last(a) = j /\ a # <<>>
      /\ \A k \in 1 .. m - 1 : a[k] = q[k] /\ q[k] \in Piece /\ k # m /\ k \in 1 .. m
      /\ \A k : k \in 1 .. m <=> k \in 1 .. m - 1 \/ k = m
  <2>1. m # 0 /\ m \in 1 .. m
    BY <1>1
  <2> QED
    BY <1>1, <2>1 DEF Last
<1>3. /\ \A i \in 1 .. n : t[i] \in Piece /\ i # n + 1
      /\ \A i : i \in 1 .. n + 1 <=> i \in 1 .. n \/ i = n + 1
      /\ n \in 0 .. Len(t)
  BY <1>1
<1>4. Fine(p) /\ Fine(e) /\ Adjacent(p, e)
  BY <1>1, <1>2 DEF Follow
<1>5. j = [p EXCEPT !.count = p.count + e.count]
  OBVIOUS
<1> HIDE DEF q, m, e, a, p
<1>6. /\ Fine(j) /\ j.logical = p.logical
      /\ LogicalEnd(j) = LogicalEnd(e)
      /\ JoinMaps(p, e, j)
  <2>1. /\ p \in Piece /\ e \in Piece /\ Fine(p) /\ Fine(e) /\ Adjacent(p, e)
        /\ j \in Piece /\ j = [p EXCEPT !.count = p.count + e.count]
    BY <1>1, <1>2, <1>4, <1>5
  <2> QED
    BY <2>1, JoinFacts
<1>7. \A l \in Nat : \A x : Maps(a, m, l, x) <=> Maps(t, n + 1, l, x)
  <2>1. \A l \in Nat : \A x :
          Maps(a, m, l, x) <=> Maps(q, m - 1, l, x) \/ (Covers(j, l) /\ Target(j, l) = x)
    BY <1>2 DEF Maps
  <2>2. \A l \in Nat : \A x :
          Maps(q, m, l, x) <=> Maps(q, m - 1, l, x) \/ (Covers(p, l) /\ Target(p, l) = x)
    BY <1>2 DEF Maps
  <2>3. \A l \in Nat : \A x :
          Maps(t, n + 1, l, x) <=> Maps(t, n, l, x) \/ (Covers(e, l) /\ Target(e, l) = x)
    BY <1>3 DEF Maps, e
  <2> QED
    BY ZenonT(60), <1>1, <1>6, <2>1, <2>2, <2>3 DEF JoinMaps
<1>8. Follow(t, n + 1)
  <2>1. LogicalEnd(t[n]) <= e.logical
    <3>1. e.logical = LogicalEnd(p) /\ e.logical \in Nat
      BY <1>1, <1>4, PieceFacts DEF Adjacent
    <3> QED
      BY <1>1, <3>1
  <2>2. \A i \in 1 .. n : LogicalEnd(t[i]) <= e.logical
    BY <1>1, <1>3, <2>1, FollowLast
  <2>3. (n + 1) - 1 = n
    BY <1>1
  <2> QED
    BY <1>1, <1>3, <1>4, <2>2, <2>3 DEF Follow, e
<1>9. Canonical(a)
  <2>1. Follow(a, m)
    <3>1. \A k \in 1 .. m - 1 : \A i \in 1 .. k - 1 : i \in 1 .. m - 1
      BY <1>1
    <3>2. ASSUME NEW k \in 1 .. m - 1
          PROVE  Fine(a[k]) /\ \A i \in 1 .. k - 1 : LogicalEnd(a[i]) <= a[k].logical
      BY <1>1, <1>2, <3>1 DEF Follow
    <3>3. Fine(a[m]) /\ \A i \in 1 .. m - 1 : LogicalEnd(a[i]) <= a[m].logical
      BY <1>1, <1>2, <1>6 DEF Follow
    <3> QED
      BY <1>2, <3>2, <3>3 DEF Follow
  <2>2. \A k \in 1 .. m - 1 : ~Adjacent(a[k], a[k + 1])
    <3> SUFFICES ASSUME NEW k \in 1 .. m - 1 PROVE ~Adjacent(a[k], a[k + 1])
      OBVIOUS
    <3>1. ~Adjacent(q[k], q[k + 1]) /\ a[k] = q[k]
      BY <1>1, <1>2 DEF Canonical, m
    <3>2. CASE k + 1 = m
      <4>1. j.sparse = p.sparse /\ j.physical = p.physical
        BY <1>2, <1>5 DEF Piece
      <4>2. Adjacent(q[k], j) <=> Adjacent(q[k], p)
        BY <1>6, <4>1 DEF Adjacent
      <4> QED
        BY <1>2, <3>1, <3>2, <4>2
    <3>3. CASE k + 1 # m
      <4>1. k + 1 \in 1 .. m - 1
        BY SMTT(40), <1>1, <3>3
      <4> QED
        BY <1>2, <3>1, <4>1
    <3> QED
      BY <3>2, <3>3
  <2> QED
    BY <1>2, <2>1, <2>2 DEF Canonical
<1>10. next.list = a /\ n + 1 # 0
  BY <1>1 DEF a, q, m
<1> QED
  BY <1>2, <1>6, <1>7, <1>8, <1>9, <1>10 DEF AfterTurns, e

LEMMA WithList ==
  ASSUME NEW done \in [ok : BOOLEAN, list : Seq(Piece)], NEW q \in Seq(Piece)
  PROVE  /\ [done EXCEPT !.list = q] \in [ok : BOOLEAN, list : Seq(Piece)]
         /\ [done EXCEPT !.list = q].ok = done.ok
         /\ [done EXCEPT !.list = q].list = q
OBVIOUS

\* Whatever the turn does, it keeps AfterTurns.
LEMMA TurnKeeps ==
  ASSUME NEW t \in Seq(Piece), NEW n \in 0 .. Len(t) - 1, NEW done,
         AfterTurns(t, n, done), LogicalEnd(t[n + 1]) <= MaxJoined
  PROVE  AfterTurns(t, n + 1, MergeExtent(done, t[n + 1]))
<1> DEFINE e == t[n + 1]
           p == Last(done.list)
<1>1. /\ n \in Nat /\ e \in Piece /\ n + 1 \in 1 .. n + 1 /\ (n + 1) - 1 = n
      /\ \A i \in 1 .. n : i \in 1 .. n + 1
      /\ n # 0 => n \in 1 .. n /\ n \in 1 .. Len(t) - 1
  OBVIOUS
<1>2. done \in [ok : BOOLEAN, list : Seq(Piece)] /\ (done.ok <=> Follow(t, n))
  BY DEF AfterTurns
<1>3. ASSUME ~Follow(t, n + 1) PROVE AfterTurns(t, n + 1, Failed)
  BY <1>3 DEF AfterTurns, Failed
<1>4. Follow(t, n + 1) => /\ Follow(t, n) /\ Fine(e)
                          /\ \A j \in 1 .. n : LogicalEnd(t[j]) <= e.logical
  BY <1>1 DEF Follow
<1>5. CASE ~done.ok \/ e.count = 0 \/ ~InDevice(e)
  <2>1. ~Follow(t, n + 1)
    BY <1>1, <1>2, <1>4, <1>5 DEF Fine
  <2> QED
    BY <1>3, <1>5, <2>1 DEF MergeExtent
<1>6. CASE ~(~done.ok \/ e.count = 0 \/ ~InDevice(e))
  <2>1. done.ok /\ Fine(e)
    <3>1. e.count \in Nat
      BY <1>1, PieceFacts
    <3> QED
      BY <1>6, <3>1 DEF Fine
  <2>2. /\ n = 0 <=> done.list = <<>>
        /\ n # 0 => LogicalEnd(p) = LogicalEnd(t[n])
    BY <2>1 DEF AfterTurns
  <2>3. CASE done.list = <<>>
    <3> DEFINE next == [done EXCEPT !.list = <<e>>]
    <3>1. next \in [ok : BOOLEAN, list : Seq(Piece)] /\ next.ok /\ next.list = Append(done.list, e)
      <4>1. <<e>> \in Seq(Piece) /\ Append(done.list, e) = <<e>>
        BY <1>1, <2>3
      <4> QED
        BY <1>2, <2>1, <4>1, WithList
    <3>2. MergeExtent(done, e) = next
      BY <1>6, <2>3 DEF MergeExtent
    <3> HIDE DEF next
    <3> QED
      BY <2>1, <2>2, <2>3, <3>1, <3>2, AppendTurn
  <2>4. CASE done.list # <<>>
    <3>1. n # 0 /\ p \in Piece /\ LogicalEnd(p) = LogicalEnd(t[n])
      BY <1>2, <2>2, <2>4 DEF Last
    <3>2. LogicalEnd(p) \in Nat /\ e.logical \in Nat /\ p.count \in Nat /\ e.count \in Nat
      BY <1>1, <3>1, PieceFacts
    <3>3. CASE e.logical < LogicalEnd(p)
      <4>1. ~Follow(t, n + 1)
        <5>1. ~(LogicalEnd(t[n]) <= e.logical)
          BY <3>1, <3>2, <3>3
        <5> QED
          BY <1>1, <1>4, <3>1, <5>1
      <4> QED
        BY <1>3, <1>6, <2>4, <3>3, <4>1 DEF MergeExtent
    <3>4. CASE ~(e.logical < LogicalEnd(p)) /\ Adjacent(p, e)
      <4> DEFINE j == [p EXCEPT !.count = p.count + e.count]
                 next == [done EXCEPT !.list[Len(done.list)].count = p.count + e.count]
      <4>1. j \in Piece
        <5>1. p.count + e.count \in Nat
          BY <3>2
        <5> HIDE DEF p
        <5> QED
          BY <3>1, <5>1 DEF Piece
      <4>2. /\ next \in [ok : BOOLEAN, list : Seq(Piece)] /\ next.ok
            /\ next.list = [done.list EXCEPT ![Len(done.list)] = j]
        <5>1. done.list \in Seq(Piece) /\ Len(done.list) \in 1 .. Len(done.list)
          BY <1>2, <2>4
        <5>2. [done.list EXCEPT ![Len(done.list)] = j] \in Seq(Piece)
          BY <4>1, <5>1
        <5>3. next = [done EXCEPT !.list = [done.list EXCEPT ![Len(done.list)] = j]]
          BY <1>2, <5>1 DEF Last
        <5> HIDE DEF next, j
        <5> QED
          BY <1>2, <2>1, <5>2, <5>3, WithList
      <4>3. p.count + e.count <= MaxJoined
        <5>1. /\ p.logical \in Nat /\ e.logical = p.logical + p.count
              /\ LogicalEnd(e) = e.logical + e.count
          BY <1>1, <3>1, <3>4, PieceFacts DEF Adjacent
        <5>2. MaxJoined \in Nat /\ LogicalEnd(e) <= MaxJoined
          BY ExtentsAssumption
        <5> HIDE DEF e, p
        <5> QED
          BY <3>2, <5>1, <5>2
      <4>4. MergeExtent(done, e) = next
        BY <1>6, <2>4, <3>4, <4>3 DEF MergeExtent
      <4> HIDE DEF next
      <4> QED
        BY <1>1, <2>1, <3>1, <3>4, <4>1, <4>2, <4>4, JoinTurn
    <3>5. CASE ~(e.logical < LogicalEnd(p)) /\ ~Adjacent(p, e)
      <4> DEFINE next == [done EXCEPT !.list = Append(done.list, e)]
      <4>1. next \in [ok : BOOLEAN, list : Seq(Piece)] /\ next.ok /\ next.list = Append(done.list, e)
        <5>1. Append(done.list, e) \in Seq(Piece)
          BY <1>1, <1>2
        <5> QED
          BY <1>2, <2>1, <5>1, WithList
      <4>2. MergeExtent(done, e) = next
        BY <1>6, <2>4, <3>5 DEF MergeExtent
      <4>3. LogicalEnd(p) <= e.logical
        BY <3>2, <3>5
      <4> HIDE DEF next
      <4> QED
        BY <2>1, <3>5, <4>1, <4>2, <4>3, AppendTurn
    <3> QED
      BY <3>3, <3>4, <3>5
  <2> QED
    BY <2>3, <2>4
<1> QED
  BY <1>5, <1>6

\* So it holds after every number of turns.
LEMMA TurnsKeep ==
  ASSUME NEW t \in Seq(Piece), \A i \in 1 .. Len(t) : LogicalEnd(t[i]) <= MaxJoined
  PROVE  \A n \in 0 .. Len(t) : AfterTurns(t, n, Merging(t)[n])
<1> DEFINE Bad == {n \in 0 .. Len(t) : ~AfterTurns(t, n, Merging(t)[n])}
<1> SUFFICES ASSUME Bad # {} PROVE FALSE
  OBVIOUS
<1>1. Len(t) \in Nat /\ Bad \subseteq Nat
  OBVIOUS
<1>2. PICK n \in Bad : \A k \in Bad : n <= k
  <2> HIDE DEF Bad
  <2> QED
    BY <1>1, LeastOf
<1>3. /\ Merging(t)[0] = Start
      /\ \A k \in 1 .. Len(t) : Merging(t)[k] = MergeExtent(Merging(t)[k - 1], t[k])
  BY <1>1, MergingDefined
<1>4. n \in 0 .. Len(t) /\ ~AfterTurns(t, n, Merging(t)[n])
  OBVIOUS
<1>5. CASE n = 0
  <2>1. Follow(t, 0) /\ Follow(<<>>, 0)
    BY DEF Follow
  <2>2. \A l \in Nat : \A x : ~Maps(<<>>, 0, l, x) /\ ~Maps(t, 0, l, x)
    BY DEF Maps
  <2>3. AfterTurns(t, 0, Start)
    BY <2>1, <2>2 DEF AfterTurns, Start, Canonical
  <2> QED
    BY <1>3, <1>4, <1>5, <2>3
<1>6. CASE n # 0
  <2>1. n - 1 \in 0 .. Len(t) - 1 /\ ~(n <= n - 1) /\ (n - 1) + 1 = n /\ n \in 1 .. Len(t)
        /\ n - 1 \in 0 .. Len(t)
    BY <1>1, <1>4, <1>6
  <2>2. AfterTurns(t, n - 1, Merging(t)[n - 1])
    BY <1>2, <2>1
  <2>3. AfterTurns(t, n, MergeExtent(Merging(t)[n - 1], t[n]))
    <3>0. LogicalEnd(t[(n - 1) + 1]) <= MaxJoined
      BY <2>1
    <3>1. AfterTurns(t, (n - 1) + 1, MergeExtent(Merging(t)[n - 1], t[(n - 1) + 1]))
      BY <2>1, <2>2, <3>0, TurnKeeps
    <3> QED
      BY <2>1, <3>1
  <2> QED
    BY <1>3, <1>4, <2>1, <2>3
<1> QED
  BY <1>5, <1>6

-----------------------------------------------------------------------------
(* The sorted list and the list as it came. *)

LEMMA ExtentIsPiece ==
  /\ Extent \subseteq Piece
  /\ \A e \in Extent : e.logical <= LogicalBlocks - 1 /\ e.count <= MaxCount
<1>1. LogicalBlocks \in Nat /\ DeviceBlocks \in Nat /\ MaxCount \in Nat
  BY ExtentsAssumption
<1>2. 0 .. LogicalBlocks - 1 \subseteq Nat /\ 0 .. DeviceBlocks \subseteq Nat
      /\ 0 .. MaxCount \subseteq Nat
  BY <1>1
<1> QED
  BY <1>1, <1>2 DEF Extent, Piece

LEMMA SortedEnds ==
  ASSUME NEW s \in Seq(Extent), NEW i \in 1 .. Len(Sorted(s))
  PROVE  LogicalEnd(Sorted(s)[i]) <= MaxJoined
<1> DEFINE e == Sorted(s)[i]
<1>1. e \in Extent
  <2>1. Sorted(s) \in Seq(Extent)
    BY SortedFacts
  <2> QED
    BY <2>1
<1> HIDE DEF e
<1>2. /\ e.logical \in Nat /\ e.count \in Nat /\ LogicalEnd(e) = e.logical + e.count
      /\ e.logical <= LogicalBlocks - 1 /\ e.count <= MaxCount
  BY <1>1, ExtentIsPiece, PieceFacts
<1>3. LogicalEnd(e) <= MaxJoined
  BY <1>2, ExtentsAssumption
<1> QED
  BY <1>3 DEF e

LEMMA SortedIsPieces ==
  ASSUME NEW s \in Seq(Extent)
  PROVE  s \in Seq(Piece) /\ Sorted(s) \in Seq(Piece) /\ Len(Sorted(s)) = Len(s)
<1>1. Sorted(s) \in Seq(Extent) /\ Len(Sorted(s)) = Len(s)
  BY SortedFacts
<1>2. \A t \in Seq(Extent) : t \in Seq(Piece)
  BY ExtentIsPiece
<1> QED
  BY <1>1, <1>2

\* Every block that an input covers is among those Meaning looks at.
LEMMA CoveredIsLogical ==
  ASSUME NEW e \in Extent, NEW l \in Nat, Covers(e, l)
  PROVE  l \in Logical
<1>1. e.logical \in Nat /\ e.count \in Nat /\ LogicalEnd(e) = e.logical + e.count
  BY ExtentIsPiece, PieceFacts
<1>2. e.logical <= LogicalBlocks - 1 /\ e.count <= MaxCount
  BY ExtentIsPiece
<1>3. LogicalBlocks \in Nat /\ MaxCount \in Nat
  BY ExtentsAssumption
<1> QED
  BY <1>1, <1>2, <1>3 DEF Covers, Logical

LEMMA SortedMaps ==
  ASSUME NEW s \in Seq(Extent), NEW l, NEW x
  PROVE  Maps(Sorted(s), Len(s), l, x) <=> Maps(s, Len(s), l, x)
<1> DEFINE n == Len(s)
<1>1. n \in Nat
  OBVIOUS
<1>2. PICK p \in Bijection(1 .. n, 1 .. n) : \A i \in 1 .. n : Sorted(s)[i] = s[p[i]]
  BY SortedFacts
<1>a. n \in Nat /\ p \in Bijection(1 .. n, 1 .. n)
  BY <1>1, <1>2
<1>3. /\ p \in [1 .. n -> 1 .. n]
      /\ \A w \in 1 .. n : \E v \in 1 .. n : p[v] = w
  BY <1>a, OrderFacts
<1> HIDE DEF n
<1>4. ASSUME Maps(Sorted(s), n, l, x) PROVE Maps(s, n, l, x)
  <2>1. PICK k \in 1 .. n : Covers(Sorted(s)[k], l) /\ Target(Sorted(s)[k], l) = x
    BY <1>4 DEF Maps
  <2>2. Sorted(s)[k] = s[p[k]] /\ p[k] \in 1 .. n
    BY <1>2, <1>3
  <2> QED
    BY <2>1, <2>2 DEF Maps
<1>5. ASSUME Maps(s, n, l, x) PROVE Maps(Sorted(s), n, l, x)
  <2>1. PICK k \in 1 .. n : Covers(s[k], l) /\ Target(s[k], l) = x
    BY <1>5 DEF Maps
  <2>2. PICK v \in 1 .. n : p[v] = k
    BY <1>3
  <2>3. Sorted(s)[v] = s[k]
    BY <1>2, <2>2
  <2> QED
    BY <2>1, <2>3 DEF Maps
<1> QED
  BY <1>4, <1>5 DEF n

\* The sorted extents follow one another exactly if nothing is wrong with them.
LEMMA SortedFollow ==
  ASSUME NEW s \in Seq(Extent)
  PROVE  Follow(Sorted(s), Len(s)) <=> WellFormed(s) /\ ~Overlap(s)
<1> DEFINE n == Len(s)
           t == Sorted(s)
<1>1. n \in Nat /\ \A i \in 1 .. n : s[i] \in Extent /\ s[i] \in Piece
  BY ExtentIsPiece
<1>2. PICK p \in Bijection(1 .. n, 1 .. n) : \A i \in 1 .. n : t[i] = s[p[i]]
  BY SortedFacts
<1>3. \A i, j \in 1 .. n : i < j => t[i].logical <= t[j].logical
  BY SortedFacts
<1>a. n \in Nat /\ p \in Bijection(1 .. n, 1 .. n)
  BY <1>1, <1>2
<1>b. /\ p \in [1 .. n -> 1 .. n]
      /\ \A i, j \in 1 .. n : p[i] = p[j] => i = j
      /\ \A w \in 1 .. n : \E v \in 1 .. n : p[v] = w
  BY <1>a, OrderFacts
<1> HIDE DEF n, t
<1>4. /\ \A i \in 1 .. n : p[i] \in 1 .. n
      /\ \A i, j \in 1 .. n : p[i] = p[j] => i = j
      /\ \A w \in 1 .. n : \E v \in 1 .. n : p[v] = w
  BY <1>b
<1>5. \A i \in 1 .. n : t[i] \in Extent /\ t[i] \in Piece
  BY <1>1, <1>2, <1>4
<1>6. \A i \in 1 .. n : /\ t[i].logical \in Nat /\ t[i].count \in Nat
                        /\ LogicalEnd(t[i]) = t[i].logical + t[i].count
  BY <1>5, PieceFacts
<1>7. (\A i \in 1 .. n : Fine(t[i])) <=> WellFormed(s)
  <2>1. ASSUME \A i \in 1 .. n : Fine(t[i]), NEW k \in 1 .. n PROVE Fine(s[k])
    <3>1. PICK v \in 1 .. n : p[v] = k
      BY <1>4
    <3> QED
      BY <1>2, <2>1, <3>1
  <2>2. ASSUME \A k \in 1 .. n : Fine(s[k]), NEW i \in 1 .. n PROVE Fine(t[i])
    BY <1>2, <1>4, <2>2
  <2>3. WellFormed(s) <=> \A k \in 1 .. n : Fine(s[k])
    BY DEF WellFormed, Fine, n
  <2> QED
    BY <2>1, <2>2, <2>3
<1>8. ASSUME WellFormed(s), NEW i \in 1 .. n, NEW j \in 1 .. n, j < i,
             ~(LogicalEnd(t[j]) <= t[i].logical)
      PROVE  Overlap(s)
  <2> DEFINE l == t[i].logical
  <2>1. Covers(t[i], l) /\ Covers(t[j], l)
    <3>1. t[i].count > 0
      BY <1>7, <1>8 DEF Fine
    <3>2. t[j].logical <= t[i].logical
      BY <1>3, <1>8
    <3> QED
      BY <1>6, <1>8, <3>1, <3>2 DEF Covers
  <2>2. l \in Logical
    BY <1>5, <1>6, <2>1, CoveredIsLogical
  <2>3. i # j
    BY <1>1, <1>8
  <2> HIDE DEF l
  <2>4. /\ p[i] \in 1 .. n /\ p[j] \in 1 .. n /\ p[i] # p[j]
        /\ t[i] = s[p[i]] /\ t[j] = s[p[j]]
    BY <1>2, <1>4, <2>3
  <2> QED
    BY <2>1, <2>2, <2>4 DEF Overlap, n
<1>9. ASSUME Follow(t, n), Overlap(s) PROVE FALSE
  <2>1. PICK i \in 1 .. n, j \in 1 .. n, l \in Logical :
          i # j /\ Covers(s[i], l) /\ Covers(s[j], l)
    BY <1>9 DEF Overlap, n
  <2>2. PICK v \in 1 .. n : p[v] = i
    BY <1>4, <2>1
  <2>3. PICK w \in 1 .. n : p[w] = j
    BY <1>4, <2>1
  <2>4. v # w /\ Covers(t[v], l) /\ Covers(t[w], l)
    BY <1>2, <2>1, <2>2, <2>3
  <2>5. l \in Nat
    BY ExtentsAssumption DEF Logical
  <2>6. \A a, b \in 1 .. n : a < b => LogicalEnd(t[a]) <= t[b].logical
    <3> SUFFICES ASSUME NEW a \in 1 .. n, NEW b \in 1 .. n, a < b
                 PROVE  LogicalEnd(t[a]) <= t[b].logical
      OBVIOUS
    <3>1. a \in 1 .. b - 1
      BY <1>1
    <3> QED
      BY <1>9, <3>1 DEF Follow
  <2>7. v < w \/ w < v
    BY <1>1, <2>4
  <2>8. /\ t[v].logical <= l /\ l < LogicalEnd(t[v])
        /\ t[w].logical <= l /\ l < LogicalEnd(t[w])
        /\ LogicalEnd(t[v]) \in Nat /\ LogicalEnd(t[w]) \in Nat
        /\ t[v].logical \in Nat /\ t[w].logical \in Nat
    <3>1. /\ LogicalEnd(t[v]) \in Nat /\ t[v].logical \in Nat
          /\ LogicalEnd(t[w]) \in Nat /\ t[w].logical \in Nat
      BY <1>5, <2>2, <2>3, PieceFacts
    <3>2. /\ l >= t[v].logical /\ l < LogicalEnd(t[v])
          /\ l >= t[w].logical /\ l < LogicalEnd(t[w])
      BY <2>4 DEF Covers
    <3> QED
      BY <2>5, <3>1, <3>2
  <2>9. LogicalEnd(t[v]) <= t[w].logical \/ LogicalEnd(t[w]) <= t[v].logical
    BY <2>6, <2>7
  <2> QED
    BY <2>5, <2>8, <2>9
<1>10. ASSUME WellFormed(s), ~Overlap(s) PROVE Follow(t, n)
  <2>1. \A i \in 1 .. n : \A j \in 1 .. i - 1 : j \in 1 .. n /\ j < i
    BY <1>1
  <2> QED
    BY <1>7, <1>8, <1>10, <2>1 DEF Follow
<1>11. Follow(t, n) => WellFormed(s)
  BY <1>7 DEF Follow
<1> QED
  BY <1>9, <1>10, <1>11 DEF n, t

-----------------------------------------------------------------------------
(* What normalize() returns. *)

LEMMA NormalizeFacts ==
  ASSUME NEW s \in Seq(Extent)
  PROVE  LET q == Normalize(s).list IN
         /\ Normalize(s).ok <=> WithinLimit(s) /\ WellFormed(s) /\ ~Overlap(s)
         /\ Normalize(s).ok =>
              /\ q \in Seq(Piece) /\ Canonical(q)
              /\ \A l \in Nat : \A x : Maps(q, Len(q), l, x) <=> Maps(s, Len(s), l, x)
<1>1. CASE ~WithinLimit(s)
  BY <1>1 DEF Normalize, Failed
<1>2. CASE WithinLimit(s)
  <2> DEFINE t == Sorted(s)
             done == Merging(t)[Len(s)]
  <2>1. t \in Seq(Piece) /\ Len(t) = Len(s) /\ Len(s) \in 0 .. Len(t)
    BY SortedIsPieces
  <2>2. Normalize(s) = done
    BY <1>2 DEF Normalize
  <2> HIDE DEF t, done
  <2>3. AfterTurns(t, Len(s), done)
    <3>1. \A i \in 1 .. Len(t) : LogicalEnd(t[i]) <= MaxJoined
      BY SortedEnds DEF t
    <3> QED
      BY <2>1, <3>1, TurnsKeep DEF done
  <2>4. Follow(t, Len(s)) <=> WellFormed(s) /\ ~Overlap(s)
    BY SortedFollow DEF t
  <2>5. \A l, x : Maps(t, Len(s), l, x) <=> Maps(s, Len(s), l, x)
    BY SortedMaps DEF t
  <2> QED
    BY <1>2, <2>2, <2>3, <2>4, <2>5 DEF AfterTurns
<1> QED
  BY <1>1, <1>2

\* No two extents of s cover l.
Once(s, l) ==
  \A i, j \in 1 .. Len(s) : Covers(s[i], l) /\ Covers(s[j], l) => i = j

Covered(s, l) == \E i \in 1 .. Len(s) : Covers(s[i], l)

\* Every extent has blocks.
Filled(s) == \A i \in 1 .. Len(s) : s[i].count > 0

LEMMA MapBlockFacts ==
  ASSUME NEW s \in Seq(Piece), Filled(s), NEW l
  PROVE  /\ Covered(s, l) => Maps(s, Len(s), l, MapBlock(s, l))
         /\ ~Covered(s, l) => MapBlock(s, l) = Hole
         /\ Once(s, l) => \A x : Maps(s, Len(s), l, x) => x = MapBlock(s, l)
<1> DEFINE covering == {i \in 1 .. Len(s) : Covers(s[i], l)}
<1>1. Covered(s, l) <=> covering # {}
  BY DEF Covered
<1>2. /\ covering = {} => MapBlock(s, l) = Hole
      /\ covering # {} /\ Min(covering) \in 1 .. Len(s) =>
           MapBlock(s, l) = Target(s[Min(covering)], l)
  <2> DEFINE deciding == {i \in 1 .. Len(s) : s[i].count = 0 \/ Covers(s[i], l)}
  <2>1. \A i \in 1 .. Len(s) : s[i].count # 0
    BY PieceFacts DEF Filled
  <2>2. deciding = covering
    BY <2>1
  <2>3. MapBlock(s, l) = IF deciding = {} THEN Hole
                         ELSE IF s[Min(deciding)].count = 0 THEN MapFails
                         ELSE Target(s[Min(deciding)], l)
    BY DEF MapBlock
  <2> HIDE DEF covering, deciding
  <2> QED
    BY <2>1, <2>2, <2>3
<1>3. ASSUME covering # {} PROVE Min(covering) \in covering
  <2>1. covering \subseteq Nat
    OBVIOUS
  <2> HIDE DEF covering
  <2>2. \E x \in covering : \A y \in covering : x <= y
    BY <1>3, <2>1, LeastOf
  <2> QED
    BY <2>2 DEF Min
<1> DEFINE k == Min(covering)
<1>4. ASSUME covering # {}
      PROVE  k \in 1 .. Len(s) /\ Covers(s[k], l) /\ MapBlock(s, l) = Target(s[k], l)
  <2>1. k \in covering
    BY <1>3, <1>4
  <2> HIDE DEF k
  <2>2. k \in 1 .. Len(s) /\ Covers(s[k], l)
    BY <2>1
  <2> QED
    BY <1>2, <1>4, <2>2 DEF k
<1> HIDE DEF covering, k
<1>5. Covered(s, l) => Maps(s, Len(s), l, MapBlock(s, l))
  BY <1>1, <1>4 DEF Maps
<1>6. ASSUME Once(s, l), NEW x, Maps(s, Len(s), l, x) PROVE x = MapBlock(s, l)
  <2>1. PICK i \in 1 .. Len(s) : Covers(s[i], l) /\ Target(s[i], l) = x
    BY <1>6 DEF Maps
  <2>2. covering # {}
    BY <1>1, <2>1 DEF Covered
  <2>3. i = k
    BY <1>4, <1>6, <2>1, <2>2 DEF Once
  <2> QED
    BY <1>4, <2>1, <2>2, <2>3
<1> QED
  BY <1>1, <1>2, <1>5, <1>6

\* In a canonical list no block is covered twice.
LEMMA CanonicalOnce ==
  ASSUME NEW q \in Seq(Piece), Follow(q, Len(q)), NEW l \in Nat
  PROVE  Once(q, l)
<1> SUFFICES ASSUME NEW i \in 1 .. Len(q), NEW j \in 1 .. Len(q), i < j,
                    Covers(q[i], l), Covers(q[j], l)
             PROVE  FALSE
  <2>1. \A i, j \in 1 .. Len(q) : i = j \/ i < j \/ j < i
    OBVIOUS
  <2> QED
    BY <2>1 DEF Once
<1>1. i \in 1 .. j - 1
  OBVIOUS
<1>2. LogicalEnd(q[i]) <= q[j].logical
  BY <1>1 DEF Follow
<1>3. /\ LogicalEnd(q[i]) \in Nat /\ q[j].logical \in Nat
      /\ l < LogicalEnd(q[i]) /\ l >= q[j].logical
  BY PieceFacts DEF Covers
<1> QED
  BY <1>2, <1>3

\* Neither in an input without overlaps.
LEMMA InputOnce ==
  ASSUME NEW s \in Seq(Extent), ~Overlap(s), NEW l \in Nat
  PROVE  Once(s, l)
<1> SUFFICES ASSUME NEW i \in 1 .. Len(s), NEW j \in 1 .. Len(s), i # j,
                    Covers(s[i], l), Covers(s[j], l)
             PROVE  FALSE
  BY DEF Once
<1>1. s[i] \in Extent
  OBVIOUS
<1>2. l \in Logical
  BY <1>1, CoveredIsLogical
<1> QED
  BY <1>2 DEF Overlap

\* Two lists that cover nothing twice and map the same mean the same.
LEMMA SameMap ==
  ASSUME NEW q \in Seq(Piece), NEW s \in Seq(Piece), NEW l, Once(q, l), Once(s, l),
         Filled(q), Filled(s),
         \A x : Maps(q, Len(q), l, x) <=> Maps(s, Len(s), l, x)
  PROVE  MapBlock(q, l) = MapBlock(s, l) /\ (Covered(q, l) <=> Covered(s, l))
<1>1. ASSUME NEW a \in Seq(Piece) PROVE Covered(a, l) <=> \E x : Maps(a, Len(a), l, x)
  BY DEF Covered, Maps
<1>2. Covered(q, l) <=> Covered(s, l)
  BY <1>1
<1>3. CASE Covered(q, l)
  <2>1. Maps(q, Len(q), l, MapBlock(q, l))
    BY <1>3, MapBlockFacts
  <2>2. Maps(s, Len(s), l, MapBlock(q, l))
    BY <2>1
  <2>3. \A x : Maps(s, Len(s), l, x) => x = MapBlock(s, l)
    BY MapBlockFacts
  <2> QED
    BY <1>2, <1>3, <2>2, <2>3
<1>4. CASE ~Covered(q, l)
  BY <1>2, <1>4, MapBlockFacts
<1> QED
  BY <1>2, <1>3, <1>4

LEMMA NormalizeKeepsMap ==
  ASSUME NEW s \in Seq(Extent), Normalize(s).ok, NEW l \in Nat
  PROVE  LET q == Normalize(s).list IN
         MapBlock(q, l) = MapBlock(s, l) /\ (Covered(q, l) <=> Covered(s, l))
<1> DEFINE q == Normalize(s).list
<1>1. /\ q \in Seq(Piece) /\ Canonical(q) /\ ~Overlap(s)
      /\ \A x : Maps(q, Len(q), l, x) <=> Maps(s, Len(s), l, x)
  BY NormalizeFacts
<1>2. s \in Seq(Piece)
  BY SortedIsPieces
<1> HIDE DEF q
<1>3. Once(q, l) /\ Once(s, l)
  BY <1>1, CanonicalOnce, InputOnce DEF Canonical
<1>4. WellFormed(s)
  BY NormalizeFacts
<1>5. Filled(q) /\ Filled(s)
  BY <1>1, <1>4 DEF Filled, Canonical, Follow, Fine, WellFormed
<1>6. MapBlock(q, l) = MapBlock(s, l) /\ (Covered(q, l) <=> Covered(s, l))
  BY <1>1, <1>2, <1>3, <1>5, SameMap
<1> QED
  BY <1>6 DEF q

-----------------------------------------------------------------------------
(* Runs. *)

\* In a canonical list the extent that covers a block decides where it is.
LEMMA CanonicalValue ==
  ASSUME NEW q \in Seq(Piece), Follow(q, Len(q)), NEW k \in 1 .. Len(q), NEW l \in Nat,
         Covers(q[k], l)
  PROVE  MapBlock(q, l) = IF q[k].sparse THEN Sparse ELSE q[k].physical + (l - q[k].logical)
<1>1. Maps(q, Len(q), l, Target(q[k], l))
  BY DEF Maps
<1>2. Once(q, l) /\ Filled(q)
  BY CanonicalOnce DEF Filled, Follow, Fine
<1>3. MapBlock(q, l) = Target(q[k], l)
  BY <1>1, <1>2, MapBlockFacts
<1>4. Fine(q[k]) /\ q[k] \in Piece
  BY DEF Follow
<1>5. /\ q[k].logical \in Nat /\ q[k].physical \in Nat /\ q[k].count \in Nat
      /\ l < q[k].logical + q[k].count
      /\ q[k].sparse \/ q[k].physical + q[k].count <= DeviceBlocks
      /\ DeviceBlocks \in Nat
  BY <1>4, PieceFacts, ExtentsAssumption DEF Covers, Fine, InDevice
<1> QED
  BY <1>3, <1>5 DEF Target

\* Its extents start where the maximal runs of what it means start.
LEMMA StartsOfCanonical ==
  ASSUME NEW q \in Seq(Piece), Canonical(q),
         \A l \in Nat : Covered(q, l) => l \in Logical
  PROVE  RunStarts(Meaning(q)) = {q[k].logical : k \in 1 .. Len(q)}
<1> DEFINE m == Meaning(q)
<1>1. /\ DOMAIN m = Logical /\ Logical \subseteq Nat
      /\ \A l \in Logical : m[l] = MapBlock(q, l) /\ l \in Nat
      /\ \A l \in Logical : l # 0 => l - 1 \in Logical
      /\ \A l \in Logical : l - 1 \in Logical => l - 1 \in Nat
  BY ExtentsAssumption DEF Meaning, Logical
<1>2. /\ Follow(q, Len(q))
      /\ \A k \in 1 .. Len(q) - 1 : ~Adjacent(q[k], q[k + 1])
  BY DEF Canonical
<1>3. \A k \in 1 .. Len(q) :
        /\ q[k] \in Piece /\ Fine(q[k]) /\ q[k].count > 0
        /\ q[k].logical \in Nat /\ q[k].physical \in Nat /\ q[k].count \in Nat
        /\ q[k].sparse \in BOOLEAN
        /\ LogicalEnd(q[k]) = q[k].logical + q[k].count
        /\ PhysicalEnd(q[k]) = q[k].physical + q[k].count
  BY <1>2, PieceFacts DEF Follow, Fine
<1>4. \A k, l : k \in 1 .. Len(q) /\ l \in Nat /\ Covers(q[k], l) =>
        /\ l \in Logical
        /\ m[l] = IF q[k].sparse THEN Sparse ELSE q[k].physical + (l - q[k].logical)
  BY <1>1, <1>2, CanonicalValue DEF Covered
<1>5. \A l \in Logical : m[l] # Hole => \E k \in 1 .. Len(q) : Covers(q[k], l)
  BY <1>1, <1>3, MapBlockFacts DEF Covered, Filled
<1>6. \A i, j \in 1 .. Len(q) : i < j => LogicalEnd(q[i]) <= q[j].logical
  BY <1>2 DEF Follow
<1> HIDE DEF m
<1>7. ASSUME NEW k \in 1 .. Len(q)
      PROVE  q[k].logical \in RunStarts(m)
  <2> DEFINE l == q[k].logical
  <2>0. /\ l \in Nat /\ q[k].physical \in Nat /\ q[k].sparse \in BOOLEAN
        /\ LogicalEnd(q[k]) \in Nat /\ l < LogicalEnd(q[k])
    BY <1>3
  <2>1. l \in Nat /\ Covers(q[k], l)
    BY <1>3 DEF Covers
  <2>2. /\ l \in Logical
        /\ m[l] = IF q[k].sparse THEN Sparse ELSE q[k].physical
    <3>1. /\ l \in Logical
          /\ m[l] = IF q[k].sparse THEN Sparse ELSE q[k].physical + (l - q[k].logical)
      BY <1>4, <2>1
    <3>2. q[k].physical + (l - q[k].logical) = q[k].physical
      BY <2>0
    <3> QED
      BY <3>1, <3>2
  <2>3. m[l] # Hole
    BY <1>3, <2>2 DEF Hole, Sparse
  <2>4. ASSUME Continues(m, l) PROVE FALSE
    <3>1. l - 1 \in Logical /\ l - 1 \in Nat /\ m[l - 1] # Hole
      <4> HIDE DEF l
      <4>1. l - 1 \in Logical
        BY <1>1, <2>4 DEF Continues
      <4>2. l - 1 \in Nat
        BY <1>1, <2>2, <4>1
      <4>3. m[l - 1] = Sparse \/ m[l - 1] >= 0
        BY <2>4 DEF Continues
      <4> QED
        BY <4>1, <4>2, <4>3 DEF Hole, Sparse
    <3>2. PICK j \in 1 .. Len(q) : Covers(q[j], l - 1)
      BY <1>5, <3>1
    <3>3. /\ q[j].logical <= l - 1 /\ l - 1 < LogicalEnd(q[j])
          /\ m[l - 1] = IF q[j].sparse THEN Sparse
                        ELSE q[j].physical + ((l - 1) - q[j].logical)
      BY <1>4, <3>1, <3>2 DEF Covers
    <3>0. /\ q[j].logical \in Nat /\ q[j].physical \in Nat /\ q[j].sparse \in BOOLEAN
          /\ LogicalEnd(q[j]) \in Nat /\ LogicalEnd(q[j]) = q[j].logical + q[j].count
          /\ PhysicalEnd(q[j]) = q[j].physical + q[j].count /\ q[j].count \in Nat
      BY <1>3
    <3>4. j < k
      <4>1. j # k
        BY <2>0, <3>3
      <4>2. ~(k < j)
        <5> SUFFICES ASSUME k < j PROVE FALSE
          OBVIOUS
        <5>1. LogicalEnd(q[k]) <= q[j].logical
          BY <1>6
        <5> HIDE DEF l
        <5> QED
          BY <2>0, <3>0, <3>3, <5>1
      <4> QED
        BY <4>1, <4>2
    <3>5. LogicalEnd(q[j]) = l
      <4>1. LogicalEnd(q[j]) <= l
        BY <1>6, <3>4
      <4> HIDE DEF l
      <4> QED
        BY <2>0, <3>0, <3>3, <4>1
    <3>6. j = k - 1
      <4>1. CASE j < k - 1
        <5>1. k - 1 \in 1 .. Len(q) /\ k - 1 < k
          BY <3>4
        <5>2. LogicalEnd(q[j]) <= q[k - 1].logical /\ LogicalEnd(q[k - 1]) <= l
          BY <1>6, <4>1, <5>1
        <5>3. LogicalEnd(q[k - 1]) > q[k - 1].logical
              /\ LogicalEnd(q[k - 1]) \in Nat /\ q[k - 1].logical \in Nat
          BY <1>3, <5>1
        <5> QED
          BY <3>5, <2>1, <5>2, <5>3
      <4> QED
        BY <3>4, <4>1
    <3>7. ~Adjacent(q[j], q[k])
      BY <1>2, <3>4, <3>6
    <3>8. \/ m[l] = Sparse /\ m[l - 1] = Sparse
          \/ m[l] >= 0 /\ m[l - 1] >= 0 /\ m[l] = m[l - 1] + 1
      BY <2>4 DEF Continues
    <3>9. q[j].sparse = q[k].sparse
      BY SMTT(40), <1>3, <2>1, <2>2, <3>3, <3>8 DEF Sparse
    <3>10. q[j].sparse \/ q[k].physical = PhysicalEnd(q[j])
      <4> SUFFICES ASSUME ~q[j].sparse PROVE q[k].physical = PhysicalEnd(q[j])
        OBVIOUS
      <4>1. m[l] = q[k].physical /\ m[l - 1] = q[j].physical + ((l - 1) - q[j].logical)
        BY <2>2, <3>3, <3>9
      <4>2. m[l] = m[l - 1] + 1
        BY <1>3, <3>8, <4>1 DEF Sparse
      <4>3. q[k].physical = (q[j].physical + ((l - 1) - q[j].logical)) + 1
        BY <4>1, <4>2
      <4>4. q[j].logical + q[j].count = l
        BY <3>0, <3>5
      <4> HIDE DEF l
      <4>5. q[k].physical = q[j].physical + q[j].count
        <5> DEFINE x == q[k].physical
                   b == q[j].physical
                   c == q[j].logical
                   r == q[j].count
        <5>1. x \in Nat /\ b \in Nat /\ c \in Nat /\ r \in Nat /\ l \in Nat
          BY <2>0, <3>0
        <5>2. x = (b + ((l - 1) - c)) + 1 /\ c + r = l
          BY <4>3, <4>4
        <5> HIDE DEF x, b, c, r
        <5>3. x = b + r
          BY <5>1, <5>2
        <5> QED
          BY <5>3 DEF x, b, r
      <4> QED
        BY <3>0, <4>5
    <3> QED
      BY <3>5, <3>7, <3>9, <3>10 DEF Adjacent
  <2> QED
    BY <1>1, <2>2, <2>3, <2>4 DEF RunStarts, m
<1>8. ASSUME NEW l \in RunStarts(m)
      PROVE  \E k \in 1 .. Len(q) : l = q[k].logical
  <2>1. l \in Logical /\ l \in Nat /\ m[l] # Hole /\ ~Continues(m, l)
    BY <1>1 DEF RunStarts
  <2>2. PICK k \in 1 .. Len(q) : Covers(q[k], l)
    BY <1>5, <2>1
  <2>3. ASSUME l # q[k].logical PROVE FALSE
    <3>0. q[k].logical \in Nat /\ q[k].logical <= l /\ l < LogicalEnd(q[k])
          /\ LogicalEnd(q[k]) \in Nat
      BY <1>3, <2>2 DEF Covers
    <3>1. l - 1 \in Nat /\ l # 0 /\ Covers(q[k], l - 1)
      <4>1. l - 1 \in Nat /\ l # 0
        BY <2>1, <2>3, <3>0
      <4>2. q[k].logical <= l - 1 /\ l - 1 < LogicalEnd(q[k])
        BY <2>1, <2>3, <3>0
      <4> QED
        BY <4>1, <4>2 DEF Covers
    <3>2. /\ l - 1 \in Logical
          /\ m[l] = IF q[k].sparse THEN Sparse ELSE q[k].physical + (l - q[k].logical)
          /\ m[l - 1] = IF q[k].sparse THEN Sparse
                        ELSE q[k].physical + ((l - 1) - q[k].logical)
      BY <1>4, <2>1, <2>2, <3>1
    <3>3. q[k].logical <= l - 1
      BY <3>1 DEF Covers
    <3>4. CASE q[k].sparse
      BY <1>1, <2>1, <3>2, <3>4 DEF Continues
    <3>5. CASE ~q[k].sparse
      <4>0. q[k].logical \in Nat /\ q[k].physical \in Nat
        BY <1>3
      <4>1. m[l] >= 0 /\ m[l - 1] >= 0 /\ m[l] = m[l - 1] + 1
        <5>1. /\ m[l] = q[k].physical + (l - q[k].logical)
              /\ m[l - 1] = q[k].physical + ((l - 1) - q[k].logical)
          BY <3>2, <3>5
        <5>2. l \in Nat /\ q[k].logical <= l - 1
          BY <2>1, <3>3
        <5> QED
          BY SMTT(40), <4>0, <5>1, <5>2
      <4> QED
        BY <1>1, <2>1, <3>2, <4>1 DEF Continues
    <3> QED
      BY <3>4, <3>5
  <2> QED
    BY <2>3
<1> QED
  BY <1>7, <1>8 DEF m

\* As many as it has extents.
LEMMA StartsCounted ==
  ASSUME NEW q \in Seq(Piece), Canonical(q)
  PROVE  Cardinality({q[k].logical : k \in 1 .. Len(q)}) = Len(q)
<1> DEFINE n == Len(q)
           T == {q[k].logical : k \in 1 .. Len(q)}
           f == [k \in 1 .. n |-> q[k].logical]
<1>1. \A k \in 1 .. n : q[k].logical \in Nat /\ LogicalEnd(q[k]) > q[k].logical
                        /\ LogicalEnd(q[k]) \in Nat
  BY SMTT(40), PieceFacts DEF Canonical, Follow, Fine
<1>2. \A i, j \in 1 .. n : i < j => LogicalEnd(q[i]) <= q[j].logical
  BY DEF Canonical, Follow
<1>3. \A i, j \in 1 .. n : q[i].logical = q[j].logical => i = j
  <2>1. ASSUME NEW i \in 1 .. n, NEW j \in 1 .. n, i < j PROVE q[i].logical # q[j].logical
    BY <1>1, <1>2, <2>1
  <2>2. \A i, j \in 1 .. n : i = j \/ i < j \/ j < i
    OBVIOUS
  <2> QED
    BY <2>1, <2>2
<1>4. f \in Bijection(1 .. n, T)
  <2>1. f \in [1 .. n -> T]
    OBVIOUS
  <2>2. \A i, j \in 1 .. n : f[i] = f[j] => i = j
    BY <1>3
  <2>3. \A t \in T : \E k \in 1 .. n : f[k] = t
    OBVIOUS
  <2> HIDE DEF f, T
  <2> QED
    BY <2>1, <2>2, <2>3, Fun_IsBij
<1>5. ExistsBijection(1 .. n, T)
  BY <1>4 DEF ExistsBijection
<1>6. n \in Nat /\ IsFiniteSet(1 .. n) /\ Cardinality(1 .. n) = n
  <2>1. n \in Nat /\ 1 \in Int /\ n \in Int
    OBVIOUS
  <2> HIDE DEF n
  <2>2. IsFiniteSet(1 .. n) /\ Cardinality(1 .. n) = IF 1 > n THEN 0 ELSE n - 1 + 1
    BY <2>1, FS_Interval
  <2> QED
    BY <2>1, <2>2
<1> HIDE DEF T
<1>7. Cardinality(T) = n
  BY <1>5, <1>6, FS_Bijection
<1> QED
  BY <1>7 DEF T

-----------------------------------------------------------------------------
(* What a list that grows one extent at a time shows. *)

LEMMA NormalizeIsRight ==
  ASSUME list \in Seq(Extent)
  PROVE  NormalizeMeans
<1> DEFINE n == Normalize(list)
           q == Normalize(list).list
<1>1. NormalizeFails
  BY NormalizeFacts DEF NormalizeFails
<1>2. ASSUME n.ok
      PROVE  /\ Meaning(q) = Meaning(list)
             /\ Len(q) = Cardinality(RunStarts(Meaning(list)))
             /\ \A i \in 1 .. Len(q) - 1 : LogicalEnd(q[i]) <= q[i + 1].logical
  <2>1. q \in Seq(Piece) /\ Canonical(q)
    BY <1>2, NormalizeFacts
  <2>2. \A l \in Nat : MapBlock(q, l) = MapBlock(list, l)
                       /\ (Covered(q, l) <=> Covered(list, l))
    BY <1>2, NormalizeKeepsMap
  <2>3. \A l \in Nat : Covered(list, l) => l \in Logical
    <3> SUFFICES ASSUME NEW l \in Nat, NEW i \in 1 .. Len(list), Covers(list[i], l)
                 PROVE  l \in Logical
      BY DEF Covered
    <3>1. list[i] \in Extent
      OBVIOUS
    <3> QED
      BY <3>1, CoveredIsLogical
  <2> HIDE DEF q
  <2>4. Meaning(q) = Meaning(list)
    BY <2>2 DEF Meaning, Logical
  <2>5. RunStarts(Meaning(q)) = {q[k].logical : k \in 1 .. Len(q)}
    BY <2>1, <2>2, <2>3, StartsOfCanonical
  <2>6. Len(q) = Cardinality(RunStarts(Meaning(list)))
    BY <2>1, <2>4, <2>5, StartsCounted
  <2>7. \A i \in 1 .. Len(q) - 1 : LogicalEnd(q[i]) <= q[i + 1].logical
    <3> SUFFICES ASSUME NEW i \in 1 .. Len(q) - 1
                 PROVE  LogicalEnd(q[i]) <= q[i + 1].logical
      OBVIOUS
    <3>1. i + 1 \in 1 .. Len(q) /\ i \in 1 .. (i + 1) - 1
      BY <2>1
    <3> QED
      BY <2>1, <3>1 DEF Canonical, Follow
  <2> QED
    BY <2>4, <2>6, <2>7
<1> QED
  BY <1>1, <1>2 DEF NormalizeMeans

\* In a list without overlaps and outliers the blocks of the extents are those
\* that the list maps something to.
LEMMA BlocksAreMeant ==
  ASSUME NEW s \in Seq(Extent), WellFormed(s), ~Overlap(s)
  PROVE  /\ PhysicalBlocks(s) = {Meaning(s)[l] : l \in Logical} \cap Nat
         /\ \A l \in Logical : Meaning(s)[l] # MapFails
<1> DEFINE m == Meaning(s)
<1>1. /\ Logical \subseteq Nat
      /\ \A l \in Logical : m[l] = MapBlock(s, l)
  BY ExtentsAssumption DEF Meaning, Logical
<1>2. s \in Seq(Piece) /\ Filled(s)
  BY SortedIsPieces DEF Filled, WellFormed
<1>3. \A k \in 1 .. Len(s) :
        /\ s[k] \in Extent
        /\ s[k].logical \in Nat /\ s[k].physical \in Nat /\ s[k].count \in Nat
        /\ s[k].sparse \in BOOLEAN
        /\ LogicalEnd(s[k]) = s[k].logical + s[k].count
        /\ PhysicalEnd(s[k]) = s[k].physical + s[k].count
        /\ s[k].sparse \/ PhysicalEnd(s[k]) <= DeviceBlocks
  BY <1>2, PieceFacts DEF WellFormed, InDevice
<1>4. ASSUME NEW k \in 1 .. Len(s), NEW l \in Nat, Covers(s[k], l)
      PROVE  /\ l \in Logical
             /\ m[l] = IF s[k].sparse THEN Sparse ELSE s[k].physical + (l - s[k].logical)
  <2>1. l \in Logical
    BY <1>3, <1>4, CoveredIsLogical
  <2>2. Maps(s, Len(s), l, Target(s[k], l))
    BY <1>4 DEF Maps
  <2>3. m[l] = Target(s[k], l)
    BY <1>1, <1>2, <2>1, <2>2, InputOnce, MapBlockFacts
  <2>4. DeviceBlocks \in Nat /\ l >= s[k].logical /\ l < s[k].logical + s[k].count
    BY <1>3, <1>4, ExtentsAssumption DEF Covers
  <2> QED
    BY SMTT(40), <1>3, <2>1, <2>3, <2>4 DEF Target
<1>5. \A l \in Logical : m[l] # Hole => \E k \in 1 .. Len(s) : Covers(s[k], l)
  BY <1>1, <1>2, MapBlockFacts DEF Covered
<1> HIDE DEF m
<1>6. ASSUME NEW b, b \in PhysicalBlocks(s)
      PROVE  b \in Nat /\ \E l \in Logical : m[l] = b
  <2>1. PICK k \in 1 .. Len(s) : b \in BlocksOf(s[k])
    BY <1>6 DEF PhysicalBlocks
  <2>2. ~s[k].sparse /\ b \in s[k].physical .. PhysicalEnd(s[k]) - 1
    BY <2>1 DEF BlocksOf
  <2> DEFINE l == s[k].logical + (b - s[k].physical)
  <2>0. /\ s[k].logical \in Nat /\ s[k].physical \in Nat /\ s[k].count \in Nat
        /\ LogicalEnd(s[k]) = s[k].logical + s[k].count
        /\ PhysicalEnd(s[k]) = s[k].physical + s[k].count
    BY <1>3
  <2>3. b \in Nat /\ l \in Nat /\ Covers(s[k], l)
        /\ s[k].physical + (l - s[k].logical) = b
    BY SMTT(40), <2>0, <2>2 DEF Covers
  <2> HIDE DEF l
  <2> QED
    BY <1>4, <2>2, <2>3
<1>7. ASSUME NEW l \in Logical, m[l] \in Nat
      PROVE  m[l] \in PhysicalBlocks(s)
  <2>1. PICK k \in 1 .. Len(s) : Covers(s[k], l)
    BY <1>5, <1>7 DEF Hole
  <2>2. l \in Nat
    BY <1>1
  <2>3. ~s[k].sparse /\ m[l] = s[k].physical + (l - s[k].logical)
    BY <1>4, <1>7, <2>1, <2>2 DEF Sparse
  <2>4. l >= s[k].logical /\ l < s[k].logical + s[k].count
    BY <1>3, <2>1 DEF Covers
  <2>0. /\ s[k].logical \in Nat /\ s[k].physical \in Nat /\ s[k].count \in Nat
        /\ PhysicalEnd(s[k]) = s[k].physical + s[k].count
    BY <1>3
  <2>5. m[l] \in BlocksOf(s[k])
    BY <2>0, <2>2, <2>3, <2>4 DEF BlocksOf
  <2> QED
    BY <2>5 DEF PhysicalBlocks
<1>8. ASSUME NEW l \in Logical PROVE m[l] # MapFails
  <2>1. CASE m[l] = Hole
    BY <2>1 DEF Hole, MapFails
  <2>2. CASE m[l] # Hole
    <3>1. PICK k \in 1 .. Len(s) : Covers(s[k], l)
      BY <1>5, <2>2
    <3>2. l \in Nat /\ l >= s[k].logical
      BY <1>1, <3>1 DEF Covers
    <3>3. m[l] = IF s[k].sparse THEN Sparse ELSE s[k].physical + (l - s[k].logical)
      BY <1>4, <3>1, <3>2
    <3> QED
      BY <1>3, <3>2, <3>3 DEF Sparse, MapFails
  <2> QED
    BY <2>1, <2>2
<1>9. PhysicalBlocks(s) = {m[l] : l \in Logical} \cap Nat
  BY <1>6, <1>7
<1> QED
  BY <1>8, <1>9 DEF m

LEMMA VerifyIsRight ==
  ASSUME list \in Seq(Extent)
  PROVE  VerifyMeansCanonical
<1> DEFINE m == Meaning(list)
           allocated == PhysicalBlockCount(list)
<1> SUFFICES ASSUME Verify(list, 0, allocated)
             PROVE  /\ Len(list) = Cardinality(RunStarts(m))
                    /\ NoBlockTwice(list) <=>
                         allocated = Cardinality({m[l] : l \in Logical} \cap Nat)
                    /\ \A l \in Logical : m[l] # MapFails
  BY DEF VerifyMeansCanonical
<1>1. Normalize(list).ok /\ Len(Normalize(list).list) = Len(list)
  BY DEF Verify
<1>2. WellFormed(list) /\ ~Overlap(list)
  BY <1>1, NormalizeFacts
<1>3. Len(list) = Cardinality(RunStarts(m))
  BY <1>1, NormalizeIsRight DEF NormalizeMeans
<1>4. /\ PhysicalBlocks(list) = {m[l] : l \in Logical} \cap Nat
      /\ \A l \in Logical : m[l] # MapFails
  BY <1>2, BlocksAreMeant
<1> QED
  BY <1>3, <1>4 DEF NoBlockTwice

LEMMA Listed == Spec => [](list \in Seq(Extent))
<1>1. Init => list \in Seq(Extent)
  BY DEF Init
<1>2. list \in Seq(Extent) /\ [Next]_list => (list \in Seq(Extent))'
  BY DEF Next
<1> QED
  BY <1>1, <1>2, PTL DEF Spec

\* normalize() fails exactly on a list that is too long, has an empty or an
\* outlying extent or covers a block twice.  When it succeeds the file reads as
\* before, whatever order std::sort gave to extents that start at one block, and
\* the extents are the maximal runs of the file, in order.
THEOREM NormalizeKeepsMeaning == Spec => []NormalizeMeans
<1>1. list \in Seq(Extent) => NormalizeMeans
  BY NormalizeIsRight
<1> QED
  BY <1>1, Listed, PTL

\* A list that verify() accepts has one extent per maximal run, maps nothing
\* outside the device, and holds the blocks of allocated_bytes unless a block is
\* in it twice, which is what physical_blocks() looks for.
THEOREM VerifiedIsCanonical == Spec => []VerifyMeansCanonical
<1>1. list \in Seq(Extent) => VerifyMeansCanonical
  BY VerifyIsRight
<1> QED
  BY <1>1, Listed, PTL

-----------------------------------------------------------------------------
(* What attributes take. *)

AttributeType == [name : Seq(Nat), value : Seq(Nat)]

Sizes(q) == [k \in 1 .. Len(q) |-> Len(q[k].name) + Len(q[k].value)]

LEMMA SizesType ==
  ASSUME NEW q \in Seq(AttributeType)
  PROVE  /\ Sizes(q) \in Seq(Nat) /\ Len(Sizes(q)) = Len(q)
         /\ \A k \in 1 .. Len(q) : /\ q[k] \in AttributeType
                                    /\ Len(q[k].name) \in Nat /\ Len(q[k].value) \in Nat
                                    /\ Sizes(q)[k] = Len(q[k].name) + Len(q[k].value)
<1>1. ASSUME NEW k \in 1 .. Len(q)
      PROVE  /\ q[k] \in AttributeType
             /\ Len(q[k].name) \in Nat /\ Len(q[k].value) \in Nat
  <2>1. q[k] \in AttributeType
    OBVIOUS
  <2>2. q[k].name \in Seq(Nat) /\ q[k].value \in Seq(Nat)
    BY <2>1 DEF AttributeType
  <2> QED
    BY <2>1, <2>2
<1>2. ASSUME NEW k \in 1 .. Len(q)
      PROVE  Len(q[k].name) + Len(q[k].value) \in Nat
  <2> DEFINE x == Len(q[k].name)
             y == Len(q[k].value)
  <2>1. x \in Nat /\ y \in Nat
    BY <1>1
  <2> HIDE DEF x, y
  <2>2. x + y \in Nat
    BY <2>1
  <2> QED
    BY <2>2 DEF x, y
<1>3. Sizes(q) \in Seq(Nat) /\ Len(Sizes(q)) = Len(q)
  <2> DEFINE N == Len(q)
  <2>1. N \in Nat
    OBVIOUS
  <2>2. Sizes(q) \in [1 .. N -> Nat]
    BY <1>2 DEF Sizes
  <2> HIDE DEF N
  <2>3. Sizes(q) \in Seq(Nat) /\ Len(Sizes(q)) = N
    BY <2>1, <2>2
  <2> QED
    BY <2>3 DEF N
<1> QED
  BY <1>1, <1>3 DEF Sizes

\* The bytes of the first attributes add up.
LEMMA BytesUpto ==
  ASSUME NEW q \in Seq(AttributeType), NEW k \in 0 .. Len(q)
  PROVE  /\ AttributeBytes(SubSeq(q, 1, k)) = Totals(Sizes(q))[k]
         /\ AttributeBytes(SubSeq(q, 1, k)) \in Nat
<1> DEFINE p == SubSeq(q, 1, k)
           b == Sizes(p)
           c == Sizes(q)
           Adds(f) == f = [n \in 0 .. Len(p) |->
                             IF n = 0 THEN 0
                             ELSE f[n - 1] + (Len(p[n].name) + Len(p[n].value))]
           f == CHOOSE g : Adds(g)
<1>1. /\ p \in Seq(AttributeType) /\ Len(p) = k /\ k \in Nat /\ k <= Len(q)
      /\ \A n \in 1 .. k : p[n] = q[n] /\ n \in 1 .. Len(q)
  <2> DEFINE T == AttributeType
  <2> HIDE DEF T
  <2>1. SubSeq(q, 1, k) \in Seq(T) /\ Len(SubSeq(q, 1, k)) = k
        /\ \A n \in 1 .. k : SubSeq(q, 1, k)[n] = q[n]
    BY DEF T
  <2> QED
    BY <2>1 DEF T
<1> HIDE DEF p
<1>2. /\ b \in Seq(Nat) /\ Len(b) = k /\ c \in Seq(Nat) /\ Len(c) = Len(q)
      /\ \A n \in 1 .. k : b[n] = Len(p[n].name) + Len(p[n].value) /\ b[n] = c[n]
  BY <1>1, SizesType
<1> HIDE DEF b, c
<1>3. \A n \in 0 .. k : n # 0 => n \in 1 .. k
  BY <1>1
<1>4. Adds(Totals(b))
  <2>1. Totals(b) \in [0 .. k -> Nat] /\ Totalling(Totals(b), b)
    BY <1>2, TotalsDefined
  <2>2. \A n \in 0 .. k : Totals(b)[n] = IF n = 0 THEN 0
                            ELSE Totals(b)[n - 1] + (Len(p[n].name) + Len(p[n].value))
    BY <1>2, <1>3, <2>1 DEF Totalling
  <2> QED
    BY <1>1, <2>1, <2>2
<1>5. Adds(f)
  BY <1>4
<1>6. AttributeBytes(p) = f[k]
  BY <1>1 DEF AttributeBytes
<1> HIDE DEF f
<1>7. Totalling(f, b)
  <2>1. \A n \in 1 .. k : n \in 0 .. k /\ n # 0
    BY <1>1
  <2>2. 0 \in 0 .. k
    BY <1>1
  <2> QED
    BY <1>1, <1>2, <1>5, <2>1, <2>2 DEF Totalling
<1>8. f[k] = Totals(c)[k]
  <2>1. Len(b) <= Len(c) /\ \A n \in 1 .. Len(b) : b[n] = c[n]
    BY <1>1, <1>2
  <2>2. f[Len(b)] = Totals(c)[Len(b)]
    BY <1>2, <1>7, <2>1, TotalsUnique
  <2> QED
    BY <1>2, <2>2
<1>9. Totals(c)[k] \in Nat
  BY <1>2, TotalsDefined
<1> QED
  BY <1>6, <1>8, <1>9 DEF p, c

LEMMA BytesFacts ==
  ASSUME NEW q \in Seq(AttributeType)
  PROVE  /\ AttributeBytes(q) \in Nat
         /\ \A k \in 0 .. Len(q) : AttributeBytes(SubSeq(q, 1, k)) <= AttributeBytes(q)
         /\ \A k \in 1 .. Len(q) : /\ Len(q[k].name) <= AttributeBytes(q)
                                    /\ Len(q[k].value) <= AttributeBytes(q)
<1> DEFINE c == Sizes(q)
           N == Len(q)
           A == AttributeBytes(q)
<1>1. N \in Nat /\ N \in 0 .. N /\ SubSeq(q, 1, N) = q
  BY SubSeqFull
<1>2. A = Totals(c)[N] /\ A \in Nat
  BY <1>1, BytesUpto
<1>3. c \in Seq(Nat) /\ Len(c) = N
  BY SizesType
<1>4. \A k \in 0 .. N : AttributeBytes(SubSeq(q, 1, k)) <= A
  BY <1>2, <1>3, BytesUpto, TotalsBound
<1>5. ASSUME NEW k \in 1 .. N PROVE Len(q[k].name) <= A /\ Len(q[k].value) <= A
  <2>1. /\ c[k] = Len(q[k].name) + Len(q[k].value) /\ c[k] <= A
        /\ Len(q[k].name) \in Nat /\ Len(q[k].value) \in Nat
    BY <1>2, <1>3, SizesType, TotalsBound
  <2> DEFINE x == Len(q[k].name)
             y == Len(q[k].value)
             z == c[k]
  <2>2. z = x + y /\ z <= A /\ x \in Nat /\ y \in Nat /\ A \in Nat
    BY <1>2, <2>1
  <2> HIDE DEF x, y, z, A
  <2>3. x <= A /\ y <= A
    BY <2>2
  <2> QED
    BY <2>3 DEF x, y
<1> QED
  BY <1>2, <1>4, <1>5

-----------------------------------------------------------------------------
(* Strings and attributes. *)

LEMMA StringEncoded ==
  ASSUME NEW t \in Seq(Nat)
  PROVE  /\ EncodedString(t) \in Seq(Nat) /\ Len(EncodedString(t)) = 1 + Len(t)
         /\ Len(t) \in Nat
<1> DEFINE h == <<Len(t)>>
<1>1. h \in Seq(Nat) /\ Len(h) = 1
  OBVIOUS
<1> HIDE DEF h
<1>2. h \o t \in Seq(Nat) /\ Len(h \o t) = Len(h) + Len(t) /\ Len(t) \in Nat
  BY <1>1, ConcatFacts DEF IsConcat
<1> QED
  BY <1>1, <1>2 DEF EncodedString, h

\* What a string at a position is.
LEMMA StringHeld ==
  ASSUME NEW s \in Seq(Nat), NEW at \in Nat, NEW t \in Seq(Nat)
  PROVE  Holds(s, at, EncodedString(t)) <=>
           /\ at + 1 <= Len(s) /\ s[at + 1] = Len(t)
           /\ (at + 1) + Len(t) <= Len(s) /\ Slice(s, at + 1, Len(t)) = t
<1> DEFINE n == Len(t)
           h == <<n>>
           a == at + 1
<1>1. n \in Nat /\ h \in Seq(Nat) /\ Len(h) = 1 /\ a \in Nat
  OBVIOUS
<1>2. Holds(s, at, h) <=> a <= Len(s) /\ s[a] = n
  <2> HIDE DEF n
  <2> QED
    BY <1>1, HoldsOne
<1> HIDE DEF h, n
<1>3. Holds(s, at, h \o t) <=> Holds(s, at, h) /\ Holds(s, at + Len(h), t)
  BY <1>1, HoldsConcat
<1>4. at + Len(h) = a
  BY <1>1
<1> HIDE DEF a
<1>5. Holds(s, a, t) <=> a + n <= Len(s) /\ Slice(s, a, n) = t
  BY <1>1, HoldsSlice DEF n
<1> QED
  BY <1>2, <1>3, <1>4, <1>5 DEF EncodedString, a, h, n

LEMMA StringRead ==
  ASSUME NEW s \in Seq(Nat), NEW at \in Nat, NEW b \in Nat, StringFits(s, at, b)
  PROVE  /\ StringAt(s, at) \in Seq(Nat) /\ Len(StringAt(s, at)) <= b
         /\ Holds(s, at, EncodedString(StringAt(s, at)))
<1> DEFINE a == at + 1
           n == s[a]
           t == Slice(s, a, n)
           S == Nat
<1>1. a <= Len(s) /\ n <= b /\ a + n <= Len(s)
  BY DEF StringFits, Readable
<1>2. a \in 1 .. Len(s) /\ a \in Nat /\ n \in Nat
  BY <1>1
<1> HIDE DEF a, n
<1>3. t \in Seq(S) /\ Len(t) = n
  <2> HIDE DEF S
  <2>1. s \in Seq(S)
    BY DEF S
  <2> QED
    BY <1>1, <1>2, <2>1, SliceFacts
<1> HIDE DEF t
<1>4. StringAt(s, at) = t
  BY DEF StringAt, t, n, a
<1>5. Holds(s, at, EncodedString(t))
  BY <1>1, <1>3, StringHeld DEF a, n, t
<1> QED
  BY <1>1, <1>3, <1>4, <1>5

LEMMA StringFound ==
  ASSUME NEW s \in Seq(Nat), NEW at \in Nat, NEW t \in Seq(Nat), NEW b \in Nat,
         Holds(s, at, EncodedString(t)), Len(t) <= b
  PROVE  StringFits(s, at, b) /\ StringAt(s, at) = t
BY StringHeld DEF StringFits, StringAt, Readable

LEMMA AttributeEncoded ==
  ASSUME NEW a \in AttributeType
  PROVE  /\ EncodedAttribute(a) \in Seq(Nat)
         /\ Len(EncodedAttribute(a)) = (1 + Len(a.name)) + (1 + Len(a.value))
         /\ a.name \in Seq(Nat) /\ a.value \in Seq(Nat)
         /\ Len(a.name) \in Nat /\ Len(a.value) \in Nat
<1>1. a.name \in Seq(Nat) /\ a.value \in Seq(Nat)
  BY DEF AttributeType
<1> DEFINE x == EncodedString(a.name)
           y == EncodedString(a.value)
<1>2. /\ x \in Seq(Nat) /\ Len(x) = 1 + Len(a.name)
      /\ y \in Seq(Nat) /\ Len(y) = 1 + Len(a.value)
      /\ Len(a.name) \in Nat /\ Len(a.value) \in Nat
  BY <1>1, StringEncoded
<1> HIDE DEF x, y
<1>3. x \o y \in Seq(Nat) /\ Len(x \o y) = Len(x) + Len(y)
  BY <1>2, ConcatFacts DEF IsConcat
<1> QED
  BY <1>1, <1>2, <1>3 DEF EncodedAttribute, x, y

LEMMA AttributeHeld ==
  ASSUME NEW s \in Seq(Nat), NEW at \in Nat, NEW a \in AttributeType
  PROVE  Holds(s, at, EncodedAttribute(a)) <=>
           /\ Holds(s, at, EncodedString(a.name))
           /\ Holds(s, (at + 1) + Len(a.name), EncodedString(a.value))
<1> DEFINE x == EncodedString(a.name)
           y == EncodedString(a.value)
<1>1. a.name \in Seq(Nat) /\ a.value \in Seq(Nat)
  BY AttributeEncoded
<1>2. x \in Seq(Nat) /\ Len(x) = 1 + Len(a.name) /\ y \in Seq(Nat) /\ Len(a.name) \in Nat
  BY <1>1, StringEncoded
<1> HIDE DEF x, y
<1>3. Holds(s, at, x \o y) <=> Holds(s, at, x) /\ Holds(s, at + Len(x), y)
  BY <1>2, HoldsConcat
<1>4. at + Len(x) = (at + 1) + Len(a.name)
  <2> DEFINE n == Len(a.name)
             l == Len(x)
  <2>1. l = 1 + n /\ n \in Nat
    BY <1>2
  <2> HIDE DEF l, n
  <2>2. at + l = (at + 1) + n
    BY <2>1
  <2> QED
    BY <2>2 DEF l, n
<1> QED
  BY <1>3, <1>4 DEF EncodedAttribute, x, y

-----------------------------------------------------------------------------
(* Reading attributes. *)

ReadType == [ok : BOOLEAN, at : Nat, list : Seq(AttributeType)]

\* What is read when an attribute was read.
ReadAfter(read, a) ==
  [ok |-> TRUE, at |-> (((read.at + 1) + Len(a.name)) + 1) + Len(a.value),
   list |-> Append(read.list, a)]

\* It is there, and none of the limits is against it.
AttributeThere(s, read, a) ==
  /\ read.ok /\ Holds(s, read.at, EncodedAttribute(a))
  /\ Len(a.name) <= MaxName /\ Len(a.value) <= MaxValues
  /\ AttributeBytes(Append(read.list, a)) <= MaxValues

LEMMA LimitsType ==
  /\ MaxSize \in Nat /\ MaxTarget \in Nat /\ MaxName \in Nat /\ MaxValues \in Nat
  /\ MaxEntries \in Nat /\ MaxExtents \in Nat
BY InodeCodecAssumption, ExtentsAssumption

LEMMA ReadAfterType ==
  ASSUME NEW read \in ReadType, NEW a \in AttributeType
  PROVE  /\ ReadAfter(read, a) \in ReadType /\ ReadAfter(read, a).ok
         /\ ReadAfter(read, a).at = read.at + Len(EncodedAttribute(a))
         /\ ReadAfter(read, a).list = Append(read.list, a)
<1> DEFINE m == Len(a.name)
           n == Len(a.value)
           p == (((read.at + 1) + m) + 1) + n
           l == Append(read.list, a)
           T == AttributeType
           yes == TRUE
<1>1. m \in Nat /\ n \in Nat /\ Len(EncodedAttribute(a)) = (1 + m) + (1 + n)
  BY AttributeEncoded
<1>2. read.at \in Nat /\ read.list \in Seq(T) /\ a \in T
  BY DEF ReadType
<1> HIDE DEF m, n, T
<1>3. l \in Seq(T)
  BY <1>2
<1>4. p \in Nat /\ p = read.at + Len(EncodedAttribute(a))
  BY <1>1, <1>2
<1>5. yes \in BOOLEAN /\ yes
  OBVIOUS
<1> HIDE DEF l, p, yes
<1>6. /\ [ok |-> yes, at |-> p, list |-> l] \in [ok : BOOLEAN, at : Nat, list : Seq(T)]
      /\ [ok |-> yes, at |-> p, list |-> l].ok = yes
      /\ [ok |-> yes, at |-> p, list |-> l].at = p
      /\ [ok |-> yes, at |-> p, list |-> l].list = l
  BY <1>3, <1>4, <1>5
<1>7. ReadAfter(read, a) = [ok |-> yes, at |-> p, list |-> l]
  BY DEF ReadAfter, yes, p, l, m, n
<1> QED
  BY <1>4, <1>5, <1>6, <1>7 DEF ReadType, T, l

LEMMA AttributeAdded ==
  ASSUME NEW s \in Seq(Nat), NEW read \in ReadType, NEW a \in AttributeType,
         AttributeThere(s, read, a)
  PROVE  ReadAttribute(s, read) = ReadAfter(read, a)
<1> DEFINE at == read.at
           after == (at + 1) + Len(a.name)
<1>1. /\ at \in Nat /\ a.name \in Seq(Nat) /\ a.value \in Seq(Nat) /\ Len(a.name) \in Nat
      /\ Len(a.value) \in Nat /\ MaxName \in Nat /\ MaxValues \in Nat
  BY AttributeEncoded, LimitsType DEF ReadType
<1>2. after \in Nat
  BY <1>1
<1>3. /\ Holds(s, at, EncodedString(a.name)) /\ Len(a.name) <= MaxName
      /\ Holds(s, after, EncodedString(a.value)) /\ Len(a.value) <= MaxValues
  BY <1>1, AttributeHeld DEF AttributeThere
<1> HIDE DEF after, at
<1>4. StringFits(s, at, MaxName) /\ StringAt(s, at) = a.name
  BY <1>1, <1>3, StringFound
<1>5. StringFits(s, after, MaxValues) /\ StringAt(s, after) = a.value
  BY <1>1, <1>2, <1>3, StringFound
<1>6. Attribute(a.name, a.value) = a
  BY DEF AttributeType, Attribute
<1>7. AttributeBytes(Append(read.list, a)) <= MaxValues /\ read.ok
  BY DEF AttributeThere
<1> QED
  BY <1>4, <1>5, <1>6, <1>7 DEF ReadAttribute, ReadAfter, at, after

LEMMA AttributeTurn ==
  ASSUME NEW s \in Seq(Nat), NEW read \in ReadType
  PROVE  /\ ReadAttribute(s, read) \in ReadType
         /\ ReadAttribute(s, read).ok =>
              \E a \in AttributeType : /\ AttributeThere(s, read, a)
                                       /\ ReadAttribute(s, read) = ReadAfter(read, a)
<1> DEFINE at == read.at
           name == StringAt(s, at)
           after == at + 1 + Len(name)
           value == StringAt(s, after)
           a == Attribute(name, value)
           Fits == /\ read.ok
                   /\ StringFits(s, at, MaxName)
                   /\ StringFits(s, after, MaxValues)
                   /\ AttributeBytes(Append(read.list, a)) <= MaxValues
<1>0. MaxName \in Nat /\ MaxValues \in Nat /\ at \in Nat
  BY LimitsType DEF ReadType
<1>1. CASE ~Fits
  <2> DEFINE no == FALSE
  <2>1. ReadAttribute(s, read) = [read EXCEPT !.ok = FALSE]
    BY <1>1 DEF ReadAttribute
  <2>2. no \in BOOLEAN /\ ~no /\ ReadAttribute(s, read) = [read EXCEPT !.ok = no]
    BY <2>1
  <2> HIDE DEF no
  <2>3. [read EXCEPT !.ok = no] \in ReadType /\ [read EXCEPT !.ok = no].ok = no
    BY <2>2 DEF ReadType
  <2> QED
    BY <2>2, <2>3
<1>2. CASE Fits
  <2>1. /\ name \in Seq(Nat) /\ Len(name) <= MaxName /\ Holds(s, at, EncodedString(name))
    BY <1>0, <1>2, StringRead
  <2>2. after \in Nat /\ Len(name) \in Nat
    BY <1>0, <2>1
  <2>3. /\ value \in Seq(Nat) /\ Len(value) <= MaxValues
        /\ Holds(s, after, EncodedString(value))
    BY <1>0, <1>2, <2>2, StringRead
  <2>4. a \in AttributeType /\ a.name = name /\ a.value = value
    BY <2>1, <2>3 DEF Attribute, AttributeType
  <2> HIDE DEF a, value
  <2>5. after = (at + 1) + Len(a.name)
    BY <2>4
  <2> HIDE DEF after, name
  <2>6. Holds(s, at, EncodedAttribute(a))
    BY <1>0, <2>1, <2>3, <2>4, <2>5, AttributeHeld
  <2>7. AttributeThere(s, read, a)
    BY <1>2, <2>1, <2>3, <2>4, <2>6 DEF AttributeThere
  <2>8. ReadAttribute(s, read) = ReadAfter(read, a)
    BY <2>4, <2>7, AttributeAdded
  <2>9. ReadAttribute(s, read) \in ReadType
    BY <2>4, <2>8, ReadAfterType
  <2> QED
    BY <2>4, <2>7, <2>8, <2>9
<1> QED
  BY <1>1, <1>2

\* The loop over the attributes.
Reading(s, at, n) ==
  CHOOSE after : after = [k \in 0 .. n |-> IF k = 0 THEN [ok |-> TRUE, at |-> at, list |-> <<>>]
                                           ELSE ReadAttribute(s, after[k - 1])]

LEMMA ReadingDefined ==
  ASSUME NEW s \in Seq(Nat), NEW at \in Nat, NEW n \in Nat
  PROVE  /\ ReadAttributes(s, at, n) = Reading(s, at, n)[n]
         /\ Reading(s, at, n) \in [0 .. n -> ReadType]
         /\ Reading(s, at, n)[0] = [ok |-> TRUE, at |-> at, list |-> <<>>]
         /\ \A k \in 1 .. n : Reading(s, at, n)[k] = ReadAttribute(s, Reading(s, at, n)[k - 1])
<1> DEFINE R == Reading(s, at, n)
           o == [ok |-> TRUE, at |-> at, list |-> <<>>]
           Goes(f) == f = [k \in 0 .. n |-> IF k = 0 THEN o ELSE ReadAttribute(s, f[k - 1])]
           V == ReadType
           g == [k \in 1 .. n |-> [x \in V |-> ReadAttribute(s, x)]]
<1>1. o \in V
  <2> DEFINE l == <<>>
             T == AttributeType
  <2>1. l \in Seq(T)
    OBVIOUS
  <2> HIDE DEF l, T
  <2>2. [ok |-> TRUE, at |-> at, list |-> l] \in [ok : BOOLEAN, at : Nat, list : Seq(T)]
    BY <2>1
  <2> QED
    BY <2>2 DEF ReadType, l, T
<1>2. g \in [1 .. n -> [V -> V]]
  BY AttributeTurn
<1>3. PICK f \in [0 .. n -> V] : Iterates(f, o, n, g)
  <2> HIDE DEF g, o, V
  <2> QED
    BY <1>1, <1>2, Recursion
<1>4. \A k \in 1 .. n : k \in 0 .. n /\ k # 0 /\ k - 1 \in 0 .. n
  OBVIOUS
<1>5. \A k \in 0 .. n : k # 0 => k \in 1 .. n
  OBVIOUS
<1> HIDE DEF o
<1>6. \A k \in 1 .. n : f[k] = ReadAttribute(s, f[k - 1])
  BY <1>3, <1>4 DEF Iterates
<1>7. Goes(f)
  <2>1. \A k \in 0 .. n : f[k] = IF k = 0 THEN o ELSE ReadAttribute(s, f[k - 1])
    BY <1>3, <1>5, <1>6 DEF Iterates
  <2> QED
    BY <2>1
<1>8. R = CHOOSE h : Goes(h)
  BY DEF Reading, o
<1>9. Goes(R)
  BY <1>7, <1>8
<1> HIDE DEF R
<1>10. R[0] = o /\ \A k \in 1 .. n : R[k] = ReadAttribute(s, R[k - 1])
  <2>1. 0 \in 0 .. n
    OBVIOUS
  <2> QED
    BY <1>4, <1>9, <2>1
<1>11. \A k \in 0 .. n : R[k] \in V
  <2> DEFINE S == {k \in 0 .. n : R[k] \in V}
  <2>1. 0 \in S
    BY <1>1, <1>10
  <2>2. ASSUME NEW k \in 1 .. n, k - 1 \in S PROVE k \in S
    BY <1>4, <1>10, <2>2, AttributeTurn
  <2> HIDE DEF S
  <2>3. \A k \in 0 .. n : k \in S
    BY <2>1, <2>2, Counting
  <2> QED
    BY <2>3 DEF S
<1>12. R \in [0 .. n -> V]
  BY <1>9, <1>11
<1>13. ReadAttributes(s, at, n) = R[n]
  BY DEF ReadAttributes, Reading, R
<1> QED
  BY <1>10, <1>12, <1>13 DEF R, o

\* The encoded attributes, one by one.
AttributeUnits(q) == [k \in 1 .. Len(q) |-> EncodedAttribute(q[k])]
EncodedAttributes(q) == FlattenSeq(AttributeUnits(q))

LEMMA AttributeUnitsType ==
  ASSUME NEW q \in Seq(AttributeType)
  PROVE  /\ AttributeUnits(q) \in Seq(Seq(Nat)) /\ Len(AttributeUnits(q)) = Len(q)
         /\ EncodedAttributes(q) \in Seq(Nat)
         /\ \A k \in 1 .. Len(q) : /\ q[k] \in AttributeType
                                   /\ AttributeUnits(q)[k] = EncodedAttribute(q[k])
<1> DEFINE N == Len(q)
           T == Seq(Nat)
<1>1. N \in Nat
  OBVIOUS
<1>2. ASSUME NEW k \in 1 .. N PROVE q[k] \in AttributeType /\ EncodedAttribute(q[k]) \in T
  <2>1. q[k] \in AttributeType
    OBVIOUS
  <2> QED
    BY <2>1, AttributeEncoded
<1>3. AttributeUnits(q) \in [1 .. N -> T]
  BY <1>2 DEF AttributeUnits
<1> HIDE DEF T, N
<1>4. AttributeUnits(q) \in Seq(T) /\ Len(AttributeUnits(q)) = N
  BY <1>1, <1>3
<1>5. EncodedAttributes(q) \in Seq(Nat)
  BY <1>4, UptoFacts DEF EncodedAttributes, T
<1> QED
  BY <1>2, <1>4, <1>5 DEF AttributeUnits, T, N

\* One more sequence is joined to those before it.
LEMMA FlattenNext ==
  ASSUME NEW u \in Seq(Seq(Nat)), NEW v \in Seq(Seq(Nat)), NEW x \in Seq(Nat),
         Len(v) = Len(u) + 1, v[Len(u) + 1] = x, \A k \in 1 .. Len(u) : v[k] = u[k]
  PROVE  FlattenSeq(v) = FlattenSeq(u) \o x
<1> DEFINE N == Len(u)
           S == Nat
           T == Seq(S)
           w == Append(u, x)
<1>1. u \in Seq(T) /\ v \in Seq(T) /\ x \in T /\ N \in Nat
  OBVIOUS
<1> HIDE DEF T, N
<1>2. /\ w \in Seq(T) /\ Len(w) = N + 1 /\ w[N + 1] = x
      /\ \A k \in 1 .. N : w[k] = u[k]
  BY <1>1, AppendProperties DEF N
<1> HIDE DEF w
<1>3. ASSUME NEW k \in 1 .. N + 1 PROVE v[k] = w[k]
  <2>1. k = N + 1 \/ k \in 1 .. N
    BY <1>1
  <2>2. v[N + 1] = x /\ \A j \in 1 .. N : v[j] = u[j]
    BY DEF N
  <2> QED
    BY <1>2, <2>1, <2>2
<1>4. v = w
  <2>1. Len(v) = N + 1
    BY DEF N
  <2> QED
    BY <1>1, <1>2, <1>3, <2>1, SeqEqual
<1>5. FlattenSeq(Append(u, x)) = FlattenSeq(u) \o x
  <2>1. u \in Seq(Seq(S)) /\ x \in Seq(S)
    BY <1>1 DEF T
  <2> HIDE DEF S
  <2> QED
    BY <2>1, FlattenAppend
<1> QED
  BY <1>4, <1>5 DEF w

LEMMA AttributesAppend ==
  ASSUME NEW q \in Seq(AttributeType), NEW a \in AttributeType
  PROVE  EncodedAttributes(Append(q, a)) = EncodedAttributes(q) \o EncodedAttribute(a)
<1> DEFINE r == Append(q, a)
           N == Len(q)
           u == AttributeUnits(q)
           v == AttributeUnits(r)
           x == EncodedAttribute(a)
<1>1. /\ r \in Seq(AttributeType) /\ Len(r) = N + 1 /\ N \in Nat /\ r[N + 1] = a
      /\ \A k \in 1 .. N : r[k] = q[k]
  BY AppendProperties
<1>2. u \in Seq(Seq(Nat)) /\ Len(u) = N /\ \A k \in 1 .. N : u[k] = EncodedAttribute(q[k])
  BY AttributeUnitsType
<1>3. /\ v \in Seq(Seq(Nat)) /\ Len(v) = N + 1
      /\ \A k \in 1 .. N + 1 : v[k] = EncodedAttribute(r[k])
  BY <1>1, AttributeUnitsType
<1>4. x \in Seq(Nat)
  BY AttributeEncoded
<1>5. v[N + 1] = x /\ \A k \in 1 .. N : v[k] = u[k]
  <2>1. N + 1 \in 1 .. N + 1 /\ \A k \in 1 .. N : k \in 1 .. N + 1
    BY <1>1
  <2> HIDE DEF u, v, r, N
  <2> QED
    BY <1>1, <1>2, <1>3, <2>1
<1> HIDE DEF u, v, r, x, N
<1>6. FlattenSeq(v) = FlattenSeq(u) \o x
  BY <1>2, <1>3, <1>4, <1>5, FlattenNext
<1> QED
  BY <1>6 DEF EncodedAttributes, u, v, x, r

\* What decode() reads of encoded attributes is these attributes.
LEMMA AttributesFound ==
  ASSUME NEW s \in Seq(Nat), NEW at \in Nat, NEW q \in Seq(AttributeType),
         Holds(s, at, EncodedAttributes(q)), AttributeBytes(q) <= MaxValues,
         \A k \in 1 .. Len(q) : Len(q[k].name) <= MaxName
  PROVE  /\ ReadAttributes(s, at, Len(q)).ok
         /\ ReadAttributes(s, at, Len(q)).at = at + Len(EncodedAttributes(q))
         /\ ReadAttributes(s, at, Len(q)).list = q
<1> DEFINE N == Len(q)
           u == AttributeUnits(q)
           R == Reading(s, at, N)
           S == {k \in 0 .. N : /\ R[k].ok /\ R[k].at = at + Len(Upto(u, k))
                                /\ R[k].list = SubSeq(q, 1, k)}
<1>1. N \in Nat /\ u \in Seq(Seq(Nat)) /\ Len(u) = N
  BY AttributeUnitsType
<1>2. /\ ReadAttributes(s, at, N) = R[N] /\ R \in [0 .. N -> ReadType]
      /\ R[0] = [ok |-> TRUE, at |-> at, list |-> <<>>]
      /\ \A k \in 1 .. N : R[k] = ReadAttribute(s, R[k - 1])
  BY <1>1, ReadingDefined
<1>a. /\ Holds(s, at, FlattenSeq(u)) /\ FlattenSeq(u) = EncodedAttributes(q)
      /\ \A k \in 1 .. N : q[k] \in AttributeType /\ u[k] = EncodedAttribute(q[k])
  BY AttributeUnitsType DEF EncodedAttributes
<1> HIDE DEF u, R
<1>b. /\ Upto(u, 0) = <<>> /\ Upto(u, N) = FlattenSeq(u)
      /\ \A k \in 1 .. N : /\ Upto(u, k) = Upto(u, k - 1) \o u[k]
                           /\ Upto(u, k - 1) \in Seq(Nat) /\ u[k] \in Seq(Nat)
  <2>1. \A k \in 1 .. Len(u) : k - 1 \in 0 .. Len(u) /\ u[k] \in Seq(Nat)
    BY <1>1
  <2> QED
    BY <1>1, <2>1, UptoFacts
<1> HIDE DEF N
<1>3. \A k \in 1 .. N : Holds(s, at + Len(Upto(u, k - 1)), u[k])
  <2>1. Holds(s, at, Upto(u, N)) /\ N \in 0 .. Len(u)
    BY <1>1, <1>a, <1>b
  <2> QED
    BY <1>1, <2>1, HoldsUpto
<1>4. 0 \in S
  <2>1. Upto(u, 0) = <<>> /\ SubSeq(q, 1, 0) = <<>>
    BY <1>b, SubSeqEmpty
  <2>2. Len(Upto(u, 0)) = 0
    BY <2>1, EmptySeq
  <2>3. at = at + Len(Upto(u, 0))
    BY <2>2
  <2>4. R[0].ok /\ R[0].at = at /\ R[0].list = <<>>
    BY <1>2
  <2>5. R[0].at = at + Len(Upto(u, 0)) /\ R[0].list = SubSeq(q, 1, 0) /\ 0 \in 0 .. N
    BY <1>1, <2>1, <2>3, <2>4
  <2> QED
    BY <2>4, <2>5
<1>5. ASSUME NEW k \in 1 .. N, k - 1 \in S PROVE k \in S
  <2>1. /\ k \in 0 .. N /\ k - 1 \in 0 .. N /\ q[k] \in AttributeType
        /\ u[k] = EncodedAttribute(q[k]) /\ R[k - 1] \in ReadType
    BY <1>1, <1>2, <1>a
  <2> DEFINE r == R[k - 1]
             a == q[k]
  <2>2. r.ok /\ r.at = at + Len(Upto(u, k - 1)) /\ r.list = SubSeq(q, 1, k - 1)
    BY <1>5
  <2>3. SubSeq(q, 1, k) = Append(SubSeq(q, 1, k - 1), a)
    <3> DEFINE T == AttributeType
    <3>1. 1 \in 1 .. Len(q) /\ k \in 1 .. Len(q) /\ a \in T /\ q \in Seq(T)
      BY <2>1 DEF N
    <3> HIDE DEF T
    <3>2. SubSeq(q, 1, k) = SubSeq(q, 1, k - 1) \o <<q[k]>>
      BY <3>1, SubSeqRecursiveSecond
    <3>3. SubSeq(q, 1, k - 1) \in Seq(T)
      <4>1. \A i \in 1 .. k - 1 : q[i] \in T
        BY <1>1, <1>a DEF T
      <4> QED
        BY <2>1, <4>1, SubSeqProperties
    <3> QED
      BY <3>1, <3>2, <3>3, AppendIsConcat
  <2>4. AttributeThere(s, r, a)
    <3>1. Holds(s, r.at, EncodedAttribute(a))
      BY <1>3, <2>1, <2>2
    <3>2. AttributeBytes(Append(r.list, a)) <= MaxValues
      <4>1. AttributeBytes(SubSeq(q, 1, k)) <= AttributeBytes(q)
        BY <2>1, BytesFacts DEF N
      <4>2. AttributeBytes(q) \in Nat /\ AttributeBytes(SubSeq(q, 1, k)) \in Nat
        BY <2>1, BytesFacts, BytesUpto DEF N
      <4>3. AttributeBytes(SubSeq(q, 1, k)) <= MaxValues
        BY <4>1, <4>2, LimitsType
      <4> QED
        BY <2>2, <2>3, <4>3
    <3>3. Len(a.value) <= MaxValues
      <4>1. /\ Len(a.value) <= AttributeBytes(q) /\ Len(a.value) \in Nat
            /\ AttributeBytes(q) \in Nat
        BY <2>1, BytesFacts, AttributeEncoded DEF N
      <4> DEFINE x == Len(a.value)
                 y == AttributeBytes(q)
      <4> HIDE DEF x, y
      <4>2. x <= MaxValues
        BY <4>1, LimitsType DEF x, y
      <4> QED
        BY <4>2 DEF x
    <3>4. Len(a.name) <= MaxName
      BY <2>1 DEF N
    <3> QED
      BY <2>2, <3>1, <3>2, <3>3, <3>4 DEF AttributeThere
  <2>5. R[k] = ReadAfter(r, a)
    BY <1>2, <2>1, <2>4, AttributeAdded
  <2>6. R[k].ok /\ R[k].at = r.at + Len(EncodedAttribute(a)) /\ R[k].list = Append(r.list, a)
    <3> HIDE DEF r, a
    <3>1. r \in ReadType /\ a \in AttributeType
      BY <2>1 DEF r, a
    <3> QED
      BY <2>5, <3>1, ReadAfterType
  <2>7. R[k].at = at + Len(Upto(u, k))
    <3>1. /\ Upto(u, k) = Upto(u, k - 1) \o u[k] /\ Upto(u, k - 1) \in Seq(Nat)
          /\ u[k] \in Seq(Nat)
      BY <1>b
    <3>2. /\ Len(Upto(u, k)) = Len(Upto(u, k - 1)) + Len(u[k])
          /\ Len(Upto(u, k - 1)) \in Nat /\ Len(u[k]) \in Nat
      BY <3>1, ConcatFacts DEF IsConcat
    <3> DEFINE x == Len(Upto(u, k - 1))
               y == Len(u[k])
               z == Len(Upto(u, k))
    <3>3. R[k].at = (at + x) + y /\ z = x + y /\ x \in Nat /\ y \in Nat
      BY <2>1, <2>2, <2>6, <3>2
    <3> HIDE DEF x, y, z
    <3>4. R[k].at = at + z
      BY <3>3
    <3> QED
      BY <3>4 DEF z
  <2> QED
    BY <2>1, <2>2, <2>3, <2>6, <2>7
<1> HIDE DEF S
<1>6. N \in S
  <2>1. \A k \in 0 .. N : k \in S
    BY <1>1, <1>4, <1>5, Counting
  <2> QED
    BY <1>1, <2>1
<1>7. R[N].ok /\ R[N].at = at + Len(Upto(u, N)) /\ R[N].list = SubSeq(q, 1, N)
  BY <1>6 DEF S
<1>8. Upto(u, N) = EncodedAttributes(q) /\ SubSeq(q, 1, N) = q
  BY <1>a, <1>b, SubSeqFull DEF N
<1> QED
  BY <1>2, <1>7, <1>8 DEF N

\* What n turns have read from `at` on: these attributes, up to the position p.
AttributesTaken(s, at, n, q, p) ==
  /\ q \in Seq(AttributeType) /\ Len(q) = n
  /\ Holds(s, at, EncodedAttributes(q)) /\ p = at + Len(EncodedAttributes(q))
  /\ AttributeBytes(q) <= MaxValues
  /\ \A k \in 1 .. n : Len(q[k].name) <= MaxName

LEMMA NoAttributes ==
  /\ <<>> \in Seq(AttributeType) /\ Len(<<>>) = 0
  /\ EncodedAttributes(<<>>) = <<>> /\ AttributeBytes(<<>>) = 0
<1> DEFINE T == AttributeType
           e == <<>>
<1>1. e \in Seq(T) /\ Len(e) = 0
  BY EmptySeq
<1>2. AttributeUnits(e) = <<>>
  <2>1. AttributeUnits(e) \in Seq(Seq(Nat)) /\ Len(AttributeUnits(e)) = 0
    BY <1>1, AttributeUnitsType
  <2> DEFINE U == Seq(Nat)
             u == AttributeUnits(e)
  <2>2. u \in Seq(U) /\ Len(u) = 0
    BY <2>1
  <2> HIDE DEF U, u
  <2>3. u = <<>>
    BY <2>2, EmptySeq
  <2> QED
    BY <2>3 DEF u
<1>3. AttributeBytes(e) = 0
  <2> DEFINE c == Sizes(e)
  <2>1. c \in Seq(Nat) /\ Len(c) = 0
    BY <1>1, SizesType
  <2>2. Totals(c)[0] = 0
    <3> HIDE DEF c
    <3> QED
      BY <2>1, TotalsDefined DEF Totalling
  <2>3. 0 \in 0 .. Len(e) /\ SubSeq(e, 1, 0) = e
    BY <1>1, SubSeqEmpty
  <2>4. AttributeBytes(SubSeq(e, 1, 0)) = Totals(c)[0]
    <3> DEFINE o == 0
    <3>1. o \in 0 .. Len(e) /\ e \in Seq(AttributeType)
      BY <1>1, <2>3
    <3> HIDE DEF o, e
    <3>2. AttributeBytes(SubSeq(e, 1, o)) = Totals(Sizes(e))[o]
      BY <3>1, BytesUpto
    <3> QED
      BY <3>2 DEF o, e
  <2> QED
    BY <2>2, <2>3, <2>4
<1> QED
  BY <1>1, <1>2, <1>3, FlattenEmpty DEF EncodedAttributes

\* What is read one more.
LEMMA AttributesTakenNext ==
  ASSUME NEW s \in Seq(Nat), NEW at \in Nat, NEW n \in Nat, NEW read \in ReadType,
         AttributesTaken(s, at, n, read.list, read.at),
         NEW a \in AttributeType, AttributeThere(s, read, a)
  PROVE  AttributesTaken(s, at, n + 1, Append(read.list, a), ReadAfter(read, a).at)
<1> DEFINE l == read.list
           r == Append(l, a)
           T == AttributeType
           x == EncodedAttributes(l)
           y == EncodedAttribute(a)
           z == EncodedAttributes(r)
           p == read.at
<1>1. /\ l \in Seq(T) /\ a \in T /\ Len(l) = n /\ Holds(s, at, x) /\ p = at + Len(x)
      /\ \A k \in 1 .. n : Len(l[k].name) <= MaxName
  BY DEF AttributesTaken
<1>2. r \in Seq(T) /\ Len(r) = n + 1 /\ r[n + 1] = a /\ \A k \in 1 .. n : r[k] = l[k]
  <2> HIDE DEF T, l
  <2> QED
    BY <1>1, AppendProperties
<1>3. z = x \o y
  BY <1>1, AttributesAppend
<1>4. x \in Seq(Nat) /\ y \in Seq(Nat)
  BY <1>1, AttributeUnitsType, AttributeEncoded
<1>5. /\ Holds(s, p, y) /\ Len(a.name) <= MaxName /\ AttributeBytes(r) <= MaxValues
  BY DEF AttributeThere
<1>6. ReadAfter(read, a).at = p + Len(y)
  BY ReadAfterType
<1> HIDE DEF r, x, y, z, p, l, T
<1>7. Len(z) = Len(x) + Len(y) /\ Len(x) \in Nat /\ Len(y) \in Nat
  BY <1>3, <1>4, ConcatFacts DEF IsConcat
<1>8. Holds(s, at, z)
  BY <1>1, <1>3, <1>4, <1>5, HoldsConcat
<1>9. ReadAfter(read, a).at = at + Len(z)
  BY <1>1, <1>6, <1>7
<1>10. ASSUME NEW k \in 1 .. n + 1 PROVE Len(r[k].name) <= MaxName
  <2>1. k = n + 1 \/ k \in 1 .. n
    OBVIOUS
  <2> QED
    BY <1>1, <1>2, <1>5, <2>1
<1>11. AttributesTaken(s, at, n + 1, r, ReadAfter(read, a).at)
  BY <1>2, <1>5, <1>8, <1>9, <1>10 DEF AttributesTaken, z, T
<1> QED
  BY <1>11 DEF r, l

LEMMA AttributesRead ==
  ASSUME NEW s \in Seq(Nat), NEW at \in Nat, at <= Len(s), NEW n \in Nat,
         ReadAttributes(s, at, n).ok
  PROVE  AttributesTaken(s, at, n, ReadAttributes(s, at, n).list, ReadAttributes(s, at, n).at)
<1> DEFINE R == Reading(s, at, n)
           S == {k \in 0 .. n : R[k].ok => AttributesTaken(s, at, k, R[k].list, R[k].at)}
<1>1. /\ ReadAttributes(s, at, n) = R[n] /\ R \in [0 .. n -> ReadType]
      /\ R[0] = [ok |-> TRUE, at |-> at, list |-> <<>>]
      /\ \A k \in 1 .. n : R[k] = ReadAttribute(s, R[k - 1])
  BY ReadingDefined
<1> HIDE DEF R
<1>2. 0 \in S
  <2> DEFINE e == <<>>
             T == AttributeType
             x == EncodedAttributes(e)
  <2>1. R[0].list = e /\ R[0].at = at
    BY <1>1
  <2>2. /\ e \in Seq(T) /\ Len(e) = 0 /\ x = e /\ AttributeBytes(e) = 0
    BY NoAttributes
  <2> HIDE DEF e, T
  <2>3. Len(x) = 0 /\ at = at + Len(x)
    BY <2>2
  <2>4. Holds(s, at, x)
    <3> HIDE DEF x
    <3> QED
      BY <2>3 DEF Holds
  <2>5. AttributesTaken(s, at, 0, e, at)
    BY <2>2, <2>3, <2>4, LimitsType DEF AttributesTaken, T
  <2> QED
    BY <2>1, <2>5
<1>3. ASSUME NEW k \in 1 .. n, k - 1 \in S PROVE k \in S
  <2>1. k \in 0 .. n /\ k - 1 \in 0 .. n /\ k - 1 \in Nat /\ (k - 1) + 1 = k
    OBVIOUS
  <2> DEFINE r == R[k - 1]
  <2>2. r \in ReadType /\ R[k] = ReadAttribute(s, r)
    BY <1>1, <2>1
  <2>3. r.ok => AttributesTaken(s, at, k - 1, r.list, r.at)
    BY <1>3
  <2> HIDE DEF r
  <2>4. ASSUME R[k].ok PROVE AttributesTaken(s, at, k, R[k].list, R[k].at)
    <3>1. PICK a \in AttributeType : AttributeThere(s, r, a) /\ R[k] = ReadAfter(r, a)
      BY <2>2, <2>4, AttributeTurn
    <3>2. AttributesTaken(s, at, k - 1, r.list, r.at)
      BY <2>3, <3>1 DEF AttributeThere
    <3>3. AttributesTaken(s, at, (k - 1) + 1, Append(r.list, a), ReadAfter(r, a).at)
      BY <2>1, <2>2, <3>1, <3>2, AttributesTakenNext
    <3>4. R[k].list = Append(r.list, a)
      BY <2>2, <3>1, ReadAfterType
    <3> QED
      BY <2>1, <3>1, <3>3, <3>4
  <2> QED
    BY <2>1, <2>4
<1> HIDE DEF S
<1>4. \A k \in 0 .. n : k \in S
  BY <1>2, <1>3, Counting
<1>5. n \in S
  BY <1>4
<1> QED
  BY <1>1, <1>5 DEF S

-----------------------------------------------------------------------------
(* Extents. *)

ExtentUnits(q) == [k \in 1 .. Len(q) |-> EncodedExtent(q[k])]
EncodedExtents(q) == FlattenSeq(ExtentUnits(q))

LEMMA ExtentEncoded ==
  ASSUME NEW e \in Piece
  PROVE  EncodedExtent(e) \in Seq(Nat) /\ Len(EncodedExtent(e)) = 4
<1> DEFINE f == IF e.sparse THEN 1 ELSE 0
<1>1. e.logical \in Nat /\ e.physical \in Nat /\ e.count \in Nat /\ f \in Nat
  BY DEF Piece
<1> HIDE DEF f
<1>2. <<e.logical, e.physical, e.count, f>> \in Seq(Nat)
  BY <1>1
<1> QED
  BY <1>2 DEF EncodedExtent, f

\* An extent is at a position when it is what decode() reads there.
LEMMA ExtentHeld ==
  ASSUME NEW s \in Seq(Nat), NEW at \in Nat, NEW e \in Piece
  PROVE  Holds(s, at, EncodedExtent(e)) <=>
           /\ at + 4 <= Len(s) /\ ExtentAt(s, at) = e /\ Flag(s[at + 4])
<1> DEFINE f == EncodedExtent(e)
           g == IF e.sparse THEN 1 ELSE 0
<1>1. /\ Len(f) = 4 /\ f[1] = e.logical /\ f[2] = e.physical /\ f[3] = e.count
      /\ f[4] = g
  BY DEF EncodedExtent
<1> HIDE DEF f
<1>2. Holds(s, at, f) <=>
        /\ at + 4 <= Len(s)
        /\ s[at + 1] = e.logical /\ s[at + 2] = e.physical
        /\ s[at + 3] = e.count /\ s[at + 4] = g
  <2>1. 1 .. 4 = {1, 2, 3, 4}
    OBVIOUS
  <2> HIDE DEF g
  <2> QED
    BY <1>1, <2>1 DEF Holds
<1>3. ASSUME at + 4 <= Len(s)
      PROVE  s[at + 4] = g <=> Flag(s[at + 4]) /\ (s[at + 4] = 1) = e.sparse
  <2>1. s[at + 4] \in Nat
    <3>1. at + 4 \in 1 .. Len(s)
      BY <1>3
    <3> QED
      BY <3>1
  <2>2. e.sparse \in BOOLEAN
    BY DEF Piece
  <2> DEFINE x == s[at + 4]
  <2>3. x \in Nat
    BY <2>1
  <2> HIDE DEF x
  <2>4. x = g <=> x <= 1 /\ (x = 1) = e.sparse
    BY <2>2, <2>3
  <2> QED
    BY <2>4 DEF x, Flag
<1>4. ExtentAt(s, at) = e <=>
        /\ s[at + 1] = e.logical /\ s[at + 2] = e.physical /\ s[at + 3] = e.count
        /\ (s[at + 4] = 1) = e.sparse
  <2> DEFINE yes == s[at + 4] = 1
             r == ExtentAt(s, at)
  <2>1. /\ r.logical = s[at + 1] /\ r.physical = s[at + 2] /\ r.count = s[at + 3]
        /\ r.sparse = yes
    BY DEF ExtentAt
  <2>2. ASSUME s[at + 1] = e.logical, s[at + 2] = e.physical, s[at + 3] = e.count,
               yes = e.sparse
        PROVE  r = e
    <3>1. e = [logical |-> e.logical, physical |-> e.physical, count |-> e.count,
               sparse |-> e.sparse]
      BY DEF Piece
    <3>2. r = [logical |-> s[at + 1], physical |-> s[at + 2], count |-> s[at + 3],
               sparse |-> yes]
      BY DEF ExtentAt
    <3> HIDE DEF r, yes
    <3> QED
      BY <2>2, <3>1, <3>2
  <2> HIDE DEF r
  <2> QED
    BY <2>1, <2>2 DEF r
<1> QED
  BY <1>2, <1>3, <1>4 DEF f

LEMMA ExtentAtType ==
  ASSUME NEW s \in Seq(Nat), NEW at \in Nat, at + 4 <= Len(s)
  PROVE  ExtentAt(s, at) \in Piece
<1> DEFINE x == s[at + 1]
           y == s[at + 2]
           z == s[at + 3]
           yes == s[at + 4] = 1
<1>1. x \in Nat /\ y \in Nat /\ z \in Nat
  <2>1. at + 1 \in 1 .. Len(s) /\ at + 2 \in 1 .. Len(s) /\ at + 3 \in 1 .. Len(s)
    OBVIOUS
  <2> QED
    BY SMTT(40), <2>1
<1>2. yes \in BOOLEAN
  OBVIOUS
<1> HIDE DEF x, y, z, yes
<1>3. [logical |-> x, physical |-> y, count |-> z, sparse |-> yes] \in Piece
  BY <1>1, <1>2 DEF Piece
<1> QED
  BY <1>3 DEF ExtentAt, x, y, z, yes

LEMMA ExtentUnitsType ==
  ASSUME NEW q \in Seq(Piece)
  PROVE  /\ ExtentUnits(q) \in Seq(Seq(Nat)) /\ Len(ExtentUnits(q)) = Len(q)
         /\ \A k \in 1 .. Len(q) : /\ q[k] \in Piece /\ ExtentUnits(q)[k] = EncodedExtent(q[k])
                                   /\ Len(ExtentUnits(q)[k]) = 4
                                   /\ ExtentUnits(q)[k] \in Seq(Nat)
<1> DEFINE N == Len(q)
           T == Seq(Nat)
<1>1. N \in Nat
  OBVIOUS
<1>2. ASSUME NEW k \in 1 .. N
      PROVE  q[k] \in Piece /\ EncodedExtent(q[k]) \in T /\ Len(EncodedExtent(q[k])) = 4
  <2>1. q[k] \in Piece
    OBVIOUS
  <2> QED
    BY <2>1, ExtentEncoded
<1>3. ExtentUnits(q) \in [1 .. N -> T]
  BY <1>2 DEF ExtentUnits
<1> HIDE DEF T, N
<1>4. ExtentUnits(q) \in Seq(T) /\ Len(ExtentUnits(q)) = N
  BY <1>1, <1>3
<1> QED
  BY <1>2, <1>4 DEF ExtentUnits, T, N

\* All extents take the same room.
LEMMA ExtentsLength ==
  ASSUME NEW q \in Seq(Piece)
  PROVE  /\ EncodedExtents(q) \in Seq(Nat) /\ Len(EncodedExtents(q)) = 4 * Len(q)
         /\ \A k \in 0 .. Len(q) : Len(Upto(ExtentUnits(q), k)) = 4 * k
<1> DEFINE N == Len(q)
           u == ExtentUnits(q)
           S == {k \in 0 .. N : Len(Upto(u, k)) = 4 * k}
<1>1. /\ u \in Seq(Seq(Nat)) /\ Len(u) = N /\ N \in Nat
      /\ \A k \in 1 .. N : Len(u[k]) = 4 /\ u[k] \in Seq(Nat)
  BY ExtentUnitsType
<1> HIDE DEF u
<1>2. /\ FlattenSeq(u) \in Seq(Nat) /\ Upto(u, N) = FlattenSeq(u) /\ Upto(u, 0) = <<>>
      /\ \A k \in 0 .. N : Upto(u, k) \in Seq(Nat)
      /\ \A k \in 1 .. N : Upto(u, k) = Upto(u, k - 1) \o u[k]
  BY <1>1, UptoFacts
<1> HIDE DEF N
<1>3. 0 \in S
  <2>1. Len(Upto(u, 0)) = 0
    BY <1>2, EmptySeq
  <2> QED
    BY <1>1, <2>1
<1>4. ASSUME NEW k \in 1 .. N, k - 1 \in S PROVE k \in S
  <2>1. k \in 0 .. N /\ k - 1 \in 0 .. N /\ u[k] \in Seq(Nat) /\ Upto(u, k - 1) \in Seq(Nat)
    <3>1. k \in 0 .. N /\ k - 1 \in 0 .. N
      BY <1>1
    <3>2. u[k] \in Seq(Nat)
      BY <1>1
    <3>3. Upto(u, k - 1) \in Seq(Nat)
      BY <1>2, <3>1
    <3> QED
      BY <3>1, <3>2, <3>3
  <2>2. Len(Upto(u, k)) = Len(Upto(u, k - 1)) + Len(u[k])
    <3> DEFINE x == Upto(u, k - 1)
               y == u[k]
    <3>1. Upto(u, k) = x \o y /\ x \in Seq(Nat) /\ y \in Seq(Nat)
      BY <1>2, <2>1
    <3> HIDE DEF x, y
    <3>2. Len(x \o y) = Len(x) + Len(y)
      BY <3>1, ConcatFacts DEF IsConcat
    <3> QED
      BY <3>1, <3>2 DEF x, y
  <2>3. Len(Upto(u, k - 1)) = 4 * (k - 1) /\ Len(u[k]) = 4
    BY <1>1, <1>4
  <2>4. Len(Upto(u, k)) = 4 * k
    BY <2>1, <2>2, <2>3
  <2> QED
    BY <2>1, <2>4
<1> HIDE DEF S
<1>5. \A k \in 0 .. N : k \in S
  BY <1>1, <1>3, <1>4, Counting
<1>6. \A k \in 0 .. N : Len(Upto(u, k)) = 4 * k
  BY <1>5 DEF S
<1>7. Len(FlattenSeq(u)) = 4 * N
  BY <1>1, <1>2, <1>6
<1> QED
  BY <1>2, <1>6, <1>7 DEF EncodedExtents, u, N

LEMMA ExtentsHeld ==
  ASSUME NEW s \in Seq(Nat), NEW at \in Nat, NEW q \in Seq(Piece)
  PROVE  Holds(s, at, EncodedExtents(q)) <=>
           /\ at + 4 * Len(q) <= Len(s)
           /\ \A k \in 1 .. Len(q) : /\ ExtentAt(s, at + 4 * (k - 1)) = q[k]
                                     /\ Flag(s[at + 4 * k])
<1> DEFINE N == Len(q)
           u == ExtentUnits(q)
           H(k) == ExtentAt(s, at + 4 * (k - 1)) = q[k] /\ Flag(s[at + 4 * k])
<1>1. /\ u \in Seq(Seq(Nat)) /\ Len(u) = N /\ N \in Nat /\ N \in 0 .. N /\ Len(s) \in Nat
      /\ \A k \in 1 .. N : q[k] \in Piece /\ u[k] = EncodedExtent(q[k])
  BY ExtentUnitsType
<1>2. \A k \in 0 .. N : Len(Upto(u, k)) = 4 * k
  BY ExtentsLength
<1> HIDE DEF u, N
<1>3. Holds(s, at, Upto(u, N)) <=>
        /\ at <= Len(s)
        /\ \A k \in 1 .. N : Holds(s, at + Len(Upto(u, k - 1)), u[k])
  <2>1. N \in 0 .. Len(u)
    BY <1>1
  <2> QED
    BY <1>1, <2>1, HoldsUpto
<1>4. ASSUME NEW k \in 1 .. N
      PROVE  Holds(s, at + Len(Upto(u, k - 1)), u[k]) <=> at + 4 * k <= Len(s) /\ H(k)
  <2> DEFINE p == at + 4 * (k - 1)
             r == q[k]
  <2>1. k - 1 \in 0 .. N /\ p \in Nat /\ p + 4 = at + 4 * k /\ r \in Piece
    BY <1>1
  <2>2. at + Len(Upto(u, k - 1)) = p /\ u[k] = EncodedExtent(r)
    BY <1>1, <1>2, <2>1
  <2> HIDE DEF p, r
  <2>3. Holds(s, p, EncodedExtent(r)) <=>
          p + 4 <= Len(s) /\ ExtentAt(s, p) = r /\ Flag(s[p + 4])
    BY <2>1, ExtentHeld
  <2> QED
    BY <2>1, <2>2, <2>3 DEF p, r
<1>5. Upto(u, N) = EncodedExtents(q)
  BY <1>1, UptoFacts DEF EncodedExtents, u
<1> HIDE DEF H
<1>6. (at <= Len(s) /\ \A k \in 1 .. N : at + 4 * k <= Len(s) /\ H(k)) <=>
        (at + 4 * N <= Len(s) /\ \A k \in 1 .. N : H(k))
  <2>1. ASSUME at + 4 * N <= Len(s)
        PROVE  at <= Len(s) /\ \A k \in 1 .. N : at + 4 * k <= Len(s)
    BY <1>1, <2>1
  <2>2. ASSUME at <= Len(s), \A k \in 1 .. N : at + 4 * k <= Len(s)
        PROVE  at + 4 * N <= Len(s)
    <3>1. N = 0 \/ N \in 1 .. N
      BY <1>1
    <3> QED
      BY <1>1, <2>2, <3>1
  <2> QED
    BY <2>1, <2>2
<1>7. Holds(s, at, Upto(u, N)) <=> at + 4 * N <= Len(s) /\ \A k \in 1 .. N : H(k)
  BY <1>3, <1>4, <1>6
<1> QED
  BY <1>5, <1>7 DEF H, N

-----------------------------------------------------------------------------
(* Signature and sum. *)

\* The body of a record, as decode() reads it.
Inside(s) == SubSeq(s, 2, Len(s) - 1)

LEMMA SealedFacts ==
  ASSUME NEW g \in Nat, NEW b \in Seq(Nat), NEW s, s = Sealed(<<g>> \o b)
  PROVE  /\ s \in Seq(Nat) /\ Len(s) = Len(b) + 2 /\ s[1] = g /\ Intact(s)
         /\ Inside(s) = b /\ Front(s) = <<g>> \o b
<1> DEFINE h == <<g>>
           t == h \o b
           c == Checksum(t)
           n == Len(b)
<1>1. h \in Seq(Nat) /\ Len(h) = 1 /\ h[1] = g /\ n \in Nat
  OBVIOUS
<1> HIDE DEF h, n
<1>2. /\ t \in Seq(Nat) /\ Len(t) = 1 + n /\ t[1] = g /\ \A i \in 1 .. n : t[1 + i] = b[i]
  <2>1. IsConcat(t, h, b)
    BY <1>1, ConcatFacts
  <2> HIDE DEF t
  <2>2. /\ t \in Seq(Nat) /\ Len(t) = Len(h) + Len(b) /\ 1 \in 1 .. Len(h)
        /\ \A i \in 1 .. Len(h) : t[i] = h[i]
        /\ \A i \in 1 .. Len(b) : t[Len(h) + i] = b[i]
    BY <1>1, <2>1 DEF IsConcat
  <2> QED
    BY <1>1, <2>2 DEF n
<1> HIDE DEF t
<1>3. c \in Nat
  BY <1>2, ChecksumType
<1>4. s = Append(t, c)
  BY DEF Sealed, t, c, h
<1> HIDE DEF c
<1>5. /\ s \in Seq(Nat) /\ Len(s) = (1 + n) + 1 /\ s[(1 + n) + 1] = c
      /\ \A i \in 1 .. 1 + n : s[i] = t[i]
  <2> DEFINE m == 1 + n
  <2>1. m \in Nat /\ Len(t) = m
    BY <1>1, <1>2
  <2> HIDE DEF m
  <2>2. /\ s \in Seq(Nat) /\ Len(s) = m + 1 /\ s[m + 1] = c
        /\ \A i \in 1 .. m : s[i] = t[i]
    <3>1. t \in Seq(Nat)
      BY <1>2
    <3>2. /\ Append(t, c) \in Seq(Nat) /\ Len(Append(t, c)) = Len(t) + 1
          /\ Append(t, c)[Len(t) + 1] = c
          /\ \A i \in 1 .. Len(t) : Append(t, c)[i] = t[i]
      BY <1>3, <3>1, AppendProperties
    <3> QED
      BY <1>4, <2>1, <3>2
  <2> QED
    BY <2>2 DEF m
<1>6. Len(s) = n + 2 /\ s[n + 2] = c /\ 1 \in 1 .. 1 + n
  BY <1>1, <1>5
<1>7. s[1] = g
  BY <1>2, <1>5, <1>6
<1>8. Front(s) = t
  <2> DEFINE f == SubSeq(s, 1, 1 + n)
             m == 1 + n
  <2>1. Front(s) = f
    BY <1>1, <1>6 DEF Front
  <2>2. m \in Nat /\ m <= Len(s)
    BY <1>1, <1>6
  <2>3. f \in Seq(Nat) /\ Len(f) = m /\ \A i \in 1 .. m : f[i] = s[i]
    <3> HIDE DEF m
    <3>1. \A i \in 1 .. m : s[i] \in Nat
      BY <1>5, <2>2
    <3>2. SubSeq(s, 1, m) \in Seq(Nat) /\ Len(SubSeq(s, 1, m)) = m
          /\ \A i \in 1 .. m : SubSeq(s, 1, m)[i] = s[i]
      BY <2>2, <3>1, SubSeqProperties
    <3> QED
      BY <3>2 DEF m
  <2> HIDE DEF f
  <2>4. \A i \in 1 .. m : f[i] = t[i]
    BY <1>5, <2>3
  <2> QED
    BY <1>2, <2>1, <2>3, <2>4, SeqEqual
<1>9. Intact(s)
  BY <1>6, <1>8 DEF Intact, Last, c
<1>10. Inside(s) = b
  <2> DEFINE f == Slice(s, 1, n)
             o == 1
             S == Nat
  <2>1. o \in Nat /\ n \in Nat /\ o + n <= Len(s) /\ s \in Seq(S)
    BY <1>1, <1>5, <1>6
  <2>2. Inside(s) = f
    <3>1. 1 + 1 = 2 /\ 1 + n = Len(s) - 1
      BY <1>1, <1>6
    <3> QED
      BY <3>1 DEF Inside, Slice
  <2>3. f \in Seq(S) /\ Len(f) = n /\ \A i \in 1 .. n : f[i] = s[o + i]
    <3> HIDE DEF o, S
    <3>1. /\ Slice(s, o, n) \in Seq(S) /\ Len(Slice(s, o, n)) = n
          /\ \A i \in 1 .. n : Slice(s, o, n)[i] = s[o + i]
      BY ZenonT(60), <2>1, SliceFacts
    <3> QED
      BY <3>1 DEF o
  <2> HIDE DEF f
  <2>4. ASSUME NEW i \in 1 .. n PROVE f[i] = b[i]
    <3>1. 1 + i \in 1 .. 1 + n
      BY <1>1
    <3> QED
      BY <1>2, <1>5, <2>3, <3>1
  <2> QED
    BY <2>2, <2>3, <2>4, SeqEqual DEF n
<1> QED
  BY <1>5, <1>6, <1>7, <1>8, <1>9, <1>10 DEF t, n, h

LEMMA InsideFacts ==
  ASSUME NEW S, NEW s \in Seq(S), Len(s) >= 2
  PROVE  /\ Inside(s) \in Seq(S) /\ Len(Inside(s)) = Len(s) - 2
         /\ \A i \in 1 .. Len(s) - 2 : Inside(s)[i] = s[1 + i]
         /\ Front(s) \in Seq(S) /\ Len(Front(s)) = Len(s) - 1
         /\ \A i \in 1 .. Len(s) - 1 : Front(s)[i] = s[i]
<1> DEFINE n == Len(s) - 2
           m == Len(s) - 1
           o == 1
<1>1. /\ o \in Nat /\ n \in Nat /\ o + n <= Len(s) /\ m \in Nat /\ m <= Len(s)
      /\ 1 + 1 = 2 /\ 1 + n = Len(s) - 1
  OBVIOUS
<1>2. Inside(s) = Slice(s, o, n)
  BY <1>1 DEF Inside, Slice
<1>3. \A i \in 1 .. m : s[i] \in S
  BY <1>1
<1>4. Front(s) = SubSeq(s, 1, m)
  BY DEF Front
<1> HIDE DEF n, m, o
<1>5. /\ Slice(s, o, n) \in Seq(S) /\ Len(Slice(s, o, n)) = n
      /\ \A i \in 1 .. n : Slice(s, o, n)[i] = s[o + i]
  BY <1>1, SliceFacts
<1>6. SubSeq(s, 1, m) \in Seq(S) /\ Len(SubSeq(s, 1, m)) = m
      /\ \A i \in 1 .. m : SubSeq(s, 1, m)[i] = s[i]
  BY <1>1, <1>3, SubSeqProperties
<1> QED
  BY <1>2, <1>4, <1>5, <1>6 DEF n, m, o

LEMMA SealedForm ==
  ASSUME NEW s \in Seq(Nat), Len(s) >= 2, Intact(s)
  PROVE  /\ Inside(s) \in Seq(Nat) /\ s[1] \in Nat /\ Len(Inside(s)) = Len(s) - 2
         /\ Front(s) = <<s[1]>> \o Inside(s) /\ Front(s) \in Seq(Nat)
         /\ s = Sealed(<<s[1]>> \o Inside(s))
<1> DEFINE N == Len(s)
           b == Inside(s)
           g == s[1]
           h == <<g>>
           f == Front(s)
           t == h \o b
           n == N - 2
           S == Nat
<1>1. N \in Nat /\ n \in Nat /\ N = n + 2 /\ 1 \in 1 .. N /\ s \in Seq(S)
  OBVIOUS
<1>2. g \in Nat
  BY <1>1
<1> HIDE DEF N, n
<1>3. /\ b \in Seq(S) /\ Len(b) = n /\ \A i \in 1 .. n : b[i] = s[1 + i]
      /\ f \in Seq(S) /\ Len(f) = n + 1 /\ \A i \in 1 .. n + 1 : f[i] = s[i]
  <2> HIDE DEF S
  <2>1. /\ b \in Seq(S) /\ Len(b) = N - 2 /\ \A i \in 1 .. N - 2 : b[i] = s[1 + i]
        /\ f \in Seq(S) /\ Len(f) = N - 1 /\ \A i \in 1 .. N - 1 : f[i] = s[i]
    BY <1>1, InsideFacts DEF N
  <2> QED
    BY <1>1, <2>1 DEF n
<1>4. f \in Seq(S) /\ Len(f) = n + 1 /\ \A i \in 1 .. n + 1 : f[i] = s[i]
  BY <1>3
<1> HIDE DEF b, f
<1>5. h \in Seq(Nat) /\ Len(h) = 1 /\ h[1] = g
  BY <1>2
<1> HIDE DEF h, g
<1>6. /\ t \in Seq(Nat) /\ Len(t) = 1 + n /\ t[1] = g /\ \A i \in 1 .. n : t[1 + i] = b[i]
  <2>1. IsConcat(t, h, b)
    BY <1>3, <1>5, ConcatFacts
  <2> HIDE DEF t
  <2>2. /\ t \in Seq(Nat) /\ Len(t) = Len(h) + Len(b) /\ 1 \in 1 .. Len(h)
        /\ \A i \in 1 .. Len(h) : t[i] = h[i]
        /\ \A i \in 1 .. Len(b) : t[Len(h) + i] = b[i]
    BY <1>5, <2>1 DEF IsConcat
  <2> QED
    BY <1>3, <1>5, <2>2
<1> HIDE DEF t
<1>7. f = t
  <2>1. ASSUME NEW i \in 1 .. n + 1 PROVE f[i] = t[i]
    <3>1. CASE i = 1
      BY <1>4, <1>6, <2>1, <3>1 DEF g
    <3>2. CASE i # 1
      <4>1. i - 1 \in 1 .. n /\ 1 + (i - 1) = i
        BY <1>1, <3>2
      <4>2. t[1 + (i - 1)] = b[i - 1] /\ b[i - 1] = s[1 + (i - 1)]
        BY <1>3, <1>6, <4>1
      <4> QED
        BY <1>4, <4>1, <4>2
    <3> QED
      BY <3>1, <3>2
  <2>2. n + 1 = 1 + n
    BY <1>1
  <2> QED
    BY <1>4, <1>6, <2>1, <2>2, SeqEqual
<1>8. s = Append(f, Checksum(f))
  <2> DEFINE c == Checksum(f)
             r == Append(f, c)
  <2>1. c \in Nat
    BY <1>4, ChecksumType
  <2>2. s[N] = c
    BY DEF Intact, Last, N, f
  <2> HIDE DEF c
  <2>3. /\ r \in Seq(Nat) /\ Len(r) = (n + 1) + 1 /\ r[(n + 1) + 1] = c
        /\ \A i \in 1 .. n + 1 : r[i] = f[i]
    BY <1>4, <2>1, AppendProperties
  <2> HIDE DEF r
  <2>4. Len(r) = N /\ r[N] = c
    BY <1>1, <2>3
  <2>5. ASSUME NEW i \in 1 .. N PROVE s[i] = r[i]
    <3>1. i = N \/ i \in 1 .. n + 1
      BY <1>1
    <3> QED
      BY <1>4, <2>2, <2>3, <2>4, <3>1
  <2>6. s = r
    BY <1>1, <2>3, <2>4, <2>5, SeqEqual DEF N
  <2> QED
    BY <2>6 DEF r, c
<1> QED
  BY <1>2, <1>3, <1>4, <1>7, <1>8 DEF Sealed, t, h, g, b, f, n, N

-----------------------------------------------------------------------------
(* The encoding of an inode. *)

InodeType ==
  [identifier : Nat, type : Nat, links : Nat, size : Nat, allocated : Nat,
   deleted : BOOLEAN, target : Seq(Nat), extents : Seq(Piece),
   attributes : Seq(AttributeType)]

InodeHead(i) ==
  <<i.identifier, i.type, i.links, i.size, i.allocated, IF i.deleted THEN 1 ELSE 0,
    Len(i.extents), Len(i.attributes)>>

InodeBody(i) ==
  ((InodeHead(i) \o EncodedString(i.target)) \o EncodedExtents(i.extents))
    \o EncodedAttributes(i.attributes)

\* Where the extents and the attributes begin.
ExtentsAt(i) == 9 + Len(i.target)
AttributesAt(i) == ExtentsAt(i) + 4 * Len(i.extents)

LEMMA InodeFields ==
  ASSUME NEW i \in InodeType
  PROVE  /\ i.identifier \in Nat /\ i.type \in Nat /\ i.links \in Nat /\ i.size \in Nat
         /\ i.allocated \in Nat /\ i.deleted \in BOOLEAN
         /\ i.target \in Seq(Nat) /\ i.extents \in Seq(Piece)
         /\ i.attributes \in Seq(AttributeType)
         /\ Len(i.target) \in Nat /\ Len(i.extents) \in Nat /\ Len(i.attributes) \in Nat
<1> DEFINE T == Piece
           U == AttributeType
           V == Nat
<1>1. InodeType = [identifier : Nat, type : Nat, links : Nat, size : Nat, allocated : Nat,
                   deleted : BOOLEAN, target : Seq(V), extents : Seq(T),
                   attributes : Seq(U)]
  BY DEF InodeType
<1> HIDE DEF T, U, V
<1>2. /\ i.identifier \in Nat /\ i.type \in Nat /\ i.links \in Nat /\ i.size \in Nat
      /\ i.allocated \in Nat /\ i.deleted \in BOOLEAN
      /\ i.target \in Seq(V) /\ i.extents \in Seq(T) /\ i.attributes \in Seq(U)
  BY <1>1
<1>3. Len(i.target) \in Nat /\ Len(i.extents) \in Nat /\ Len(i.attributes) \in Nat
  BY <1>2, LenProperties
<1> QED
  BY <1>2, <1>3 DEF T, U, V

LEMMA InodeHeadType ==
  ASSUME NEW i \in InodeType
  PROVE  InodeHead(i) \in Seq(Nat) /\ Len(InodeHead(i)) = 8
<1> DEFINE d == IF i.deleted THEN 1 ELSE 0
           m == Len(i.extents)
           n == Len(i.attributes)
           a == i.identifier
           b == i.type
           c == i.links
           e == i.size
           f == i.allocated
<1>1. /\ a \in Nat /\ b \in Nat /\ c \in Nat /\ e \in Nat /\ f \in Nat /\ d \in Nat
      /\ m \in Nat /\ n \in Nat
  BY InodeFields
<1> HIDE DEF a, b, c, d, e, f, m, n
<1>2. <<a, b, c, e, f, d, m, n>> \in Seq(Nat)
  BY <1>1
<1>3. Len(<<a, b, c, e, f, d, m, n>>) = 8
  OBVIOUS
<1> QED
  BY <1>2, <1>3 DEF InodeHead, a, b, c, d, e, f, m, n

LEMMA InodeBodyType ==
  ASSUME NEW i \in InodeType
  PROVE  /\ InodeBody(i) \in Seq(Nat)
         /\ Len(InodeBody(i)) = AttributesAt(i) + Len(EncodedAttributes(i.attributes))
         /\ ExtentsAt(i) \in Nat /\ AttributesAt(i) \in Nat
         /\ Len(EncodedAttributes(i.attributes)) \in Nat
<1> DEFINE h == InodeHead(i)
           t == EncodedString(i.target)
           e == EncodedExtents(i.extents)
           a == EncodedAttributes(i.attributes)
<1>1. /\ h \in Seq(Nat) /\ Len(h) = 8
      /\ t \in Seq(Nat) /\ Len(t) = 1 + Len(i.target) /\ Len(i.target) \in Nat
      /\ e \in Seq(Nat) /\ Len(e) = 4 * Len(i.extents) /\ Len(i.extents) \in Nat
      /\ a \in Seq(Nat) /\ Len(a) \in Nat
  BY InodeFields, InodeHeadType, StringEncoded, ExtentsLength, AttributeUnitsType
<1> HIDE DEF h, t, e, a
<1>2. h \o t \in Seq(Nat) /\ Len(h \o t) = Len(h) + Len(t)
  BY <1>1, ConcatFacts DEF IsConcat
<1>3. /\ (h \o t) \o e \in Seq(Nat)
      /\ Len((h \o t) \o e) = Len(h \o t) + Len(e)
  BY <1>1, <1>2, ConcatFacts DEF IsConcat
<1>4. /\ ((h \o t) \o e) \o a \in Seq(Nat)
      /\ Len(((h \o t) \o e) \o a) = Len((h \o t) \o e) + Len(a)
  BY <1>1, <1>3, ConcatFacts DEF IsConcat
<1>5. InodeBody(i) = ((h \o t) \o e) \o a
  BY DEF InodeBody, h, t, e, a
<1>6. /\ Len(InodeBody(i)) = AttributesAt(i) + Len(a)
      /\ ExtentsAt(i) \in Nat /\ AttributesAt(i) \in Nat
  <2> DEFINE x == Len(i.target)
             y == Len(i.extents)
             z == Len(a)
             w == Len(InodeBody(i))
  <2>1. x \in Nat /\ y \in Nat /\ z \in Nat /\ w = ((8 + (1 + x)) + 4 * y) + z
    BY <1>1, <1>2, <1>3, <1>4, <1>5
  <2> HIDE DEF x, y, z, w
  <2>2. w = ((9 + x) + 4 * y) + z /\ 9 + x \in Nat /\ (9 + x) + 4 * y \in Nat
    BY <2>1
  <2> QED
    BY <2>2 DEF ExtentsAt, AttributesAt, x, y, z, w
<1> QED
  BY <1>1, <1>4, <1>5, <1>6 DEF a

\* What the body of an inode's record is, piece by piece.
Layout(b, i) ==
  /\ Holds(b, 0, InodeHead(i)) /\ Holds(b, 8, EncodedString(i.target))
  /\ Holds(b, ExtentsAt(i), EncodedExtents(i.extents))
  /\ Holds(b, AttributesAt(i), EncodedAttributes(i.attributes))
  /\ Len(b) = AttributesAt(i) + Len(EncodedAttributes(i.attributes))

LEMMA InodeLayout ==
  ASSUME NEW b \in Seq(Nat), NEW i \in InodeType
  PROVE  b = InodeBody(i) <=> Layout(b, i)
<1> DEFINE h == InodeHead(i)
           t == EncodedString(i.target)
           e == EncodedExtents(i.extents)
           a == EncodedAttributes(i.attributes)
           x == ExtentsAt(i)
           y == AttributesAt(i)
           o == 0
<1>1. /\ h \in Seq(Nat) /\ Len(h) = 8
      /\ t \in Seq(Nat) /\ Len(t) = 1 + Len(i.target) /\ Len(i.target) \in Nat
      /\ e \in Seq(Nat) /\ Len(e) = 4 * Len(i.extents) /\ Len(i.extents) \in Nat
      /\ a \in Seq(Nat) /\ Len(a) \in Nat
  BY InodeFields, InodeHeadType, StringEncoded, ExtentsLength, AttributeUnitsType
<1>2. /\ InodeBody(i) \in Seq(Nat) /\ Len(InodeBody(i)) = y + Len(a)
      /\ x \in Nat /\ y \in Nat
  BY InodeBodyType
<1>3. x = 9 + Len(i.target) /\ y = x + 4 * Len(i.extents) /\ o \in Nat
  BY DEF ExtentsAt, AttributesAt
<1>4. InodeBody(i) = ((h \o t) \o e) \o a
  BY DEF InodeBody
<1> HIDE DEF h, t, e, a, x, y, o
<1>5. h \o t \in Seq(Nat) /\ Len(h \o t) = Len(h) + Len(t)
  BY <1>1, ConcatFacts DEF IsConcat
<1>6. /\ (h \o t) \o e \in Seq(Nat)
      /\ Len((h \o t) \o e) = Len(h \o t) + Len(e)
  BY <1>1, <1>5, ConcatFacts DEF IsConcat
<1>7. Len(h \o t) = x /\ Len((h \o t) \o e) = y
  <2> DEFINE n == Len(i.target)
  <2>1. Len(h \o t) = 8 + (1 + n) /\ x = 9 + n /\ n \in Nat
    BY <1>1, <1>3, <1>5
  <2> HIDE DEF n
  <2>2. Len(h \o t) = x
    BY <2>1
  <2> QED
    BY <1>1, <1>3, <1>6, <2>2
<1>8. Holds(b, o, h \o t) <=> Holds(b, o, h) /\ Holds(b, o + Len(h), t)
  BY <1>1, <1>3, HoldsConcat
<1>9. Holds(b, o, (h \o t) \o e) <=> Holds(b, o, h \o t) /\ Holds(b, o + Len(h \o t), e)
  BY <1>1, <1>3, <1>5, HoldsConcat
<1>10. Holds(b, o, ((h \o t) \o e) \o a) <=>
         Holds(b, o, (h \o t) \o e) /\ Holds(b, o + Len((h \o t) \o e), a)
  BY <1>1, <1>3, <1>6, HoldsConcat
<1>11. o + Len(h) = 8 /\ o + Len(h \o t) = x /\ o + Len((h \o t) \o e) = y
  BY <1>1, <1>2, <1>7 DEF o
<1>12. b = InodeBody(i) <=> Len(b) = y + Len(a) /\ Holds(b, o, InodeBody(i))
  BY <1>2, HoldsAll DEF o
<1>13. b = InodeBody(i) <=>
         /\ Len(b) = y + Len(a) /\ Holds(b, o, h) /\ Holds(b, 8, t) /\ Holds(b, x, e)
         /\ Holds(b, y, a)
  BY <1>4, <1>8, <1>9, <1>10, <1>11, <1>12
<1> QED
  BY <1>13 DEF Layout, h, t, e, a, x, y, o

LEMMA InodeEncoded ==
  ASSUME NEW i \in InodeType
  PROVE  EncodedInode(i) = Sealed(<<InodeSignature>> \o InodeBody(i))
<1> DEFINE h == InodeHead(i)
           t == EncodedString(i.target)
           e == EncodedExtents(i.extents)
           a == EncodedAttributes(i.attributes)
           g == <<InodeSignature>>
<1>1. /\ h \in Seq(Nat) /\ t \in Seq(Nat) /\ e \in Seq(Nat) /\ a \in Seq(Nat) /\ g \in Seq(Nat)
  <2>1. InodeSignature \in Nat
    BY DEF InodeSignature
  <2>2. g \in Seq(Nat)
    BY <2>1
  <2> QED
    BY <2>2, InodeFields, InodeHeadType, StringEncoded, ExtentsLength, AttributeUnitsType
<1> DEFINE k == <<InodeSignature, i.identifier, i.type, i.links, i.size, i.allocated,
                  IF i.deleted THEN 1 ELSE 0, Len(i.extents), Len(i.attributes)>>
<1>2. k = g \o h
  <2>1. IsConcat(g \o h, g, h)
    BY <1>1, ConcatFacts
  <2>2. Len(h) = 8 /\ Len(g) = 1 /\ g[1] = InodeSignature
    BY InodeHeadType
  <2> DEFINE u == g \o h
             d == IF i.deleted THEN 1 ELSE 0
             m == Len(i.extents)
             n == Len(i.attributes)
  <2>3. /\ h[1] = i.identifier /\ h[2] = i.type /\ h[3] = i.links /\ h[4] = i.size
        /\ h[5] = i.allocated /\ h[6] = d /\ h[7] = m /\ h[8] = n
    BY DEF InodeHead
  <2>4. k \in Seq(Nat)
    <3>1. /\ InodeSignature \in Nat /\ i.identifier \in Nat /\ i.type \in Nat
          /\ i.links \in Nat /\ i.size \in Nat /\ i.allocated \in Nat /\ d \in Nat
          /\ m \in Nat /\ n \in Nat
      BY InodeFields DEF InodeSignature
    <3> HIDE DEF d, m, n
    <3>2. <<InodeSignature, i.identifier, i.type, i.links, i.size, i.allocated, d, m, n>>
            \in Seq(Nat)
      BY <3>1
    <3> QED
      BY <3>2 DEF d, m, n
  <2>5. /\ Len(k) = 9 /\ k[1] = InodeSignature /\ k[2] = i.identifier /\ k[3] = i.type
        /\ k[4] = i.links /\ k[5] = i.size /\ k[6] = i.allocated /\ k[7] = d
        /\ k[8] = m /\ k[9] = n
    OBVIOUS
  <2> HIDE DEF u, h, g, k, d, m, n
  <2>6. u \in Seq(Nat) /\ Len(u) = 9 /\ u[1] = g[1] /\ \A j \in 1 .. 8 : u[1 + j] = h[j]
    <3>1. /\ u \in Seq(Nat) /\ Len(u) = Len(g) + Len(h) /\ 1 \in 1 .. Len(g)
          /\ \A j \in 1 .. Len(g) : u[j] = g[j]
          /\ \A j \in 1 .. Len(h) : u[Len(g) + j] = h[j]
      <4>1. IsConcat(u, g, h)
        BY <2>1 DEF u
      <4>2. 1 \in 1 .. Len(g)
        BY <2>2
      <4> QED
        BY <4>1, <4>2 DEF IsConcat
    <3> QED
      BY <2>2, <3>1
  <2>7. /\ u[2] = h[1] /\ u[3] = h[2] /\ u[4] = h[3] /\ u[5] = h[4] /\ u[6] = h[5]
        /\ u[7] = h[6] /\ u[8] = h[7] /\ u[9] = h[8]
    BY <2>6
  <2>8. ASSUME NEW j \in 1 .. 9 PROVE k[j] = u[j]
    <3>1. j \in {1, 2, 3, 4, 5, 6, 7, 8, 9}
      OBVIOUS
    <3> QED
      BY <2>2, <2>3, <2>5, <2>6, <2>7, <3>1
  <2>9. k = u
    BY <2>4, <2>5, <2>6, <2>8, SeqEqual
  <2> QED
    BY <2>9 DEF u
<1>3. EncodedInode(i) = Sealed(((k \o t) \o e) \o a)
  BY DEF EncodedInode, EncodedExtents, ExtentUnits, EncodedAttributes, AttributeUnits
<1> HIDE DEF h, t, e, a, g, k
<1>4. h \o t \in Seq(Nat) /\ (h \o t) \o e \in Seq(Nat) /\ ((h \o t) \o e) \o a \in Seq(Nat)
  <2>1. h \o t \in Seq(Nat)
    BY <1>1, ConcatProperties
  <2>2. (h \o t) \o e \in Seq(Nat)
    BY <1>1, <2>1, ConcatProperties
  <2>3. ((h \o t) \o e) \o a \in Seq(Nat)
    BY <1>1, <2>2, ConcatProperties
  <2> QED
    BY <2>1, <2>2, <2>3
<1>5. (g \o h) \o t = g \o (h \o t)
  BY <1>1, ConcatThree
<1>6. (g \o (h \o t)) \o e = g \o ((h \o t) \o e)
  BY ZenonT(60), <1>1, <1>4, ConcatThree
<1>7. (g \o ((h \o t) \o e)) \o a = g \o (((h \o t) \o e) \o a)
  BY ZenonT(60), <1>1, <1>4, ConcatThree
<1>8. InodeBody(i) = ((h \o t) \o e) \o a
  BY DEF InodeBody, h, t, e, a
<1> QED
  BY <1>2, <1>3, <1>5, <1>6, <1>7, <1>8 DEF g

-----------------------------------------------------------------------------
(* Decoding an inode. *)

\* Where decode() looks for the extents and the attributes, and what it makes
\* of the body.
ExtentsIn(b) == HeadUnits + Len(StringAt(b, HeadUnits - 1))
AttributesIn(b) == ReadAttributes(b, ExtentsIn(b) + 4 * b[7], b[8])

InodeIn(b) ==
  [identifier |-> b[1], type |-> b[2], links |-> b[3], size |-> b[4], allocated |-> b[5],
   deleted |-> b[6] = 1, target |-> StringAt(b, HeadUnits - 1),
   extents |-> [k \in 1 .. b[7] |-> ExtentAt(b, ExtentsIn(b) + 4 * (k - 1))],
   attributes |-> AttributesIn(b).list]

\* The body can be read.
InodeReads(b) ==
  /\ Readable(b, 0, HeadUnits - 1) /\ StringFits(b, HeadUnits - 1, MaxTarget)
  /\ b[2] \in Regular .. SymbolicLink /\ Flag(b[6])
  /\ b[7] <= MaxExtents /\ b[8] <= MaxEntries
  /\ Readable(b, ExtentsIn(b), 4 * b[7])
  /\ \A k \in 1 .. b[7] : Flag(b[ExtentsIn(b) + 4 * k])
  /\ AttributesIn(b).ok /\ AllRead(b, AttributesIn(b).at)

LEMMA DecodedInodeIs ==
  ASSUME NEW s
  PROVE  DecodedInode(s) =
           IF /\ Len(s) >= LeastUnits - 1 /\ s[1] = InodeSignature /\ Intact(s)
              /\ InodeReads(Inside(s)) /\ Valid(InodeIn(Inside(s)))
           THEN {InodeIn(Inside(s))} ELSE {}
BY DEF DecodedInode, InodeReads, InodeIn, AttributesIn, ExtentsIn, Inside

LEMMA HeadHeld ==
  ASSUME NEW b \in Seq(Nat), NEW i \in InodeType
  PROVE  Holds(b, 0, InodeHead(i)) <=>
           /\ 8 <= Len(b)
           /\ b[1] = i.identifier /\ b[2] = i.type /\ b[3] = i.links /\ b[4] = i.size
           /\ b[5] = i.allocated /\ Flag(b[6]) /\ (b[6] = 1) = i.deleted
           /\ b[7] = Len(i.extents) /\ b[8] = Len(i.attributes)
<1> DEFINE h == InodeHead(i)
           d == IF i.deleted THEN 1 ELSE 0
           m == Len(i.extents)
           n == Len(i.attributes)
<1>1. /\ h[1] = i.identifier /\ h[2] = i.type /\ h[3] = i.links /\ h[4] = i.size
      /\ h[5] = i.allocated /\ h[6] = d /\ h[7] = m /\ h[8] = n
  BY DEF InodeHead
<1>2. Len(h) = 8
  BY InodeHeadType
<1> HIDE DEF h, d, m, n
<1>3. Holds(b, 0, h) <=> 8 <= Len(b) /\ \A j \in 1 .. 8 : b[j] = h[j]
  <2>1. \A j \in 1 .. 8 : 0 + j = j
    OBVIOUS
  <2>2. 0 + 8 = 8
    OBVIOUS
  <2> QED
    BY <1>2, <2>1, <2>2 DEF Holds
<1>4. (\A j \in 1 .. 8 : b[j] = h[j]) <=>
        /\ b[1] = h[1] /\ b[2] = h[2] /\ b[3] = h[3] /\ b[4] = h[4]
        /\ b[5] = h[5] /\ b[6] = h[6] /\ b[7] = h[7] /\ b[8] = h[8]
  <2>1. \A j \in 1 .. 8 : j \in {1, 2, 3, 4, 5, 6, 7, 8}
    OBVIOUS
  <2>2. /\ 1 \in 1 .. 8 /\ 2 \in 1 .. 8 /\ 3 \in 1 .. 8 /\ 4 \in 1 .. 8
        /\ 5 \in 1 .. 8 /\ 6 \in 1 .. 8 /\ 7 \in 1 .. 8 /\ 8 \in 1 .. 8
    OBVIOUS
  <2> QED
    BY <2>1, <2>2
<1>5. ASSUME 8 <= Len(b)
      PROVE  b[6] = d <=> Flag(b[6]) /\ (b[6] = 1) = i.deleted
  <2> DEFINE x == b[6]
  <2>1. x \in Nat
    <3>1. 6 \in 1 .. Len(b)
      BY <1>5
    <3> QED
      BY <3>1
  <2>2. i.deleted \in BOOLEAN
    BY InodeFields
  <2> HIDE DEF x
  <2>3. x = d <=> x <= 1 /\ (x = 1) = i.deleted
    BY <2>1, <2>2 DEF d
  <2> QED
    BY <2>3 DEF x, Flag
<1> QED
  BY <1>1, <1>3, <1>4, <1>5 DEF h, m, n

\* The attributes of an inode that encode() takes are none that decode() refuses.
LEMMA EncodableFacts ==
  ASSUME NEW i \in InodeType, Encodable(i)
  PROVE  /\ Len(i.target) <= MaxTarget /\ Len(i.extents) <= MaxExtents
         /\ Len(i.attributes) <= MaxEntries /\ AttributeBytes(i.attributes) <= MaxValues
         /\ \A k \in 1 .. Len(i.attributes) : Len(i.attributes[k].name) <= MaxName
BY DEF Encodable

LEMMA InodeFound ==
  ASSUME NEW b \in Seq(Nat), NEW i \in InodeType, Layout(b, i), Encodable(i),
         i.type \in Regular .. SymbolicLink
  PROVE  InodeReads(b) /\ InodeIn(b) = i
<1> DEFINE t == i.target
           q == i.extents
           a == i.attributes
           e == ExtentsAt(i)
           p == AttributesAt(i)
<1>1. /\ t \in Seq(Nat) /\ q \in Seq(Piece) /\ a \in Seq(AttributeType)
      /\ Len(t) \in Nat /\ Len(q) \in Nat /\ Len(a) \in Nat /\ i.deleted \in BOOLEAN
  BY InodeFields
<1>2. e \in Nat /\ p \in Nat /\ e = 9 + Len(t) /\ p = e + 4 * Len(q)
  BY InodeBodyType DEF ExtentsAt, AttributesAt
<1>3. /\ Len(t) <= MaxTarget /\ Len(q) <= MaxExtents /\ Len(a) <= MaxEntries
      /\ AttributeBytes(a) <= MaxValues
      /\ \A k \in 1 .. Len(a) : Len(a[k].name) <= MaxName
  BY EncodableFacts
<1>4. /\ Holds(b, 0, InodeHead(i)) /\ Holds(b, 8, EncodedString(t))
      /\ Holds(b, e, EncodedExtents(q)) /\ Holds(b, p, EncodedAttributes(a))
      /\ Len(b) = p + Len(EncodedAttributes(a))
  BY DEF Layout
<1>5. /\ 8 <= Len(b)
      /\ b[1] = i.identifier /\ b[2] = i.type /\ b[3] = i.links /\ b[4] = i.size
      /\ b[5] = i.allocated /\ Flag(b[6]) /\ (b[6] = 1) = i.deleted
      /\ b[7] = Len(q) /\ b[8] = Len(a)
  BY <1>4, HeadHeld
<1> HIDE DEF t, q, a, e, p
<1>6. HeadUnits = 9 /\ HeadUnits - 1 = 8
  BY DEF HeadUnits
<1>7. StringFits(b, 8, MaxTarget) /\ StringAt(b, 8) = t
  <2> DEFINE n == 8
  <2>1. n \in Nat /\ Holds(b, n, EncodedString(t)) /\ MaxTarget \in Nat
    BY <1>4, LimitsType
  <2> HIDE DEF n
  <2>2. StringFits(b, n, MaxTarget) /\ StringAt(b, n) = t
    BY <1>1, <1>3, <2>1, StringFound
  <2> QED
    BY <2>2 DEF n
<1>8. ExtentsIn(b) = e /\ ExtentsIn(b) + 4 * b[7] = p
  BY <1>2, <1>5, <1>6, <1>7 DEF ExtentsIn
<1>9. /\ e + 4 * Len(q) <= Len(b)
      /\ \A k \in 1 .. Len(q) : ExtentAt(b, e + 4 * (k - 1)) = q[k] /\ Flag(b[e + 4 * k])
  BY <1>1, <1>2, <1>4, ExtentsHeld
<1>10. /\ AttributesIn(b).ok /\ AttributesIn(b).at = Len(b) /\ AttributesIn(b).list = a
  <2>1. AttributesIn(b) = ReadAttributes(b, p, Len(a))
    BY <1>5, <1>8 DEF AttributesIn
  <2>2. /\ ReadAttributes(b, p, Len(a)).ok
        /\ ReadAttributes(b, p, Len(a)).at = p + Len(EncodedAttributes(a))
        /\ ReadAttributes(b, p, Len(a)).list = a
    BY <1>1, <1>2, <1>3, <1>4, AttributesFound
  <2> QED
    BY <1>4, <2>1, <2>2
<1>11. InodeReads(b)
  <2>1. Readable(b, 0, HeadUnits - 1)
    BY <1>5, <1>6 DEF Readable
  <2>2. Readable(b, ExtentsIn(b), 4 * b[7])
    BY <1>5, <1>8, <1>9 DEF Readable
  <2>3. \A k \in 1 .. b[7] : Flag(b[ExtentsIn(b) + 4 * k])
    BY <1>5, <1>8, <1>9
  <2> QED
    BY <1>3, <1>5, <1>6, <1>7, <1>10, <2>1, <2>2, <2>3 DEF InodeReads, AllRead
<1>12. [k \in 1 .. b[7] |-> ExtentAt(b, ExtentsIn(b) + 4 * (k - 1))] = q
  <2> DEFINE N == Len(q)
             T == Piece
             r == [k \in 1 .. N |-> ExtentAt(b, e + 4 * (k - 1))]
  <2>1. \A k \in 1 .. N : ExtentAt(b, e + 4 * (k - 1)) = q[k]
    BY <1>9
  <2>2. q \in Seq(T)
    BY <1>1
  <2> HIDE DEF T
  <2>3. q = [k \in 1 .. N |-> q[k]]
    BY <2>2
  <2> HIDE DEF N
  <2>4. r = [k \in 1 .. N |-> q[k]]
    BY <2>1
  <2> QED
    BY <1>5, <1>8, <2>3, <2>4 DEF N
<1>13. InodeIn(b) = [identifier |-> i.identifier, type |-> i.type, links |-> i.links,
                     size |-> i.size, allocated |-> i.allocated, deleted |-> i.deleted,
                     target |-> t, extents |-> q, attributes |-> a]
  BY <1>5, <1>6, <1>7, <1>10, <1>12 DEF InodeIn
<1>14. i = [identifier |-> i.identifier, type |-> i.type, links |-> i.links,
            size |-> i.size, allocated |-> i.allocated, deleted |-> i.deleted,
            target |-> i.target, extents |-> i.extents, attributes |-> i.attributes]
  BY DEF InodeType
<1> QED
  BY <1>11, <1>13, <1>14 DEF t, q, a

\* What encode() makes of an inode is decoded as this inode when it is valid.
LEMMA InodeComesBack ==
  ASSUME NEW i \in InodeType, Encodable(i), i.type \in Regular .. SymbolicLink
  PROVE  DecodedInode(EncodedInode(i)) = IF Valid(i) THEN {i} ELSE {}
<1> DEFINE b == InodeBody(i)
           s == EncodedInode(i)
           g == InodeSignature
<1>1. b \in Seq(Nat) /\ g \in Nat /\ s = Sealed(<<g>> \o b)
  BY InodeBodyType, InodeEncoded DEF InodeSignature
<1>2. Layout(b, i)
  BY <1>1, InodeLayout
<1> HIDE DEF b, s, g
<1>3. s \in Seq(Nat) /\ Len(s) = Len(b) + 2 /\ s[1] = g /\ Intact(s) /\ Inside(s) = b
  BY <1>1, SealedFacts
<1>4. InodeReads(b) /\ InodeIn(b) = i
  BY <1>1, <1>2, InodeFound
<1>5. Len(s) >= LeastUnits - 1
  <2>1. 8 <= Len(b) /\ Len(b) \in Nat
    BY <1>1, <1>2, HeadHeld DEF Layout
  <2> QED
    BY <1>3, <2>1 DEF LeastUnits
<1>6. DecodedInode(s) = IF /\ Len(s) >= LeastUnits - 1 /\ s[1] = InodeSignature /\ Intact(s)
                           /\ InodeReads(b) /\ Valid(InodeIn(b))
                        THEN {InodeIn(b)} ELSE {}
  BY <1>3, DecodedInodeIs
<1> QED
  BY <1>3, <1>4, <1>5, <1>6 DEF s, g

\* What is decoded is what the record holds.
LEMMA InodeRead ==
  ASSUME NEW b \in Seq(Nat), InodeReads(b)
  PROVE  /\ InodeIn(b) \in InodeType /\ Layout(b, InodeIn(b))
         /\ InodeIn(b).type \in Regular .. SymbolicLink
         /\ InodeIn(b).identifier # 0 => Encodable(InodeIn(b))
<1> DEFINE i == InodeIn(b)
           t == StringAt(b, 8)
           e == ExtentsIn(b)
           n == b[7]
           m == b[8]
           q == [k \in 1 .. n |-> ExtentAt(b, e + 4 * (k - 1))]
           A == AttributesIn(b)
           p == e + 4 * n
           yes == b[6] = 1
<1>1. HeadUnits = 9 /\ HeadUnits - 1 = 8
  BY DEF HeadUnits
<1>2. /\ 8 <= Len(b) /\ StringFits(b, 8, MaxTarget) /\ b[2] \in Regular .. SymbolicLink
      /\ Flag(b[6]) /\ n <= MaxExtents /\ m <= MaxEntries /\ e + 4 * n <= Len(b)
      /\ \A k \in 1 .. n : Flag(b[e + 4 * k])
      /\ A.ok /\ A.at = Len(b)
  BY <1>1 DEF InodeReads, Readable, AllRead
<1>3. /\ b[1] \in Nat /\ b[2] \in Nat /\ b[3] \in Nat /\ b[4] \in Nat /\ b[5] \in Nat
      /\ b[6] \in Nat /\ b[7] \in Nat /\ b[8] \in Nat
  <2>1. ASSUME NEW j \in 1 .. 8 PROVE b[j] \in Nat
    <3>1. j \in 1 .. Len(b)
      BY SMTT(40), <1>2
    <3> QED
      BY <3>1
  <2>2. /\ 1 \in 1 .. 8 /\ 2 \in 1 .. 8 /\ 3 \in 1 .. 8 /\ 4 \in 1 .. 8
        /\ 5 \in 1 .. 8 /\ 6 \in 1 .. 8 /\ 7 \in 1 .. 8 /\ 8 \in 1 .. 8
    OBVIOUS
  <2> QED
    BY <2>1, <2>2
<1>4. t \in Seq(Nat) /\ Len(t) <= MaxTarget /\ Holds(b, 8, EncodedString(t))
  <2> DEFINE o == 8
  <2>1. o \in Nat /\ StringFits(b, o, MaxTarget) /\ MaxTarget \in Nat
    BY <1>2, LimitsType
  <2> HIDE DEF o
  <2>2. /\ StringAt(b, o) \in Seq(Nat) /\ Len(StringAt(b, o)) <= MaxTarget
        /\ Holds(b, o, EncodedString(StringAt(b, o)))
    BY <2>1, StringRead
  <2> QED
    BY <2>2 DEF o
<1>5. Len(t) \in Nat /\ e = 9 + Len(t)
  BY <1>1, <1>4 DEF ExtentsIn
<1>6. i = [identifier |-> b[1], type |-> b[2], links |-> b[3], size |-> b[4],
           allocated |-> b[5], deleted |-> yes, target |-> t, extents |-> q,
           attributes |-> A.list]
  BY <1>1 DEF InodeIn
<1>7. n \in Nat /\ m \in Nat /\ e \in Nat /\ p \in Nat /\ p <= Len(b)
      /\ A = ReadAttributes(b, p, m)
  <2>1. n \in Nat /\ m \in Nat /\ e \in Nat
    BY <1>3, <1>5
  <2>2. A = ReadAttributes(b, p, m)
    BY DEF AttributesIn
  <2> HIDE DEF n, e, m, A
  <2>3. p \in Nat
    BY <2>1
  <2> QED
    BY <1>2, <2>1, <2>2, <2>3
<1> HIDE DEF i, t, e, n, m, A
<1>8. AttributesTaken(b, p, m, A.list, Len(b))
  <2>1. ReadAttributes(b, p, m).ok
    BY <1>2, <1>7
  <2> HIDE DEF p
  <2>2. AttributesTaken(b, p, m, ReadAttributes(b, p, m).list, ReadAttributes(b, p, m).at)
    BY <1>7, <2>1, AttributesRead
  <2> QED
    BY <1>2, <1>7, <2>2
<1>9. q \in Seq(Piece) /\ Len(q) = n /\ \A k \in 1 .. n : q[k] = ExtentAt(b, e + 4 * (k - 1))
  <2> DEFINE T == Piece
  <2>1. ASSUME NEW k \in 1 .. n PROVE ExtentAt(b, e + 4 * (k - 1)) \in T
    <3> DEFINE x == e + 4 * (k - 1)
    <3>1. x \in Nat /\ x + 4 <= Len(b)
      <4>1. 4 * (k - 1) + 4 <= 4 * n /\ 4 * (k - 1) \in Nat
        BY <1>7
      <4> QED
        BY <1>2, <1>7, <4>1
    <3> HIDE DEF x
    <3> QED
      BY <3>1, ExtentAtType DEF x
  <2>2. q \in [1 .. n -> T]
    BY <2>1
  <2>3. \A k \in 1 .. n : q[k] = ExtentAt(b, e + 4 * (k - 1))
    OBVIOUS
  <2> HIDE DEF T, q
  <2>4. q \in Seq(T) /\ Len(q) = n
    BY <1>7, <2>2
  <2> QED
    BY <2>3, <2>4 DEF T
<1> HIDE DEF q
<1>10. Holds(b, e, EncodedExtents(q))
  <2>1. \A k \in 1 .. Len(q) : ExtentAt(b, e + 4 * (k - 1)) = q[k] /\ Flag(b[e + 4 * k])
    BY <1>2, <1>9
  <2>2. e + 4 * Len(q) <= Len(b)
    BY <1>2, <1>9
  <2> QED
    BY <1>7, <1>9, <2>1, <2>2, ExtentsHeld
<1> DEFINE l == A.list
<1>11. /\ l \in Seq(AttributeType) /\ Len(l) = m
       /\ Holds(b, p, EncodedAttributes(l)) /\ Len(b) = p + Len(EncodedAttributes(l))
       /\ AttributeBytes(l) <= MaxValues
       /\ \A k \in 1 .. m : Len(l[k].name) <= MaxName
  BY <1>8 DEF AttributesTaken
<1> HIDE DEF l
<1>12. yes \in BOOLEAN
  OBVIOUS
<1>13. i \in InodeType
  <2> DEFINE T == Piece
             U == AttributeType
             V == Nat
             x1 == b[1]
             x2 == b[2]
             x3 == b[3]
             x4 == b[4]
             x5 == b[5]
  <2>1. t \in Seq(V) /\ q \in Seq(T) /\ l \in Seq(U)
    BY <1>4, <1>9, <1>11
  <2>2. /\ x1 \in Nat /\ x2 \in Nat /\ x3 \in Nat /\ x4 \in Nat /\ x5 \in Nat
    BY <1>3
  <2> HIDE DEF T, U, V, yes, x1, x2, x3, x4, x5
  <2>3. [identifier |-> x1, type |-> x2, links |-> x3, size |-> x4,
         allocated |-> x5, deleted |-> yes, target |-> t, extents |-> q,
         attributes |-> l]
          \in [identifier : Nat, type : Nat, links : Nat, size : Nat, allocated : Nat,
               deleted : BOOLEAN, target : Seq(V), extents : Seq(T), attributes : Seq(U)]
    BY <1>12, <2>1, <2>2
  <2> QED
    BY <1>6, <2>3 DEF InodeType, T, U, V, x1, x2, x3, x4, x5, l
<1>14. /\ i.identifier = b[1] /\ i.type = b[2] /\ i.links = b[3] /\ i.size = b[4]
       /\ i.allocated = b[5] /\ i.deleted = yes /\ i.target = t /\ i.extents = q
       /\ i.attributes = l
  BY <1>6 DEF l
<1>15. Holds(b, 0, InodeHead(i))
  BY <1>2, <1>9, <1>11, <1>13, <1>14, HeadHeld DEF n, m
<1>16. ExtentsAt(i) = e /\ AttributesAt(i) = p
  BY <1>5, <1>9, <1>14 DEF ExtentsAt, AttributesAt
<1>17. Layout(b, i)
  BY <1>4, <1>10, <1>11, <1>14, <1>15, <1>16 DEF Layout
<1>18. i.identifier # 0 => Encodable(i)
  BY <1>2, <1>4, <1>9, <1>11, <1>14 DEF Encodable
<1> QED
  BY <1>2, <1>13, <1>14, <1>17, <1>18 DEF i

\* An inode record has one form.
LEMMA InodeHasOneForm ==
  ASSUME NEW s \in Seq(Nat), NEW i \in DecodedInode(s)
  PROVE  Encodable(i) /\ EncodedInode(i) = s
<1> DEFINE b == Inside(s)
<1>1. /\ Len(s) >= LeastUnits - 1 /\ s[1] = InodeSignature /\ Intact(s)
      /\ InodeReads(b) /\ Valid(InodeIn(b)) /\ i = InodeIn(b)
  BY DecodedInodeIs
<1>2. Len(s) >= 2
  BY <1>1 DEF LeastUnits
<1>3. b \in Seq(Nat) /\ s = Sealed(<<InodeSignature>> \o b)
  BY <1>1, <1>2, SealedForm
<1> HIDE DEF b
<1>4. i \in InodeType /\ Layout(b, i) /\ (i.identifier # 0 => Encodable(i))
  BY <1>1, <1>3, InodeRead
<1>5. i.identifier # 0
  BY <1>1 DEF Valid
<1>6. b = InodeBody(i)
  BY <1>3, <1>4, InodeLayout
<1>7. EncodedInode(i) = Sealed(<<InodeSignature>> \o b)
  BY <1>4, <1>6, InodeEncoded
<1> QED
  BY <1>3, <1>4, <1>5, <1>7

-----------------------------------------------------------------------------
(* Changed records. *)

\* One sequence begins with the other.
Begins(b, t) == Len(b) <= Len(t) /\ \A i \in 1 .. Len(b) : b[i] = t[i]

LEMMA HoldsBegins ==
  ASSUME NEW b \in Seq(Nat), NEW t \in Seq(Nat), Begins(b, t), NEW at \in Nat,
         NEW f \in Seq(Nat), Holds(b, at, f)
  PROVE  Holds(t, at, f)
<1> DEFINE m == Len(b)
           n == Len(t)
           k == Len(f)
<1>1. m \in Nat /\ n \in Nat /\ k \in Nat /\ m <= n /\ at + k <= m
  BY DEF Begins, Holds
<1>2. ASSUME NEW i \in 1 .. k PROVE t[at + i] = f[i]
  <2> HIDE DEF m, n, k
  <2>1. at + i \in 1 .. m
    BY <1>1
  <2>2. b[at + i] = f[i]
    BY DEF Holds, k
  <2>3. b[at + i] = t[at + i]
    BY <2>1 DEF Begins, m
  <2> QED
    BY <2>2, <2>3
<1>3. at + k <= n
  <2> HIDE DEF m, n, k
  <2> QED
    BY <1>1
<1> QED
  BY <1>2, <1>3 DEF Holds

\* A reader does not see what follows.
LEMMA StringBegins ==
  ASSUME NEW b \in Seq(Nat), NEW t \in Seq(Nat), Begins(b, t), NEW at \in Nat,
         NEW m \in Nat, StringFits(b, at, m)
  PROVE  StringFits(t, at, m) /\ StringAt(t, at) = StringAt(b, at)
<1> DEFINE x == StringAt(b, at)
<1>1. x \in Seq(Nat) /\ Len(x) <= m /\ Holds(b, at, EncodedString(x))
  BY StringRead
<1> HIDE DEF x
<1>2. Holds(t, at, EncodedString(x))
  BY <1>1, StringEncoded, HoldsBegins
<1> QED
  BY <1>1, <1>2, StringFound DEF x

LEMMA AttributesBegin ==
  ASSUME NEW b \in Seq(Nat), NEW t \in Seq(Nat), Begins(b, t), NEW at \in Nat,
         NEW n \in Nat, ReadAttributes(b, at, n).ok
  PROVE  ReadAttributes(t, at, n) = ReadAttributes(b, at, n)
<1> DEFINE R == Reading(b, at, n)
           Q == Reading(t, at, n)
           S == {k \in 0 .. n : R[k].ok => Q[k] = R[k]}
<1>1. /\ ReadAttributes(b, at, n) = R[n] /\ R \in [0 .. n -> ReadType]
      /\ R[0] = [ok |-> TRUE, at |-> at, list |-> <<>>]
      /\ \A k \in 1 .. n : R[k] = ReadAttribute(b, R[k - 1])
  BY ReadingDefined
<1>2. /\ ReadAttributes(t, at, n) = Q[n] /\ Q \in [0 .. n -> ReadType]
      /\ Q[0] = [ok |-> TRUE, at |-> at, list |-> <<>>]
      /\ \A k \in 1 .. n : Q[k] = ReadAttribute(t, Q[k - 1])
  BY ReadingDefined
<1> HIDE DEF R, Q
<1>3. 0 \in S
  <2>1. Q[0] = R[0] /\ 0 \in 0 .. n
    BY <1>1, <1>2
  <2> QED
    BY <2>1
<1>4. ASSUME NEW k \in 1 .. n, k - 1 \in S PROVE k \in S
  <2> DEFINE r == R[k - 1]
  <2>1. k \in 0 .. n /\ k - 1 \in 0 .. n
    OBVIOUS
  <2>2. r \in ReadType /\ R[k] = ReadAttribute(b, r) /\ (r.ok => Q[k - 1] = r)
    BY <1>1, <1>4, <2>1
  <2> HIDE DEF r
  <2>3. ASSUME R[k].ok PROVE Q[k] = R[k]
    <3>1. PICK a \in AttributeType : AttributeThere(b, r, a) /\ R[k] = ReadAfter(r, a)
      BY <2>2, <2>3, AttributeTurn
    <3>2. r.at \in Nat /\ EncodedAttribute(a) \in Seq(Nat)
      BY <2>2, AttributeEncoded DEF ReadType
    <3>3. AttributeThere(t, r, a)
      BY <3>1, <3>2, HoldsBegins DEF AttributeThere
    <3>4. ReadAttribute(t, r) = ReadAfter(r, a)
      BY <2>2, <3>3, AttributeAdded
    <3>5. Q[k] = ReadAttribute(t, r)
      BY <1>2, <2>2, <3>3 DEF AttributeThere
    <3> QED
      BY <3>1, <3>4, <3>5
  <2> QED
    BY <2>1, <2>3
<1> HIDE DEF S
<1>5. \A k \in 0 .. n : k \in S
  BY <1>3, <1>4, Counting
<1>6. n \in S
  BY <1>5
<1> QED
  BY <1>1, <1>2, <1>6 DEF S

\* An inode that was read whole has no part that can be read whole.
LEMMA InodeBegins ==
  ASSUME NEW b \in Seq(Nat), NEW t \in Seq(Nat), Begins(b, t), InodeReads(b), InodeReads(t)
  PROVE  Len(b) = Len(t)
<1> DEFINE o == HeadUnits - 1
<1>1. /\ o = 8 /\ o <= Len(b) /\ StringFits(b, o, MaxTarget) /\ MaxTarget \in Nat
      /\ AttributesIn(b).ok /\ AttributesIn(b).at = Len(b) /\ AttributesIn(t).at = Len(t)
  BY LimitsType DEF HeadUnits, InodeReads, Readable, AllRead
<1> HIDE DEF o
<1>2. b[7] = t[7] /\ b[8] = t[8] /\ b[7] \in Nat /\ b[8] \in Nat
  <2>1. 7 \in 1 .. Len(b) /\ 8 \in 1 .. Len(b)
    BY <1>1
  <2> QED
    BY SMTT(40), <2>1 DEF Begins
<1>3. StringAt(t, o) = StringAt(b, o) /\ StringAt(b, o) \in Seq(Nat)
  BY <1>1, StringBegins, StringRead
<1>4. ExtentsIn(t) = ExtentsIn(b) /\ ExtentsIn(b) \in Nat
  BY <1>3 DEF ExtentsIn, o, HeadUnits
<1> DEFINE p == ExtentsIn(b) + 4 * b[7]
           n == b[8]
<1>5. /\ AttributesIn(b) = ReadAttributes(b, p, n) /\ AttributesIn(t) = ReadAttributes(t, p, n)
      /\ p \in Nat /\ n \in Nat
  <2>1. AttributesIn(b) = ReadAttributes(b, p, n)
    BY DEF AttributesIn
  <2>2. AttributesIn(t) = ReadAttributes(t, p, n)
    BY <1>2, <1>4 DEF AttributesIn
  <2>3. p \in Nat
    BY SMTT(40), <1>2, <1>4
  <2> QED
    BY <1>2, <2>1, <2>2, <2>3
<1> HIDE DEF p, n
<1>6. AttributesIn(t) = AttributesIn(b)
  BY <1>1, <1>5, AttributesBegin
<1> QED
  BY <1>1, <1>6

\* What a change that keeps the sum right can only do: lengthen or shorten.
LEMMA DamageShows ==
  ASSUME NEW s \in Seq(Units), Len(s) >= 2, Intact(s), NEW t \in Edits(s),
         Len(t) >= 2, Intact(t)
  PROVE  /\ t \in Seq(Units) /\ Len(Inside(t)) # Len(Inside(s))
         /\ Begins(Inside(s), Inside(t)) \/ Begins(Inside(t), Inside(s))
<1> DEFINE U == Units
           N == Len(s)
<1>1. s \in Seq(U) /\ t \in Seq(U) /\ N \in Nat /\ N >= 2
  BY EditsType
<1> HIDE DEF U, N
<1>2. /\ Len(Inside(s)) = N - 2 /\ \A i \in 1 .. N - 2 : Inside(s)[i] = s[1 + i]
      /\ Front(s) \in Seq(U) /\ Len(Front(s)) = N - 1
      /\ \A i \in 1 .. N - 1 : Front(s)[i] = s[i]
  BY <1>1, InsideFacts DEF N
<1> DEFINE M == Len(t)
<1>3. /\ Len(Inside(t)) = M - 2 /\ \A i \in 1 .. M - 2 : Inside(t)[i] = t[1 + i]
      /\ Front(t) \in Seq(U) /\ Len(Front(t)) = M - 1
      /\ \A i \in 1 .. M - 1 : Front(t)[i] = t[i]
  BY <1>1, InsideFacts
<1>4. M \in Nat /\ M >= 2
  BY <1>1
<1>5. s[N] = Checksum(Front(s)) /\ t[M] = Checksum(Front(t))
  BY DEF Intact, Last, N
<1>6. CASE t \in {[s EXCEPT ![i] = u] : i \in 1 .. Len(s), u \in Units} \ {s}
  <2>1. PICK i \in 1 .. N, u \in U : t = [s EXCEPT ![i] = u]
    BY <1>6 DEF N, U
  <2>2. /\ M = N /\ t[i] = u /\ \A j \in 1 .. N : j # i => t[j] = s[j]
    BY <1>1, <2>1 DEF N
  <2>3. t # s
    BY <1>6
  <2>4. s[i] # t[i]
    <3>1. ASSUME s[i] = t[i] PROVE \A j \in 1 .. N : s[j] = t[j]
      BY <2>2, <3>1
    <3> QED
      BY <1>1, <2>2, <2>3, <3>1, SeqEqual DEF N
  <2> HIDE DEF M
  <2>5. CASE i = N
    <3>1. \A j \in 1 .. N - 1 : Front(s)[j] = Front(t)[j]
      <4>1. \A j \in 1 .. N - 1 : j \in 1 .. N /\ j # N
        BY <1>1
      <4> QED
        BY <1>2, <1>3, <2>2, <2>5, <4>1
    <3>2. Front(s) = Front(t)
      BY <1>1, <1>2, <1>3, <2>2, <3>1, SeqEqual
    <3> QED
      BY <1>5, <2>2, <2>4, <2>5, <3>2
  <2>6. CASE i # N
    <3>1. i \in 1 .. N - 1 /\ N \in 1 .. N
      BY <1>1, <2>6
    <3> DEFINE f == Front(s)
               g == Front(t)
    <3>2. /\ f \in Seq(Units) /\ g \in Seq(Units) /\ Len(f) = N - 1 /\ Len(g) = N - 1
          /\ f[i] # g[i]
      BY <1>2, <1>3, <2>2, <2>4, <3>1 DEF U
    <3>3. \A j \in 1 .. N - 1 : j # i => f[j] = g[j]
      <4>1. \A j \in 1 .. N - 1 : j \in 1 .. N
        BY <1>1
      <4> QED
        BY <1>2, <1>3, <2>2, <4>1
    <3> HIDE DEF f, g
    <3>4. Checksum(f) # Checksum(g)
      BY <3>1, <3>2, <3>3, ChecksumDiffers
    <3>5. t[N] = s[N]
      BY <2>2, <2>6, <3>1
    <3> QED
      BY <1>5, <2>2, <3>4, <3>5 DEF f, g
  <2> QED
    BY <2>5, <2>6
<1>7. CASE t \in {SubSeq(s, 1, n) : n \in 0 .. Len(s) - 1}
  <2>1. PICK n \in 0 .. N - 1 : t = SubSeq(s, 1, n)
    BY <1>7 DEF N
  <2>2. M = n /\ \A j \in 1 .. n : t[j] = s[j]
    <3>1. \A j \in 1 .. n : s[j] \in U
      BY <1>1 DEF N
    <3>2. Len(SubSeq(s, 1, n)) = n /\ \A j \in 1 .. n : SubSeq(s, 1, n)[j] = s[j]
      BY <3>1, SubSeqProperties
    <3> QED
      BY <2>1, <3>2
  <2> HIDE DEF M
  <2>3. M - 2 # N - 2 /\ M - 2 <= N - 2
    BY <1>1, <2>2
  <2>4. \A j \in 1 .. M - 2 : j \in 1 .. N - 2 /\ 1 + j \in 1 .. n
    BY <1>1, <2>2
  <2>5. \A j \in 1 .. M - 2 : Inside(t)[j] = Inside(s)[j]
    BY <1>2, <1>3, <2>2, <2>4
  <2> QED
    BY <1>1, <1>2, <1>3, <2>3, <2>5 DEF Begins, U
<1>8. CASE t \in {Append(s, u) : u \in Units}
  <2>1. PICK u \in U : t = Append(s, u)
    BY <1>8 DEF U
  <2>2. M = N + 1 /\ \A j \in 1 .. N : t[j] = s[j]
    BY <1>1, <2>1, AppendProperties DEF N
  <2> HIDE DEF M
  <2>3. M - 2 # N - 2 /\ N - 2 <= M - 2
    BY <1>1, <2>2
  <2>4. \A j \in 1 .. N - 2 : j \in 1 .. M - 2 /\ 1 + j \in 1 .. N
    BY <1>1, <2>2
  <2>5. \A j \in 1 .. N - 2 : Inside(t)[j] = Inside(s)[j]
    BY <1>2, <1>3, <2>2, <2>4
  <2> QED
    BY <1>1, <1>2, <1>3, <2>3, <2>5 DEF Begins, U
<1> QED
  BY <1>6, <1>7, <1>8 DEF Edits

LEMMA DamagedInode ==
  ASSUME NEW s \in Seq(Units), DecodedInode(s) # {}, NEW t \in Edits(s)
  PROVE  DecodedInode(t) = {}
<1> SUFFICES ASSUME DecodedInode(t) # {} PROVE FALSE
  OBVIOUS
<1> DEFINE b == Inside(s)
           c == Inside(t)
<1>1. ASSUME NEW r, DecodedInode(r) # {}
      PROVE  Len(r) >= LeastUnits - 1 /\ Intact(r) /\ InodeReads(Inside(r))
  BY <1>1, DecodedInodeIs
<1>2. t \in Seq(Units)
  BY EditsType
<1>3. s \in Seq(Nat) /\ t \in Seq(Nat)
  BY <1>2, UnitsAreNumbers
<1>4. Len(s) >= 2 /\ Len(t) >= 2 /\ Intact(s) /\ Intact(t) /\ InodeReads(b) /\ InodeReads(c)
  BY <1>1, <1>3 DEF LeastUnits
<1>5. Len(c) # Len(b) /\ (Begins(b, c) \/ Begins(c, b))
  BY <1>4, DamageShows
<1>6. b \in Seq(Nat) /\ c \in Seq(Nat)
  BY <1>3, <1>4, SealedForm
<1> HIDE DEF b, c
<1> QED
  BY <1>4, <1>5, <1>6, InodeBegins

-----------------------------------------------------------------------------
(* Directory entries. *)

EntryType ==
  [record_length : Nat, inode : Nat, type : Nat, deleted : BOOLEAN, name : Seq(Nat)]

LEMMA EntryFields ==
  ASSUME NEW e \in EntryType
  PROVE  /\ e.record_length \in Nat /\ e.inode \in Nat /\ e.type \in Nat
         /\ e.deleted \in BOOLEAN /\ e.name \in Seq(Nat) /\ Len(e.name) \in Nat
<1> DEFINE T == Nat
<1>1. EntryType = [record_length : Nat, inode : Nat, type : Nat, deleted : BOOLEAN,
                   name : Seq(T)]
  BY DEF EntryType
<1> HIDE DEF T
<1>2. /\ e.record_length \in Nat /\ e.inode \in Nat /\ e.type \in Nat
      /\ e.deleted \in BOOLEAN /\ e.name \in Seq(T)
  BY <1>1
<1>3. Len(e.name) \in Nat
  BY <1>2, LenProperties
<1> QED
  BY <1>2, <1>3 DEF T

LEMMA AlignedFacts ==
  /\ \A n \in Nat : /\ AlignedLength(n) \in Nat /\ AlignedLength(n) % Alignment = 0
                    /\ AlignedLength(n) >= EntryUnits + n
  /\ \A m, n \in Nat : m <= n => AlignedLength(m) <= AlignedLength(n)
<1>1. ASSUME NEW n \in Nat
      PROVE  \E q \in Nat : /\ AlignedLength(n) = q * 2 /\ q * 2 <= n + 6 /\ n + 6 < q * 2 + 2
  <2> DEFINE x == n + 6
             q == x \div 2
  <2>1. x \in Nat /\ EntryUnits + n + Alignment - 1 = x
    BY DEF EntryUnits, Alignment
  <2> HIDE DEF x
  <2>2. q \in Nat /\ q * 2 <= x /\ x < q * 2 + 2
    BY <2>1
  <2>3. AlignedLength(n) = q * 2
    BY <2>1 DEF AlignedLength, Alignment
  <2> HIDE DEF q
  <2> QED
    BY <2>2, <2>3 DEF x
<1>2. ASSUME NEW n \in Nat
      PROVE  /\ AlignedLength(n) \in Nat /\ AlignedLength(n) % Alignment = 0
             /\ AlignedLength(n) >= EntryUnits + n
  <2>1. PICK q \in Nat : /\ AlignedLength(n) = q * 2 /\ q * 2 <= n + 6 /\ n + 6 < q * 2 + 2
    BY <1>1
  <2>2. (q * 2) % 2 = 0
    OBVIOUS
  <2> QED
    BY <2>1, <2>2 DEF Alignment, EntryUnits
<1>3. ASSUME NEW m \in Nat, NEW n \in Nat, m <= n
      PROVE  AlignedLength(m) <= AlignedLength(n)
  <2>1. PICK q \in Nat : /\ AlignedLength(n) = q * 2 /\ q * 2 <= n + 6 /\ n + 6 < q * 2 + 2
    BY <1>1
  <2>2. PICK p \in Nat : /\ AlignedLength(m) = p * 2 /\ p * 2 <= m + 6 /\ m + 6 < p * 2 + 2
    BY <1>1
  <2> HIDE <1>1
  <2>3. p * 2 < q * 2 + 2
    BY <1>3, <2>1, <2>2
  <2>4. p <= q
    BY <2>3
  <2> QED
    BY <2>1, <2>2, <2>4
<1> QED
  BY <1>2, <1>3

\* The room for an entry that is valid.
LEMMA RecordLengthFacts ==
  ASSUME NEW e \in EntryType, EntryValid(e)
  PROVE  /\ RecordLength(e) \in Nat /\ RecordLength(e) >= EntryUnits + Len(e.name)
         /\ RecordLength(e) % Alignment = 0
<1>1. e.record_length \in Nat /\ Len(e.name) \in Nat
  BY EntryFields
<1> DEFINE n == Len(e.name)
           a == AlignedLength(n)
<1>2. a \in Nat /\ a % Alignment = 0 /\ a >= EntryUnits + n
  BY <1>1, AlignedFacts
<1>3. \/ e.record_length = 0
      \/ e.record_length >= a /\ e.record_length % Alignment = 0
  BY DEF EntryValid
<1> HIDE DEF a, n
<1>4. CASE e.record_length = 0
  BY <1>2, <1>4 DEF RecordLength, a, n
<1>5. CASE e.record_length # 0
  <2>1. RecordLength(e) = e.record_length
    BY <1>5 DEF RecordLength
  <2>2. e.record_length >= EntryUnits + n
    BY <1>1, <1>2, <1>3, <1>5 DEF EntryUnits, n
  <2> QED
    BY <1>1, <1>3, <1>5, <2>1, <2>2 DEF n
<1> QED
  BY <1>4, <1>5

EntryHead(e) ==
  <<RecordLength(e), e.inode, e.type, IF e.deleted THEN 1 ELSE 0, Len(e.name)>>

LEMMA PaddingType ==
  ASSUME NEW n \in Nat
  PROVE  Padding(n) \in Seq(Nat) /\ Len(Padding(n)) = n
<1>1. Padding(n) \in [1 .. n -> Nat]
  BY DEF Padding
<1> QED
  BY <1>1

LEMMA EntryEncoded ==
  ASSUME NEW e \in EntryType, EntryValid(e)
  PROVE  /\ EncodedEntry(e) \in Seq(Nat) /\ Len(EncodedEntry(e)) = RecordLength(e)
         /\ EntryHead(e) \in Seq(Nat) /\ Len(EntryHead(e)) = EntryUnits
         /\ RecordLength(e) - EntryUnits - Len(e.name) \in Nat
         /\ EncodedEntry(e) = (EntryHead(e) \o e.name)
                                \o Padding(RecordLength(e) - EntryUnits - Len(e.name))
<1> DEFINE h == EntryHead(e)
           n == Len(e.name)
           r == RecordLength(e)
           m == r - EntryUnits - n
           p == Padding(m)
           t == e.name
<1>1. /\ e.inode \in Nat /\ e.type \in Nat /\ e.deleted \in BOOLEAN /\ t \in Seq(Nat)
      /\ n \in Nat /\ r \in Nat /\ r >= EntryUnits + n /\ EntryUnits = 5
  BY EntryFields, RecordLengthFacts DEF EntryUnits
<1>2. h \in Seq(Nat) /\ Len(h) = 5
  <2> DEFINE d == IF e.deleted THEN 1 ELSE 0
             x == e.inode
             y == e.type
  <2>1. d \in Nat /\ x \in Nat /\ y \in Nat
    BY <1>1
  <2> HIDE DEF d, x, y, n, r
  <2>2. <<r, x, y, d, n>> \in Seq(Nat) /\ Len(<<r, x, y, d, n>>) = 5
    BY <1>1, <2>1
  <2> QED
    BY <2>2 DEF EntryHead, d, x, y, n, r
<1>3. m \in Nat /\ r = (5 + n) + m
  <2> HIDE DEF r, n
  <2> QED
    BY <1>1
<1> HIDE DEF m
<1>4. p \in Seq(Nat) /\ Len(p) = m
  BY <1>3, PaddingType
<1>5. EncodedEntry(e) = (h \o t) \o p
  BY DEF EncodedEntry, EntryHead, m
<1> HIDE DEF h, p, t
<1>6. h \o t \in Seq(Nat) /\ Len(h \o t) = Len(h) + Len(t)
  BY <1>1, <1>2, ConcatFacts DEF IsConcat
<1>7. /\ (h \o t) \o p \in Seq(Nat)
      /\ Len((h \o t) \o p) = Len(h \o t) + Len(p)
  BY <1>4, <1>6, ConcatFacts DEF IsConcat
<1>8. Len((h \o t) \o p) = r
  <2>1. Len(t) = n
    BY DEF t
  <2> HIDE DEF n, r
  <2> QED
    BY <1>2, <1>3, <1>4, <1>6, <1>7, <2>1
<1> QED
  BY <1>1, <1>2, <1>3, <1>5, <1>7, <1>8 DEF h, p, t, m

\* decode() finds an entry at a position.
EntryReads(s, at) ==
  /\ Readable(s, at, EntryUnits) /\ EntryFits(s, at) /\ EntryValid(EntryAt(s, at))

\* An entry with the length that its record has.
WithLength(e) == [e EXCEPT !.record_length = RecordLength(e)]

LEMMA WithLengthFacts ==
  ASSUME NEW e \in EntryType, EntryValid(e)
  PROVE  /\ WithLength(e) \in EntryType /\ EntryValid(WithLength(e))
         /\ WithLength(e).record_length = RecordLength(e)
         /\ WithLength(e).record_length # 0
         /\ WithLength(e).inode = e.inode /\ WithLength(e).type = e.type
         /\ WithLength(e).deleted = e.deleted /\ WithLength(e).name = e.name
<1> DEFINE r == RecordLength(e)
           w == WithLength(e)
           T == Seq(Nat)
<1>1. /\ r \in Nat /\ r >= EntryUnits + Len(e.name) /\ r % Alignment = 0
      /\ Len(e.name) \in Nat /\ e.record_length \in Nat
  BY RecordLengthFacts, EntryFields
<1>2. r # 0
  BY <1>1 DEF EntryUnits
<1>3. /\ w \in EntryType /\ w.record_length = r /\ w.inode = e.inode /\ w.type = e.type
      /\ w.deleted = e.deleted /\ w.name = e.name
  <2>1. e \in [record_length : Nat, inode : Nat, type : Nat, deleted : BOOLEAN, name : T]
    BY DEF EntryType
  <2> HIDE DEF T, r
  <2>2. [e EXCEPT !.record_length = r]
           \in [record_length : Nat, inode : Nat, type : Nat, deleted : BOOLEAN, name : T]
    BY <1>1, <2>1
  <2>3. LET v == [e EXCEPT !.record_length = r]
        IN /\ v.record_length = r /\ v.inode = e.inode /\ v.type = e.type
           /\ v.deleted = e.deleted /\ v.name = e.name
    BY <2>1
  <2> QED
    BY <2>2, <2>3 DEF WithLength, EntryType, T, r
<1>4. r >= AlignedLength(Len(e.name))
  BY <1>1, AlignedFacts DEF RecordLength, EntryValid
<1> HIDE DEF w, r
<1>5. EntryValid(w)
  BY <1>1, <1>3, <1>4 DEF EntryValid
<1> QED
  BY <1>2, <1>3, <1>5 DEF w, r

\* What decode() finds where an entry was written.
LEMMA EntryFound ==
  ASSUME NEW s \in Seq(Nat), NEW at \in Nat, NEW e \in EntryType, EntryValid(e),
         Holds(s, at, EncodedEntry(e))
  PROVE  /\ EntryReads(s, at) /\ EntryAt(s, at) = WithLength(e)
         /\ s[at + 1] = RecordLength(e)
<1> DEFINE h == EntryHead(e)
           t == e.name
           n == Len(t)
           r == RecordLength(e)
           m == r - EntryUnits - n
           p == Padding(m)
           d == IF e.deleted THEN 1 ELSE 0
           f == at + 5
<1>1. /\ h \in Seq(Nat) /\ Len(h) = 5 /\ t \in Seq(Nat) /\ n \in Nat /\ m \in Nat
      /\ EncodedEntry(e) = (h \o t) \o p /\ Len(EncodedEntry(e)) = r
  BY EntryEncoded, EntryFields DEF EntryUnits
<1>2. r \in Nat /\ r >= EntryUnits + n /\ r % Alignment = 0 /\ EntryUnits = 5
  BY RecordLengthFacts DEF EntryUnits
<1>3. p \in Seq(Nat)
  BY <1>1, PaddingType
<1>4. h[1] = r /\ h[2] = e.inode /\ h[3] = e.type /\ h[4] = d /\ h[5] = n
  BY DEF EntryHead
<1> HIDE DEF h, p, r, m, t, d, n
<1>5. h \o t \in Seq(Nat)
  BY <1>1, ConcatProperties
<1>6. Holds(s, at, h \o t)
  <2>1. Holds(s, at, (h \o t) \o p)
    BY <1>1
  <2> DEFINE u == h \o t
  <2>2. u \in Seq(Nat) /\ Holds(s, at, u \o p)
    BY <1>5, <2>1
  <2> HIDE DEF u
  <2>3. Holds(s, at, u)
    BY <1>3, <2>2, HoldsConcat
  <2> QED
    BY <2>3 DEF u
<1>7. Holds(s, at, h) /\ Holds(s, f, t)
  BY <1>1, <1>6, HoldsConcat
<1>8. /\ f <= Len(s) /\ s[at + 1] = r /\ s[at + 2] = e.inode /\ s[at + 3] = e.type
      /\ s[at + 4] = d /\ s[at + 5] = n
  <2>1. at + 5 <= Len(s) /\ \A i \in 1 .. 5 : s[at + i] = h[i]
    BY <1>1, <1>7 DEF Holds
  <2>2. 1 \in 1 .. 5 /\ 2 \in 1 .. 5 /\ 3 \in 1 .. 5 /\ 4 \in 1 .. 5 /\ 5 \in 1 .. 5
    OBVIOUS
  <2> QED
    BY <1>4, <2>1, <2>2
<1>9. at + r <= Len(s)
  BY <1>1 DEF Holds
<1>10. Slice(s, at + EntryUnits, n) = t
  <2>1. f \in Nat
    OBVIOUS
  <2> HIDE DEF f
  <2>2. Slice(s, f, Len(t)) = t
    BY <1>1, <1>7, <2>1, HoldsSlice
  <2> QED
    BY <1>2, <2>2 DEF f, n
<1>11. EntryAt(s, at) = WithLength(e)
  <2>1. (s[at + 4] = 1) = e.deleted
    BY SMTT(40), <1>8, EntryFields DEF d
  <2>2. EntryAt(s, at) = [record_length |-> r, inode |-> e.inode, type |-> e.type,
                          deleted |-> e.deleted, name |-> t]
    BY <1>8, <1>10, <2>1 DEF EntryAt
  <2> DEFINE w == WithLength(e)
  <2>3. /\ w \in EntryType /\ w.record_length = r /\ w.inode = e.inode /\ w.type = e.type
        /\ w.deleted = e.deleted /\ w.name = t
    BY WithLengthFacts DEF r, t
  <2> HIDE DEF w
  <2>4. w = [record_length |-> w.record_length, inode |-> w.inode, type |-> w.type,
             deleted |-> w.deleted, name |-> w.name]
    BY <2>3 DEF EntryType
  <2> QED
    BY <2>2, <2>3, <2>4 DEF w
<1>12. EntryFits(s, at)
  <2>1. d <= 1
    BY DEF d
  <2>2. n <= MaxName
    BY DEF EntryValid, n, t
  <2>3. Len(s) \in Nat
    OBVIOUS
  <2>4. r >= EntryUnits /\ r <= Len(s) - at /\ n <= r - EntryUnits
    BY <1>1, <1>2, <1>9, <2>3
  <2> QED
    BY <1>2, <1>8, <2>1, <2>2, <2>4 DEF EntryFits, Flag
<1>13. EntryReads(s, at)
  BY <1>2, <1>8, <1>11, <1>12, WithLengthFacts DEF EntryReads, Readable
<1> QED
  BY <1>8, <1>11, <1>13 DEF r

\* What decode() finds is an entry that fills its record.
LEMMA EntryIsThere ==
  ASSUME NEW s \in Seq(Nat), NEW at \in Nat, EntryReads(s, at)
  PROVE  LET e == EntryAt(s, at) IN
         /\ e \in EntryType /\ EntryValid(e) /\ e.record_length = s[at + 1]
         /\ RecordLength(e) = s[at + 1] /\ s[at + 1] \in Nat /\ at + s[at + 1] <= Len(s)
         /\ WithLength(e) = e
<1> DEFINE e == EntryAt(s, at)
           r == s[at + 1]
           x == s[at + 2]
           y == s[at + 3]
           n == s[at + 5]
           yes == s[at + 4] = 1
           t == Slice(s, at + EntryUnits, n)
<1>1. at + 5 <= Len(s) /\ EntryFits(s, at) /\ EntryValid(e) /\ EntryUnits = 5
  BY DEF EntryReads, Readable, EntryUnits
<1>2. r \in Nat /\ x \in Nat /\ y \in Nat /\ n \in Nat /\ Len(s) \in Nat
  <2>1. at + 1 \in 1 .. Len(s) /\ at + 2 \in 1 .. Len(s) /\ at + 3 \in 1 .. Len(s)
        /\ at + 5 \in 1 .. Len(s)
    BY <1>1
  <2> QED
    BY SMTT(40), <2>1
<1>3. r >= 5 /\ r <= Len(s) - at /\ n <= r - 5
  BY <1>1 DEF EntryFits
<1> HIDE DEF r, x, y, n, yes
<1>4. t \in Seq(Nat)
  <2> DEFINE f == at + EntryUnits
             S == Nat
  <2>1. f \in Nat /\ f + n <= Len(s) /\ s \in Seq(S)
    BY <1>1, <1>2, <1>3
  <2> HIDE DEF f, S
  <2>2. Slice(s, f, n) \in Seq(S)
    BY <1>2, <2>1, SliceFacts
  <2> QED
    BY <2>2 DEF f, S
<1>5. e = [record_length |-> r, inode |-> x, type |-> y, deleted |-> yes, name |-> t]
  BY DEF EntryAt, r, x, y, n, yes
<1> HIDE DEF t, e
<1>6. e \in EntryType /\ e.record_length = r
  <2> DEFINE T == Seq(Nat)
  <2>1. t \in T /\ yes \in BOOLEAN
    BY <1>4 DEF yes
  <2> HIDE DEF T
  <2>2. e \in [record_length : Nat, inode : Nat, type : Nat, deleted : BOOLEAN, name : T]
        /\ e.record_length = r
    BY <1>2, <1>5, <2>1
  <2> QED
    BY <2>2 DEF EntryType, T
<1>7. RecordLength(e) = r
  BY <1>2, <1>3, <1>6 DEF RecordLength
<1>8. WithLength(e) = e
  <2> DEFINE T == Seq(Nat)
  <2>1. e \in [record_length : Nat, inode : Nat, type : Nat, deleted : BOOLEAN, name : T]
    BY <1>6 DEF EntryType
  <2> HIDE DEF T
  <2>2. [e EXCEPT !.record_length = e.record_length] = e
    BY <2>1
  <2> QED
    BY <1>6, <1>7, <2>2 DEF WithLength
<1>9. at + r <= Len(s)
  BY <1>2, <1>3
<1> QED
  BY <1>1, <1>2, <1>6, <1>7, <1>8, <1>9 DEF e, r

\* A reader does not see what follows.
LEMMA EntryBegins ==
  ASSUME NEW b \in Seq(Nat), NEW t \in Seq(Nat), Begins(b, t), NEW at \in Nat,
         EntryReads(b, at)
  PROVE  EntryReads(t, at) /\ EntryAt(t, at) = EntryAt(b, at)
<1> DEFINE r == b[at + 1]
           n == b[at + 5]
           f == at + EntryUnits
<1>1. /\ at + 5 <= Len(b) /\ Len(b) <= Len(t) /\ Len(b) \in Nat /\ Len(t) \in Nat
      /\ f \in Nat /\ f = at + 5
  BY DEF EntryReads, Readable, EntryUnits, Begins
<1>2. EntryFits(b, at) /\ EntryValid(EntryAt(b, at))
  BY DEF EntryReads
<1>3. /\ t[at + 1] = b[at + 1] /\ t[at + 2] = b[at + 2] /\ t[at + 3] = b[at + 3]
      /\ t[at + 4] = b[at + 4] /\ t[at + 5] = b[at + 5] /\ n \in Nat /\ r \in Nat
  <2>1. /\ at + 1 \in 1 .. Len(b) /\ at + 2 \in 1 .. Len(b) /\ at + 3 \in 1 .. Len(b)
        /\ at + 4 \in 1 .. Len(b) /\ at + 5 \in 1 .. Len(b)
    BY <1>1
  <2>2. n \in Nat /\ r \in Nat
    BY SMTT(40), <2>1
  <2>3. \A i \in 1 .. Len(b) : t[i] = b[i]
    BY DEF Begins
  <2> HIDE DEF n, r
  <2> QED
    BY <2>1, <2>2, <2>3
<1>4. r <= Len(b) - at /\ n <= r - 5
  BY <1>2 DEF EntryFits, EntryUnits
<1> HIDE DEF f, n, r
<1>5. Slice(t, f, n) = Slice(b, f, n)
  <2> DEFINE x == Slice(b, f, n)
             S == Nat
  <2>1. f + n <= Len(b) /\ b \in Seq(S)
    BY SMTT(40), <1>1, <1>3, <1>4
  <2>2. x \in Seq(S) /\ Len(x) = n
    <3>1. f \in Nat /\ n \in Nat
      BY <1>1, <1>3
    <3> HIDE DEF S
    <3> QED
      BY <2>1, <3>1, SliceFacts
  <2>3. Holds(b, f, x)
    BY <1>1, <2>1, <2>2, HoldsSlice
  <2>4. Holds(t, f, x)
    BY <1>1, <2>2, <2>3, HoldsBegins
  <2> QED
    BY <1>1, <2>2, <2>4, HoldsSlice
<1>6. EntryAt(t, at) = EntryAt(b, at)
  BY <1>3, <1>5 DEF EntryAt, f, n
<1>7. r <= Len(t) - at
  BY <1>1, <1>3, <1>4
<1>8. EntryFits(t, at)
  BY <1>2, <1>3, <1>7 DEF EntryFits, r
<1>9. Readable(t, at, EntryUnits)
  BY <1>1 DEF Readable, EntryUnits
<1> QED
  BY <1>2, <1>6, <1>8, <1>9 DEF EntryReads

\* The loop over the entries.
FoundType == [ok : BOOLEAN, at : Nat, list : Seq(EntryType)]

FoundAfter(read, e) ==
  [ok |-> TRUE, at |-> read.at + RecordLength(e), list |-> Append(read.list, e)]

LEMMA FoundAfterType ==
  ASSUME NEW read \in FoundType, NEW e \in EntryType, EntryValid(e)
  PROVE  /\ FoundAfter(read, e) \in FoundType /\ FoundAfter(read, e).ok
         /\ FoundAfter(read, e).at = read.at + RecordLength(e)
         /\ FoundAfter(read, e).list = Append(read.list, e)
         /\ read.at \in Nat /\ read.list \in Seq(EntryType) /\ read.ok \in BOOLEAN
<1> DEFINE p == read.at + RecordLength(e)
           l == Append(read.list, e)
           T == EntryType
           yes == TRUE
<1>1. RecordLength(e) \in Nat
  BY RecordLengthFacts
<1>2. read.at \in Nat /\ read.list \in Seq(T) /\ e \in T /\ read.ok \in BOOLEAN
  BY DEF FoundType
<1> HIDE DEF T
<1>3. l \in Seq(T) /\ p \in Nat /\ yes \in BOOLEAN /\ yes
  BY <1>1, <1>2
<1> HIDE DEF l, p, yes
<1>4. /\ [ok |-> yes, at |-> p, list |-> l] \in [ok : BOOLEAN, at : Nat, list : Seq(T)]
      /\ [ok |-> yes, at |-> p, list |-> l].ok = yes
      /\ [ok |-> yes, at |-> p, list |-> l].at = p
      /\ [ok |-> yes, at |-> p, list |-> l].list = l
  BY <1>3
<1>5. FoundAfter(read, e) = [ok |-> yes, at |-> p, list |-> l]
  BY DEF FoundAfter, yes, p, l
<1> QED
  BY <1>2, <1>3, <1>4, <1>5 DEF FoundType, T, l, p

LEMMA EntryTurn ==
  ASSUME NEW s \in Seq(Nat), NEW read \in FoundType
  PROVE  /\ ReadEntry(s, read) \in FoundType
         /\ IF read.ok /\ EntryReads(s, read.at)
            THEN ReadEntry(s, read) = FoundAfter(read, EntryAt(s, read.at))
            ELSE ~ReadEntry(s, read).ok
<1> DEFINE at == read.at
           e == EntryAt(s, at)
<1>1. at \in Nat
  BY DEF FoundType
<1>2. CASE read.ok /\ EntryReads(s, at)
  <2>1. e \in EntryType /\ EntryValid(e) /\ RecordLength(e) = s[at + 1]
    BY <1>1, <1>2, EntryIsThere
  <2>2. ReadEntry(s, read) = FoundAfter(read, e)
    BY <1>2, <2>1 DEF ReadEntry, FoundAfter, EntryReads
  <2>3. FoundAfter(read, e) \in FoundType
    BY <2>1, FoundAfterType
  <2> QED
    BY <1>2, <2>2, <2>3
<1>3. CASE ~(read.ok /\ EntryReads(s, at))
  <2> DEFINE no == FALSE
  <2>1. ReadEntry(s, read) = [read EXCEPT !.ok = FALSE]
    BY <1>3 DEF ReadEntry, EntryReads
  <2>2. no \in BOOLEAN /\ ~no /\ ReadEntry(s, read) = [read EXCEPT !.ok = no]
    BY <2>1
  <2> HIDE DEF no
  <2>3. [read EXCEPT !.ok = no] \in FoundType /\ [read EXCEPT !.ok = no].ok = no
    BY <2>2 DEF FoundType
  <2> QED
    BY <1>3, <2>2, <2>3
<1> QED
  BY <1>2, <1>3

Finding(s, n) ==
  CHOOSE after : after = [k \in 0 .. n |-> IF k = 0 THEN [ok |-> TRUE, at |-> 1, list |-> <<>>]
                                           ELSE ReadEntry(s, after[k - 1])]

LEMMA FindingDefined ==
  ASSUME NEW s \in Seq(Nat), NEW n \in Nat
  PROVE  /\ ReadEntries(s, n) = Finding(s, n)[n]
         /\ Finding(s, n) \in [0 .. n -> FoundType]
         /\ Finding(s, n)[0] = [ok |-> TRUE, at |-> 1, list |-> <<>>]
         /\ \A k \in 1 .. n : Finding(s, n)[k] = ReadEntry(s, Finding(s, n)[k - 1])
<1> DEFINE R == Finding(s, n)
           o == [ok |-> TRUE, at |-> 1, list |-> <<>>]
           Goes(f) == f = [k \in 0 .. n |-> IF k = 0 THEN o ELSE ReadEntry(s, f[k - 1])]
           V == FoundType
           g == [k \in 1 .. n |-> [x \in V |-> ReadEntry(s, x)]]
<1>1. o \in V
  <2> DEFINE l == <<>>
             T == EntryType
             one == 1
  <2>1. l \in Seq(T) /\ one \in Nat
    OBVIOUS
  <2> HIDE DEF l, T, one
  <2>2. [ok |-> TRUE, at |-> one, list |-> l] \in [ok : BOOLEAN, at : Nat, list : Seq(T)]
    BY <2>1
  <2> QED
    BY <2>2 DEF FoundType, l, T, one
<1>2. g \in [1 .. n -> [V -> V]]
  BY EntryTurn
<1>3. PICK f \in [0 .. n -> V] : Iterates(f, o, n, g)
  <2> HIDE DEF g, o, V
  <2> QED
    BY <1>1, <1>2, Recursion
<1>4. \A k \in 1 .. n : k \in 0 .. n /\ k # 0 /\ k - 1 \in 0 .. n
  OBVIOUS
<1>5. \A k \in 0 .. n : k # 0 => k \in 1 .. n
  OBVIOUS
<1> HIDE DEF o
<1>6. \A k \in 1 .. n : f[k] = ReadEntry(s, f[k - 1])
  BY <1>3, <1>4 DEF Iterates
<1>7. Goes(f)
  <2>1. \A k \in 0 .. n : f[k] = IF k = 0 THEN o ELSE ReadEntry(s, f[k - 1])
    BY <1>3, <1>5, <1>6 DEF Iterates
  <2> QED
    BY <2>1
<1>8. R = CHOOSE h : Goes(h)
  BY DEF Finding, o
<1>9. Goes(R)
  BY <1>7, <1>8
<1> HIDE DEF R
<1>10. R[0] = o /\ \A k \in 1 .. n : R[k] = ReadEntry(s, R[k - 1])
  <2>1. 0 \in 0 .. n
    OBVIOUS
  <2> QED
    BY <1>4, <1>9, <2>1
<1>11. \A k \in 0 .. n : R[k] \in V
  <2> DEFINE S == {k \in 0 .. n : R[k] \in V}
  <2>1. 0 \in S
    BY <1>1, <1>10
  <2>2. ASSUME NEW k \in 1 .. n, k - 1 \in S PROVE k \in S
    BY <1>4, <1>10, <2>2, EntryTurn
  <2> HIDE DEF S
  <2>3. \A k \in 0 .. n : k \in S
    BY <2>1, <2>2, Counting
  <2> QED
    BY <2>3 DEF S
<1>12. R \in [0 .. n -> V]
  BY <1>9, <1>11
<1>13. ReadEntries(s, n) = R[n]
  BY DEF ReadEntries, Finding, R
<1> QED
  BY <1>10, <1>12, <1>13 DEF R, o

\* The encoded entries, one by one.
RecordUnits(q) == [k \in 1 .. Len(q) |-> EncodedEntry(q[k])]
EntriesBody(q) == FlattenSeq(RecordUnits(q))

EntriesValid(q) == q \in Seq(EntryType) /\ \A k \in 1 .. Len(q) : EntryValid(q[k])

LEMMA RecordUnitsType ==
  ASSUME NEW q, EntriesValid(q)
  PROVE  /\ RecordUnits(q) \in Seq(Seq(Nat)) /\ Len(RecordUnits(q)) = Len(q)
         /\ Len(q) \in Nat /\ EntriesBody(q) \in Seq(Nat) /\ Len(EntriesBody(q)) \in Nat
         /\ \A k \in 1 .. Len(q) : /\ q[k] \in EntryType /\ EntryValid(q[k])
                                   /\ RecordUnits(q)[k] = EncodedEntry(q[k])
<1> DEFINE N == Len(q)
           T == Seq(Nat)
           V == EntryType
<1>1. q \in Seq(V) /\ \A k \in 1 .. N : EntryValid(q[k])
  BY DEF EntriesValid
<1>2. N \in Nat
  <2> HIDE DEF V
  <2> QED
    BY <1>1
<1>3. ASSUME NEW k \in 1 .. N
      PROVE  q[k] \in V /\ EntryValid(q[k]) /\ EncodedEntry(q[k]) \in T
  <2>1. q[k] \in V
    <3> HIDE DEF V
    <3> QED
      BY <1>1
  <2> QED
    BY <1>1, <2>1, EntryEncoded
<1>4. RecordUnits(q) \in [1 .. N -> T]
  BY <1>3 DEF RecordUnits
<1> HIDE DEF T, N
<1>5. RecordUnits(q) \in Seq(T) /\ Len(RecordUnits(q)) = N
  BY <1>2, <1>4
<1>6. EntriesBody(q) \in Seq(Nat)
  BY <1>5, UptoFacts DEF EntriesBody, T
<1>7. Len(EntriesBody(q)) \in Nat
  BY <1>6, LenProperties
<1> QED
  BY <1>2, <1>3, <1>5, <1>6, <1>7 DEF RecordUnits, T, N

LEMMA EntriesAppend ==
  ASSUME NEW q, EntriesValid(q), NEW e \in EntryType, EntryValid(e)
  PROVE  /\ EntriesValid(Append(q, e)) /\ Len(Append(q, e)) = Len(q) + 1
         /\ Append(q, e)[Len(q) + 1] = e /\ \A k \in 1 .. Len(q) : Append(q, e)[k] = q[k]
         /\ EntriesBody(Append(q, e)) = EntriesBody(q) \o EncodedEntry(e)
         /\ Len(EntriesBody(Append(q, e))) = Len(EntriesBody(q)) + RecordLength(e)
<1> DEFINE r == Append(q, e)
           N == Len(q)
           u == RecordUnits(q)
           v == RecordUnits(r)
           x == EncodedEntry(e)
           V == EntryType
<1>1. /\ r \in Seq(V) /\ Len(r) = N + 1 /\ N \in Nat /\ r[N + 1] = e
      /\ \A k \in 1 .. N : r[k] = q[k]
  <2>1. q \in Seq(V) /\ e \in V
    BY DEF EntriesValid
  <2> HIDE DEF V
  <2> QED
    BY <2>1, AppendProperties
<1>2. EntriesValid(r)
  <2> HIDE DEF r, N
  <2>1. ASSUME NEW k \in 1 .. N + 1 PROVE EntryValid(r[k])
    <3>1. k = N + 1 \/ k \in 1 .. N
      BY <1>1
    <3>2. \A j \in 1 .. N : EntryValid(q[j])
      BY DEF EntriesValid, N
    <3> QED
      BY <1>1, <3>1, <3>2
  <2> QED
    BY <1>1, <2>1 DEF EntriesValid
<1>3. u \in Seq(Seq(Nat)) /\ Len(u) = N /\ \A k \in 1 .. N : u[k] = EncodedEntry(q[k])
  BY RecordUnitsType
<1>4. /\ v \in Seq(Seq(Nat)) /\ Len(v) = N + 1
      /\ \A k \in 1 .. N + 1 : v[k] = EncodedEntry(r[k])
  BY <1>1, <1>2, RecordUnitsType
<1>5. x \in Seq(Nat) /\ Len(x) = RecordLength(e)
  BY EntryEncoded
<1>6. v[N + 1] = x /\ \A k \in 1 .. N : v[k] = u[k]
  <2>1. N + 1 \in 1 .. N + 1 /\ \A k \in 1 .. N : k \in 1 .. N + 1
    BY <1>1
  <2> HIDE DEF u, v, r, N
  <2> QED
    BY <1>1, <1>3, <1>4, <2>1
<1>7. EntriesBody(q) \in Seq(Nat)
  BY RecordUnitsType
<1> HIDE DEF u, v, r, x, N
<1>8. FlattenSeq(v) = FlattenSeq(u) \o x
  BY <1>3, <1>4, <1>5, <1>6, FlattenNext
<1>9. EntriesBody(r) = EntriesBody(q) \o x
  BY <1>8 DEF EntriesBody, u, v
<1>10. Len(EntriesBody(q) \o x) = Len(EntriesBody(q)) + Len(x)
  BY <1>5, <1>7, ConcatFacts DEF IsConcat
<1> QED
  BY <1>1, <1>2, <1>5, <1>9, <1>10 DEF x, r, N

LEMMA NoEntries ==
  EntriesValid(<<>>) /\ Len(<<>>) = 0 /\ EntriesBody(<<>>) = <<>>
<1> DEFINE V == EntryType
           e == <<>>
<1>1. e \in Seq(V) /\ Len(e) = 0
  BY EmptySeq
<1>2. EntriesValid(e)
  BY <1>1 DEF EntriesValid
<1>3. RecordUnits(e) = <<>>
  <2> DEFINE U == Seq(Nat)
             u == RecordUnits(e)
  <2>1. u \in Seq(U) /\ Len(u) = 0
    BY <1>1, <1>2, RecordUnitsType
  <2> HIDE DEF U, u
  <2>2. u = <<>>
    BY <2>1, EmptySeq
  <2> QED
    BY <2>2 DEF u
<1> QED
  BY <1>1, <1>2, <1>3, FlattenEmpty DEF EntriesBody

WithLengths(q) == [k \in 1 .. Len(q) |-> WithLength(q[k])]

LEMMA WithLengthsType ==
  ASSUME NEW q, EntriesValid(q)
  PROVE  /\ WithLengths(q) \in Seq(EntryType) /\ Len(WithLengths(q)) = Len(q)
         /\ \A k \in 1 .. Len(q) : WithLengths(q)[k] = WithLength(q[k])
<1> DEFINE N == Len(q)
           T == EntryType
<1>1. ASSUME NEW k \in 1 .. N PROVE WithLength(q[k]) \in T
  BY RecordUnitsType, WithLengthFacts
<1>2. WithLengths(q) \in [1 .. N -> T]
  BY <1>1 DEF WithLengths
<1>3. N \in Nat
  BY RecordUnitsType
<1> HIDE DEF N, T
<1>4. WithLengths(q) \in Seq(T) /\ Len(WithLengths(q)) = N
  BY <1>2, <1>3
<1> QED
  BY <1>4 DEF WithLengths, T, N

\* What decode() reads of encoded entries is these entries, with their lengths.
LEMMA EntriesFound ==
  ASSUME NEW s \in Seq(Nat), NEW q, EntriesValid(q), Holds(s, 1, EntriesBody(q))
  PROVE  /\ ReadEntries(s, Len(q)).ok
         /\ ReadEntries(s, Len(q)).at = 1 + Len(EntriesBody(q))
         /\ ReadEntries(s, Len(q)).list = WithLengths(q)
<1> DEFINE N == Len(q)
           u == RecordUnits(q)
           w == WithLengths(q)
           R == Finding(s, N)
           S == {k \in 0 .. N : /\ R[k].ok /\ R[k].at = 1 + Len(Upto(u, k))
                                /\ R[k].list = SubSeq(w, 1, k)}
<1>1. /\ N \in Nat /\ u \in Seq(Seq(Nat)) /\ Len(u) = N
      /\ \A k \in 1 .. N : /\ q[k] \in EntryType /\ EntryValid(q[k])
                           /\ u[k] = EncodedEntry(q[k])
  BY RecordUnitsType
<1>2. /\ ReadEntries(s, N) = R[N] /\ R \in [0 .. N -> FoundType]
      /\ R[0] = [ok |-> TRUE, at |-> 1, list |-> <<>>]
      /\ \A k \in 1 .. N : R[k] = ReadEntry(s, R[k - 1])
  BY <1>1, FindingDefined
<1>3. /\ w \in Seq(EntryType) /\ Len(w) = N /\ \A k \in 1 .. N : w[k] = WithLength(q[k])
  BY WithLengthsType
<1>a. FlattenSeq(u) = EntriesBody(q)
  BY DEF EntriesBody
<1> HIDE DEF u, R, w
<1>b. /\ Upto(u, 0) = <<>> /\ Upto(u, N) = FlattenSeq(u)
      /\ \A k \in 1 .. N : /\ Upto(u, k) = Upto(u, k - 1) \o u[k]
                           /\ Upto(u, k - 1) \in Seq(Nat) /\ u[k] \in Seq(Nat)
  <2>1. \A k \in 1 .. Len(u) : k - 1 \in 0 .. Len(u) /\ u[k] \in Seq(Nat)
    BY <1>1
  <2> QED
    BY <1>1, <2>1, UptoFacts
<1> HIDE DEF N
<1>4. \A k \in 1 .. N : Holds(s, 1 + Len(Upto(u, k - 1)), u[k])
  <2> DEFINE o == 1
  <2>1. Holds(s, o, Upto(u, N)) /\ N \in 0 .. Len(u) /\ o \in Nat
    BY <1>1, <1>a, <1>b
  <2> HIDE DEF o
  <2>2. \A k \in 1 .. N : Holds(s, o + Len(Upto(u, k - 1)), u[k])
    BY <1>1, <2>1, HoldsUpto
  <2> QED
    BY <2>2 DEF o
<1>5. 0 \in S
  <2>1. Upto(u, 0) = <<>> /\ SubSeq(w, 1, 0) = <<>>
    BY <1>b, SubSeqEmpty
  <2>2. Len(Upto(u, 0)) = 0
    BY <2>1, EmptySeq
  <2>3. R[0].ok /\ R[0].at = 1 /\ R[0].list = <<>> /\ 1 = 1 + 0
    BY <1>2
  <2>4. R[0].at = 1 + Len(Upto(u, 0)) /\ R[0].list = SubSeq(w, 1, 0) /\ 0 \in 0 .. N
    BY <1>1, <2>1, <2>2, <2>3
  <2> QED
    BY <2>3, <2>4
<1>6. ASSUME NEW k \in 1 .. N, k - 1 \in S PROVE k \in S
  <2> DEFINE r == R[k - 1]
             e == q[k]
  <2>1. k \in 0 .. N /\ k - 1 \in 0 .. N
    BY <1>1
  <2>2. /\ r \in FoundType /\ e \in EntryType /\ EntryValid(e) /\ u[k] = EncodedEntry(e)
        /\ R[k] = ReadEntry(s, r) /\ w[k] = WithLength(e)
    BY <1>1, <1>2, <1>3, <2>1
  <2>3. r.ok /\ r.at = 1 + Len(Upto(u, k - 1)) /\ r.list = SubSeq(w, 1, k - 1)
    BY <1>6
  <2> HIDE DEF r, e
  <2>4. r.at \in Nat
    BY <2>2 DEF FoundType
  <2>5. Holds(s, r.at, EncodedEntry(e))
    BY <1>4, <2>2, <2>3
  <2>6. EntryReads(s, r.at) /\ EntryAt(s, r.at) = w[k] /\ w[k] \in EntryType /\ EntryValid(w[k])
    BY <2>2, <2>4, <2>5, EntryFound, WithLengthFacts
  <2>7. R[k] = FoundAfter(r, w[k])
    BY <2>2, <2>3, <2>6, EntryTurn
  <2>8. R[k].ok /\ R[k].at = r.at + RecordLength(w[k]) /\ R[k].list = Append(r.list, w[k])
    BY <2>2, <2>6, <2>7, FoundAfterType
  <2>9. RecordLength(w[k]) = RecordLength(e)
    BY <2>2, WithLengthFacts DEF RecordLength
  <2>10. R[k].at = 1 + Len(Upto(u, k))
    <3>1. /\ Upto(u, k) = Upto(u, k - 1) \o u[k] /\ Upto(u, k - 1) \in Seq(Nat)
          /\ u[k] \in Seq(Nat)
      BY <1>b
    <3>2. /\ Len(Upto(u, k)) = Len(Upto(u, k - 1)) + Len(u[k])
          /\ Len(Upto(u, k - 1)) \in Nat /\ Len(u[k]) \in Nat
      BY <3>1, ConcatFacts DEF IsConcat
    <3>3. Len(u[k]) = RecordLength(e)
      BY <2>2, EntryEncoded
    <3> DEFINE x == Len(Upto(u, k - 1))
               y == Len(u[k])
               z == Len(Upto(u, k))
    <3>4. R[k].at = (1 + x) + y /\ z = x + y /\ x \in Nat /\ y \in Nat
      BY <2>3, <2>8, <2>9, <3>2, <3>3
    <3> HIDE DEF x, y, z
    <3>5. R[k].at = 1 + z
      BY <3>4
    <3> QED
      BY <3>5 DEF z
  <2>11. SubSeq(w, 1, k) = Append(SubSeq(w, 1, k - 1), w[k])
    <3> DEFINE T == EntryType
    <3>1. 1 \in 1 .. Len(w) /\ k \in 1 .. Len(w) /\ w[k] \in T /\ w \in Seq(T)
      BY <1>1, <1>3, <2>6
    <3> HIDE DEF T
    <3>2. SubSeq(w, 1, k) = SubSeq(w, 1, k - 1) \o <<w[k]>>
      BY <3>1, SubSeqRecursiveSecond
    <3>3. SubSeq(w, 1, k - 1) \in Seq(T)
      <4>1. \A i \in 1 .. k - 1 : w[i] \in T
        BY <1>1, <1>3, <3>1
      <4> QED
        BY <2>1, <4>1, SubSeqProperties
    <3> QED
      BY <3>1, <3>2, <3>3, AppendIsConcat
  <2> QED
    BY <2>1, <2>3, <2>8, <2>10, <2>11
<1> HIDE DEF S
<1>7. N \in S
  <2>1. \A k \in 0 .. N : k \in S
    BY <1>1, <1>5, <1>6, Counting
  <2> QED
    BY <1>1, <2>1
<1>8. R[N].ok /\ R[N].at = 1 + Len(Upto(u, N)) /\ R[N].list = SubSeq(w, 1, N)
  BY <1>7 DEF S
<1>9. Upto(u, N) = EntriesBody(q) /\ SubSeq(w, 1, N) = w
  <2> DEFINE T == EntryType
  <2>1. w \in Seq(T)
    BY <1>3
  <2> HIDE DEF T
  <2>2. SubSeq(w, 1, Len(w)) = w
    BY <2>1, SubSeqFull
  <2> QED
    BY <1>3, <1>a, <1>b, <2>2
<1> QED
  BY <1>2, <1>8, <1>9 DEF N, w

\* What n turns have read up to the position p: these entries.
EntriesTaken(n, q, p) ==
  /\ EntriesValid(q) /\ Len(q) = n /\ p = 1 + Len(EntriesBody(q))
  /\ \A k \in 1 .. n : WithLength(q[k]) = q[k]

LEMMA EntriesRead ==
  ASSUME NEW s \in Seq(Nat), NEW n \in Nat, ReadEntries(s, n).ok
  PROVE  EntriesTaken(n, ReadEntries(s, n).list, ReadEntries(s, n).at)
<1> DEFINE R == Finding(s, n)
           S == {k \in 0 .. n : R[k].ok => EntriesTaken(k, R[k].list, R[k].at)}
<1>1. /\ ReadEntries(s, n) = R[n] /\ R \in [0 .. n -> FoundType]
      /\ R[0] = [ok |-> TRUE, at |-> 1, list |-> <<>>]
      /\ \A k \in 1 .. n : R[k] = ReadEntry(s, R[k - 1])
  BY FindingDefined
<1> HIDE DEF R
<1>2. 0 \in S
  <2> DEFINE e == <<>>
  <2>1. R[0].list = e /\ R[0].at = 1 /\ 0 \in 0 .. n
    BY <1>1
  <2>2. EntriesValid(e) /\ Len(e) = 0 /\ EntriesBody(e) = e
    BY NoEntries
  <2> HIDE DEF e
  <2>3. 1 = 1 + Len(EntriesBody(e))
    BY <2>2
  <2>4. EntriesTaken(0, e, 1)
    BY <2>2, <2>3 DEF EntriesTaken
  <2> QED
    BY <2>1, <2>4
<1>3. ASSUME NEW k \in 1 .. n, k - 1 \in S PROVE k \in S
  <2> DEFINE r == R[k - 1]
  <2>1. k \in 0 .. n /\ k - 1 \in 0 .. n /\ (k - 1) + 1 = k
    OBVIOUS
  <2>2. /\ r \in FoundType /\ R[k] = ReadEntry(s, r)
        /\ r.ok => EntriesTaken(k - 1, r.list, r.at)
    BY <1>1, <1>3, <2>1
  <2> HIDE DEF r
  <2>3. ASSUME R[k].ok PROVE EntriesTaken(k, R[k].list, R[k].at)
    <3> DEFINE e == EntryAt(s, r.at)
               l == r.list
               m == Append(l, e)
    <3>1. r.ok /\ EntryReads(s, r.at) /\ R[k] = FoundAfter(r, e)
      BY <2>2, <2>3, EntryTurn
    <3>2. r.at \in Nat
      BY <2>2 DEF FoundType
    <3>3. e \in EntryType /\ EntryValid(e) /\ WithLength(e) = e
      BY <3>1, <3>2, EntryIsThere
    <3> HIDE DEF e
    <3>4. R[k].list = m /\ R[k].at = r.at + RecordLength(e)
      BY <2>2, <3>1, <3>3, FoundAfterType
    <3>5. /\ EntriesValid(l) /\ Len(l) = k - 1 /\ r.at = 1 + Len(EntriesBody(l))
          /\ \A j \in 1 .. k - 1 : WithLength(l[j]) = l[j]
      BY <2>2, <3>1 DEF EntriesTaken
    <3> HIDE DEF l
    <3>6. /\ EntriesValid(m) /\ Len(m) = (k - 1) + 1 /\ m[(k - 1) + 1] = e
          /\ \A j \in 1 .. k - 1 : m[j] = l[j]
          /\ Len(EntriesBody(m)) = Len(EntriesBody(l)) + RecordLength(e)
      BY <3>3, <3>5, EntriesAppend
    <3> HIDE DEF m
    <3>7. \A j \in 1 .. k : WithLength(m[j]) = m[j]
      <4>1. \A j \in 1 .. k : j = k \/ j \in 1 .. k - 1
        OBVIOUS
      <4> QED
        BY <2>1, <3>3, <3>5, <3>6, <4>1
    <3>8. R[k].at = 1 + Len(EntriesBody(m))
      <4> DEFINE x == Len(EntriesBody(l))
                 y == RecordLength(e)
                 z == Len(EntriesBody(m))
      <4>1. x \in Nat /\ y \in Nat /\ z = x + y /\ R[k].at = (1 + x) + y
        BY <3>3, <3>4, <3>5, <3>6, RecordUnitsType, RecordLengthFacts
      <4> HIDE DEF x, y, z
      <4>2. R[k].at = 1 + z
        BY <4>1
      <4> QED
        BY <4>2 DEF z
    <3> QED
      BY <2>1, <3>4, <3>6, <3>7, <3>8 DEF EntriesTaken
  <2> QED
    BY <2>1, <2>3
<1> HIDE DEF S
<1>4. \A k \in 0 .. n : k \in S
  BY <1>2, <1>3, Counting
<1>5. n \in S
  BY <1>4
<1> QED
  BY <1>1, <1>5 DEF S

-----------------------------------------------------------------------------
(* Decoding a directory. *)

DirectoryBody(q) == <<Len(q)>> \o EntriesBody(q)

\* The body can be read.
DirectoryReads(b) ==
  /\ b[1] <= MaxEntries /\ ReadEntries(b, b[1]).ok /\ AllRead(b, ReadEntries(b, b[1]).at)

LEMMA DecodedEntriesIs ==
  ASSUME NEW s
  PROVE  DecodedEntries(s) =
           IF /\ Len(s) >= 3 /\ s[1] = DirectorySignature /\ Intact(s)
              /\ DirectoryReads(Inside(s))
           THEN {ReadEntries(Inside(s), Inside(s)[1]).list} ELSE {}
BY DEF DecodedEntries, DirectoryReads, Inside

LEMMA DirectoryEncoded ==
  ASSUME NEW q, EntriesValid(q)
  PROVE  /\ EncodedEntries(q) = Sealed(<<DirectorySignature>> \o DirectoryBody(q))
         /\ DirectoryBody(q) \in Seq(Nat)
         /\ Len(DirectoryBody(q)) = 1 + Len(EntriesBody(q))
         /\ DirectoryBody(q)[1] = Len(q)
         /\ Holds(DirectoryBody(q), 1, EntriesBody(q))
<1> DEFINE n == Len(q)
           g == <<DirectorySignature>>
           h == <<n>>
           k == <<DirectorySignature, n>>
           e == EntriesBody(q)
           b == h \o e
<1>1. n \in Nat /\ e \in Seq(Nat) /\ DirectorySignature \in Nat
  BY RecordUnitsType DEF DirectorySignature
<1> HIDE DEF n, e
<1>2. /\ g \in Seq(Nat) /\ h \in Seq(Nat) /\ k \in Seq(Nat)
      /\ Len(g) = 1 /\ Len(h) = 1 /\ h[1] = n /\ g[1] = DirectorySignature
      /\ Len(k) = 2 /\ k[1] = DirectorySignature /\ k[2] = n
  BY <1>1
<1>3. EncodedEntries(q) = Sealed(k \o e)
  BY DEF EncodedEntries, EntriesBody, RecordUnits, n, e
<1>4. k = g \o h
  <2> DEFINE u == g \o h
  <2> HIDE DEF g, h, k
  <2>1. IsConcat(u, g, h)
    BY <1>2, ConcatFacts
  <2> HIDE DEF u
  <2>2. /\ u \in Seq(Nat) /\ Len(u) = 2 /\ 1 \in 1 .. Len(g) /\ 1 \in 1 .. Len(h)
        /\ Len(g) + 1 = 2
        /\ \A i \in 1 .. Len(g) : u[i] = g[i]
        /\ \A i \in 1 .. Len(h) : u[Len(g) + i] = h[i]
    BY <1>2, <2>1 DEF IsConcat
  <2>3. u[1] = k[1] /\ u[2] = k[2]
    BY <1>2, <2>2
  <2>4. \A i \in 1 .. 2 : i = 1 \/ i = 2
    OBVIOUS
  <2>5. \A i \in 1 .. 2 : u[i] = k[i]
    BY <2>3, <2>4
  <2>6. u = k
    BY <1>2, <2>2, <2>5, SeqEqual
  <2> QED
    BY <2>6 DEF u
<1> HIDE DEF g, h, k
<1>5. (g \o h) \o e = g \o b
  BY <1>1, <1>2, ConcatThree
<1>6. /\ b \in Seq(Nat) /\ Len(b) = 1 + Len(e) /\ b[1] = n
  <2>1. IsConcat(b, h, e)
    BY <1>1, <1>2, ConcatFacts
  <2> HIDE DEF b
  <2>2. /\ b \in Seq(Nat) /\ Len(b) = Len(h) + Len(e) /\ 1 \in 1 .. Len(h)
        /\ \A i \in 1 .. Len(h) : b[i] = h[i]
    BY <1>2, <2>1 DEF IsConcat
  <2> QED
    BY <1>2, <2>2
<1>7. Holds(b, 1, e)
  <2> DEFINE o == 0
  <2>1. o \in Nat /\ Holds(b, o, h \o e)
    BY <1>6, HoldsAll
  <2> HIDE DEF o, b
  <2>2. Holds(b, o + Len(h), e)
    BY <1>1, <1>2, <1>6, <2>1, HoldsConcat
  <2>3. o + Len(h) = 1
    BY <1>2 DEF o
  <2> QED
    BY <2>2, <2>3
<1>8. DirectoryBody(q) = b
  BY DEF DirectoryBody, h, e, n
<1> HIDE DEF b
<1> QED
  BY <1>3, <1>4, <1>5, <1>6, <1>7, <1>8 DEF g, e, n

LEMMA DirectoryComesBack ==
  ASSUME NEW q, EntriesValid(q), Len(q) <= MaxEntries
  PROVE  /\ DecodedEntries(EncodedEntries(q)) = {WithLengths(q)}
         /\ Len(EncodedEntries(q)) = 3 + Len(EntriesBody(q))
<1> DEFINE s == EncodedEntries(q)
           b == DirectoryBody(q)
           g == DirectorySignature
           n == Len(q)
           m == Len(EntriesBody(q))
<1>1. /\ s = Sealed(<<g>> \o b) /\ b \in Seq(Nat) /\ Len(b) = 1 + m /\ b[1] = n
      /\ Holds(b, 1, EntriesBody(q)) /\ g \in Nat /\ m \in Nat
  BY DirectoryEncoded, RecordUnitsType DEF DirectorySignature
<1> HIDE DEF s, b, g, n, m
<1>2. s \in Seq(Nat) /\ Len(s) = Len(b) + 2 /\ s[1] = g /\ Intact(s) /\ Inside(s) = b
  BY <1>1, SealedFacts
<1>3. /\ ReadEntries(b, n).ok /\ ReadEntries(b, n).at = 1 + m
      /\ ReadEntries(b, n).list = WithLengths(q)
  BY <1>1, EntriesFound DEF n, m
<1>4. DirectoryReads(b)
  BY <1>1, <1>3 DEF DirectoryReads, AllRead, n
<1>5. Len(s) >= 3 /\ Len(s) = 3 + m
  BY <1>1, <1>2
<1>6. DecodedEntries(s) = IF /\ Len(s) >= 3 /\ s[1] = DirectorySignature /\ Intact(s)
                             /\ DirectoryReads(b)
                          THEN {ReadEntries(b, b[1]).list} ELSE {}
  BY <1>2, DecodedEntriesIs
<1> QED
  BY <1>1, <1>2, <1>3, <1>4, <1>5, <1>6 DEF g, s, m

\* A directory record is decoded into entries that fill a record of its length.
LEMMA DirectoryHasOneForm ==
  ASSUME NEW s \in Seq(Nat), NEW q \in DecodedEntries(s)
  PROVE  /\ EntriesValid(q) /\ Len(q) <= MaxEntries
         /\ Len(EncodedEntries(q)) = Len(s)
         /\ DecodedEntries(EncodedEntries(q)) = {q}
<1> DEFINE b == Inside(s)
           n == b[1]
<1>1. /\ Len(s) >= 3 /\ Intact(s) /\ DirectoryReads(b) /\ q = ReadEntries(b, n).list
  BY DecodedEntriesIs
<1>2. b \in Seq(Nat) /\ Len(b) = Len(s) - 2 /\ Len(s) \in Nat
  <2>1. Len(s) \in Nat /\ Len(s) >= 2
    BY <1>1
  <2> QED
    BY <1>1, <2>1, SealedForm
<1> HIDE DEF b
<1>3. n \in Nat
  <2>1. 1 \in 1 .. Len(b)
    BY <1>1, <1>2
  <2> QED
    BY <1>2, <2>1
<1>4. n <= MaxEntries /\ ReadEntries(b, n).ok /\ ReadEntries(b, n).at = Len(b)
  BY <1>1 DEF DirectoryReads, AllRead
<1> HIDE DEF n
<1>5. EntriesTaken(n, q, Len(b))
  BY <1>1, <1>2, <1>3, <1>4, EntriesRead
<1>6. /\ EntriesValid(q) /\ Len(q) = n /\ Len(b) = 1 + Len(EntriesBody(q))
      /\ \A k \in 1 .. n : WithLength(q[k]) = q[k]
  BY <1>5 DEF EntriesTaken
<1>7. DecodedEntries(EncodedEntries(q)) = {WithLengths(q)}
      /\ Len(EncodedEntries(q)) = 3 + Len(EntriesBody(q))
  BY <1>4, <1>6, DirectoryComesBack
<1>8. WithLengths(q) = q
  <2> DEFINE T == EntryType
             w == WithLengths(q)
  <2>1. /\ q \in Seq(T) /\ w \in Seq(T) /\ Len(w) = n /\ Len(q) = n
        /\ \A k \in 1 .. n : w[k] = WithLength(q[k])
    BY <1>6, WithLengthsType DEF EntriesValid
  <2> HIDE DEF T, w
  <2>2. \A k \in 1 .. n : w[k] = q[k]
    BY <1>6, <2>1
  <2>3. w = q
    BY <2>1, <2>2, SeqEqual
  <2> QED
    BY <2>3 DEF w
<1>9. Len(EncodedEntries(q)) = Len(s)
  <2> DEFINE m == Len(EntriesBody(q))
             l == Len(s)
             k == Len(EncodedEntries(q))
  <2>1. m \in Nat /\ l \in Nat /\ l - 2 = 1 + m /\ k = 3 + m
    BY <1>2, <1>6, <1>7, RecordUnitsType
  <2> HIDE DEF m, l, k
  <2>2. k = l
    BY <2>1
  <2> QED
    BY <2>2 DEF k, l
<1> QED
  BY <1>4, <1>6, <1>7, <1>8, <1>9

LEMMA EntriesBegin ==
  ASSUME NEW b \in Seq(Nat), NEW t \in Seq(Nat), Begins(b, t), NEW n \in Nat,
         ReadEntries(b, n).ok
  PROVE  ReadEntries(t, n) = ReadEntries(b, n)
<1> DEFINE R == Finding(b, n)
           Q == Finding(t, n)
           S == {k \in 0 .. n : R[k].ok => Q[k] = R[k]}
<1>1. /\ ReadEntries(b, n) = R[n] /\ R \in [0 .. n -> FoundType]
      /\ R[0] = [ok |-> TRUE, at |-> 1, list |-> <<>>]
      /\ \A k \in 1 .. n : R[k] = ReadEntry(b, R[k - 1])
  BY FindingDefined
<1>2. /\ ReadEntries(t, n) = Q[n] /\ Q \in [0 .. n -> FoundType]
      /\ Q[0] = [ok |-> TRUE, at |-> 1, list |-> <<>>]
      /\ \A k \in 1 .. n : Q[k] = ReadEntry(t, Q[k - 1])
  BY FindingDefined
<1> HIDE DEF R, Q
<1>3. 0 \in S
  <2>1. Q[0] = R[0] /\ 0 \in 0 .. n
    BY <1>1, <1>2
  <2> QED
    BY <2>1
<1>4. ASSUME NEW k \in 1 .. n, k - 1 \in S PROVE k \in S
  <2> DEFINE r == R[k - 1]
             e == EntryAt(b, r.at)
  <2>1. k \in 0 .. n /\ k - 1 \in 0 .. n
    OBVIOUS
  <2>2. r \in FoundType /\ R[k] = ReadEntry(b, r) /\ (r.ok => Q[k - 1] = r)
    BY <1>1, <1>4, <2>1
  <2> HIDE DEF r
  <2>3. ASSUME R[k].ok PROVE Q[k] = R[k]
    <3>1. r.ok /\ EntryReads(b, r.at) /\ R[k] = FoundAfter(r, e) /\ r.at \in Nat
      BY <2>2, <2>3, EntryTurn DEF FoundType
    <3>2. EntryReads(t, r.at) /\ EntryAt(t, r.at) = e
      BY <3>1, EntryBegins
    <3>3. ReadEntry(t, r) = FoundAfter(r, e)
      BY <2>2, <3>1, <3>2, EntryTurn
    <3>4. Q[k] = ReadEntry(t, r)
      BY <1>2, <2>2, <3>1
    <3> QED
      BY <3>1, <3>3, <3>4
  <2> QED
    BY <2>1, <2>3
<1> HIDE DEF S
<1>5. \A k \in 0 .. n : k \in S
  BY <1>3, <1>4, Counting
<1>6. n \in S
  BY <1>5
<1> QED
  BY <1>1, <1>2, <1>6 DEF S

\* A directory that was read whole has no part that can be read whole.
LEMMA DirectoryBegins ==
  ASSUME NEW b \in Seq(Nat), NEW t \in Seq(Nat), Begins(b, t), Len(b) >= 1,
         DirectoryReads(b), DirectoryReads(t)
  PROVE  Len(b) = Len(t)
<1> DEFINE n == b[1]
<1>1. n \in Nat /\ t[1] = n
  <2>1. 1 \in 1 .. Len(b)
    OBVIOUS
  <2> QED
    BY <2>1 DEF Begins
<1>2. /\ ReadEntries(b, n).ok /\ ReadEntries(b, n).at = Len(b)
      /\ ReadEntries(t, n).at = Len(t)
  BY <1>1 DEF DirectoryReads, AllRead
<1> HIDE DEF n
<1> QED
  BY <1>1, <1>2, EntriesBegin

LEMMA DamagedDirectory ==
  ASSUME NEW s \in Seq(Units), DecodedEntries(s) # {}, NEW t \in Edits(s)
  PROVE  DecodedEntries(t) = {}
<1> SUFFICES ASSUME DecodedEntries(t) # {} PROVE FALSE
  OBVIOUS
<1> DEFINE b == Inside(s)
           c == Inside(t)
<1>1. ASSUME NEW r, DecodedEntries(r) # {}
      PROVE  Len(r) >= 3 /\ Intact(r) /\ DirectoryReads(Inside(r))
  BY <1>1, DecodedEntriesIs
<1>2. t \in Seq(Units)
  BY EditsType
<1>3. s \in Seq(Nat) /\ t \in Seq(Nat)
  BY <1>2, UnitsAreNumbers
<1>4. /\ Len(s) >= 3 /\ Len(t) >= 3 /\ Intact(s) /\ Intact(t)
      /\ DirectoryReads(b) /\ DirectoryReads(c) /\ Len(s) >= 2 /\ Len(t) >= 2
  BY <1>1, <1>3
<1>5. Len(c) # Len(b) /\ (Begins(b, c) \/ Begins(c, b))
  BY <1>4, DamageShows
<1>6. b \in Seq(Nat) /\ c \in Seq(Nat) /\ Len(b) >= 1 /\ Len(c) >= 1
  <2>1. /\ b \in Seq(Nat) /\ Len(b) = Len(s) - 2
        /\ c \in Seq(Nat) /\ Len(c) = Len(t) - 2
    BY <1>3, <1>4, SealedForm
  <2> DEFINE m == Len(s)
             n == Len(t)
  <2>2. m \in Nat /\ n \in Nat /\ m >= 3 /\ n >= 3
    BY <1>3, <1>4
  <2> HIDE DEF m, n
  <2>3. m - 2 >= 1 /\ n - 2 >= 1
    BY <2>2
  <2> QED
    BY <2>1, <2>3 DEF m, n
<1> HIDE DEF b, c
<1> QED
  BY <1>4, <1>5, <1>6, DirectoryBegins

-----------------------------------------------------------------------------
(* What is put together and written. *)

UnitExtent == [logical : Units, physical : Units, count : Units, sparse : BOOLEAN]
UnitAttribute == [name : Seq(Units), value : Seq(Units)]
UnitEntry == [record_length : Units, inode : Units, type : Units, deleted : BOOLEAN,
              name : Seq(Units)]

\* The units that the limits allow.
LEMMA FieldUnits ==
  /\ \A m \in Units, n \in Nat : n <= m => n \in Units
  /\ {0, 1, 2, 3, 4} \subseteq Units /\ DirectorySignature \in Units
  /\ InodeSignature \in Units /\ Regular .. SymbolicLink \subseteq Units
  /\ {MaxInodes, MaxLinks, MaxSize, MaxExtents, MaxTarget, MaxEntries, MaxValues,
      LogicalBlocks, DeviceBlocks, MaxCount, MaxName} \subseteq Units
<1>1. Word \in Nat /\ Word > 1 /\ Units = 0 .. Word - 1
  BY ImageRecordsAssumption DEF Units
<1>2. \A m \in Units, n \in Nat : n <= m => n \in Units
  BY <1>1
<1>3. DirectorySignature \in Units /\ DirectorySignature = 4
  BY FieldsAssumption DEF DirectorySignature
<1>4. 0 \in Units /\ 1 \in Units /\ 2 \in Units /\ 3 \in Units /\ 4 \in Units
  BY <1>2, <1>3
<1>5. Regular .. SymbolicLink \subseteq Units
  <2>1. \A x \in Regular .. SymbolicLink : x = 1 \/ x = 2 \/ x = 3
    BY DEF Regular, SymbolicLink
  <2> QED
    BY <1>4, <2>1
<1>6. MaxName \in Units
  <2>1. AlignedLength(MaxName) \in Units /\ MaxName \in Nat
    BY FieldsAssumption, LimitsType
  <2>2. AlignedLength(MaxName) \in Nat /\ AlignedLength(MaxName) >= EntryUnits + MaxName
    BY <2>1, AlignedFacts
  <2>3. MaxName <= AlignedLength(MaxName)
    BY <2>1, <2>2 DEF EntryUnits
  <2> QED
    BY <1>2, <2>1, <2>3
<1>7. InodeSignature \in Units
  BY <1>4 DEF InodeSignature
<1> QED
  BY <1>2, <1>3, <1>4, <1>5, <1>6, <1>7, FieldsAssumption

LEMMA FlattenUnits ==
  ASSUME NEW q \in Seq(Seq(Units))
  PROVE  FlattenSeq(q) \in Seq(Units)
<1> DEFINE S == Units
           x == <<>>
<1>1. q \in Seq(Seq(S)) /\ x \in Seq(S)
  OBVIOUS
<1> HIDE DEF S, x
<1>2. FlattenSeq(q) \in Seq(S)
  BY <1>1, FlattenAppend
<1> QED
  BY <1>2 DEF S

LEMMA StringUnits ==
  ASSUME NEW t \in Seq(Units), Len(t) \in Units
  PROVE  EncodedString(t) \in Seq(Units)
<1> DEFINE h == <<Len(t)>>
           S == Units
<1>1. h \in Seq(S) /\ t \in Seq(S)
  OBVIOUS
<1> HIDE DEF h, S
<1>2. h \o t \in Seq(S)
  BY <1>1, ConcatProperties
<1> QED
  BY <1>2 DEF EncodedString, h, S

\* The extents and attributes of an inode that is written are units.
LEMMA ExtentsInUnits ==
  ASSUME NEW q \in Seq(UnitExtent)
  PROVE  EncodedExtents(q) \in Seq(Units)
<1> DEFINE N == Len(q)
           T == Seq(Units)
<1>1. N \in Nat
  OBVIOUS
<1>2. ASSUME NEW k \in 1 .. N PROVE EncodedExtent(q[k]) \in T
  <2> DEFINE e == q[k]
             f == IF e.sparse THEN 1 ELSE 0
             x == e.logical
             y == e.physical
             z == e.count
  <2>1. e \in UnitExtent
    OBVIOUS
  <2>2. x \in Units /\ y \in Units /\ z \in Units /\ f \in Units
    <3>1. 0 \in Units /\ 1 \in Units
      BY FieldUnits
    <3> QED
      BY <2>1, <3>1 DEF UnitExtent
  <2> HIDE DEF f, x, y, z
  <2>3. <<x, y, z, f>> \in Seq(Units)
    BY <2>2
  <2> QED
    BY <2>3 DEF EncodedExtent, f, x, y, z
<1>3. ExtentUnits(q) \in [1 .. N -> T]
  BY <1>2 DEF ExtentUnits
<1> HIDE DEF T, N
<1>4. ExtentUnits(q) \in Seq(T)
  BY <1>1, <1>3
<1> QED
  BY <1>4, FlattenUnits DEF EncodedExtents, T

LEMMA AttributesInUnits ==
  ASSUME NEW q \in Seq(UnitAttribute), q \in Seq(AttributeType),
         AttributeBytes(q) <= MaxValues
  PROVE  EncodedAttributes(q) \in Seq(Units)
<1> DEFINE N == Len(q)
           T == Seq(Units)
           B == AttributeBytes(q)
<1>1. N \in Nat
  OBVIOUS
<1>2. B \in Nat /\ B <= MaxValues /\ MaxValues \in Units
  BY BytesFacts, FieldUnits
<1>3. ASSUME NEW k \in 1 .. N PROVE EncodedAttribute(q[k]) \in T
  <2> DEFINE x == q[k].name
             y == q[k].value
  <2>1. x \in T /\ y \in T
    <3>1. q[k] \in UnitAttribute
      OBVIOUS
    <3> QED
      BY <3>1 DEF UnitAttribute
  <2>2. Len(x) <= B /\ Len(y) <= B
    BY BytesFacts
  <2> HIDE DEF x, y, B
  <2>3. Len(x) \in Nat /\ Len(y) \in Nat
    BY <2>1
  <2>4. Len(x) \in Units /\ Len(y) \in Units
    BY <1>2, <2>2, <2>3, FieldUnits
  <2>5. EncodedString(x) \in Seq(Units) /\ EncodedString(y) \in Seq(Units)
    BY <2>1, <2>4, StringUnits
  <2>6. EncodedString(x) \o EncodedString(y) \in Seq(Units)
    BY <2>5, ConcatUnits
  <2> QED
    BY <2>6 DEF EncodedAttribute, x, y
<1>4. AttributeUnits(q) \in [1 .. N -> T]
  BY <1>3 DEF AttributeUnits
<1> HIDE DEF T, N
<1>5. AttributeUnits(q) \in Seq(T)
  BY <1>1, <1>4
<1> QED
  BY <1>5, FlattenUnits DEF EncodedAttributes, T

LEMMA SealedUnits ==
  ASSUME NEW s \in Seq(Units)
  PROVE  Sealed(s) \in Seq(Units) /\ Len(Sealed(s)) = Len(s) + 1
<1> DEFINE S == Units
           c == Checksum(s)
<1>1. s \in Seq(S) /\ c \in S
  BY ChecksumType, UnitsAreNumbers
<1> HIDE DEF S, c
<1>2. Append(s, c) \in Seq(S) /\ Len(Append(s, c)) = Len(s) + 1
  BY <1>1, AppendProperties
<1> QED
  BY <1>2 DEF Sealed, S, c

\* An inode whose fields are units is encoded in units.
LEMMA InodeInUnits ==
  ASSUME NEW i \in InodeType, Encodable(i),
         {i.identifier, i.type, i.links, i.size, i.allocated} \subseteq Units,
         i.target \in Seq(Units), i.extents \in Seq(UnitExtent),
         i.attributes \in Seq(UnitAttribute)
  PROVE  EncodedInode(i) \in Seq(Units)
<1> DEFINE h == InodeHead(i)
           t == EncodedString(i.target)
           e == EncodedExtents(i.extents)
           a == EncodedAttributes(i.attributes)
           g == <<InodeSignature>>
           b == InodeBody(i)
<1>1. /\ Len(i.target) \in Units /\ Len(i.extents) \in Units /\ Len(i.attributes) \in Units
  <2>1. /\ Len(i.target) \in Nat /\ Len(i.extents) \in Nat /\ Len(i.attributes) \in Nat
        /\ Len(i.target) <= MaxTarget /\ Len(i.extents) <= MaxExtents
        /\ Len(i.attributes) <= MaxEntries
    BY InodeFields, EncodableFacts
  <2>2. MaxTarget \in Units /\ MaxExtents \in Units /\ MaxEntries \in Units
    BY FieldUnits
  <2> QED
    BY <2>1, <2>2, FieldUnits
<1>2. h \in Seq(Units)
  <2> DEFINE d == IF i.deleted THEN 1 ELSE 0
             x1 == i.identifier
             x2 == i.type
             x3 == i.links
             x4 == i.size
             x5 == i.allocated
             x7 == Len(i.extents)
             x8 == Len(i.attributes)
  <2>1. /\ x1 \in Units /\ x2 \in Units /\ x3 \in Units /\ x4 \in Units /\ x5 \in Units
        /\ x7 \in Units /\ x8 \in Units
    BY <1>1
  <2>2. d \in Units
    BY FieldUnits
  <2> HIDE DEF d, x1, x2, x3, x4, x5, x7, x8
  <2>3. <<x1, x2, x3, x4, x5, d, x7, x8>> \in Seq(Units)
    BY <2>1, <2>2
  <2> QED
    BY <2>3 DEF InodeHead, d, x1, x2, x3, x4, x5, x7, x8
<1>3. t \in Seq(Units) /\ e \in Seq(Units)
  BY <1>1, StringUnits, ExtentsInUnits
<1>4. a \in Seq(Units)
  BY InodeFields, EncodableFacts, AttributesInUnits
<1>5. g \in Seq(Units)
  <2> DEFINE x == InodeSignature
  <2>1. x \in Units
    BY FieldUnits
  <2> HIDE DEF x
  <2>2. <<x>> \in Seq(Units)
    BY <2>1
  <2> QED
    BY <2>2 DEF x
<1>6. EncodedInode(i) = Sealed(g \o b) /\ b = ((h \o t) \o e) \o a
  BY InodeEncoded DEF InodeBody
<1> HIDE DEF h, t, e, a, g, b
<1>7. h \o t \in Seq(Units)
  BY <1>2, <1>3, ConcatUnits
<1>8. (h \o t) \o e \in Seq(Units)
  BY <1>3, <1>7, ConcatUnits
<1>9. b \in Seq(Units)
  BY <1>4, <1>6, <1>8, ConcatUnits
<1>10. g \o b \in Seq(Units)
  BY <1>5, <1>9, ConcatUnits
<1> QED
  BY <1>6, <1>10, SealedUnits

\* So are entries.
LEMMA DirectoryInUnits ==
  ASSUME NEW q, EntriesValid(q), q \in Seq(UnitEntry), Len(q) <= MaxEntries
  PROVE  EncodedEntries(q) \in Seq(Units)
<1> DEFINE N == Len(q)
           T == Seq(Units)
<1>1. /\ N \in Nat /\ \A k \in 1 .. N : q[k] \in EntryType /\ EntryValid(q[k])
  BY RecordUnitsType
<1>2. ASSUME NEW k \in 1 .. N PROVE EncodedEntry(q[k]) \in T
  <2> DEFINE e == q[k]
             h == EntryHead(e)
             t == e.name
             n == Len(t)
             r == RecordLength(e)
             m == r - EntryUnits - n
             p == Padding(m)
  <2>1. e \in EntryType /\ EntryValid(e)
    BY <1>1
  <2>2. e \in UnitEntry
    BY <1>1
  <2>3. EncodedEntry(e) = (h \o t) \o p /\ m \in Nat /\ n \in Nat
    BY <2>1, EntryEncoded, EntryFields
  <2>4. /\ t \in Seq(Units) /\ e.inode \in Units /\ e.type \in Units
        /\ e.record_length \in Units
    BY <2>2 DEF UnitEntry
  <2>5. n <= MaxName /\ MaxName \in Nat
    BY <2>1, LimitsType DEF EntryValid
  <2>6. n \in Units
    BY <2>3, <2>5, FieldUnits
  <2>7. r \in Units
    <3>1. AlignedLength(n) \in Nat /\ AlignedLength(n) <= AlignedLength(MaxName)
      BY <2>3, <2>5, AlignedFacts
    <3>2. AlignedLength(n) \in Units
      BY <3>1, FieldsAssumption, FieldUnits
    <3> QED
      BY <2>4, <3>2 DEF RecordLength
  <2>8. h \in Seq(Units)
    <3> DEFINE d == IF e.deleted THEN 1 ELSE 0
               x == e.inode
               y == e.type
    <3>1. x \in Units /\ y \in Units /\ d \in Units
      BY <2>4, FieldUnits
    <3> HIDE DEF d, x, y, r, n
    <3>2. <<r, x, y, d, n>> \in Seq(Units)
      BY <2>6, <2>7, <3>1
    <3> QED
      BY <3>2 DEF EntryHead, d, x, y, r, n
  <2>9. p \in Seq(Units)
    <3> HIDE DEF m
    <3>1. p \in [1 .. m -> Units]
      BY FieldUnits DEF Padding
    <3> QED
      BY <2>3, <3>1
  <2> HIDE DEF h, t, p
  <2>10. h \o t \in Seq(Units)
    BY <2>4, <2>8, ConcatUnits
  <2>11. (h \o t) \o p \in Seq(Units)
    BY <2>9, <2>10, ConcatUnits
  <2> QED
    BY <2>3, <2>11
<1>3. RecordUnits(q) \in [1 .. N -> T]
  BY <1>2 DEF RecordUnits
<1>4. RecordUnits(q) \in Seq(T)
  <2> HIDE DEF T, N
  <2> QED
    BY <1>1, <1>3
<1>5. EntriesBody(q) \in Seq(Units)
  BY <1>4, FlattenUnits DEF EntriesBody
<1>6. N \in Units
  BY <1>1, FieldUnits
<1> DEFINE x == DirectorySignature
           g == <<x>>
           h == <<N>>
<1>7. g \in Seq(Units) /\ h \in Seq(Units)
  <2>1. x \in Units
    BY FieldUnits
  <2> HIDE DEF x, N
  <2> QED
    BY <1>6, <2>1
<1>8. EncodedEntries(q) = Sealed(g \o (h \o EntriesBody(q)))
  BY DirectoryEncoded DEF DirectoryBody
<1> HIDE DEF g, h
<1>9. h \o EntriesBody(q) \in Seq(Units)
  BY <1>5, <1>7, ConcatUnits
<1>10. g \o (h \o EntriesBody(q)) \in Seq(Units)
  BY <1>7, <1>9, ConcatUnits
<1> QED
  BY <1>8, <1>10, SealedUnits

\* An extent adds at most the longest there is.
LEMMA BlocksCounted ==
  ASSUME NEW s \in Seq(Extent)
  PROVE  PhysicalBlockCount(s) \in Nat /\ PhysicalBlockCount(s) <= Len(s) * MaxCount
<1> DEFINE N == Len(s)
           w(n) == IF s[n].sparse THEN 0 ELSE s[n].count
           c == [n \in 1 .. N |-> w(n)]
           Adds(f) == f = [n \in 0 .. N |-> IF n = 0 THEN 0
                                            ELSE f[n - 1] + IF s[n].sparse THEN 0 ELSE s[n].count]
           f == CHOOSE g : Adds(g)
<1>1. N \in Nat /\ MaxCount \in Nat
  BY ExtentsAssumption
<1>2. \A n \in 1 .. N : w(n) \in Nat /\ w(n) <= MaxCount
  <2>1. ASSUME NEW n \in 1 .. N PROVE w(n) \in Nat /\ w(n) <= MaxCount
    <3> DEFINE e == s[n]
    <3>1. e \in Extent
      OBVIOUS
    <3>2. e.count \in Nat /\ e.count <= MaxCount /\ 0 <= MaxCount
      BY <1>1, <3>1, ExtentIsPiece DEF Piece
    <3> QED
      BY <3>2
  <2> QED
    BY <2>1
<1> HIDE DEF w
<1>3. c \in Seq(Nat) /\ Len(c) = N /\ \A n \in 1 .. N : c[n] = w(n)
  <2> HIDE DEF N
  <2>1. c \in [1 .. N -> Nat]
    BY <1>2
  <2> QED
    BY <1>1, <2>1
<1> HIDE DEF c
<1>4. /\ Totals(c) \in [0 .. N -> Nat] /\ Totals(c)[0] = 0
      /\ \A n \in 1 .. N : Totals(c)[n] = Totals(c)[n - 1] + w(n)
  BY <1>3, TotalsDefined DEF Totalling
<1>5. Adds(Totals(c))
  <2>1. \A n \in 0 .. N : n # 0 => n \in 1 .. N
    BY <1>1
  <2>2. \A n \in 0 .. N : Totals(c)[n] = IF n = 0 THEN 0 ELSE Totals(c)[n - 1] + w(n)
    BY <1>4, <2>1
  <2> QED
    BY <1>4, <2>2 DEF w
<1>6. Adds(f)
  BY <1>5
<1>7. PhysicalBlockCount(s) = f[N]
  BY DEF PhysicalBlockCount
<1> HIDE DEF f
<1>8. f[0] = 0 /\ \A n \in 1 .. N : f[n] = f[n - 1] + w(n)
  <2>1. 0 \in 0 .. N /\ \A n \in 1 .. N : n \in 0 .. N /\ n # 0
    BY <1>1
  <2> QED
    BY <1>6, <2>1 DEF w
<1> DEFINE S == {n \in 0 .. N : f[n] \in Nat /\ f[n] <= n * MaxCount}
<1>9. 0 \in S
  BY <1>1, <1>8
<1>10. ASSUME NEW n \in 1 .. N, n - 1 \in S PROVE n \in S
  <2> DEFINE x == f[n - 1]
             y == w(n)
             m == (n - 1) * MaxCount
  <2>1. x \in Nat /\ y \in Nat /\ x <= m /\ y <= MaxCount /\ f[n] = x + y
    BY <1>2, <1>8, <1>10
  <2>2. n * MaxCount = m + MaxCount /\ m \in Nat
    BY <1>1
  <2> HIDE DEF x, y, m
  <2>3. x + y \in Nat /\ x + y <= m + MaxCount
    BY <1>1, <2>1, <2>2
  <2> QED
    BY <2>1, <2>2, <2>3
<1> HIDE DEF S
<1>11. \A n \in 0 .. N : n \in S
  BY <1>1, <1>9, <1>10, Counting
<1>12. N \in S
  BY <1>1, <1>11
<1> QED
  BY <1>7, <1>12 DEF S

-----------------------------------------------------------------------------
(* Attributes as set_attribute() and remove_attribute() make them. *)

\* Attributes that could be encoded, but for the bounds on all of them.
NamesSet(q) ==
  /\ q \in Seq(UnitAttribute)
  /\ \A k \in 1 .. Len(q) : /\ Len(q[k].name) \in 1 .. MaxName
                            /\ \A l \in 1 .. k - 1 : q[l].name # q[k].name

LEMMA NameAppended ==
  ASSUME NEW q, NamesSet(q), NEW a \in UnitAttribute, Len(a.name) \in 1 .. MaxName,
         \A k \in 1 .. Len(q) : q[k].name # a.name
  PROVE  NamesSet(Append(q, a))
<1> DEFINE N == Len(q)
           r == Append(q, a)
<1>1. q \in Seq(UnitAttribute) /\ N \in Nat
  BY DEF NamesSet
<1>2. /\ r \in Seq(UnitAttribute) /\ Len(r) = N + 1 /\ r[N + 1] = a
      /\ \A k \in 1 .. N : r[k] = q[k]
  BY <1>1, AppendProperties
<1> HIDE DEF r, N
<1>3. ASSUME NEW k \in 1 .. N + 1
      PROVE  /\ Len(r[k].name) \in 1 .. MaxName
             /\ \A l \in 1 .. k - 1 : r[l].name # r[k].name
  <2>1. \A l \in 1 .. k - 1 : l \in 1 .. N /\ r[l] = q[l]
    BY <1>1, <1>2
  <2>2. CASE k = N + 1
    BY <1>2, <2>1, <2>2 DEF N
  <2>3. CASE k # N + 1
    <3>1. k \in 1 .. N /\ r[k] = q[k]
      BY <1>1, <1>2, <2>3
    <3> QED
      BY <2>1, <3>1 DEF NamesSet, N
  <2> QED
    BY <2>2, <2>3
<1>4. NamesSet(r)
  BY <1>2, <1>3 DEF NamesSet
<1> QED
  BY <1>4 DEF r

LEMMA ValueReplaced ==
  ASSUME NEW q, NamesSet(q), NEW k \in 1 .. Len(q), NEW v \in Seq(Units)
  PROVE  NamesSet([q EXCEPT ![k].value = v])
<1> DEFINE N == Len(q)
           a == [q[k] EXCEPT !.value = v]
           r == [q EXCEPT ![k] = a]
<1>1. q \in Seq(UnitAttribute) /\ N \in Nat /\ q[k] \in UnitAttribute
  BY DEF NamesSet
<1>2. a \in UnitAttribute /\ a.name = q[k].name
  <2> DEFINE T == Seq(Units)
  <2>1. q[k] \in [name : T, value : T] /\ v \in T
    BY <1>1 DEF UnitAttribute
  <2> HIDE DEF T
  <2>2. [q[k] EXCEPT !.value = v] \in [name : T, value : T]
        /\ [q[k] EXCEPT !.value = v].name = q[k].name
    BY <2>1
  <2> QED
    BY <2>2 DEF UnitAttribute, T
<1>3. [q EXCEPT ![k].value = v] = r
  OBVIOUS
<1> HIDE DEF a
<1>4. r \in Seq(UnitAttribute) /\ Len(r) = N
  BY <1>1, <1>2
<1>5. \A l \in 1 .. N : r[l] = IF l = k THEN a ELSE q[l]
  BY <1>1
<1> HIDE DEF r
<1>6. \A l \in 1 .. N : r[l].name = q[l].name
  BY <1>2, <1>5
<1>7. ASSUME NEW l \in 1 .. N
      PROVE  /\ Len(r[l].name) \in 1 .. MaxName
             /\ \A m \in 1 .. l - 1 : r[m].name # r[l].name
  <2>1. \A m \in 1 .. l - 1 : m \in 1 .. N
    BY <1>1
  <2> QED
    BY <1>6, <2>1 DEF NamesSet, N
<1>8. NamesSet(r)
  BY <1>4, <1>7 DEF NamesSet
<1> QED
  BY <1>3, <1>8

LEMMA NameRemoved ==
  ASSUME NEW q, NamesSet(q), NEW k \in 1 .. Len(q)
  PROVE  NamesSet(RemoveAt(q, k))
<1> DEFINE N == Len(q)
           b == SubSeq(q, 1, k - 1)
           e == SubSeq(q, k + 1, N)
           r == RemoveAt(q, k)
           m == k - 1
           T == UnitAttribute
<1>1. q \in Seq(T) /\ N \in Nat /\ k \in Nat /\ 1 <= k /\ k <= N /\ m \in Nat /\ k = m + 1
  BY DEF NamesSet
<1> HIDE DEF T
<1>2. b \in Seq(T) /\ Len(b) = m /\ \A i \in 1 .. m : b[i] = q[i]
  BY <1>1
<1>3. e \in Seq(T) /\ Len(e) = N - k /\ \A i \in 1 .. N - k : e[i] = q[k + i]
  BY <1>1
<1>4. r = b \o e
  BY DEF RemoveAt
<1> HIDE DEF b, e, r
<1>5. /\ r \in Seq(T) /\ Len(r) = m + (N - k)
      /\ \A i \in 1 .. m : r[i] = b[i]
      /\ \A i \in 1 .. N - k : r[m + i] = e[i]
  <2>1. /\ b \o e \in Seq(T) /\ Len(b \o e) = Len(b) + Len(e)
        /\ \A i \in 1 .. Len(b) : (b \o e)[i] = b[i]
        /\ \A i \in 1 .. Len(e) : (b \o e)[Len(b) + i] = e[i]
    <3>1. \A i \in 1 .. Len(b) + Len(e) : (b \o e)[i] = IF i <= Len(b) THEN b[i]
                                                         ELSE e[i - Len(b)]
      BY <1>2, <1>3, ConcatProperties
    <3>2. Len(b) \in Nat /\ Len(e) \in Nat
      BY <1>2, <1>3
    <3>3. b \o e \in Seq(T) /\ Len(b \o e) = Len(b) + Len(e)
      BY <1>2, <1>3, ConcatProperties
    <3> QED
      BY <3>1, <3>2, <3>3
  <2> QED
    BY <1>2, <1>3, <1>4, <2>1
<1> DEFINE from(i) == IF i < k THEN i ELSE i + 1
<1>6. ASSUME NEW i \in 1 .. N - 1 PROVE r[i] = q[from(i)] /\ from(i) \in 1 .. N
  <2>1. CASE i < k
    <3>1. i \in 1 .. m
      BY <1>1, <2>1
    <3> QED
      BY <1>1, <1>2, <1>5, <2>1, <3>1
  <2>2. CASE ~(i < k)
    <3> DEFINE j == i - m
    <3>1. j \in 1 .. N - k /\ m + j = i /\ k + j = i + 1 /\ i + 1 \in 1 .. N
      BY <1>1, <2>2
    <3> HIDE DEF j
    <3>2. r[m + j] = e[j] /\ e[j] = q[k + j]
      BY <1>3, <1>5, <3>1
    <3> QED
      BY <2>2, <3>1, <3>2
  <2> QED
    BY <2>1, <2>2
<1>7. ASSUME NEW i \in 1 .. N - 1
      PROVE  /\ Len(r[i].name) \in 1 .. MaxName
             /\ \A l \in 1 .. i - 1 : r[l].name # r[i].name
  <2>1. Len(r[i].name) \in 1 .. MaxName
    BY <1>6 DEF NamesSet, N
  <2>2. ASSUME NEW l \in 1 .. i - 1 PROVE r[l].name # r[i].name
    <3>1. l \in 1 .. N - 1 /\ from(l) \in 1 .. from(i) - 1
      BY <1>1
    <3>2. r[l] = q[from(l)] /\ r[i] = q[from(i)] /\ from(i) \in 1 .. N
      BY <1>6, <3>1
    <3> HIDE DEF from
    <3> QED
      BY <3>1, <3>2 DEF NamesSet, N
  <2> QED
    BY <2>1, <2>2
<1>8. Len(r) = N - 1
  BY <1>1, <1>5
<1>9. NamesSet(r)
  BY <1>5, <1>7, <1>8 DEF NamesSet, T
<1> QED
  BY <1>9 DEF r

\* What std::find_if() does not find is not there.
LEMMA FindFacts ==
  ASSUME attributes \in Seq(UnitAttribute), NEW name
  PROVE  /\ Find(name) \subseteq 1 .. Len(attributes)
         /\ Find(name) = {} => \A k \in 1 .. Len(attributes) : attributes[k].name # name
<1>1. Len(attributes) \in Nat
  OBVIOUS
<1>2. ASSUME Find(name) = {}, NEW j \in 1 .. Len(attributes), attributes[j].name = name
      PROVE  FALSE
  <2> DEFINE S == {k \in 1 .. Len(attributes) : attributes[k].name = name}
  <2>1. S \subseteq Nat /\ S # {}
    BY <1>1, <1>2
  <2>2. PICK k \in S : \A l \in S : k <= l
    <3> HIDE DEF S
    <3> QED
      BY <2>1, LeastOf
  <2>3. ASSUME NEW l \in 1 .. k - 1 PROVE attributes[l].name # name
    BY <1>1, <2>2
  <2>4. k \in Find(name)
    BY <2>2, <2>3 DEF Find
  <2> QED
    BY <1>2, <2>4
<1> QED
  BY <1>2 DEF Find

LEMMA AttributesStaySet ==
  ASSUME NamesSet(attributes), NEW name \in Strings, NEW value \in Strings,
         SetAttribute(name, value) \/ RemoveAttribute(name)
  PROVE  NamesSet(attributes')
<1>1. attributes \in Seq(UnitAttribute) /\ name \in Seq(Units) /\ value \in Seq(Units)
  BY InodeCodecAssumption DEF NamesSet
<1>2. Find(name) \subseteq 1 .. Len(attributes)
  BY <1>1, FindFacts
<1>3. CASE SetAttribute(name, value) /\ Find(name) = {}
          /\ attributes' = Append(attributes, Attribute(name, value))
  <2> DEFINE a == Attribute(name, value)
  <2>1. Len(name) \in Nat /\ name # <<>> /\ Len(name) <= MaxName
    BY <1>1, <1>3 DEF SetAttribute, Settable
  <2>2. Len(name) # 0
    BY <1>1, <2>1
  <2>3. Len(name) \in 1 .. MaxName
    BY <2>1, <2>2, LimitsType
  <2>4. a \in UnitAttribute /\ a.name = name
    BY <1>1 DEF Attribute, UnitAttribute
  <2> HIDE DEF a
  <2>5. NamesSet(Append(attributes, a))
    BY <1>1, <1>3, <2>3, <2>4, FindFacts, NameAppended
  <2> QED
    BY <1>3, <2>5 DEF a
<1>4. CASE \E k \in Find(name) : attributes' = [attributes EXCEPT ![k].value = value]
  <2>1. PICK k \in Find(name) : attributes' = [attributes EXCEPT ![k].value = value]
    BY <1>4
  <2>2. NamesSet([attributes EXCEPT ![k].value = value])
    BY <1>1, <1>2, ValueReplaced
  <2> QED
    BY <2>1, <2>2
<1>5. CASE RemoveAttribute(name)
  BY <1>2, <1>5, NameRemoved DEF RemoveAttribute
<1> QED
  BY <1>3, <1>4, <1>5 DEF SetAttribute

-----------------------------------------------------------------------------
(* The states of Codecs. *)

LEMMA PartOfSeq ==
  ASSUME NEW S, NEW T, S \subseteq T, NEW q \in Seq(S)
  PROVE  q \in Seq(T)
<1>1. Len(q) \in Nat /\ \A k \in 1 .. Len(q) : q[k] \in S
  OBVIOUS
<1>2. q = [k \in 1 .. Len(q) |-> q[k]]
  OBVIOUS
<1> DEFINE N == Len(q)
<1> HIDE DEF N
<1>3. [k \in 1 .. N |-> q[k]] \in Seq(T)
  BY <1>1 DEF N
<1> QED
  BY <1>2, <1>3 DEF N

LEMMA UnitsFit ==
  /\ Extent \subseteq UnitExtent
  /\ UnitAttribute \subseteq AttributeType
  /\ UnitEntry \subseteq EntryType
<1>1. Units \subseteq Nat /\ Seq(Units) \subseteq Seq(Nat)
  BY UnitsAreNumbers
<1>2. Extent \subseteq UnitExtent
  <2>1. ASSUME NEW e \in Extent PROVE e \in UnitExtent
    <3>1. /\ e.logical \in Nat /\ e.physical \in Nat /\ e.count \in Nat
          /\ e.sparse \in BOOLEAN
          /\ e.logical <= LogicalBlocks /\ e.physical <= DeviceBlocks /\ e.count <= MaxCount
      BY ExtentsAssumption DEF Extent
    <3>2. e.logical \in Units /\ e.physical \in Units /\ e.count \in Units
      BY <3>1, FieldUnits
    <3>3. e = [logical |-> e.logical, physical |-> e.physical, count |-> e.count,
               sparse |-> e.sparse]
      BY DEF Extent
    <3> QED
      BY <3>1, <3>2, <3>3 DEF UnitExtent
  <2> QED
    BY <2>1
<1>3. UnitAttribute \subseteq AttributeType
  <2> DEFINE S == Seq(Units)
             T == Seq(Nat)
  <2>1. S \subseteq T
    BY <1>1
  <2> HIDE DEF S, T
  <2>2. [name : S, value : S] \subseteq [name : T, value : T]
    BY <2>1
  <2> QED
    BY <2>2 DEF UnitAttribute, AttributeType, S, T
<1>4. UnitEntry \subseteq EntryType
  <2> DEFINE S == Seq(Units)
             T == Seq(Nat)
  <2>1. S \subseteq T
    BY <1>1
  <2> HIDE DEF S, T
  <2>2. [record_length : Units, inode : Units, type : Units, deleted : BOOLEAN, name : S]
          \subseteq [record_length : Nat, inode : Nat, type : Nat, deleted : BOOLEAN,
                     name : T]
    BY <1>1, <2>1
  <2> QED
    BY <2>2 DEF UnitEntry, EntryType, S, T
<1> QED
  BY <1>2, <1>3, <1>4

\* What is put together by legal calls.
Composed == /\ list \in Seq(Extent) /\ NamesSet(attributes)
            /\ entries \in Seq(UnitEntry)

LEMMA ComposedTypes ==
  ASSUME Composed
  PROVE  /\ list \in Seq(Extent) /\ list \in Seq(Piece) /\ list \in Seq(UnitExtent)
         /\ attributes \in Seq(UnitAttribute) /\ attributes \in Seq(AttributeType)
         /\ entries \in Seq(UnitEntry) /\ entries \in Seq(EntryType)
<1>1. /\ list \in Seq(Extent) /\ attributes \in Seq(UnitAttribute)
      /\ entries \in Seq(UnitEntry)
  BY DEF Composed, NamesSet
<1> QED
  BY <1>1, UnitsFit, ExtentIsPiece, PartOfSeq

LEMMA EntriesAreUnits == Entries \subseteq UnitEntry
<1>1. ASSUME NEW e \in Entries PROVE e \in UnitEntry
  <2> DEFINE lengths == {0} \cup {Alignment * n : n \in 1 .. (Word - 1) \div Alignment}
  <2>1. lengths \subseteq Units
    <3> DEFINE w == Word - 1
               d == w \div 2
    <3>1. w \in Nat /\ Units = 0 .. w
      BY ImageRecordsAssumption DEF Units
    <3> HIDE DEF w
    <3>2. d \in Nat /\ 2 * d <= w
      BY <3>1
    <3> HIDE DEF d
    <3>3. \A n \in 1 .. d : 2 * n \in 0 .. w
      BY <3>1, <3>2
    <3>4. 0 \in 0 .. w
      BY <3>1
    <3> QED
      BY <3>1, <3>3, <3>4 DEF Alignment, w, d
  <2> HIDE DEF lengths
  <2>2. PICK k \in [name : Strings, inode : {1, 2}, deleted : BOOLEAN, length : lengths] :
          e = [record_length |-> k.length, inode |-> k.inode, type |-> Regular,
               deleted |-> k.deleted, name |-> k.name]
    BY DEF Entries, lengths
  <2>3. Strings \subseteq Seq(Units) /\ {1, 2} \subseteq Units /\ Regular \in Units
    BY InodeCodecAssumption, FieldUnits DEF Regular
  <2> DEFINE S == Seq(Units)
  <2> HIDE DEF S
  <2>4. Strings \subseteq S
    BY <2>3 DEF S
  <2>5. /\ k.length \in Units /\ k.inode \in Units /\ k.deleted \in BOOLEAN /\ k.name \in S
    BY <2>1, <2>2, <2>3, <2>4
  <2>6. e \in [record_length : Units, inode : Units, type : Units, deleted : BOOLEAN,
               name : S]
    BY <2>2, <2>3, <2>5
  <2> QED
    BY <2>6 DEF UnitEntry, S
<1> QED
  BY <1>1

LEMMA InodesFacts ==
  ASSUME Composed, NEW i \in Inodes
  PROVE  /\ i \in InodeType
         /\ i.identifier = 1 /\ i.type \in {Regular, SymbolicLink} /\ i.links = 1
         /\ i.size \in {0, 1, LogicalBlocks}
         /\ i.allocated = PhysicalBlockCount(list)
         /\ i.target \in Seq(Units) /\ Len(i.target) <= MaxTarget
         /\ i.type = Regular <=> i.target = <<>>
         /\ i.extents = list /\ i.attributes = attributes
<1>1. PICK k \in [type : {Regular, SymbolicLink}, size : {0, 1, LogicalBlocks},
                  target : Strings] :
        /\ k.type = Regular <=> k.target = <<>>
        /\ Len(k.target) <= MaxTarget
        /\ i = [identifier |-> 1, type |-> k.type, links |-> 1, size |-> k.size,
                allocated |-> PhysicalBlockCount(list), deleted |-> FALSE,
                target |-> k.target, extents |-> list, attributes |-> attributes]
  BY DEF Inodes
<1>2. /\ i.identifier = 1 /\ i.type = k.type /\ i.links = 1 /\ i.size = k.size
      /\ i.allocated = PhysicalBlockCount(list) /\ i.target = k.target
      /\ i.extents = list /\ i.attributes = attributes
  BY <1>1
<1>3. /\ k.type \in {Regular, SymbolicLink} /\ k.size \in {0, 1, LogicalBlocks}
      /\ k.target \in Seq(Units) /\ k.target \in Seq(Nat)
  BY <1>1, InodeCodecAssumption, UnitsAreNumbers
<1>4. /\ k.type \in Nat /\ k.size \in Nat /\ PhysicalBlockCount(list) \in Nat
      /\ 1 \in Nat /\ FALSE \in BOOLEAN
  BY <1>3, ExtentsAssumption, ComposedTypes, BlocksCounted DEF Regular, SymbolicLink
<1>5. i \in InodeType
  <2> DEFINE T == Seq(Nat)
             X == Seq(Piece)
             Y == Seq(AttributeType)
             o == 1
             no == FALSE
  <2>1. /\ k.target \in T /\ list \in X /\ attributes \in Y
        /\ o \in Nat /\ no \in BOOLEAN
    BY <1>3, ComposedTypes
  <2>2. i = [identifier |-> o, type |-> k.type, links |-> o, size |-> k.size,
             allocated |-> PhysicalBlockCount(list), deleted |-> no,
             target |-> k.target, extents |-> list, attributes |-> attributes]
    BY <1>1
  <2>3. InodeType = [identifier : Nat, type : Nat, links : Nat, size : Nat,
                     allocated : Nat, deleted : BOOLEAN, target : T, extents : X,
                     attributes : Y]
    BY DEF InodeType
  <2> HIDE DEF T, X, Y, o, no
  <2>4. i \in [identifier : Nat, type : Nat, links : Nat, size : Nat,
               allocated : Nat, deleted : BOOLEAN, target : T, extents : X,
               attributes : Y]
    BY <1>4, <2>1, <2>2
  <2> QED
    BY <2>3, <2>4
<1> QED
  BY <1>1, <1>2, <1>3, <1>5

\* An inode that encode() takes is written in units and read back.
LEMMA InodeWritten ==
  ASSUME Composed, NEW i \in Inodes, Encodable(i)
  PROVE  /\ DecodedInode(EncodedInode(i)) = IF Valid(i) THEN {i} ELSE {}
         /\ Valid(i) => EncodedInode(i) \in Seq(Units)
<1>1. /\ i \in InodeType /\ i.identifier = 1 /\ i.type \in {Regular, SymbolicLink}
      /\ i.links = 1 /\ i.target \in Seq(Units)
      /\ i.extents \in Seq(UnitExtent) /\ i.attributes \in Seq(UnitAttribute)
  BY InodesFacts, ComposedTypes
<1>2. i.type \in Regular .. SymbolicLink
  BY <1>1 DEF Regular, SymbolicLink
<1>3. ASSUME Valid(i) PROVE EncodedInode(i) \in Seq(Units)
  <2>1. i.size \in Nat /\ i.size <= MaxSize /\ i.allocated \in Nat /\ i.allocated <= MaxSize
    BY <1>1, <1>3, InodeFields DEF Valid
  <2>2. i.size \in Units /\ i.allocated \in Units /\ i.type \in Units /\ 1 \in Units
    BY <1>2, <2>1, FieldUnits
  <2>3. {i.identifier, i.type, i.links, i.size, i.allocated} \subseteq Units
    BY <1>1, <2>2
  <2> QED
    BY <1>1, <2>3, InodeInUnits
<1> QED
  BY <1>1, <1>2, <1>3, InodeComesBack

\* So are entries.
LEMMA EntriesWritten ==
  ASSUME Composed, EntriesEncodable(entries)
  PROVE  /\ DecodedEntries(EncodedEntries(entries)) = {WithLengths(entries)}
         /\ EncodedEntries(entries) \in Seq(Units)
<1>1. entries \in Seq(UnitEntry) /\ EntriesValid(entries) /\ Len(entries) <= MaxEntries
  BY ComposedTypes DEF EntriesValid, EntriesEncodable
<1> QED
  BY <1>1, DirectoryComesBack, DirectoryInUnits

-----------------------------------------------------------------------------
(* The data. *)

Accepted(k, s) == /\ k = "inode" => DecodedInode(s) # {}
                  /\ k = "directory" => DecodedEntries(s) # {}
Refused(k, s) == /\ k = "inode" => DecodedInode(s) = {}
                 /\ k = "directory" => DecodedEntries(s) = {}

\* What encode() wrote is accepted, and nothing that is damaged is.
DataInv == /\ data \in Seq(Units)
           /\ kind # "none" /\ change = "no" => Accepted(kind, data)
           /\ change = "damaged" => Refused(kind, data)

CodecsInv == Composed /\ DataInv

LEMMA DataSaved ==
  ASSUME NEW k, NEW s \in Seq(Units), Accepted(k, s), Save(k, s)
  PROVE  DataInv'
<1>1. kind' = k /\ data' = s /\ change' = "no"
  BY DEF Save
<1>2. change' # "damaged"
  BY <1>1
<1> QED
  BY <1>1, <1>2 DEF DataInv, Accepted

LEMMA DataDamaged ==
  ASSUME DataInv, Damage
  PROVE  DataInv'
<1>1. /\ data \in Seq(Units) /\ data' \in Edits(data) /\ kind' = kind
      /\ change' = "damaged" /\ Accepted(kind, data)
  BY DEF DataInv, Damage
<1>2. data' \in Seq(Units)
  BY <1>1, EditsType
<1>3. Refused(kind, data')
  BY <1>1, DamagedInode, DamagedDirectory DEF Accepted, Refused
<1>4. change' # "no"
  BY <1>1
<1> QED
  BY <1>1, <1>2, <1>3, <1>4 DEF DataInv, Refused

LEMMA DataForged ==
  ASSUME DataInv, NEW k \in {"inode", "directory"}, Forge(k, Forgeries)
  PROVE  DataInv'
<1>1. /\ data \in Seq(Units) /\ data' \in Forgeries /\ kind' = kind
      /\ change' = "forged" /\ Accepted(k, data)
  <2>1. kind = k /\ change = "no" /\ kind # "none"
    BY DEF Forge
  <2> QED
    BY <2>1 DEF DataInv, Forge
<1>2. Len(data) \in Nat /\ Len(data) >= 2
  <2>1. Len(data) \in Nat
    BY <1>1
  <2>2. Len(data) >= 3 \/ Len(data) >= LeastUnits - 1
    <3>1. data \in Seq(Nat)
      BY <1>1, UnitsAreNumbers
    <3> QED
      BY <1>1, <3>1, DecodedInodeIs, DecodedEntriesIs DEF Accepted
  <2> QED
    BY <2>1, <2>2 DEF LeastUnits
<1>3. Front(data) \in Seq(Units)
  <2> DEFINE S == Units
  <2>1. data \in Seq(S)
    BY <1>1
  <2> HIDE DEF S
  <2>2. Front(data) \in Seq(S)
    BY <1>2, <2>1, InsideFacts
  <2> QED
    BY <2>2 DEF S
<1>4. PICK body \in Edits(Front(data)) : data' = Sealed(body)
  BY <1>1 DEF Forgeries
<1>5. data' \in Seq(Units)
  BY <1>3, <1>4, EditsType, SealedUnits
<1>6. change' # "no" /\ change' # "damaged"
  BY <1>1
<1> QED
  BY <1>5, <1>6 DEF DataInv

LEMMA CodecsInvariant == CodecsSpec => []CodecsInv
<1>1. CodecsInit => CodecsInv
  <2> SUFFICES ASSUME CodecsInit PROVE CodecsInv
    OBVIOUS
  <2>1. list = <<>> /\ attributes = <<>> /\ entries = <<>>
        /\ kind = "none" /\ data = <<>> /\ change = "no"
    BY DEF CodecsInit, Init, Nothing
  <2>2. NamesSet(<<>>)
    BY DEF NamesSet
  <2>3. Composed
    BY <2>1, <2>2 DEF Composed
  <2>4. DataInv
    BY <2>1 DEF DataInv
  <2> QED
    BY <2>3, <2>4 DEF CodecsInv
<1>2. CodecsInv /\ [CodecsNext]_all => CodecsInv'
  <2> SUFFICES ASSUME CodecsInv, [CodecsNext]_all PROVE CodecsInv'
    OBVIOUS
  <2>1. Composed /\ DataInv
    BY DEF CodecsInv
  <2>2. CASE Compose
    <3>1. DataInv'
      BY <2>1, <2>2 DEF Compose, image, DataInv, Accepted, Refused
    <3>2. CASE Next /\ UNCHANGED <<attributes, entries>>
      <4>1. list' \in Seq(Extent)
        BY <2>1, <3>2 DEF Next, Composed
      <4> QED
        BY <2>1, <3>1, <3>2, <4>1 DEF CodecsInv, Composed
    <3>3. CASE /\ UNCHANGED <<list, entries>>
               /\ \E name, value \in Strings : SetAttribute(name, value) \/ RemoveAttribute(name)
      <4>1. NamesSet(attributes')
        BY <2>1, <3>3, AttributesStaySet DEF Composed
      <4> QED
        BY <2>1, <3>1, <3>3, <4>1 DEF CodecsInv, Composed
    <3>4. CASE /\ UNCHANGED <<list, attributes>>
               /\ \E e \in Entries : entries' = Append(entries, e)
      <4>1. PICK e \in Entries : entries' = Append(entries, e)
        BY <3>4
      <4>2. e \in UnitEntry /\ entries \in Seq(UnitEntry)
        BY <2>1, EntriesAreUnits DEF Composed
      <4>3. entries' \in Seq(UnitEntry)
        BY <4>1, <4>2, AppendProperties
      <4> QED
        BY <2>1, <3>1, <3>4, <4>3 DEF CodecsInv, Composed
    <3> QED
      BY <2>2, <3>2, <3>3, <3>4 DEF Compose
  <2>3. CASE Change
    <3>1. Composed'
      BY <2>1, <2>3 DEF Change, Composed
    <3>2. ASSUME NEW i \in Inodes, Encodable(i), Valid(i), Save("inode", EncodedInode(i))
          PROVE  DataInv'
      <4>1. EncodedInode(i) \in Seq(Units) /\ DecodedInode(EncodedInode(i)) = {i}
        BY <2>1, <3>2, InodeWritten
      <4>2. Accepted("inode", EncodedInode(i))
        BY <4>1 DEF Accepted
      <4> QED
        BY <3>2, <4>1, <4>2, DataSaved
    <3>3. ASSUME EntriesEncodable(entries), Save("directory", EncodedEntries(entries))
          PROVE  DataInv'
      <4>1. /\ EncodedEntries(entries) \in Seq(Units)
            /\ DecodedEntries(EncodedEntries(entries)) # {}
        BY <2>1, <3>3, EntriesWritten
      <4>2. Accepted("directory", EncodedEntries(entries))
        BY <4>1 DEF Accepted
      <4> QED
        BY <3>3, <4>1, <4>2, DataSaved
    <3>4. ASSUME Damage PROVE DataInv'
      BY <2>1, <3>4, DataDamaged
    <3>5. ASSUME NEW k \in {"inode", "directory"}, Forge(k, Forgeries) PROVE DataInv'
      BY <2>1, <3>5, DataForged
    <3> QED
      BY <2>3, <3>1, <3>2, <3>3, <3>4, <3>5 DEF Change, CodecsInv
  <2>4. CASE UNCHANGED all
    BY <2>1, <2>4 DEF all, image, CodecsInv, Composed, DataInv, Accepted, Refused
  <2> QED
    BY <2>2, <2>3, <2>4 DEF CodecsNext
<1> QED
  BY <1>1, <1>2, PTL DEF CodecsSpec

-----------------------------------------------------------------------------
(* What the checks say. *)

LEMMA ReadBack ==
  ASSUME CodecsInv
  PROVE  RecordsReadBack
<1>1. Composed
  BY DEF CodecsInv
<1>2. InodeReadBack
  BY <1>1, InodeWritten DEF InodeReadBack
<1>3. EntriesReadBack
  <2> SUFFICES ASSUME EntriesEncodable(entries)
               PROVE  DecodedEntries(EncodedEntries(entries)) = {WithLengths(entries)}
    BY DEF EntriesReadBack, WithLengths, WithLength
  <2> QED
    BY <1>1, EntriesWritten
<1> QED
  BY <1>2, <1>3 DEF RecordsReadBack

LEMMA RefusedInTotal ==
  ASSUME CodecsInv
  PROVE  AttributesRefusedInTotal
<1> SUFFICES ASSUME Len(list) <= MaxCoded, NEW i \in Inodes
             PROVE  /\ Encodable(i) <=> /\ Len(attributes) <= MaxEntries
                                        /\ AttributeBytes(attributes) <= MaxValues
                    /\ Encodable(i) /\ Verify(list, i.size, i.allocated) => Valid(i)
  BY DEF AttributesRefusedInTotal
<1>1. Composed
  BY DEF CodecsInv
<1>2. /\ i.identifier = 1 /\ i.type \in {Regular, SymbolicLink}
      /\ i.links = 1 /\ i.size \in {0, 1, LogicalBlocks}
      /\ i.allocated = PhysicalBlockCount(list)
      /\ i.target \in Seq(Units) /\ Len(i.target) <= MaxTarget
      /\ i.type = Regular <=> i.target = <<>>
      /\ i.extents = list /\ i.attributes = attributes
  BY <1>1, InodesFacts
<1>3. ASSUME NEW k \in 1 .. Len(attributes)
      PROVE  /\ Len(attributes[k].name) \in 1 .. MaxName
             /\ \A l \in 1 .. k - 1 : attributes[l].name # attributes[k].name
  BY <1>1 DEF Composed, NamesSet
<1>4. /\ MaxName \in Nat /\ MaxSize \in Nat /\ MaxCount \in Nat /\ MaxExtents \in Nat
      /\ LogicalBlocks \in Nat /\ 1 <= LogicalBlocks /\ LogicalBlocks <= MaxSize
      /\ MaxCoded \in Nat /\ MaxCoded <= MaxExtents /\ MaxCoded * MaxCount <= MaxSize
      /\ 1 \in 1 .. MaxInodes /\ 1 \in 1 .. MaxLinks /\ MaxTarget \in Nat
  BY ExtentsAssumption, InodeCodecAssumption, CodecsAssumption
<1>5. Len(list) \in Nat /\ Len(list) <= MaxExtents
  BY <1>1, <1>4, ComposedTypes
<1>6. Encodable(i) <=> /\ Len(attributes) <= MaxEntries
                       /\ AttributeBytes(attributes) <= MaxValues
  <2>1. \A k \in 1 .. Len(attributes) : Len(attributes[k].name) <= MaxName
    BY <1>3, <1>4
  <2> QED
    BY <1>2, <1>5, <2>1 DEF Encodable
<1>7. PhysicalBlockCount(list) <= MaxSize
  <2> DEFINE n == Len(list)
             p == PhysicalBlockCount(list)
             m == n * MaxCount
             o == MaxCoded * MaxCount
  <2>1. p \in Nat /\ p <= m
    BY <1>1, BlocksCounted, ComposedTypes
  <2>2. m \in Nat /\ o \in Nat /\ m <= o
    <3> HIDE DEF n
    <3>1. n \in Nat /\ n <= MaxCoded
      BY <1>5 DEF n
    <3>2. PICK d \in Nat : MaxCoded = n + d
      <4>1. MaxCoded - n \in Nat /\ MaxCoded = n + (MaxCoded - n)
        BY <1>4, <3>1
      <4> QED
        BY <4>1
    <3>3. (n + d) * MaxCount = n * MaxCount + d * MaxCount /\ n * MaxCount \in Nat
          /\ d * MaxCount \in Nat
      BY <1>4, <3>1
    <3> DEFINE x == d * MaxCount
    <3>4. o = m + x /\ m \in Nat /\ x \in Nat
      BY <3>2, <3>3
    <3> HIDE DEF o, m, x
    <3> QED
      BY <3>4
  <2> HIDE DEF p, m, o
  <2>3. o <= MaxSize
    BY <1>4 DEF o
  <2>4. p <= MaxSize
    BY <1>4, <2>1, <2>2, <2>3
  <2> QED
    BY <2>4 DEF p
<1>8. ASSUME Encodable(i), Verify(list, i.size, i.allocated) PROVE Valid(i)
  <2>1. i.type \in Regular .. SymbolicLink /\ Regular # SymbolicLink
    BY <1>2 DEF Regular, SymbolicLink
  <2>2. i.size <= MaxSize /\ i.allocated <= MaxSize
    BY <1>2, <1>4, <1>7
  <2>3. IF i.type = SymbolicLink THEN Len(i.target) \in 1 .. MaxTarget ELSE i.target = <<>>
    <3>1. Len(i.target) \in Nat /\ (Len(i.target) = 0 => i.target = <<>>)
      BY <1>2
    <3> QED
      BY <1>2, <1>4, <2>1, <3>1
  <2>4. AttributeBytes(attributes) <= MaxValues
    BY <1>6, <1>8
  <2> QED
    BY <1>2, <1>3, <1>4, <1>5, <1>8, <2>1, <2>2, <2>3, <2>4 DEF Valid
<1> QED
  BY <1>6, <1>8

LEMMA OneForm ==
  ASSUME CodecsInv
  PROVE  RecordsOneForm
<1>1. data \in Seq(Nat)
  BY UnitsAreNumbers DEF CodecsInv, DataInv
<1>2. InodeOneForm
  BY <1>1, InodeHasOneForm DEF InodeOneForm
<1>3. EntriesOneForm
  <2> SUFFICES ASSUME NEW es \in DecodedEntries(data)
               PROVE  /\ EntriesEncodable(es) /\ Len(EncodedEntries(es)) = Len(data)
                      /\ DecodedEntries(EncodedEntries(es)) = {es}
    BY DEF EntriesOneForm
  <2>1. /\ EntriesValid(es) /\ Len(es) <= MaxEntries
        /\ Len(EncodedEntries(es)) = Len(data)
        /\ DecodedEntries(EncodedEntries(es)) = {es}
    BY <1>1, DirectoryHasOneForm
  <2>2. ASSUME NEW k \in 1 .. Len(es) PROVE EntryValid(es[k]) /\ FitsRecord(es[k])
    <3>1. es[k] \in EntryType /\ EntryValid(es[k])
      BY <2>1 DEF EntriesValid
    <3>2. RecordLength(es[k]) >= EntryUnits + Len(es[k].name)
      BY <3>1, RecordLengthFacts
    <3>3. /\ RecordLength(es[k]) \in Nat /\ Len(es[k].name) \in Nat /\ EntryUnits \in Nat
      BY <3>1, RecordLengthFacts, EntryFields DEF EntryUnits
    <3> QED
      BY <3>1, <3>2, <3>3 DEF FitsRecord
  <2> QED
    BY <2>1, <2>2 DEF EntriesEncodable
<1>4. change = "damaged" => Refused(kind, data)
  BY DEF CodecsInv, DataInv
<1> QED
  BY <1>2, <1>3, <1>4 DEF RecordsOneForm, Refused

\* What was put together by legal calls, an inode with any extents and any
\* attributes or any entries, and was encoded is decoded as it was, unless it is
\* an inode that is not valid, which encode() takes and decode() refuses.
THEOREM LegalRecordsReadBack == CodecsSpec => []RecordsReadBack
BY CodecsInvariant, ReadBack, PTL

\* Of the attributes that set_attribute() accepts one by one, encode() refuses
\* only too many or too much of them, and it writes none that decode() refuses.
THEOREM OnlyTotalsRefused == CodecsSpec => []AttributesRefusedInTotal
BY CodecsInvariant, RefusedInTotal, PTL

\* An inode record that decode() accepts, whoever made it, is the one encode()
\* makes; a directory record becomes one of its length with the same entries; and
\* a record of either kind that was changed in one place, cut or continued by one
\* unit is refused.
THEOREM AcceptedRecordsHaveOneForm == CodecsSpec => []RecordsOneForm
BY CodecsInvariant, OneForm, PTL
=============================================================================
