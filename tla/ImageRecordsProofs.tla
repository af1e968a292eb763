------------------------- MODULE ImageRecordsProofs -------------------------
(***************************************************************************)
(* What the proofs about the codecs have in common: recursive functions,   *)
(* sequences of sequences, what a sequence holds at a position, and that   *)
(* checksums tell apart what differs in one unit.                          *)
(***************************************************************************)
EXTENDS ImageRecords, SequenceTheorems, WellFoundedInduction, TLAPS

-----------------------------------------------------------------------------
(* Recursive functions. *)

LEMMA LeastOf ==
  ASSUME NEW S, S \subseteq Nat, S # {}
  PROVE  \E x \in S : \A y \in S : x <= y
<1> DEFINE R == {p \in Nat \X Nat : p[1] < p[2]}
<1>1. IsWellFoundedOn(R, Nat)
  BY NatLessThanWellFounded DEF OpToRel
<1>2. \A x, y \in Nat : <<y, x>> \in R <=> y < x
  OBVIOUS
<1> HIDE DEF R
<1>3. PICK x \in S : \A y \in S : ~(<<y, x>> \in R)
  BY <1>1, WFMin
<1>4. ASSUME NEW y \in S PROVE x <= y
  <2>1. x \in Nat /\ y \in Nat /\ ~(<<y, x>> \in R)
    BY <1>3
  <2>2. ~(y < x)
    BY <1>2, <2>1
  <2> QED
    BY <2>1, <2>2
<1> QED
  BY <1>4

\* What holds of 0 and of each number when it holds of the one before.
LEMMA Counting ==
  ASSUME NEW N \in Nat, NEW S, 0 \in S, \A n \in 1 .. N : n - 1 \in S => n \in S
  PROVE  \A n \in 0 .. N : n \in S
<1> DEFINE Bad == {n \in 0 .. N : n \notin S}
<1> SUFFICES ASSUME Bad # {} PROVE FALSE
  OBVIOUS
<1>1. PICK n \in Bad : \A k \in Bad : n <= k
  <2>1. Bad \subseteq Nat
    OBVIOUS
  <2> HIDE DEF Bad
  <2> QED
    BY <2>1, LeastOf
<1>2. n \in 1 .. N /\ n - 1 \in 0 .. N /\ ~(n <= n - 1) /\ n \notin S
  BY <1>1
<1>3. n - 1 \in S
  BY <1>1, <1>2
<1> QED
  BY <1>2, <1>3

Iterates(f, a, N, g) == f[0] = a /\ \A n \in 1 .. N : f[n] = g[n][f[n - 1]]

\* A value that is made from a first one in N steps exists after each of them.
LEMMA Recursion ==
  ASSUME NEW V, NEW a \in V, NEW N \in Nat, NEW g \in [1 .. N -> [V -> V]]
  PROVE  \E f \in [0 .. N -> V] : Iterates(f, a, N, g)
<1> DEFINE Made(f, M) == f[0] = a /\ \A n \in 1 .. M : f[n] = g[n][f[n - 1]]
           Bad == {M \in 0 .. N : ~\E f \in [0 .. M -> V] : Made(f, M)}
<1> SUFFICES ASSUME Bad # {} PROVE FALSE
  <2>1. N \in 0 .. N
    OBVIOUS
  <2> QED
    BY <2>1 DEF Iterates
<1>1. PICK M \in Bad : \A k \in Bad : M <= k
  <2>1. Bad \subseteq Nat
    OBVIOUS
  <2> HIDE DEF Bad
  <2> QED
    BY <2>1, LeastOf
<1>2. M \in 0 .. N /\ ~\E f \in [0 .. M -> V] : Made(f, M)
  BY <1>1
<1>3. M # 0
  <2>1. [n \in 0 .. 0 |-> a] \in [0 .. 0 -> V] /\ Made([n \in 0 .. 0 |-> a], 0)
    OBVIOUS
  <2> QED
    BY <1>2, <2>1
<1>4. M - 1 \in 0 .. N /\ ~(M <= M - 1) /\ M \in 1 .. N
  BY <1>2, <1>3
<1>5. PICK f \in [0 .. M - 1 -> V] : Made(f, M - 1)
  BY <1>1, <1>4
<1> DEFINE h == [n \in 0 .. M |-> IF n = M THEN g[M][f[M - 1]] ELSE f[n]]
<1>6. h \in [0 .. M -> V]
  <2>1. M - 1 \in 0 .. M - 1 /\ \A n \in 0 .. M : n = M \/ n \in 0 .. M - 1
    BY <1>2, <1>4
  <2>2. f[M - 1] \in V
    BY <2>1
  <2>3. g[M][f[M - 1]] \in V
    BY <1>4, <2>2
  <2> QED
    BY <2>1, <2>3
<1>7. h[0] = a
  BY <1>2, <1>3, <1>5
<1>8. ASSUME NEW n \in 1 .. M PROVE h[n] = g[n][h[n - 1]]
  <2>1. n \in 0 .. M /\ n - 1 \in 0 .. M /\ n - 1 # M
    BY <1>2
  <2>2. h[n - 1] = f[n - 1]
    BY <2>1
  <2>3. CASE n = M
    <3>1. h[n] = g[n][f[n - 1]]
      BY <2>1, <2>3
    <3> QED
      BY <2>2, <3>1
  <2>4. CASE n # M
    <3>1. n \in 1 .. M - 1 /\ h[n] = f[n]
      BY <1>2, <2>1, <2>4
    <3>2. f[n] = g[n][f[n - 1]]
      BY <1>5, <3>1
    <3> QED
      BY <2>2, <3>1, <3>2
  <2> QED
    BY <2>3, <2>4
<1> QED
  BY <1>2, <1>6, <1>7, <1>8

-----------------------------------------------------------------------------
(* Totals. *)

Totals(c) == CHOOSE f : f = [n \in 0 .. Len(c) |-> IF n = 0 THEN 0 ELSE f[n - 1] + c[n]]

\* A function adds up the numbers of a sequence.
Totalling(f, c) == f[0] = 0 /\ \A n \in 1 .. Len(c) : f[n] = f[n - 1] + c[n]

LEMMA TotalsDefined ==
  ASSUME NEW c \in Seq(Nat)
  PROVE  Totals(c) \in [0 .. Len(c) -> Nat] /\ Totalling(Totals(c), c)
<1> DEFINE N == Len(c)
           Adds(f) == f = [n \in 0 .. N |-> IF n = 0 THEN 0 ELSE f[n - 1] + c[n]]
           V == Nat
           g == [n \in 1 .. N |-> [x \in V |-> x + c[n]]]
<1>1. N \in Nat /\ 0 \in V /\ \A n \in 1 .. N : c[n] \in Nat
  OBVIOUS
<1>2. g \in [1 .. N -> [V -> V]]
  BY <1>1
<1> HIDE DEF N
<1>3. PICK f \in [0 .. N -> V] : Iterates(f, 0, N, g)
  <2> HIDE DEF g, V
  <2> QED
    BY <1>1, <1>2, Recursion
<1>4. \A n \in 1 .. N : n \in 0 .. N /\ n # 0 /\ n - 1 \in 0 .. N
  BY <1>1
<1>5. \A n \in 1 .. N : f[n] = f[n - 1] + c[n]
  BY <1>3, <1>4 DEF Iterates
<1>6. Adds(f)
  <2>1. \A n \in 0 .. N : n # 0 => n \in 1 .. N
    BY <1>1
  <2>2. \A n \in 0 .. N : f[n] = IF n = 0 THEN 0 ELSE f[n - 1] + c[n]
    BY <1>3, <1>5, <2>1 DEF Iterates
  <2> QED
    BY <2>2
<1>7. Adds(Totals(c))
  BY <1>6 DEF Totals, N
<1>8. Totalling(Totals(c), c)
  <2>1. 0 \in 0 .. N
    BY <1>1
  <2> QED
    BY <1>4, <1>7, <2>1 DEF Totalling, N
<1>9. \A n \in 0 .. N : n \in {k \in 0 .. N : Totals(c)[k] \in Nat}
  <2> DEFINE S == {k \in 0 .. N : Totals(c)[k] \in Nat}
  <2>1. 0 \in S
    BY <1>1, <1>8 DEF Totalling
  <2>2. ASSUME NEW n \in 1 .. N, n - 1 \in S PROVE n \in S
    BY <1>1, <1>4, <1>8, <2>2 DEF Totalling, N
  <2> HIDE DEF S
  <2>3. \A n \in 0 .. N : n \in S
    BY <1>1, <2>1, <2>2, Counting
  <2> QED
    BY <2>3 DEF S
<1>10. Totals(c) \in [0 .. N -> Nat]
  BY <1>7, <1>9
<1> QED
  BY <1>8, <1>10 DEF N

\* There is one way to add up, of a part of the sequence as well.
LEMMA TotalsUnique ==
  ASSUME NEW c \in Seq(Nat), NEW b \in Seq(Nat), Len(b) <= Len(c),
         \A n \in 1 .. Len(b) : b[n] = c[n],
         NEW f, Totalling(f, b)
  PROVE  f[Len(b)] = Totals(c)[Len(b)]
<1> DEFINE N == Len(b)
           S == {k \in 0 .. N : f[k] = Totals(c)[k]}
<1>1. N \in Nat /\ 1 .. N \subseteq 1 .. Len(c) /\ N \in 0 .. N
  OBVIOUS
<1>2. Totalling(Totals(c), c)
  BY TotalsDefined
<1>3. 0 \in S
  BY <1>1, <1>2 DEF Totalling
<1>4. ASSUME NEW n \in 1 .. N, n - 1 \in S PROVE n \in S
  <2>1. n \in 0 .. N /\ n \in 1 .. Len(c) /\ b[n] = c[n]
    BY <1>1
  <2>2. f[n] = f[n - 1] + b[n] /\ Totals(c)[n] = Totals(c)[n - 1] + c[n]
    BY <1>2, <2>1 DEF Totalling
  <2> QED
    BY <1>4, <2>1, <2>2
<1> HIDE DEF S, N
<1>5. N \in S
  BY <1>1, <1>3, <1>4, Counting
<1> QED
  BY <1>5 DEF S, N

\* No number, and no part of the sequence, is more than its total.
LEMMA TotalsBound ==
  ASSUME NEW c \in Seq(Nat)
  PROVE  /\ \A k \in 0 .. Len(c) : Totals(c)[k] <= Totals(c)[Len(c)]
         /\ \A k \in 1 .. Len(c) : c[k] <= Totals(c)[Len(c)]
<1> DEFINE N == Len(c)
           T == Totals(c)
           S == {m \in 0 .. N : T[N - m] <= T[N]}
<1>1. /\ N \in Nat /\ T \in [0 .. N -> Nat]
      /\ \A n \in 1 .. N : T[n] = T[n - 1] + c[n] /\ c[n] \in Nat
  BY TotalsDefined DEF Totalling
<1> HIDE DEF N, T
<1>2. 0 \in S
  BY <1>1
<1>3. ASSUME NEW m \in 1 .. N, m - 1 \in S PROVE m \in S
  <2>1. /\ N - m \in 0 .. N /\ (N - m) + 1 \in 1 .. N /\ N - (m - 1) = (N - m) + 1
        /\ ((N - m) + 1) - 1 = N - m /\ N \in 0 .. N /\ (N - m) + 1 \in 0 .. N
    BY <1>1
  <2> DEFINE j == (N - m) + 1
  <2>2. T[j] = T[N - m] + c[j] /\ c[j] \in Nat /\ T[N - m] \in Nat /\ T[j] <= T[N]
        /\ T[N] \in Nat
    BY <1>1, <1>3, <2>1
  <2> HIDE DEF j
  <2>3. T[N - m] <= T[N]
    BY <2>2
  <2> QED
    BY <2>3
<1> HIDE DEF S
<1>4. \A m \in 0 .. N : m \in S
  BY <1>1, <1>2, <1>3, Counting
<1>5. ASSUME NEW k \in 0 .. N PROVE T[k] <= T[N]
  <2>1. N - k \in 0 .. N /\ N - (N - k) = k
    BY <1>1
  <2>2. T[N - (N - k)] <= T[N]
    BY <1>4, <2>1 DEF S
  <2> QED
    BY <2>1, <2>2
<1>6. ASSUME NEW k \in 1 .. N PROVE c[k] <= T[N]
  <2>1. k \in 0 .. N /\ k - 1 \in 0 .. N /\ N \in 0 .. N
    BY <1>1
  <2>2. T[k] = T[k - 1] + c[k] /\ T[k - 1] \in Nat /\ c[k] \in Nat /\ T[k] <= T[N]
        /\ T[N] \in Nat
    BY <1>1, <1>5, <2>1
  <2> QED
    BY <2>2
<1> QED
  BY <1>5, <1>6 DEF N, T

-----------------------------------------------------------------------------
(* Sequences of sequences. *)

\* The sequences that FlattenSeq joins one by one.
Joined(q) == CHOOSE f : f = [i \in 1 .. Len(q) |-> IF i = 1 THEN q[i] ELSE f[i - 1] \o q[i]]

LEMMA JoinedDefined ==
  ASSUME NEW S, NEW q \in Seq(Seq(S)), q # <<>>
  PROVE  /\ FlattenSeq(q) = Joined(q)[Len(q)]
         /\ Joined(q) \in [1 .. Len(q) -> Seq(S)]
         /\ Joined(q)[1] = q[1]
         /\ \A i \in 2 .. Len(q) : Joined(q)[i] = Joined(q)[i - 1] \o q[i]
<1> DEFINE N == Len(q)
           Joins(f) == f = [i \in 1 .. N |-> IF i = 1 THEN q[i] ELSE f[i - 1] \o q[i]]
           g == [n \in 1 .. N - 1 |-> [x \in Seq(S) |-> x \o q[n + 1]]]
<1>1. N \in Nat /\ N >= 1 /\ N - 1 \in Nat /\ \A i \in 1 .. N : q[i] \in Seq(S)
  OBVIOUS
<1>2. g \in [1 .. N - 1 -> [Seq(S) -> Seq(S)]]
  BY <1>1
<1>3. q[1] \in Seq(S)
  BY <1>1
<1>4. PICK h \in [0 .. N - 1 -> Seq(S)] :
        h[0] = q[1] /\ \A n \in 1 .. N - 1 : h[n] = g[n][h[n - 1]]
  <2> HIDE DEF g, N
  <2>1. \E h \in [0 .. N - 1 -> Seq(S)] : Iterates(h, q[1], N - 1, g)
    BY <1>1, <1>2, <1>3, Recursion
  <2> QED
    BY <2>1 DEF Iterates
<1> HIDE DEF N
<1> DEFINE f == [i \in 1 .. N |-> h[i - 1]]
<1>5. f \in [1 .. N -> Seq(S)] /\ f[1] = q[1]
  BY <1>1, <1>4
<1>6. \A i \in 2 .. N : f[i] = f[i - 1] \o q[i]
  <2> TAKE i \in 2 .. N
  <2>1. i - 1 \in 1 .. N - 1 /\ (i - 1) - 1 \in 0 .. N - 1 /\ (i - 1) + 1 = i
        /\ i \in 1 .. N /\ i - 1 \in 1 .. N
    BY <1>1
  <2>2. h[(i - 1) - 1] \in Seq(S)
    BY <1>4, <2>1
  <2>3. h[i - 1] = h[(i - 1) - 1] \o q[i]
    BY <1>4, <2>1, <2>2
  <2> QED
    BY <2>1, <2>3
<1> HIDE DEF f
<1>7. Joins(f)
  <2>1. \A i \in 1 .. N : i # 1 => i \in 2 .. N
    BY <1>1
  <2>2. \A i \in 1 .. N : f[i] = IF i = 1 THEN q[i] ELSE f[i - 1] \o q[i]
    BY <1>5, <1>6, <2>1
  <2> QED
    BY <1>5, <2>2
<1>8. Joins(Joined(q))
  BY <1>7 DEF Joined, N
<1>9. /\ Joined(q)[1] = q[1]
      /\ \A i \in 2 .. N : Joined(q)[i] = Joined(q)[i - 1] \o q[i]
  <2>1. 1 \in 1 .. N /\ \A i \in 2 .. N : i \in 1 .. N /\ i # 1
    BY <1>1
  <2> QED
    BY <1>8, <2>1
<1>10. Joined(q) \in [1 .. N -> Seq(S)]
  <2> DEFINE Bad == {n \in 1 .. N : Joined(q)[n] \notin Seq(S)}
  <2> SUFFICES ASSUME Bad # {} PROVE FALSE
    BY <1>8
  <2>1. PICK n \in Bad : \A k \in Bad : n <= k
    <3>1. Bad \subseteq Nat
      BY <1>1
    <3> HIDE DEF Bad
    <3> QED
      BY <3>1, LeastOf
  <2>2. n \in 1 .. N /\ n # 1
    BY <1>3, <1>9
  <2>3. n \in 2 .. N /\ n - 1 \in 1 .. N /\ ~(n <= n - 1)
    BY <1>1, <2>2
  <2>4. Joined(q)[n - 1] \in Seq(S) /\ q[n] \in Seq(S)
    BY <1>1, <2>1, <2>2, <2>3
  <2>5. Joined(q)[n] \in Seq(S)
    <3>1. Joined(q)[n - 1] \o q[n] \in Seq(S)
      BY <2>4, ConcatProperties
    <3> QED
      BY <1>9, <2>3, <3>1
  <2> QED
    BY <2>5
<1>11. FlattenSeq(q) = Joined(q)[N]
  BY <1>1 DEF FlattenSeq, Joined, N
<1> QED
  BY <1>9, <1>10, <1>11 DEF N

LEMMA FlattenEmpty == FlattenSeq(<<>>) = <<>>
BY DEF FlattenSeq

LEMMA FlattenAppend ==
  ASSUME NEW S, NEW q \in Seq(Seq(S)), NEW x \in Seq(S)
  PROVE  /\ FlattenSeq(q) \in Seq(S)
         /\ FlattenSeq(Append(q, x)) = FlattenSeq(q) \o x
<1> DEFINE a == Append(q, x)
           N == Len(q)
<1>1. /\ N \in Nat /\ a \in Seq(Seq(S)) /\ a # <<>> /\ Len(a) = N + 1
      /\ a[N + 1] = x /\ \A i \in 1 .. N : a[i] = q[i]
  <2> DEFINE T == Seq(S)
  <2>1. q \in Seq(T) /\ x \in T
    OBVIOUS
  <2> HIDE DEF T
  <2>2. /\ N \in Nat /\ a \in Seq(T) /\ a # <<>> /\ Len(a) = N + 1
        /\ a[N + 1] = x /\ \A i \in 1 .. N : a[i] = q[i]
    BY <2>1
  <2> QED
    BY <2>2 DEF T
<1> HIDE DEF a
<1>2. /\ FlattenSeq(a) = Joined(a)[N + 1]
      /\ Joined(a)[1] = a[1]
      /\ \A i \in 2 .. N + 1 : Joined(a)[i] = Joined(a)[i - 1] \o a[i]
  BY <1>1, JoinedDefined
<1>3. CASE q = <<>>
  <2>1. FlattenSeq(a) = x
    BY <1>1, <1>2, <1>3
  <2>2. FlattenSeq(q) = <<>>
    BY <1>3, FlattenEmpty
  <2> QED
    BY <2>1, <2>2 DEF a
<1>4. CASE q # <<>>
  <2>1. /\ FlattenSeq(q) = Joined(q)[N] /\ Joined(q) \in [1 .. N -> Seq(S)]
        /\ Joined(q)[1] = q[1]
        /\ \A i \in 2 .. N : Joined(q)[i] = Joined(q)[i - 1] \o q[i]
    BY <1>4, JoinedDefined
  <2>2. N >= 1 /\ N \in 1 .. N /\ N + 1 \in 2 .. N + 1 /\ (N + 1) - 1 = N
    BY <1>4
  <2>3. \A i \in 1 .. N : Joined(a)[i] = Joined(q)[i]
    <3> DEFINE Bad == {i \in 1 .. N : Joined(a)[i] # Joined(q)[i]}
    <3> SUFFICES ASSUME Bad # {} PROVE FALSE
      OBVIOUS
    <3> HIDE DEF N
    <3>1. PICK n \in Bad : \A k \in Bad : n <= k
      <4>1. Bad \subseteq Nat
        BY <1>1
      <4> HIDE DEF Bad
      <4> QED
        BY <4>1, LeastOf
    <3>2. n \in 1 .. N /\ Joined(a)[n] # Joined(q)[n]
      BY <3>1
    <3>3. n # 1
      BY <1>1, <1>2, <2>1, <3>2
    <3>4. n \in 2 .. N /\ n \in 2 .. N + 1 /\ n - 1 \in 1 .. N /\ ~(n <= n - 1)
      BY <1>1, <3>2, <3>3
    <3>5. Joined(a)[n - 1] = Joined(q)[n - 1]
      BY <3>1, <3>4
    <3> QED
      BY <1>1, <1>2, <2>1, <3>2, <3>4, <3>5
  <2>4. FlattenSeq(a) = FlattenSeq(q) \o x
    BY ZenonT(60), <1>1, <1>2, <2>1, <2>2, <2>3
  <2> QED
    BY <2>1, <2>2, <2>4 DEF a
<1> QED
  BY <1>3, <1>4

\* The first n of them, one after the other.
Upto(q, n) == FlattenSeq(SubSeq(q, 1, n))

LEMMA UptoFacts ==
  ASSUME NEW q \in Seq(Seq(Nat))
  PROVE  /\ FlattenSeq(q) \in Seq(Nat) /\ Upto(q, Len(q)) = FlattenSeq(q)
         /\ Upto(q, 0) = <<>>
         /\ \A k \in 0 .. Len(q) : Upto(q, k) \in Seq(Nat)
         /\ \A k \in 1 .. Len(q) : Upto(q, k) = Upto(q, k - 1) \o q[k]
<1> DEFINE S == Nat
           T == Seq(S)
           e == <<>>
<1>1. e \in Seq(S) /\ q \in Seq(Seq(S))
  OBVIOUS
<1>2. SubSeq(q, 1, 0) = <<>> /\ SubSeq(q, 1, Len(q)) = q
  BY SubSeqEmpty, SubSeqFull
<1>3. ASSUME NEW k \in 0 .. Len(q) PROVE SubSeq(q, 1, k) \in Seq(Seq(S))
  <2>1. \A i \in 1 .. k : q[i] \in T
    BY <1>1
  <2> HIDE DEF T
  <2>2. SubSeq(q, 1, k) \in Seq(T)
    BY <2>1, SubSeqProperties
  <2> QED
    BY <2>2 DEF T
<1>4. ASSUME NEW k \in 1 .. Len(q)
      PROVE  SubSeq(q, 1, k) = Append(SubSeq(q, 1, k - 1), q[k])
  <2>1. 1 \in 1 .. Len(q) /\ k \in 1 .. Len(q) /\ k - 1 \in 0 .. Len(q) /\ q \in Seq(T)
    BY <1>1
  <2>2. q[k] \in T /\ SubSeq(q, 1, k - 1) \in Seq(T)
    BY <1>3, <2>1
  <2> HIDE DEF T
  <2>3. SubSeq(q, 1, k) = SubSeq(q, 1, k - 1) \o <<q[k]>>
    BY <2>1, SubSeqRecursiveSecond
  <2> QED
    BY <2>2, <2>3, AppendIsConcat
<1> HIDE DEF e
<1>5. ASSUME NEW k \in 1 .. Len(q) PROVE Upto(q, k) = Upto(q, k - 1) \o q[k]
  <2>1. k - 1 \in 0 .. Len(q) /\ q[k] \in Seq(S)
    BY <1>1
  <2>2. SubSeq(q, 1, k - 1) \in Seq(Seq(S))
    BY <1>3, <2>1
  <2> HIDE DEF S
  <2>3. FlattenSeq(Append(SubSeq(q, 1, k - 1), q[k])) = FlattenSeq(SubSeq(q, 1, k - 1)) \o q[k]
    BY <2>1, <2>2, FlattenAppend
  <2> QED
    BY <1>4, <2>3 DEF Upto
<1>6. ASSUME NEW k \in 0 .. Len(q) PROVE Upto(q, k) \in Seq(S)
  <2>1. SubSeq(q, 1, k) \in Seq(Seq(S))
    BY <1>3
  <2> HIDE DEF S
  <2> QED
    BY <1>1, <2>1, FlattenAppend DEF Upto
<1>7. FlattenSeq(q) \in Seq(S)
  <2> HIDE DEF S
  <2> QED
    BY <1>1, FlattenAppend
<1> QED
  BY <1>2, <1>5, <1>6, <1>7, FlattenEmpty DEF Upto

-----------------------------------------------------------------------------
(* What a sequence holds at a position. *)

\* f stands in s behind position `at`.
Holds(s, at, f) == at + Len(f) <= Len(s) /\ \A i \in 1 .. Len(f) : s[at + i] = f[i]

LEMMA SliceFacts ==
  ASSUME NEW S, NEW s \in Seq(S), NEW at \in Nat, NEW n \in Nat, at + n <= Len(s)
  PROVE  /\ Slice(s, at, n) \in Seq(S) /\ Len(Slice(s, at, n)) = n
         /\ \A i \in 1 .. n : Slice(s, at, n)[i] = s[at + i]
<1>1. at + 1 \in Int /\ at + n \in Int /\ \A i \in at + 1 .. at + n : s[i] \in S
  BY Len(s) \in Nat
<1>2. /\ SubSeq(s, at + 1, at + n) \in Seq(S)
      /\ Len(SubSeq(s, at + 1, at + n)) =
           IF at + 1 <= at + n THEN (at + n) - (at + 1) + 1 ELSE 0
      /\ \A i \in 1 .. (at + n) - (at + 1) + 1 :
           SubSeq(s, at + 1, at + n)[i] = s[(at + 1) + i - 1]
  BY <1>1, SubSeqProperties
<1>3. (at + n) - (at + 1) + 1 = n /\ \A i \in 1 .. n : (at + 1) + i - 1 = at + i
  OBVIOUS
<1>4. Len(SubSeq(s, at + 1, at + n)) = n
  BY <1>2
<1> QED
  BY <1>2, <1>3, <1>4 DEF Slice

IsConcat(u, s, t) ==
  /\ u \in Seq(Nat) /\ Len(u) = Len(s) + Len(t)
  /\ Len(s) \in Nat /\ Len(t) \in Nat
  /\ \A i \in 1 .. Len(s) : u[i] = s[i]
  /\ \A i \in 1 .. Len(t) : u[Len(s) + i] = t[i]

LEMMA ConcatFacts ==
  ASSUME NEW s \in Seq(Nat), NEW t \in Seq(Nat)
  PROVE  IsConcat(s \o t, s, t)
<1>1. Len(s) \in Nat /\ Len(t) \in Nat
  OBVIOUS
<1>2. /\ s \o t \in Seq(Nat) /\ Len(s \o t) = Len(s) + Len(t)
      /\ \A i \in 1 .. Len(s) + Len(t) :
           (s \o t)[i] = IF i <= Len(s) THEN s[i] ELSE t[i - Len(s)]
  BY ConcatProperties
<1>3. ASSUME NEW i \in 1 .. Len(s) PROVE (s \o t)[i] = s[i]
  BY <1>1, <1>2
<1>4. ASSUME NEW i \in 1 .. Len(t) PROVE (s \o t)[Len(s) + i] = t[i]
  <2>1. Len(s) + i \in 1 .. Len(s) + Len(t) /\ ~(Len(s) + i <= Len(s))
        /\ (Len(s) + i) - Len(s) = i
    BY <1>1
  <2> QED
    BY <1>2, <2>1
<1> QED
  BY <1>1, <1>2, <1>3, <1>4 DEF IsConcat

LEMMA ConcatThree ==
  ASSUME NEW s \in Seq(Nat), NEW t \in Seq(Nat), NEW u \in Seq(Nat)
  PROVE  (s \o t) \o u = s \o (t \o u)
BY SMTT(40), ConcatAssociative

LEMMA HoldsConcat ==
  ASSUME NEW s \in Seq(Nat), NEW at \in Nat, NEW a \in Seq(Nat), NEW b \in Seq(Nat)
  PROVE  Holds(s, at, a \o b) <=> Holds(s, at, a) /\ Holds(s, at + Len(a), b)
<1> DEFINE u == a \o b
           l == Len(a)
           m == Len(b)
<1>1. /\ u \in Seq(Nat) /\ Len(u) = l + m /\ l \in Nat /\ m \in Nat
      /\ \A i \in 1 .. l : u[i] = a[i]
      /\ \A i \in 1 .. m : u[l + i] = b[i]
  BY ConcatFacts DEF IsConcat
<1>2. Len(s) \in Nat
  OBVIOUS
<1> HIDE DEF u
<1>3. ASSUME Holds(s, at, u) PROVE Holds(s, at, a) /\ Holds(s, at + l, b)
  <2>1. at + (l + m) <= Len(s) /\ \A i \in 1 .. l + m : s[at + i] = u[i]
    BY <1>1, <1>3 DEF Holds
  <2> HIDE DEF l, m
  <2>2. ASSUME NEW i \in 1 .. l PROVE s[at + i] = a[i]
    <3>1. i \in 1 .. l + m
      BY <1>1
    <3> QED
      BY <1>1, <2>1, <3>1
  <2>3. ASSUME NEW i \in 1 .. m PROVE s[(at + l) + i] = b[i]
    <3>1. l + i \in 1 .. l + m /\ at + (l + i) = (at + l) + i
      BY SMTT(40), <1>1
    <3> QED
      BY <1>1, <2>1, <3>1
  <2>4. at + l <= Len(s) /\ (at + l) + m <= Len(s)
    BY <1>1, <1>2, <2>1
  <2> QED
    BY <2>2, <2>3, <2>4 DEF Holds, l, m
<1>4. ASSUME Holds(s, at, a), Holds(s, at + l, b) PROVE Holds(s, at, u)
  <2>1. /\ (at + l) + m <= Len(s) /\ \A i \in 1 .. l : s[at + i] = a[i]
        /\ \A i \in 1 .. m : s[(at + l) + i] = b[i]
    BY <1>4 DEF Holds
  <2> HIDE DEF l, m
  <2>2. ASSUME NEW i \in 1 .. l + m PROVE s[at + i] = u[i]
    <3>1. CASE i \in 1 .. l
      BY <1>1, <2>1, <3>1
    <3>2. CASE i - l \in 1 .. m /\ l + (i - l) = i /\ (at + l) + (i - l) = at + i
      <4>1. s[(at + l) + (i - l)] = b[i - l] /\ u[l + (i - l)] = b[i - l]
        BY <1>1, <2>1, <3>2
      <4> QED
        BY <3>2, <4>1
    <3>3. \/ i \in 1 .. l
          \/ i - l \in 1 .. m /\ l + (i - l) = i /\ (at + l) + (i - l) = at + i
      BY <1>1
    <3> QED
      BY <3>1, <3>2, <3>3
  <2>3. at + (l + m) <= Len(s)
    BY <1>1, <2>1
  <2> QED
    BY <1>1, <2>2, <2>3 DEF Holds
<1> QED
  BY <1>3, <1>4 DEF u

LEMMA HoldsOne ==
  ASSUME NEW s \in Seq(Nat), NEW at \in Nat, NEW x \in Nat
  PROVE  Holds(s, at, <<x>>) <=> at + 1 <= Len(s) /\ s[at + 1] = x
<1> DEFINE f == <<x>>
<1>1. Len(f) = 1 /\ f[1] = x
  OBVIOUS
<1> HIDE DEF f
<1> QED
  BY <1>1 DEF Holds, f

LEMMA HoldsSlice ==
  ASSUME NEW s \in Seq(Nat), NEW at \in Nat, NEW t \in Seq(Nat)
  PROVE  Holds(s, at, t) <=> at + Len(t) <= Len(s) /\ Slice(s, at, Len(t)) = t
<1> DEFINE n == Len(t)
<1>1. n \in Nat
  OBVIOUS
<1>2. CASE at + n <= Len(s)
  <2> DEFINE u == Slice(s, at, n)
             S == Nat
  <2>1. u \in Seq(S) /\ Len(u) = n /\ \A i \in 1 .. n : u[i] = s[at + i]
    <3> HIDE DEF S
    <3>1. s \in Seq(S)
      BY DEF S
    <3> QED
      BY <1>1, <1>2, <3>1, SliceFacts
  <2> HIDE DEF u
  <2>2. (\A i \in 1 .. n : u[i] = t[i]) => u = t
    BY <2>1, SeqEqual
  <2>3. (\A i \in 1 .. n : s[at + i] = t[i]) <=> u = t
    BY <2>1, <2>2
  <2> QED
    BY <1>2, <2>3 DEF Holds, u
<1>3. CASE ~(at + n <= Len(s))
  BY <1>3 DEF Holds
<1> QED
  BY <1>2, <1>3

LEMMA HoldsAll ==
  ASSUME NEW s \in Seq(Nat), NEW t \in Seq(Nat)
  PROVE  s = t <=> Len(s) = Len(t) /\ Holds(s, 0, t)
<1> DEFINE n == Len(t)
<1>1. n \in Nat /\ Len(s) \in Nat
  OBVIOUS
<1>2. Holds(s, 0, t) <=> n <= Len(s) /\ \A i \in 1 .. n : s[i] = t[i]
  <2>1. 0 + n = n /\ \A i \in 1 .. n : 0 + i = i
    BY <1>1
  <2> QED
    BY <2>1 DEF Holds
<1>3. Len(s) = n /\ (\A i \in 1 .. n : s[i] = t[i]) => s = t
  BY SeqEqual
<1>4. s = t => n <= Len(s) /\ \A i \in 1 .. n : s[i] = t[i]
  BY <1>1
<1> QED
  BY <1>2, <1>3, <1>4

\* A sequence holds pieces one after the other when it holds each at its place.
LEMMA HoldsUpto ==
  ASSUME NEW s \in Seq(Nat), NEW at \in Nat, NEW q \in Seq(Seq(Nat)), NEW n \in 0 .. Len(q)
  PROVE  Holds(s, at, Upto(q, n)) <=>
           /\ at <= Len(s)
           /\ \A k \in 1 .. n : Holds(s, at + Len(Upto(q, k - 1)), q[k])
<1> DEFINE N == Len(q)
           H(k) == Holds(s, at + Len(Upto(q, k - 1)), q[k])
           S == {m \in 0 .. N : Holds(s, at, Upto(q, m)) <=>
                                  at <= Len(s) /\ \A k \in 1 .. m : H(k)}
<1>1. N \in Nat /\ Len(s) \in Nat
  OBVIOUS
<1>2. 0 \in S
  <2>1. Holds(s, at, Upto(q, 0)) <=> at <= Len(s)
    <3>1. Upto(q, 0) = <<>>
      BY UptoFacts
    <3>2. Len(Upto(q, 0)) = 0
      BY <3>1, EmptySeq
    <3> QED
      BY <1>1, <3>2 DEF Holds
  <2> QED
    BY <1>1, <2>1
<1>3. ASSUME NEW m \in 1 .. N, m - 1 \in S PROVE m \in S
  <2>1. m - 1 \in 0 .. N /\ m \in 0 .. N /\ q[m] \in Seq(Nat)
    BY <1>1
  <2>2. Upto(q, m) = Upto(q, m - 1) \o q[m] /\ Upto(q, m - 1) \in Seq(Nat)
    BY <2>1, UptoFacts
  <2>3. Holds(s, at, Upto(q, m)) <=> Holds(s, at, Upto(q, m - 1)) /\ H(m)
    BY <2>1, <2>2, HoldsConcat
  <2>4. Holds(s, at, Upto(q, m - 1)) <=> at <= Len(s) /\ \A k \in 1 .. m - 1 : H(k)
    BY <1>3
  <2>5. (\A k \in 1 .. m : H(k)) <=> H(m) /\ \A k \in 1 .. m - 1 : H(k)
    <3> HIDE DEF H
    <3>1. \A k \in 1 .. m : k = m \/ k \in 1 .. m - 1
      BY <2>1
    <3>2. m \in 1 .. m /\ \A k \in 1 .. m - 1 : k \in 1 .. m
      BY <2>1
    <3> QED
      BY <3>1, <3>2
  <2> HIDE DEF H
  <2> QED
    BY <2>1, <2>3, <2>4, <2>5
<1> HIDE DEF S, N
<1>4. \A m \in 0 .. N : m \in S
  BY <1>1, <1>2, <1>3, Counting
<1>5. n \in S
  BY <1>4 DEF N
<1> QED
  BY <1>5 DEF S

-----------------------------------------------------------------------------
(* Checksums. *)

\* The sums that checksums are made of.
Sums(s) == CHOOSE sum : sum = [n \in 0 .. Len(s) |->
                                 IF n = 0 THEN 0 ELSE (sum[n - 1] + s[n]) % Word]

LEMMA SumsDefined ==
  ASSUME NEW s \in Seq(Nat)
  PROVE  /\ Checksum(s) = Sums(s)[Len(s)]
         /\ Sums(s) \in [0 .. Len(s) -> Units]
         /\ Sums(s)[0] = 0
         /\ \A n \in 1 .. Len(s) : Sums(s)[n] = (Sums(s)[n - 1] + s[n]) % Word
<1> DEFINE N == Len(s)
           Adds(f) == f = [n \in 0 .. N |-> IF n = 0 THEN 0 ELSE (f[n - 1] + s[n]) % Word]
           g == [n \in 1 .. N |-> [x \in Units |-> (x + s[n]) % Word]]
<1>1. N \in Nat /\ Word \in Nat /\ Word > 1 /\ 0 \in Units
      /\ \A x \in Nat : x % Word \in Units
  BY ImageRecordsAssumption DEF Units
<1>2. g \in [1 .. N -> [Units -> Units]]
  <2>1. ASSUME NEW n \in 1 .. N, NEW x \in Units PROVE (x + s[n]) % Word \in Units
    <3>1. x + s[n] \in Nat
      BY DEF Units
    <3> QED
      BY <1>1, <3>1
  <2> QED
    BY <2>1
<1> HIDE DEF N
<1>3. PICK f \in [0 .. N -> Units] : f[0] = 0 /\ \A n \in 1 .. N : f[n] = g[n][f[n - 1]]
  <2>1. 0 \in Units /\ N \in Nat
    BY <1>1
  <2> HIDE DEF g
  <2>2. \E f \in [0 .. N -> Units] : Iterates(f, 0, N, g)
    BY <2>1, <1>2, Recursion
  <2> QED
    BY <2>2 DEF Iterates
<1>4. \A n \in 1 .. N : n \in 0 .. N /\ n # 0 /\ n - 1 \in 0 .. N
  BY <1>1
<1>5. \A n \in 1 .. N : f[n] = (f[n - 1] + s[n]) % Word
  BY <1>3, <1>4
<1>6. Adds(f)
  <2>1. \A n \in 0 .. N : n # 0 => n \in 1 .. N
    BY <1>1
  <2>2. \A n \in 0 .. N : f[n] = IF n = 0 THEN 0 ELSE (f[n - 1] + s[n]) % Word
    BY <1>3, <1>5, <2>1
  <2> QED
    BY <2>2
<1>7. Adds(Sums(s))
  BY <1>6 DEF Sums, N
<1>8. /\ Sums(s)[0] = 0
      /\ \A n \in 1 .. N : Sums(s)[n] = (Sums(s)[n - 1] + s[n]) % Word
  <2>1. 0 \in 0 .. N
    BY <1>1
  <2> QED
    BY <1>4, <1>7, <2>1
<1>9. Sums(s) \in [0 .. N -> Units]
  <2> DEFINE Bad == {n \in 0 .. N : Sums(s)[n] \notin Units}
  <2> SUFFICES ASSUME Bad # {} PROVE FALSE
    BY <1>7
  <2>1. PICK n \in Bad : \A k \in Bad : n <= k
    <3>1. Bad \subseteq Nat
      BY <1>1
    <3> HIDE DEF Bad
    <3> QED
      BY <3>1, LeastOf
  <2>2. n \in 0 .. N /\ n # 0
    BY <1>1, <1>8
  <2>3. n \in 1 .. N /\ n - 1 \in 0 .. N /\ ~(n <= n - 1)
    BY <1>1, <2>2
  <2>4. Sums(s)[n - 1] \in Units
    BY <2>1, <2>3
  <2>5. Sums(s)[n - 1] + s[n] \in Nat
    BY <2>3, <2>4 DEF Units, N
  <2>6. Sums(s)[n] \in Units
    BY <1>1, <1>8, <2>3, <2>5
  <2> QED
    BY <2>6
<1>10. Checksum(s) = Sums(s)[N]
  BY DEF Checksum, Sums, N
<1> QED
  BY <1>8, <1>9, <1>10 DEF N

LEMMA ChecksumType ==
  ASSUME NEW s \in Seq(Nat)
  PROVE  Checksum(s) \in Nat /\ Checksum(s) \in Units
<1>1. Len(s) \in 0 .. Len(s) /\ Units \subseteq Nat
  BY ImageRecordsAssumption DEF Units
<1> QED
  BY <1>1, SumsDefined

LEMMA Remainder ==
  /\ \A n \in Nat : n % Word \in Nat /\ n % Word <= n /\ (n < Word => n % Word = n)
  /\ (-1) % Word = Word - 1
BY ImageRecordsAssumption

LEMMA UnitsAreNumbers == Units \subseteq Nat /\ Seq(Units) \subseteq Seq(Nat)
<1>1. Units \subseteq Nat
  BY ImageRecordsAssumption DEF Units
<1>2. ASSUME NEW s \in Seq(Units) PROVE s \in Seq(Nat)
  <2>1. Len(s) \in Nat /\ \A i \in 1 .. Len(s) : s[i] \in Units
    OBVIOUS
  <2>2. s = [i \in 1 .. Len(s) |-> s[i]]
    OBVIOUS
  <2> QED
    BY <1>1, <2>1, <2>2
<1> QED
  BY <1>1, <1>2

LEMMA SumsDiffer ==
  ASSUME NEW a \in Units, NEW b \in Units, NEW x \in Units
  PROVE  (a + x) % Word = (b + x) % Word => a = b
<1>1. Word \in Nat /\ Word > 1
  BY ImageRecordsAssumption
<1>2. /\ a \in Nat /\ a < Word /\ b \in Nat /\ b < Word /\ x \in Nat /\ x < Word
  BY <1>1 DEF Units
<1>3. ASSUME NEW k \in Nat, k < Word + Word
      PROVE  k % Word = IF k < Word THEN k ELSE k - Word
  <2>1. CASE k < Word
    BY <1>1, <2>1
  <2>2. CASE ~(k < Word)
    <3>1. k = Word + (k - Word) /\ k - Word \in Nat /\ k - Word < Word
      BY <1>1, <1>3, <2>2
    <3>2. k % Word = k - Word
      BY <1>1, <3>1
    <3> QED
      BY <2>2, <3>2
  <2> QED
    BY <2>1, <2>2
<1> DEFINE k == a + x
           l == b + x
<1> SUFFICES ASSUME k % Word = l % Word PROVE a = b
  OBVIOUS
<1>4. /\ k = a + x /\ l = b + x
      /\ k \in Nat /\ k < Word + Word /\ l \in Nat /\ l < Word + Word
  BY <1>1, <1>2
<1> HIDE DEF k, l
<1>5. /\ k % Word = IF k < Word THEN k ELSE k - Word
      /\ l % Word = IF l < Word THEN l ELSE l - Word
  BY <1>3, <1>4
<1>6. (IF k < Word THEN k ELSE k - Word) = IF l < Word THEN l ELSE l - Word
  BY <1>5
<1> QED
  BY <1>1, <1>2, <1>4, <1>6

LEMMA ChecksumDiffers ==
  ASSUME NEW s \in Seq(Units), NEW t \in Seq(Units), Len(s) = Len(t),
         NEW i \in 1 .. Len(s), s[i] # t[i],
         \A j \in 1 .. Len(s) : j # i => s[j] = t[j]
  PROVE  Checksum(s) # Checksum(t)
<1> DEFINE N == Len(s)
           S == Sums(s)
           T == Sums(t)
<1>1. /\ Checksum(s) = S[N] /\ S \in [0 .. N -> Units] /\ S[0] = 0
      /\ \A n \in 1 .. N : S[n] = (S[n - 1] + s[n]) % Word
      /\ Checksum(t) = T[N] /\ T \in [0 .. N -> Units] /\ T[0] = 0
      /\ \A n \in 1 .. N : T[n] = (T[n - 1] + t[n]) % Word
  BY UnitsAreNumbers, SumsDefined
<1>2. N \in Nat /\ \A n \in 1 .. N : s[n] \in Units /\ t[n] \in Units
  OBVIOUS
<1> HIDE DEF N, S, T
<1> DEFINE Bad == {n \in 0 .. N : IF n < i THEN S[n] # T[n] ELSE S[n] = T[n]}
<1>3. ASSUME Bad # {} PROVE FALSE
  <2>1. PICK n \in Bad : \A k \in Bad : n <= k
    <3>1. Bad \subseteq Nat
      BY <1>2
    <3> HIDE DEF Bad
    <3> QED
      BY <1>3, <3>1, LeastOf
  <2>2. n \in 0 .. N /\ IF n < i THEN S[n] # T[n] ELSE S[n] = T[n]
    BY <2>1
  <2>3. i \in 1 .. N
    BY DEF N
  <2>4. n # 0
    BY <1>1, <2>2, <2>3
  <2>5. n \in 1 .. N /\ n - 1 \in 0 .. N /\ ~(n <= n - 1)
    BY <1>2, <2>2, <2>4
  <2>6. IF n - 1 < i THEN S[n - 1] = T[n - 1] ELSE S[n - 1] # T[n - 1]
    BY <2>1, <2>5
  <2>7. /\ S[n] = (S[n - 1] + s[n]) % Word /\ T[n] = (T[n - 1] + t[n]) % Word
        /\ S[n - 1] \in Units /\ T[n - 1] \in Units /\ s[n] \in Units /\ t[n] \in Units
    BY <1>1, <1>2, <2>5
  <2>8. CASE n < i
    <3>1. n - 1 < i /\ n # i /\ s[n] = t[n]
      BY <2>3, <2>5, <2>8 DEF N
    <3> QED
      BY <2>2, <2>6, <2>7, <2>8, <3>1
  <2>9. CASE n = i
    <3>1. n - 1 < i /\ ~(n < i) /\ s[n] # t[n]
      BY <2>3, <2>5, <2>9
    <3>2. S[n - 1] = T[n - 1] /\ S[n] = T[n]
      BY <2>2, <2>6, <3>1
    <3>3. S[n - 1] + s[n] = s[n] + S[n - 1] /\ T[n - 1] + t[n] = t[n] + T[n - 1]
      <4>1. S[n - 1] \in Nat /\ T[n - 1] \in Nat /\ s[n] \in Nat /\ t[n] \in Nat
        BY <2>7, UnitsAreNumbers
      <4> QED
        BY <4>1
    <3>4. (s[n] + S[n - 1]) % Word = (t[n] + S[n - 1]) % Word
      BY <2>7, <3>2, <3>3
    <3> QED
      BY <2>7, <3>1, <3>4, SumsDiffer
  <2>10. CASE n > i
    <3>1. ~(n - 1 < i) /\ ~(n < i) /\ n # i /\ s[n] = t[n]
      BY <2>3, <2>5, <2>10 DEF N
    <3>2. S[n - 1] # T[n - 1] /\ S[n] = T[n]
      BY <2>2, <2>6, <3>1
    <3>3. (S[n - 1] + s[n]) % Word = (T[n - 1] + s[n]) % Word
      BY <2>7, <3>1, <3>2
    <3> QED
      BY <2>7, <3>2, <3>3, SumsDiffer
  <2> QED
    BY <2>3, <2>5, <2>8, <2>9, <2>10
<1>4. N \in 0 .. N /\ ~(N < i)
  BY <1>2 DEF N
<1> QED
  BY <1>1, <1>3, <1>4

-----------------------------------------------------------------------------
(* Units. *)

LEMMA SliceUnits ==
  ASSUME NEW s \in Seq(Units), NEW at \in Nat, NEW n \in Nat, at + n <= Len(s)
  PROVE  /\ Slice(s, at, n) \in Seq(Units) /\ Len(Slice(s, at, n)) = n
         /\ \A i \in 1 .. n : Slice(s, at, n)[i] = s[at + i]
<1> DEFINE U == Units
<1>1. s \in Seq(U)
  OBVIOUS
<1> HIDE DEF U
<1>2. /\ Slice(s, at, n) \in Seq(U) /\ Len(Slice(s, at, n)) = n
      /\ \A i \in 1 .. n : Slice(s, at, n)[i] = s[at + i]
  BY <1>1, SliceFacts
<1> QED
  BY <1>2 DEF U

LEMMA ConcatUnits ==
  ASSUME NEW s \in Seq(Units), NEW t \in Seq(Units)
  PROVE  s \o t \in Seq(Units)
BY ConcatProperties

LEMMA EditsType ==
  ASSUME NEW s \in Seq(Units), NEW t \in Edits(s)
  PROVE  t \in Seq(Units)
<1>1. CASE t \in {[s EXCEPT ![i] = u] : i \in 1 .. Len(s), u \in Units}
  BY <1>1
<1>2. CASE t \in {SubSeq(s, 1, n) : n \in 0 .. Len(s) - 1}
  <2>1. PICK n \in 0 .. Len(s) - 1 : t = SubSeq(s, 1, n)
    BY <1>2
  <2>2. 0 \in Nat /\ n \in Nat /\ 0 + n <= Len(s) /\ Slice(s, 0, n) = SubSeq(s, 1, n)
    BY Len(s) \in Nat DEF Slice
  <2> DEFINE o == 0
  <2>3. o \in Nat /\ n \in Nat /\ o + n <= Len(s) /\ Slice(s, o, n) = t
    BY <2>1, <2>2
  <2> HIDE DEF o
  <2> QED
    BY <2>3, SliceUnits
<1>3. CASE t \in {Append(s, u) : u \in Units}
  BY <1>3
<1> QED
  BY <1>1, <1>2, <1>3 DEF Edits
=============================================================================
