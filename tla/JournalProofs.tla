--------------------------- MODULE JournalProofs ---------------------------
(***************************************************************************)
(* A journal can always be loaded back, its numbers are never reused, and  *)
(* it is the bounded log FileSystem takes it for, for every record limit   *)
(* and every image it starts from.  Of its encoding: what is written is    *)
(* read back, nothing is read outside the data, and of other data only     *)
(* what encode() could have written is accepted.                           *)
(***************************************************************************)
EXTENDS JournalCodec, ImageRecordsProofs, FiniteSetTheorems

IInv == TypeOK /\ Reloadable /\ NumbersFresh

\* What the scan has found after n records depends on these n records only.
LEMMA ScanOfPrefix ==
  ASSUME NEW s \in Seq(JournalRecord), NEW r \in JournalRecord,
         NEW n \in 0 .. Len(s), NEW t
  PROVE  /\ OpenAfter(Append(s, r), n, t) <=> OpenAfter(s, n, t)
         /\ IdleAfter(Append(s, r), n) <=> IdleAfter(s, n)
         /\ ScanAfter(Append(s, r), n, t) <=> ScanAfter(s, n, t)
<1> DEFINE a == Append(s, r)
<1>1. Len(s) \in Nat /\ \A i \in 1 .. n : a[i] = s[i]
  OBVIOUS
<1>2. \A b \in 1 .. n : b + 1 .. n \subseteq 1 .. n
  OBVIOUS
<1> HIDE DEF a
<1>3. OpenAfter(a, n, t) <=> OpenAfter(s, n, t)
  BY <1>1, <1>2 DEF OpenAfter
<1>4. IdleAfter(a, n) <=> IdleAfter(s, n)
  BY <1>1, <1>2 DEF IdleAfter
<1> QED BY <1>3, <1>4 DEF ScanAfter, a

\* A sequence is accepted when its prefix is and the new record fits.
LEMMA AcceptsAppend ==
  ASSUME NEW s \in Seq(JournalRecord), NEW r \in JournalRecord,
         Accepts(s), Len(s) < MaxRecords,
         RecordFits(Append(s, r), Len(s) + 1)
  PROVE  Accepts(Append(s, r))
<1> DEFINE a == Append(s, r)
<1>1. /\ Len(s) \in Nat /\ Len(a) = Len(s) + 1
      /\ \A i \in 1 .. Len(s) : a[i] = s[i]
  OBVIOUS
<1>2. ASSUME NEW i \in 1 .. Len(s) PROVE RecordFits(a, i)
  <2>1. RecordFits(s, i)
    BY DEF Accepts
  <2>2. i - 1 \in 0 .. Len(s)
    BY <1>1
  <2>3. /\ IdleAfter(a, i - 1) <=> IdleAfter(s, i - 1)
        /\ \A t : /\ OpenAfter(a, i - 1, t) <=> OpenAfter(s, i - 1, t)
                  /\ ScanAfter(a, i - 1, t) <=> ScanAfter(s, i - 1, t)
    BY <2>2, ScanOfPrefix
  <2>4. a[i] = s[i] /\ \A j \in 1 .. i - 1 : a[j] = s[j]
    BY <1>1
  <2> HIDE DEF a
  <2> QED BY <2>1, <2>3, <2>4 DEF RecordFits
<1>3. \A i \in 1 .. Len(a) : RecordFits(a, i)
  BY <1>1, <1>2
<1>4. Len(a) <= MaxRecords
  BY <1>1, JournalAssumption
<1> QED BY <1>3, <1>4 DEF Accepts

\* The scan after one record more.
LEMMA ScanAppend ==
  ASSUME NEW s \in Seq(JournalRecord), NEW r \in JournalRecord
  PROVE  LET a == Append(s, r) n == Len(s) + 1 IN
         /\ IsBegin(r) => OpenAfter(a, n, r.transaction)
         /\ IsCompletion(r) => IdleAfter(a, n)
         /\ ~IsBegin(r) /\ ~IsCompletion(r) =>
              /\ IdleAfter(s, Len(s)) => IdleAfter(a, n)
              /\ \A t : OpenAfter(s, Len(s), t) => OpenAfter(a, n, t)
<1> DEFINE a == Append(s, r)
           n == Len(s) + 1
<1>1. /\ Len(s) \in Nat /\ a[n] = r /\ n \in 1 .. n /\ n + 1 .. n = {}
      /\ \A i \in 1 .. Len(s) : a[i] = s[i] /\ i \in 1 .. n /\ n \in i + 1 .. n
      /\ \A i \in 1 .. n : i \in 1 .. Len(s) \/ i = n
      /\ \A i \in 1 .. Len(s) : \A c \in i + 1 .. Len(s) :
           c \in 1 .. Len(s) /\ c \in i + 1 .. n
      /\ \A i \in 1 .. Len(s) : \A c \in i + 1 .. n :
           c \in i + 1 .. Len(s) \/ c = n
  OBVIOUS
<1> HIDE DEF a, n
<1>2. IsBegin(r) => OpenAfter(a, n, r.transaction)
  BY <1>1 DEF OpenAfter
<1>3. IsCompletion(r) => IdleAfter(a, n)
  BY <1>1 DEF IdleAfter, IsCompletion, IsBegin
<1>4. ASSUME ~IsBegin(r), IdleAfter(s, Len(s)) PROVE IdleAfter(a, n)
  BY <1>1, <1>4 DEF IdleAfter
<1>5. ASSUME ~IsBegin(r), ~IsCompletion(r), NEW t, OpenAfter(s, Len(s), t)
      PROVE  OpenAfter(a, n, t)
  BY <1>1, <1>5 DEF OpenAfter
<1> QED BY <1>2, <1>3, <1>4, <1>5 DEF a, n
\* The elements of a record sequence have numbers.
LEMMA ElementType ==
  ASSUME NEW s \in Seq(JournalRecord), NEW i \in 1 .. Len(s)
  PROVE  s[i].sequence \in Nat /\ s[i].transaction \in Nat
<1>1. s[i] \in JournalRecord
  OBVIOUS
<1> QED BY <1>1 DEF JournalRecord

\* The counters load() recovers are ahead of the records it accepted.
LEMMA LoadedIsFresh ==
  ASSUME NEW s \in Seq(JournalRecord), NEW ns, NEW nt \in Nat, NEW a,
         Accepts(s), LoadedFrom(s, ns, nt, a)
  PROVE  /\ \A i \in 1 .. Len(s) : s[i].sequence < ns /\ s[i].transaction < nt
         /\ a \in Nat /\ a < nt
<1>1. \A i \in 1 .. Len(s) : s[i].sequence \in Nat /\ s[i].transaction \in Nat
  BY ElementType
<1>2. ASSUME NEW i \in 1 .. Len(s) PROVE s[i].sequence < ns
  <2>1. Len(s) \in Nat /\ Len(s) \in 1 .. Len(s) /\ s # <<>>
    OBVIOUS
  <2>2. ns = s[Len(s)].sequence + 1
    BY <2>1 DEF LoadedFrom
  <2>3. i = Len(s) \/ i \in 1 .. Len(s) - 1
    BY <2>1
  <2>4. i = Len(s) \/ s[i].sequence < s[Len(s)].sequence
    BY <2>1, <2>3 DEF Accepts, RecordFits
  <2> QED BY <1>1, <2>1, <2>2, <2>4
<1>3. \A i \in 1 .. Len(s) : s[i].transaction < nt
  BY DEF LoadedFrom
<1>4. a \in Nat /\ a < nt
  <2>1. CASE a = 0
    BY <2>1 DEF LoadedFrom
  <2>2. CASE a # 0
    <3>1. OpenAfter(s, Len(s), a)
      BY <2>2 DEF LoadedFrom, ScanAfter
    <3>2. PICK b \in 1 .. Len(s) : s[b].transaction = a
      BY <3>1 DEF OpenAfter
    <3> QED BY <3>2, <1>1, <1>3
  <2> QED BY <2>1, <2>2
<1> QED BY <1>2, <1>3, <1>4

-----------------------------------------------------------------------------
LEMMA InitInv == Init => IInv
<1> SUFFICES ASSUME Init PROVE IInv
  OBVIOUS
<1> USE JournalAssumption
<1>1. records \in Seq(JournalRecord)
  <2>1. <<>> \in Seq(JournalRecord)
    OBVIOUS
  <2> QED BY <2>1 DEF Init
<1>2. /\ LoadedFrom(records, next_sequence, next_transaction, active)
      /\ Accepts(records)
      /\ next_sequence \in Numbers /\ next_transaction \in Numbers
      /\ active \in Numbers /\ ok = TRUE
  BY DEF Init
<1>3. TypeOK
  <2>1. next_sequence # 0
    <3>1. CASE records = <<>>
      BY <1>2, <3>1 DEF LoadedFrom
    <3>2. CASE records # <<>>
      <4>1. Len(records) \in 1 .. Len(records)
        BY <1>1, <3>2
      <4> QED BY <1>1, <1>2, <3>2, <4>1, ElementType DEF LoadedFrom
    <3> QED BY <3>1, <3>2
  <2>2. next_transaction # 0
    BY <1>2 DEF LoadedFrom
  <2> QED BY <1>1, <1>2, <2>1, <2>2 DEF TypeOK
<1>4. Reloadable
  BY <1>2 DEF Reloadable, LoadedFrom
<1>5. NumbersFresh
  <2>1. next_transaction \in Nat
    BY <1>2 DEF Numbers
  <2> QED BY <1>1, <1>2, <2>1, LoadedIsFresh DEF NumbersFresh
<1> QED BY <1>3, <1>4, <1>5 DEF IInv

\* Pushing a record the scan agrees with keeps the invariant's parts that
\* speak of the records.
LEMMA PushKeeps ==
  ASSUME IInv, NEW type \in Types, NEW t \in 0 .. next_transaction,
         Push(type, t), ~Full, BelowBound,
         IF type = "begin" THEN active = 0 /\ t = next_transaction /\ active' = t
         ELSE /\ t = active
              /\ type \in {"commit", "rollback"} => t # 0 /\ active' = 0
              /\ type \notin {"commit", "rollback"} => active' = active,
         next_transaction' = IF type = "begin" THEN next_transaction + 1
                             ELSE next_transaction
  PROVE  IInv'
<1> DEFINE r == [type |-> type, sequence |-> next_sequence, transaction |-> t]
<1>t. /\ records \in Seq(JournalRecord) /\ Len(records) \in Nat
      /\ next_sequence \in Numbers \ {0} /\ next_transaction \in Numbers \ {0}
      /\ next_sequence \in Nat /\ next_transaction \in Nat /\ active \in Nat
      /\ active \in Numbers /\ t \in Nat
      /\ \A i \in 1 .. Len(records) : /\ records[i].sequence \in Nat
                                      /\ records[i].transaction \in Nat
  <2>1. records \in Seq(JournalRecord)
    BY DEF IInv, TypeOK
  <2>2. /\ next_sequence \in Numbers \ {0} /\ next_transaction \in Numbers \ {0}
        /\ active \in Numbers
    BY DEF IInv, TypeOK
  <2>3. \A x \in Numbers : x \in Nat
    BY JournalAssumption DEF Numbers
  <2> QED BY <2>1, <2>2, <2>3, ElementType
<1>r. /\ r \in JournalRecord /\ r.type = type /\ r.sequence = next_sequence
      /\ r.transaction = t
  BY <1>t DEF JournalRecord
<1>f. /\ \A i \in 1 .. Len(records) : /\ records[i].sequence < next_sequence
                                      /\ records[i].transaction < next_transaction
      /\ active < next_transaction
  BY DEF IInv, NumbersFresh
<1> HIDE DEF r
<1>1. records' = Append(records, r) /\ next_sequence' = next_sequence + 1
  BY DEF Push, r
<1>2. /\ Len(records') = Len(records) + 1 /\ records'[Len(records) + 1] = r
      /\ \A i \in 1 .. Len(records) : records'[i] = records[i]
      /\ \A i \in 1 .. Len(records') : i \in 1 .. Len(records) \/ i = Len(records) + 1
  BY <1>1, <1>t, <1>r
<1>3. TypeOK'
  <2>1. records' \in Seq(JournalRecord)
    BY <1>1, <1>t, <1>r
  <2>2. next_sequence' \in Numbers \ {0}
    BY <1>1, <1>t, JournalAssumption DEF BelowBound, Numbers
  <2>3. next_transaction' \in Numbers \ {0}
    BY <1>t, JournalAssumption DEF BelowBound, Numbers
  <2>4. active' \in Numbers
    BY <1>t, JournalAssumption DEF BelowBound, Numbers
  <2>5. ok' \in BOOLEAN
    BY DEF Push
  <2> QED BY <2>1, <2>2, <2>3, <2>4, <2>5 DEF TypeOK, Numbers
<1>4. NumbersFresh'
  <2>1. \A i \in 1 .. Len(records') : /\ records'[i].sequence < next_sequence'
                                      /\ records'[i].transaction < next_transaction'
    BY <1>1, <1>2, <1>t, <1>r, <1>f
  <2>2. active' < next_transaction'
    BY <1>t, <1>f
  <2> QED BY <2>1, <2>2 DEF NumbersFresh
<1>5. ScanAfter(records, Len(records), active) /\ Accepts(records)
  BY DEF IInv, Reloadable
<1>6. /\ Len(records) \in 0 .. Len(records)
      /\ \A x : /\ OpenAfter(records', Len(records), x) <=> OpenAfter(records, Len(records), x)
                /\ IdleAfter(records', Len(records)) <=> IdleAfter(records, Len(records))
                /\ ScanAfter(records', Len(records), x) <=> ScanAfter(records, Len(records), x)
  <2>1. Len(records) \in 0 .. Len(records)
    BY <1>t
  <2> QED BY <2>1, <1>1, <1>t, <1>r, ScanOfPrefix
<1>7. RecordFits(records', Len(records) + 1)
  <2>1. /\ r.sequence > 0
        /\ \A j \in 1 .. (Len(records) + 1) - 1 : r.sequence > records'[j].sequence
    BY <1>2, <1>t, <1>r, <1>f
  <2>2. (Len(records) + 1) - 1 = Len(records)
    BY <1>t
  <2>3. IsBegin(r) => r.transaction # 0 /\ IdleAfter(records', Len(records))
    BY <1>5, <1>6, <1>r, <1>t DEF IsBegin, ScanAfter
  <2>4. IsCompletion(r) => /\ r.transaction # 0
                           /\ OpenAfter(records', Len(records), r.transaction)
    BY <1>5, <1>6, <1>r, <1>t DEF IsCompletion, ScanAfter
  <2>5. IsMutation(r) => ScanAfter(records', Len(records), r.transaction)
    BY <1>5, <1>6, <1>r, <1>t DEF IsMutation, Control
  <2> QED BY <1>2, <2>1, <2>2, <2>3, <2>4, <2>5 DEF RecordFits
<1>8. Accepts(records')
  <2>1. Len(records) < MaxRecords
    BY <1>t, JournalAssumption DEF Full
  <2> QED BY <1>1, <1>5, <1>7, <1>t, <1>r, <2>1, AcceptsAppend
<1>9. ScanAfter(records', Len(records'), active')
  <2>1. /\ IsBegin(r) => OpenAfter(records', Len(records'), r.transaction)
        /\ IsCompletion(r) => IdleAfter(records', Len(records'))
        /\ ~IsBegin(r) /\ ~IsCompletion(r) =>
             /\ IdleAfter(records, Len(records)) => IdleAfter(records', Len(records'))
             /\ \A x : OpenAfter(records, Len(records), x)
                         => OpenAfter(records', Len(records'), x)
    BY <1>1, <1>2, <1>t, <1>r, ScanAppend
  <2>2. CASE type = "begin"
    BY <2>1, <2>2, <1>r, <1>t DEF ScanAfter, IsBegin
  <2>3. CASE type \in {"commit", "rollback"}
    BY <2>1, <2>3, <1>r, <1>t DEF ScanAfter, IsCompletion
  <2>4. CASE type \notin {"begin", "commit", "rollback"}
    BY <2>1, <2>4, <1>r, <1>t, <1>5 DEF ScanAfter, IsCompletion, IsBegin
  <2> QED BY <2>2, <2>3, <2>4
<1> QED BY <1>3, <1>4, <1>8, <1>9 DEF IInv, Reloadable

LEMMA RefuseKeeps == IInv /\ Refuse => IInv'
BY DEF IInv, Refuse, TypeOK, Reloadable, NumbersFresh, Numbers

LEMMA ReloadKeeps == IInv /\ Reload => IInv'
<1> SUFFICES ASSUME IInv, Reload PROVE IInv'
  OBVIOUS
<1>1. records \in Seq(JournalRecord) /\ Accepts(records)
  BY DEF IInv, TypeOK, Reloadable
<1>2. /\ LoadedFrom(records, next_sequence', next_transaction', active')
      /\ next_sequence' \in Numbers /\ next_transaction' \in Numbers
      /\ active' \in Numbers /\ ok' = TRUE /\ records' = records
  BY <1>1 DEF Reload
<1>3. next_transaction' \in Nat /\ next_sequence' \in Nat
  BY <1>2, JournalAssumption DEF Numbers
<1>4. NumbersFresh'
  <2>1. /\ \A i \in 1 .. Len(records) : /\ records[i].sequence < next_sequence'
                                        /\ records[i].transaction < next_transaction'
        /\ active' \in Nat /\ active' < next_transaction'
    BY <1>1, <1>2, <1>3, LoadedIsFresh
  <2> QED BY <2>1, <1>2 DEF NumbersFresh
<1>5. next_sequence' # 0 /\ next_transaction' # 0
  <2>1. CASE records = <<>>
    BY <1>2, <2>1 DEF LoadedFrom
  <2>2. CASE records # <<>>
    <3>1. Len(records) \in 1 .. Len(records)
      BY <1>1, <2>2
    <3> QED BY <1>1, <1>2, <2>2, <3>1, ElementType DEF LoadedFrom
  <2> QED BY <2>1, <2>2
<1>6. TypeOK'
  BY <1>1, <1>2, <1>5 DEF TypeOK, Numbers
<1>7. Reloadable'
  BY <1>1, <1>2 DEF Reloadable, LoadedFrom
<1> QED BY <1>4, <1>6, <1>7 DEF IInv

LEMMA ClearKeeps == IInv /\ Clear => IInv'
<1> SUFFICES ASSUME IInv, Clear PROVE IInv'
  OBVIOUS
<1>1. /\ next_sequence \in Numbers \ {0} /\ next_transaction \in Numbers \ {0}
      /\ \A x \in Numbers : x \in Nat
      /\ 0 \in Numbers /\ <<>> \in Seq(JournalRecord)
  BY JournalAssumption DEF IInv, TypeOK, Numbers
<1>2. TypeOK'
  BY <1>1 DEF Clear, TypeOK, Numbers
<1>3. NumbersFresh'
  BY <1>1 DEF Clear, NumbersFresh
<1>4. Reloadable'
  BY JournalAssumption DEF Clear, Reloadable, Accepts, ScanAfter, IdleAfter
<1> QED BY <1>2, <1>3, <1>4 DEF IInv

LEMMA Step == IInv /\ [Next]_vars => IInv'
<1> SUFFICES ASSUME IInv, [Next]_vars PROVE IInv'
  OBVIOUS
<1>0. next_transaction \in Nat /\ active \in 0 .. next_transaction
      /\ next_transaction \in 0 .. next_transaction /\ 0 \in 0 .. next_transaction
  BY JournalAssumption DEF IInv, TypeOK, NumbersFresh, Numbers
<1>1. CASE Begin
  <2>1. "begin" \in Types
    BY DEF Types, Control
  <2> QED BY <1>0, <1>1, <2>1, PushKeeps, RefuseKeeps DEF Begin
<1>2. CASE \E type \in Types, oversize \in BOOLEAN : AppendRecord(type, oversize)
  <2>1. PICK type \in Types, oversize \in BOOLEAN : AppendRecord(type, oversize)
    BY <1>2
  <2>2. CASE active = 0 \/ type \in Control \/ Full \/ oversize
    BY <2>1, <2>2, RefuseKeeps DEF AppendRecord
  <2>3. CASE ~(active = 0 \/ type \in Control \/ Full \/ oversize)
    BY <1>0, <2>1, <2>3, PushKeeps DEF AppendRecord, Control
  <2> QED BY <2>2, <2>3
<1>3. ASSUME NEW type \in {"commit", "rollback"}, Complete(type) PROVE IInv'
  <2>1. type \in Types /\ type # "begin"
    BY DEF Types, Control
  <2> QED BY <1>0, <1>3, <2>1, PushKeeps, RefuseKeeps DEF Complete
<1>4. CASE Checkpoint
  <2>1. "checkpoint" \in Types
    BY DEF Types, Control
  <2> QED BY <1>0, <1>4, <2>1, PushKeeps, RefuseKeeps DEF Checkpoint
<1>5. CASE Clear
  BY <1>5, ClearKeeps
<1>6. CASE Reload
  BY <1>6, ReloadKeeps
<1>7. CASE UNCHANGED vars
  BY <1>7 DEF vars, IInv, TypeOK, Reloadable, NumbersFresh
<1> QED BY <1>1, <1>2, <1>3, <1>4, <1>5, <1>6, <1>7 DEF Next, Commit, Rollback

\* IInv is inductive.
LEMMA Invariance == Spec => []IInv
BY InitInv, Step, PTL DEF Spec

\* The journal's state stays well typed.
THEOREM TypeCorrect == Spec => []TypeOK
BY Invariance, PTL DEF IInv

\* load() accepts every journal the operations can build and recovers its
\* active transaction (journal.cc:84-126).
THEOREM AlwaysReloadable == Spec => []Reloadable
BY Invariance, PTL DEF IInv

\* A BEGIN never reuses a transaction number, a record never repeats a
\* sequence number, whatever clear() and load() do to the counters.
THEOREM NumbersNeverReused == Spec => []NumbersFresh
BY Invariance, PTL DEF IInv

-----------------------------------------------------------------------------
(* The refinement of TransactionLog. *)

\* What pushing and refusing are to the log.
LEMMA PushGrows ==
  ASSUME IInv, NEW type, NEW t, Push(type, t)
  PROVE  Len(records)' = Len(records) + 1 /\ ok' = TRUE
BY DEF Push, IInv, TypeOK

LEMMA LogStep ==
  IInv /\ [Next]_vars => [Log!Next]_<<Len(records), active # 0, ok>>
<1> SUFFICES ASSUME IInv, [Next]_vars
             PROVE  Log!Next \/ UNCHANGED <<Len(records), active # 0, ok>>
  OBVIOUS
<1>0. /\ records \in Seq(JournalRecord) /\ Len(records) \in Nat
      /\ next_transaction # 0 /\ MaxRecords \in Nat
  BY JournalAssumption DEF IInv, TypeOK
<1>f. Full <=> ~Log!Room
  BY <1>0 DEF Full, Log!Room
<1>r. ASSUME Refuse PROVE Log!Fail
  BY <1>r DEF Refuse, Log!Fail
<1>1. CASE Begin
  <2>1. CASE active # 0 \/ Full
    BY <1>1, <1>f, <1>r, <2>1 DEF Begin, Log!Begin, Log!Next
  <2>2. CASE ~(active # 0 \/ Full)
    <3>1. Log!Grow(TRUE)
      BY <1>0, <1>1, <2>2, PushGrows DEF Begin, Log!Grow
    <3> QED BY <1>f, <2>2, <3>1 DEF Log!Begin, Log!Next
  <2> QED BY <2>1, <2>2
<1>2. CASE \E type \in Types, oversize \in BOOLEAN : AppendRecord(type, oversize)
  <2>1. PICK type \in Types, oversize \in BOOLEAN : AppendRecord(type, oversize)
    BY <1>2
  <2>2. CASE active = 0 \/ type \in Control \/ Full \/ oversize
    BY <1>r, <2>1, <2>2 DEF AppendRecord, Log!Mutate, Log!Next
  <2>3. CASE ~(active = 0 \/ type \in Control \/ Full \/ oversize)
    <3>1. Log!Grow(TRUE)
      BY <2>1, <2>3, PushGrows DEF AppendRecord, Log!Grow
    <3> QED BY <1>f, <2>3, <3>1 DEF Log!Mutate, Log!Next
  <2> QED BY <2>2, <2>3
<1>3. ASSUME NEW type, Complete(type) PROVE Log!Next
  <2>1. CASE active = 0 \/ Full
    BY <1>3, <1>f, <1>r, <2>1 DEF Complete, Log!Finish, Log!Next
  <2>2. CASE ~(active = 0 \/ Full)
    <3>1. Log!Grow(FALSE)
      BY <1>3, <2>2, PushGrows DEF Complete, Log!Grow
    <3> QED BY <1>f, <2>2, <3>1 DEF Log!Finish, Log!Next
  <2> QED BY <2>1, <2>2
<1>4. CASE Checkpoint
  <2>1. CASE active # 0 \/ Full
    BY <1>4, <1>f, <1>r, <2>1 DEF Checkpoint, Log!Checkpoint, Log!Next
  <2>2. CASE ~(active # 0 \/ Full)
    <3>1. Log!Grow(FALSE)
      BY <1>4, <2>2, PushGrows DEF Checkpoint, Log!Grow
    <3> QED BY <1>f, <2>2, <3>1 DEF Log!Checkpoint, Log!Next
  <2> QED BY <2>1, <2>2
<1>5. CASE Clear
  <2>1. Len(records)' = 0
    BY <1>5 DEF Clear
  <2>2. Log!Clear
    BY <1>5, <2>1 DEF Clear, Log!Clear
  <2> QED BY <2>2 DEF Log!Next
<1>6. CASE Reload
  <2>1. Accepts(records) /\ ScanAfter(records, Len(records), active)
    BY DEF IInv, Reloadable
  <2>2. ScanAfter(records, Len(records), active') /\ records' = records /\ ok' = TRUE
    BY <1>6, <2>1 DEF Reload, LoadedFrom
  <2>3. ~(IdleAfter(records, Len(records)) /\ \E t : OpenAfter(records, Len(records), t))
    BY <1>0 DEF IdleAfter, OpenAfter
  <2>4. (active # 0) <=> (active' # 0)
    BY <2>1, <2>2, <2>3 DEF ScanAfter
  <2>5. Log!Reload
    BY <2>2, <2>4 DEF Log!Reload
  <2> QED BY <2>5 DEF Log!Next
<1>7. CASE UNCHANGED vars
  BY <1>7 DEF vars
<1> QED BY <1>1, <1>2, <1>3, <1>4, <1>5, <1>6, <1>7 DEF Next, Commit, Rollback

\* FileSystem may think of the journal as a bounded log with at most one open
\* transaction.
THEOREM ImplementsBoundedLog == Spec => BoundedLog
<1>1. Init => Log!Init
  BY JournalAssumption DEF Init, Accepts, Log!Init
<1> QED BY <1>1, LogStep, Invariance, PTL
        DEF Spec, BoundedLog, Log!Spec, Log!logVars

-----------------------------------------------------------------------------
(* The readers of a journal. *)

Fits(s) == \A i \in 1 .. Len(s) : RecordFits(s, i)

\* The transactions that have an outcome.
Completed(s) == {s[i].transaction : i \in {j \in 1 .. Len(s) : IsCompletion(s[j])}}

ReadersTyped ==
  /\ input \in Seq(JournalRecord)
  /\ scan \in [ok : BOOLEAN, previous : Nat, open : Nat, maximum : Nat]
  /\ audit \in [previous : Nat, open : SUBSET Nat, errors : Nat]
  /\ python \in [previous : Nat, active : SUBSET Nat, complete : SUBSET Nat,
                 warned : BOOLEAN]
  /\ java \in [active : Nat, complete : SUBSET Nat, warned : BOOLEAN]

\* The locals of load(), in terms of the records.
ScanFound ==
  /\ scan.previous = IF input = <<>> THEN 0 ELSE input[Len(input)].sequence
  /\ ScanAfter(input, Len(input), scan.open)
  /\ \A i \in 1 .. Len(input) : input[i].transaction <= scan.maximum
  /\ scan.maximum = 0 \/ \E i \in 1 .. Len(input) : input[i].transaction = scan.maximum

AuditFound ==
  /\ audit.previous = scan.previous
  /\ audit.open = IF scan.open = 0 THEN {} ELSE {scan.open}
  /\ audit.errors = Cardinality(Unowned(input))

JavaFound ==
  /\ java.active = scan.open
  /\ java.complete = Completed(input)
  /\ java.warned <=> Interrupted(input) \/ Reused(input)

PythonFound ==
  /\ python.previous = scan.previous
  /\ python.active = audit.open
  /\ python.complete = Completed(input)
  /\ python.warned <=> \/ Interrupted(input) \/ Reused(input)
                       \/ Numbered(input) \/ Unowned(input) # {}

\* As long as load() has not refused a record, each reader knows what it has to
\* know about the records so far.
ReadersInv ==
  /\ ReadersTyped
  /\ scan.ok <=> Fits(input)
  /\ scan.ok => ScanFound /\ AuditFound /\ JavaFound /\ PythonFound

\* The scan finds one transaction, or none.
LEMMA ScanUnique ==
  ASSUME NEW s \in Seq(JournalRecord), NEW t, NEW u,
         ScanAfter(s, Len(s), t), ScanAfter(s, Len(s), u)
  PROVE  t = u
<1> DEFINE n == Len(s)
<1>1. n \in Nat
  OBVIOUS
<1> HIDE DEF n
<1>2. \A x : ~(IdleAfter(s, n) /\ OpenAfter(s, n, x))
  BY <1>1 DEF IdleAfter, OpenAfter
<1>3. ASSUME OpenAfter(s, n, t), OpenAfter(s, n, u) PROVE t = u
  <2>1. PICK b \in 1 .. n : /\ IsBegin(s[b]) /\ s[b].transaction = t
                            /\ \A c \in b + 1 .. n : ~IsBegin(s[c]) /\ ~IsCompletion(s[c])
    BY <1>3 DEF OpenAfter
  <2>2. PICK d \in 1 .. n : /\ IsBegin(s[d]) /\ s[d].transaction = u
                            /\ \A c \in d + 1 .. n : ~IsBegin(s[c]) /\ ~IsCompletion(s[c])
    BY <1>3 DEF OpenAfter
  <2>3. b = d
    <3>1. d \notin b + 1 .. n /\ b \notin d + 1 .. n
      BY <2>1, <2>2
    <3> QED BY <1>1, <3>1
  <2> QED BY <2>1, <2>2, <2>3
<1> QED BY <1>2, <1>3 DEF ScanAfter, n

\* Whether a record fits does not depend on those that follow.
LEMMA FitsPrefix ==
  ASSUME NEW s \in Seq(JournalRecord), NEW r \in JournalRecord
  PROVE  Fits(Append(s, r)) <=> Fits(s) /\ RecordFits(Append(s, r), Len(s) + 1)
<1> DEFINE a == Append(s, r)
<1>1. /\ Len(s) \in Nat /\ Len(a) = Len(s) + 1
      /\ \A i \in 1 .. Len(s) : a[i] = s[i]
  OBVIOUS
<1>2. ASSUME NEW i \in 1 .. Len(s) PROVE RecordFits(a, i) <=> RecordFits(s, i)
  <2>1. i - 1 \in 0 .. Len(s)
    BY <1>1
  <2>2. /\ IdleAfter(a, i - 1) <=> IdleAfter(s, i - 1)
        /\ \A t : /\ OpenAfter(a, i - 1, t) <=> OpenAfter(s, i - 1, t)
                  /\ ScanAfter(a, i - 1, t) <=> ScanAfter(s, i - 1, t)
    BY <2>1, ScanOfPrefix
  <2>3. a[i] = s[i] /\ \A j \in 1 .. i - 1 : a[j] = s[j]
    BY <1>1
  <2> HIDE DEF a
  <2> QED BY <2>2, <2>3 DEF RecordFits
<1> HIDE DEF a
<1>3. \A i : i \in 1 .. Len(a) <=> i \in 1 .. Len(s) \/ i = Len(s) + 1
  BY <1>1
<1>4. Fits(a) <=> Fits(s) /\ RecordFits(a, Len(s) + 1)
  BY <1>2, <1>3 DEF Fits
<1> QED BY <1>4 DEF a

\* What is said of a record sequence, when there is one record more.
LEMMA OneMore ==
  ASSUME NEW s \in Seq(JournalRecord), NEW r \in JournalRecord
  PROVE  LET a == Append(s, r) n == Len(s) + 1 IN
         /\ Interrupted(a) <=> Interrupted(s) \/ (IsCheckpoint(r) /\ ~IdleAfter(s, Len(s)))
         /\ Reused(a) <=> \/ Reused(s)
                          \/ IsCompletion(r) /\ r.transaction \in Completed(s)
         /\ Numbered(a) <=> Numbered(s) \/ (IsCheckpoint(r) /\ r.transaction # 0)
         /\ Unowned(a) = Unowned(s) \cup (IF IsMutation(r) /\ r.transaction = 0
                                          THEN {n} ELSE {})
         /\ Completed(a) = Completed(s) \cup (IF IsCompletion(r)
                                              THEN {r.transaction} ELSE {})
<1> DEFINE a == Append(s, r)
           n == Len(s) + 1
<1>1. /\ Len(s) \in Nat /\ Len(a) = n /\ a[n] = r /\ n - 1 = Len(s)
      /\ \A i \in 1 .. Len(s) : a[i] = s[i] /\ i \in 1 .. n /\ i < n
      /\ \A i : i \in 1 .. n <=> i \in 1 .. Len(s) \/ i = n
      /\ n \notin 1 .. Len(s)
      /\ \A i, j \in 1 .. n : i < j => i \in 1 .. Len(s)
  OBVIOUS
<1>2. \A i \in 1 .. n : IdleAfter(a, i - 1) <=> IdleAfter(s, i - 1)
  <2>1. \A i \in 1 .. n : i - 1 \in 0 .. Len(s)
    BY <1>1
  <2> QED BY <2>1, ScanOfPrefix
<1> HIDE DEF a, n
<1>3. Interrupted(a) <=> Interrupted(s) \/ (IsCheckpoint(r) /\ ~IdleAfter(s, Len(s)))
  BY <1>1, <1>2 DEF Interrupted
<1>4. Reused(a) <=> Reused(s) \/ (IsCompletion(r) /\ r.transaction \in Completed(s))
  BY <1>1 DEF Reused, Completed
<1>5. Numbered(a) <=> Numbered(s) \/ (IsCheckpoint(r) /\ r.transaction # 0)
  BY <1>1 DEF Numbered
<1>6. Unowned(a) = Unowned(s) \cup (IF IsMutation(r) /\ r.transaction = 0
                                    THEN {n} ELSE {})
  BY <1>1 DEF Unowned
<1>7. Completed(a) = Completed(s) \cup (IF IsCompletion(r) THEN {r.transaction} ELSE {})
  BY <1>1 DEF Completed
<1> QED BY <1>3, <1>4, <1>5, <1>6, <1>7 DEF a, n

LEMMA ReadersStart == ReadersInit => ReadersInv
<1> SUFFICES ASSUME ReadersInit PROVE ReadersInv
  OBVIOUS
<1>1. /\ input = <<>> /\ Len(input) = 0 /\ 1 .. Len(input) = {}
      /\ input \in Seq(JournalRecord)
  BY DEF ReadersInit
<1>2. ReadersTyped
  BY <1>1 DEF ReadersInit, ReadersTyped, ScanStart, AuditStart, PythonStart, JavaStart
<1>3. scan.ok /\ Fits(input)
  BY <1>1 DEF ReadersInit, ScanStart, Fits
<1>4. ScanFound
  BY <1>1 DEF ReadersInit, ScanStart, ScanFound, ScanAfter, IdleAfter
<1>5. /\ Unowned(input) = {} /\ Completed(input) = {}
      /\ ~Interrupted(input) /\ ~Reused(input) /\ ~Numbered(input)
  BY <1>1 DEF Unowned, Completed, Interrupted, Reused, Numbered
<1>6. AuditFound
  BY <1>5, FS_EmptySet DEF ReadersInit, AuditStart, ScanStart, AuditFound
<1>7. JavaFound
  BY <1>5 DEF ReadersInit, JavaStart, ScanStart, JavaFound
<1>8. PythonFound
  BY <1>5 DEF ReadersInit, PythonStart, AuditStart, ScanStart, PythonFound
<1> QED BY <1>2, <1>3, <1>4, <1>6, <1>7, <1>8 DEF ReadersInv

\* The readers stay well typed.
LEMMA ReadersTypedStep ==
  ASSUME ReadersTyped, NEW r \in JournalRecord, input' = Append(input, r),
         ScanRecord(r), AuditRecord(r), PythonRecord(r), JavaRecord(r)
  PROVE  ReadersTyped'
<1>1. r.sequence \in Nat /\ r.transaction \in Nat
  BY DEF JournalRecord
<1>2. input' \in Seq(JournalRecord)
  BY DEF ReadersTyped
<1>3. /\ scan \in [ok : BOOLEAN, previous : Nat, open : Nat, maximum : Nat]
      /\ audit \in [previous : Nat, open : SUBSET Nat, errors : Nat]
      /\ python \in [previous : Nat, active : SUBSET Nat, complete : SUBSET Nat,
                     warned : BOOLEAN]
      /\ java \in [active : Nat, complete : SUBSET Nat, warned : BOOLEAN]
  BY DEF ReadersTyped
<1>4. scan' \in [ok : BOOLEAN, previous : Nat, open : Nat, maximum : Nat]
  BY <1>1, <1>3 DEF ScanRecord
<1>5. audit' \in [previous : Nat, open : SUBSET Nat, errors : Nat]
  <2>1. Wrong(r) \in Nat
    BY DEF Wrong
  <2> QED BY SMTT(60), <1>1, <1>3, <2>1 DEF AuditRecord
<1>6. python' \in [previous : Nat, active : SUBSET Nat, complete : SUBSET Nat,
                   warned : BOOLEAN]
  <2>1. PythonWarns(r) \in BOOLEAN
    BY DEF PythonWarns
  <2> QED BY <1>1, <1>3, <2>1 DEF PythonRecord
<1>7. java' \in [active : Nat, complete : SUBSET Nat, warned : BOOLEAN]
  <2>1. JavaWarns(r) \in BOOLEAN
    BY DEF JavaWarns
  <2> QED BY <1>1, <1>3, <2>1 DEF JavaRecord
<1> QED BY <1>2, <1>4, <1>5, <1>6, <1>7 DEF ReadersTyped

\* load() goes on exactly with the records that fit.
LEMMA ContinuesWithFitting ==
  ASSUME ReadersTyped, Fits(input), ScanFound, NEW r \in JournalRecord
  PROVE  Continues(r) <=> RecordFits(Append(input, r), Len(input) + 1)
<1> DEFINE a == Append(input, r)
           n == Len(input) + 1
<1>1. /\ input \in Seq(JournalRecord) /\ Len(input) \in Nat
      /\ a[n] = r /\ n - 1 = Len(input) /\ Len(input) \in 0 .. Len(input)
      /\ \A i \in 1 .. Len(input) : a[i] = input[i]
      /\ scan.previous \in Nat /\ scan.open \in Nat
      /\ r.sequence \in Nat /\ r.transaction \in Nat
  BY DEF ReadersTyped, JournalRecord
<1>2. /\ IdleAfter(a, n - 1) <=> IdleAfter(input, Len(input))
      /\ \A t : /\ OpenAfter(a, n - 1, t) <=> OpenAfter(input, Len(input), t)
                /\ ScanAfter(a, n - 1, t) <=> ScanAfter(input, Len(input), t)
  BY <1>1, ScanOfPrefix
<1> HIDE DEF a, n
<1>3. \A t : ScanAfter(input, Len(input), t) <=> t = scan.open
  <2>1. ScanAfter(input, Len(input), scan.open)
    BY DEF ScanFound
  <2> QED BY <1>1, <2>1, ScanUnique
<1>4. /\ IdleAfter(a, n - 1) <=> scan.open = 0
      /\ \A t : t # 0 => (OpenAfter(a, n - 1, t) <=> t = scan.open)
      /\ \A t : ScanAfter(a, n - 1, t) <=> t = scan.open
  BY <1>2, <1>3 DEF ScanAfter
<1>5. r.sequence > scan.previous
        <=> r.sequence > 0 /\ \A j \in 1 .. n - 1 : r.sequence > a[j].sequence
  <2>1. CASE input = <<>>
    BY <1>1, <2>1 DEF ScanFound
  <2>2. CASE input # <<>>
    <3>1. /\ Len(input) \in 1 .. Len(input)
          /\ \A j \in 1 .. Len(input) : j = Len(input) \/ j \in 1 .. Len(input) - 1
      BY <1>1, <2>2
    <3>2. /\ scan.previous = input[Len(input)].sequence /\ scan.previous > 0
          /\ \A j \in 1 .. Len(input) - 1 : scan.previous > input[j].sequence
      BY <2>2, <3>1 DEF ScanFound, Fits, RecordFits
    <3>3. \A j \in 1 .. Len(input) : input[j].sequence \in Nat
      BY <1>1, ElementType
    <3>4. \A j \in 1 .. n - 1 : a[j] = input[j] /\ j \in 1 .. Len(input)
      BY <1>1
    <3>5. Len(input) \in 1 .. n - 1
      BY <1>1, <3>1
    <3> QED BY <1>1, <3>1, <3>2, <3>3, <3>4, <3>5
  <2> QED BY <2>1, <2>2
<1>6. Continues(r) <=> RecordFits(a, n)
  BY <1>1, <1>4, <1>5 DEF Continues, RecordFits
<1> QED BY <1>6 DEF a, n

\* A record is of one kind.
LEMMA OneKind ==
  ASSUME NEW r \in JournalRecord
  PROVE  /\ IsBegin(r) \/ IsCompletion(r) \/ IsMutation(r) \/ IsCheckpoint(r)
         /\ IsBegin(r) => ~IsCompletion(r) /\ ~IsMutation(r) /\ ~IsCheckpoint(r)
         /\ IsCompletion(r) => ~IsMutation(r) /\ ~IsCheckpoint(r)
         /\ IsMutation(r) => ~IsCheckpoint(r)
BY DEF JournalRecord, Types, Control, IsBegin, IsCompletion, IsMutation, IsCheckpoint

\* What the four readers know after a record that fits.
LEMMA FoundStep ==
  ASSUME ReadersTyped, ScanFound, AuditFound, JavaFound, PythonFound,
         NEW r \in JournalRecord, input' = Append(input, r), Continues(r),
         ScanRecord(r), AuditRecord(r), PythonRecord(r), JavaRecord(r)
  PROVE  ScanFound' /\ AuditFound' /\ JavaFound' /\ PythonFound'
<1> DEFINE n == Len(input) + 1
<1>1. /\ input \in Seq(JournalRecord) /\ Len(input) \in Nat
      /\ input' # <<>> /\ Len(input') = n /\ input'[n] = r
      /\ \A i \in 1 .. Len(input) : input'[i] = input[i]
      /\ \A i : i \in 1 .. n <=> i \in 1 .. Len(input) \/ i = n
      /\ n \notin 1 .. Len(input)
  BY DEF ReadersTyped
<1>2. /\ r.sequence \in Nat /\ r.transaction \in Nat
      /\ scan.previous \in Nat /\ scan.open \in Nat /\ scan.maximum \in Nat
      /\ \A i \in 1 .. Len(input) : input[i].transaction \in Nat
  BY <1>1, ElementType DEF ReadersTyped, JournalRecord
<1>3. /\ Interrupted(input') <=> \/ Interrupted(input)
                                 \/ IsCheckpoint(r) /\ ~IdleAfter(input, Len(input))
      /\ Reused(input') <=> \/ Reused(input)
                            \/ IsCompletion(r) /\ r.transaction \in Completed(input)
      /\ Numbered(input') <=> \/ Numbered(input)
                              \/ IsCheckpoint(r) /\ r.transaction # 0
      /\ Unowned(input') = Unowned(input) \cup (IF IsMutation(r) /\ r.transaction = 0
                                                THEN {n} ELSE {})
      /\ Completed(input') = Completed(input) \cup (IF IsCompletion(r)
                                                    THEN {r.transaction} ELSE {})
  BY <1>1, OneMore
<1>4. IdleAfter(input, Len(input)) <=> scan.open = 0
  <2>1. ScanAfter(input, Len(input), scan.open)
    BY DEF ScanFound
  <2>2. ScanAfter(input, Len(input), 0) => scan.open = 0
    BY <1>1, <2>1, ScanUnique
  <2> QED BY <2>1, <2>2 DEF ScanAfter
<1>5. /\ r.sequence > scan.previous
      /\ IsBegin(r) => scan.open = 0 /\ r.transaction # 0
      /\ IsCompletion(r) => scan.open # 0 /\ r.transaction = scan.open
      /\ IsMutation(r) => r.transaction = scan.open
  BY DEF Continues
<1>6. /\ scan'.previous = r.sequence
      /\ scan'.open = IF IsBegin(r) THEN r.transaction
                      ELSE IF IsCompletion(r) THEN 0 ELSE scan.open
      /\ scan'.maximum = IF r.transaction > scan.maximum THEN r.transaction
                         ELSE scan.maximum
  BY DEF ScanRecord
<1>k. /\ IsBegin(r) \/ IsCompletion(r) \/ IsMutation(r) \/ IsCheckpoint(r)
      /\ IsBegin(r) => ~IsCompletion(r) /\ ~IsMutation(r) /\ ~IsCheckpoint(r)
      /\ IsCompletion(r) => ~IsMutation(r) /\ ~IsCheckpoint(r)
      /\ IsMutation(r) => ~IsCheckpoint(r)
  BY OneKind
<1> HIDE DEF n
<1>7. ScanFound'
  <2>1. scan'.previous = IF input' = <<>> THEN 0 ELSE input'[Len(input')].sequence
    BY <1>1, <1>6
  <2>2. ScanAfter(input', Len(input'), scan'.open)
    <3>1. /\ IsBegin(r) => OpenAfter(input', n, r.transaction)
          /\ IsCompletion(r) => IdleAfter(input', n)
          /\ ~IsBegin(r) /\ ~IsCompletion(r) =>
               /\ IdleAfter(input, Len(input)) => IdleAfter(input', n)
               /\ \A t : OpenAfter(input, Len(input), t) => OpenAfter(input', n, t)
      BY <1>1, ScanAppend DEF n
    <3>2. ScanAfter(input, Len(input), scan.open)
      BY DEF ScanFound
    <3> QED BY <1>1, <1>5, <1>6, <1>k, <3>1, <3>2 DEF ScanAfter
  <2>3. \A i \in 1 .. Len(input') : input'[i].transaction <= scan'.maximum
    BY <1>1, <1>2, <1>6 DEF ScanFound
  <2>4. scan'.maximum = 0
          \/ \E i \in 1 .. Len(input') : input'[i].transaction = scan'.maximum
    <3>1. CASE r.transaction > scan.maximum
      BY <1>1, <1>6, <3>1
    <3>2. CASE ~(r.transaction > scan.maximum)
      BY <1>1, <1>6, <3>2 DEF ScanFound
    <3> QED BY <3>1, <3>2
  <2> QED BY <2>1, <2>2, <2>3, <2>4 DEF ScanFound
<1>8. AuditFound'
  <2>1. audit.previous = scan.previous /\ audit.open = IF scan.open = 0 THEN {} ELSE {scan.open}
    BY DEF AuditFound
  <2>2. audit'.open = IF scan'.open = 0 THEN {} ELSE {scan'.open}
    BY <1>5, <1>6, <1>k, <2>1 DEF AuditRecord
  <2>3. Wrong(r) = IF IsMutation(r) /\ r.transaction = 0 THEN 1 ELSE 0
    BY <1>2, <1>5, <1>k, <2>1 DEF Wrong
  <2>4. audit'.errors = Cardinality(Unowned(input'))
    <3>1. IsFiniteSet(1 .. Len(input))
      BY <1>1, FS_Interval
    <3>2. IsFiniteSet(Unowned(input)) /\ n \notin Unowned(input)
      BY <1>1, <3>1, FS_Subset DEF Unowned
    <3>3. Cardinality(Unowned(input) \cup {n}) = Cardinality(Unowned(input)) + 1
      BY <3>2, FS_AddElement
    <3>4. Cardinality(Unowned(input)) \in Nat
      BY <3>2, FS_CardinalityType
    <3>5. audit'.errors = Cardinality(Unowned(input)) + Wrong(r)
      BY DEF AuditRecord, AuditFound
    <3>6. CASE IsMutation(r) /\ r.transaction = 0
      BY <1>3, <2>3, <3>3, <3>5, <3>6
    <3>7. CASE ~(IsMutation(r) /\ r.transaction = 0)
      <4>1. Unowned(input') = Unowned(input)
        BY <1>3, <3>7
      <4> QED BY <2>3, <3>4, <3>5, <3>7, <4>1
    <3> QED BY <3>6, <3>7
  <2>5. audit'.previous = scan'.previous
    BY <1>6 DEF AuditRecord
  <2> QED BY <2>2, <2>4, <2>5 DEF AuditFound
<1>9. JavaFound'
  <2>1. /\ java.active = scan.open /\ java.complete = Completed(input)
        /\ java.warned <=> Interrupted(input) \/ Reused(input)
    BY DEF JavaFound
  <2>2. JavaWarns(r) <=> \/ IsCheckpoint(r) /\ ~IdleAfter(input, Len(input))
                         \/ IsCompletion(r) /\ r.transaction \in Completed(input)
    BY <1>4, <1>5, <1>k, <2>1 DEF JavaWarns
  <2>3. java'.warned <=> java.warned \/ JavaWarns(r)
    BY DEF JavaRecord
  <2>4. java'.warned <=> Interrupted(input') \/ Reused(input')
    BY <1>3, <2>1, <2>2, <2>3
  <2>5. java'.active = scan'.open /\ java'.complete = Completed(input')
    BY <1>3, <1>6, <2>1 DEF JavaRecord
  <2> QED BY <2>4, <2>5 DEF JavaFound
<1>10. PythonFound'
  <2>1. /\ python.previous = scan.previous /\ python.active = audit.open
        /\ python.complete = Completed(input)
        /\ python.warned <=> \/ Interrupted(input) \/ Reused(input)
                             \/ Numbered(input) \/ Unowned(input) # {}
    BY DEF PythonFound
  <2>2. audit.open = IF scan.open = 0 THEN {} ELSE {scan.open}
    BY DEF AuditFound
  <2>3. PythonWarns(r) <=> \/ IsCheckpoint(r) /\ ~IdleAfter(input, Len(input))
                           \/ IsCompletion(r) /\ r.transaction \in Completed(input)
                           \/ IsCheckpoint(r) /\ r.transaction # 0
                           \/ IsMutation(r) /\ r.transaction = 0
    BY <1>2, <1>4, <1>5, <1>k, <2>1, <2>2 DEF PythonWarns
  <2>4. python'.warned <=> python.warned \/ PythonWarns(r)
    BY DEF PythonRecord
  <2>5. Unowned(input') # {} <=> \/ Unowned(input) # {}
                                 \/ IsMutation(r) /\ r.transaction = 0
    BY <1>3
  <2>6. python'.warned <=> \/ Interrupted(input') \/ Reused(input')
                           \/ Numbered(input') \/ Unowned(input') # {}
    BY <1>3, <2>1, <2>3, <2>4, <2>5
  <2>7. /\ python'.previous = scan'.previous /\ python'.active = audit'.open
        /\ python'.complete = Completed(input')
    BY <1>3, <1>6, <2>1 DEF PythonRecord, AuditRecord
  <2> QED BY <2>6, <2>7 DEF PythonFound
<1> QED BY <1>7, <1>8, <1>9, <1>10

LEMMA ReadersStep == ReadersInv /\ [ReadOne]_readers => ReadersInv'
<1> SUFFICES ASSUME ReadersInv, [ReadOne]_readers PROVE ReadersInv'
  OBVIOUS
<1>1. CASE ReadOne
  <2>1. PICK r \in Alphabet :
          /\ input' = Append(input, r)
          /\ ScanRecord(r) /\ AuditRecord(r) /\ PythonRecord(r) /\ JavaRecord(r)
    BY <1>1 DEF ReadOne
  <2>2. /\ r \in JournalRecord /\ scan.ok /\ ReadersTyped
        /\ Fits(input) /\ ScanFound /\ AuditFound /\ JavaFound /\ PythonFound
    BY <1>1, ScanAssumption DEF ReadOne, ReadersInv
  <2>3. ReadersTyped'
    BY <2>1, <2>2, ReadersTypedStep
  <2>4. Fits(input') <=> Continues(r)
    <3>1. input \in Seq(JournalRecord)
      BY <2>2 DEF ReadersTyped
    <3> QED BY <2>1, <2>2, <3>1, FitsPrefix, ContinuesWithFitting
  <2>5. scan'.ok <=> Continues(r)
    BY <2>1, <2>2 DEF ScanRecord, ReadersTyped
  <2>6. Continues(r) => ScanFound' /\ AuditFound' /\ JavaFound' /\ PythonFound'
    BY <2>1, <2>2, FoundStep
  <2>7. (Fits(input))' <=> Fits(input')
    OBVIOUS
  <2> QED BY <2>3, <2>4, <2>5, <2>6, <2>7 DEF ReadersInv
<1>2. CASE UNCHANGED readers
  <2>1. /\ input' = input /\ scan' = scan /\ audit' = audit
        /\ python' = python /\ java' = java
    BY <1>2 DEF readers
  <2> QED BY <2>1 DEF ReadersInv, ReadersTyped, ScanFound, AuditFound, JavaFound, PythonFound
<1> QED BY <1>1, <1>2

\* What the readers know makes them agree.
LEMMA ReadersInvImplies == ReadersInv => ReadersAgree
<1> SUFFICES ASSUME ReadersInv PROVE ReadersAgree
  OBVIOUS
<1>1. /\ input \in Seq(JournalRecord) /\ Len(input) \in Nat
      /\ scan.maximum \in Nat /\ scan.open \in Nat
      /\ \A i \in 1 .. Len(input) : input[i].transaction \in Nat
  BY ElementType DEF ReadersInv, ReadersTyped
<1>2. Loaded <=> Accepts(input)
  BY DEF ReadersInv, Loaded, Accepts, Fits
<1>3. ASSUME Loaded
      PROVE  LoadedFrom(input, scan.previous + 1, scan.maximum + 1, scan.open)
  <2>1. ScanFound
    BY <1>3 DEF Loaded, ReadersInv
  <2>2. scan.previous + 1 = IF input = <<>> THEN 1 ELSE input[Len(input)].sequence + 1
    BY <2>1 DEF ScanFound
  <2>3. \A i \in 1 .. Len(input) : input[i].transaction < scan.maximum + 1
    BY <1>1, <2>1 DEF ScanFound
  <2>4. scan.maximum + 1 = 1
          \/ \E i \in 1 .. Len(input) : input[i].transaction + 1 = scan.maximum + 1
    BY <1>1, <2>1 DEF ScanFound
  <2>5. ScanAfter(input, Len(input), scan.open) /\ scan.maximum + 1 > 0
    BY <1>1, <2>1 DEF ScanFound
  <2> QED BY <2>2, <2>3, <2>4, <2>5 DEF LoadedFrom
<1>4. AuditFollowsLoad
  BY DEF AuditFollowsLoad, Loaded, ReadersInv, AuditFound
<1>5. ASSUME Loaded
      PROVE  /\ JavaReports <=> Suspect(input)
             /\ PythonReports <=> \/ Suspect(input) \/ Numbered(input)
                                  \/ Unowned(input) # {}
  <2>1. ScanFound /\ AuditFound /\ JavaFound /\ PythonFound
    BY <1>5 DEF Loaded, ReadersInv
  <2>2. IdleAfter(input, Len(input)) <=> scan.open = 0
    <3>1. ScanAfter(input, Len(input), scan.open)
      BY <2>1 DEF ScanFound
    <3>2. ScanAfter(input, Len(input), 0) => scan.open = 0
      BY <1>1, <3>1, ScanUnique
    <3> QED BY <3>1, <3>2 DEF ScanAfter
  <2>3. java.active = scan.open /\ (python.active # {} <=> scan.open # 0)
    BY <2>1 DEF JavaFound, PythonFound, AuditFound
  <2>4. JavaReports <=> Suspect(input)
    BY <2>1, <2>2, <2>3 DEF JavaReports, Suspect, JavaFound
  <2>5. PythonReports <=> Suspect(input) \/ Numbered(input) \/ Unowned(input) # {}
    BY <2>1, <2>2, <2>3 DEF PythonReports, Suspect, PythonFound
  <2> QED BY <2>4, <2>5
<1> QED BY <1>2, <1>3, <1>4, <1>5
        DEF ReadersAgree, LoadIsAccepts, ToolsFollowLoad

\* load(), the consistency checker, journal_audit.py and JournalReport.java follow
\* the transactions of a journal with code of their own (journal.cc:89-120,
\* checker.cc:206-238); of a journal of any length they report the same, up to
\* what ReadersAgree says.
THEOREM FourReadersAgree == ReadersSpec => []ReadersAgree
BY ReadersStart, ReadersStep, ReadersInvImplies, PTL DEF ReadersSpec

-----------------------------------------------------------------------------
(* One record. *)

Framing == [type : Nat, sequence : Nat, transaction : Nat, payload : Seq(Nat)]

FrameOf(r) == FramedRecord(r.type, r.sequence, r.transaction, r.payload)

\* What decode() looks at there, when it is the frame of r.
Fields(s, at, r) ==
  LET n == Len(r.payload) IN
  /\ at + FrameUnits + n <= Len(s)
  /\ s[at + 1] = FrameUnits + n
  /\ s[at + 2] = r.type /\ s[at + 3] = 0
  /\ s[at + 4] = r.sequence /\ s[at + 5] = r.transaction
  /\ s[at + 6] = n
  /\ Slice(s, at + HeaderUnits, n) = r.payload
  /\ s[at + FrameUnits + n] = Checksum(Slice(s, at + 1, 5 + n))

LEMMA FrameShape ==
  ASSUME NEW r \in Framing
  PROVE  LET n == Len(r.payload)
             summed == <<r.type, 0, r.sequence, r.transaction, n>> \o r.payload
             f == FrameOf(r)
         IN /\ summed \in Seq(Nat) /\ Len(summed) = 5 + n
            /\ summed[1] = r.type /\ summed[2] = 0 /\ summed[3] = r.sequence
            /\ summed[4] = r.transaction /\ summed[5] = n
            /\ \A i \in 1 .. n : summed[5 + i] = r.payload[i]
            /\ f \in Seq(Nat) /\ Len(f) = FrameUnits + n
            /\ f[1] = FrameUnits + n
            /\ \A i \in 1 .. 5 + n : f[1 + i] = summed[i]
            /\ f[FrameUnits + n] = Checksum(summed)
<1> DEFINE p == r.payload
           n == Len(p)
           head == <<r.type, 0, r.sequence, r.transaction, n>>
           summed == head \o p
           c == Checksum(summed)
           f == FrameOf(r)
<1>1. /\ r.type \in Nat /\ r.sequence \in Nat /\ r.transaction \in Nat
      /\ p \in Seq(Nat) /\ n \in Nat
  BY DEF Framing
<1>2. head \in Seq(Nat) /\ Len(head) = 5
  BY <1>1
<1>3. head[1] = r.type /\ head[2] = 0 /\ head[3] = r.sequence
      /\ head[4] = r.transaction /\ head[5] = n
  OBVIOUS
<1> HIDE DEF head
<1>4. /\ summed \in Seq(Nat) /\ Len(summed) = Len(head) + n
      /\ \A i \in 1 .. Len(head) : summed[i] = head[i]
      /\ \A i \in 1 .. n : summed[Len(head) + i] = p[i]
  <2>1. IsConcat(summed, head, p)
    BY <1>1, <1>2, ConcatFacts
  <2> QED
    BY <2>1 DEF IsConcat
<1> HIDE DEF summed
<1>5. /\ Len(summed) = 5 + n
      /\ summed[1] = r.type /\ summed[2] = 0 /\ summed[3] = r.sequence
      /\ summed[4] = r.transaction /\ summed[5] = n
      /\ \A i \in 1 .. n : summed[5 + i] = p[i]
  <2>1. /\ 1 \in 1 .. Len(head) /\ 2 \in 1 .. Len(head) /\ 3 \in 1 .. Len(head)
        /\ 4 \in 1 .. Len(head) /\ 5 \in 1 .. Len(head)
    BY <1>2
  <2>2. /\ summed[1] = r.type /\ summed[2] = 0 /\ summed[3] = r.sequence
        /\ summed[4] = r.transaction /\ summed[5] = n
    BY <1>3, <1>4, <2>1
  <2>3. Len(summed) = 5 + n /\ \A i \in 1 .. n : summed[5 + i] = p[i]
    BY <1>2, <1>4
  <2> QED
    BY <2>2, <2>3
<1>6. c \in Nat
  BY <1>4, ChecksumType
<1> HIDE DEF c
<1> DEFINE one == <<FrameUnits + n>>
           last == <<c>>
           a == one \o summed
<1>7. f = a \o last
  BY DEF FrameOf, FramedRecord, summed, c, head
<1>8. /\ one \in Seq(Nat) /\ last \in Seq(Nat) /\ FrameUnits = 7
      /\ Len(one) = 1 /\ Len(last) = 1 /\ one[1] = FrameUnits + n /\ last[1] = c
  BY <1>1, <1>6 DEF FrameUnits
<1> HIDE DEF one, last
<1>9. /\ a \in Seq(Nat) /\ Len(a) = Len(one) + Len(summed)
      /\ \A i \in 1 .. Len(one) : a[i] = one[i]
      /\ \A i \in 1 .. Len(summed) : a[Len(one) + i] = summed[i]
  <2>1. IsConcat(a, one, summed)
    BY <1>4, <1>8, ConcatFacts
  <2> QED
    BY <2>1 DEF IsConcat
<1> HIDE DEF a
<1>10. /\ a \o last \in Seq(Nat) /\ Len(a \o last) = Len(a) + Len(last)
       /\ \A i \in 1 .. Len(a) : (a \o last)[i] = a[i]
       /\ \A i \in 1 .. Len(last) : (a \o last)[Len(a) + i] = last[i]
  <2>1. IsConcat((a \o last), a, last)
    BY <1>8, <1>9, ConcatFacts
  <2> QED
    BY <2>1 DEF IsConcat
<1> HIDE DEF f, n
<1>11. Len(a) = 6 + n /\ Len(f) = FrameUnits + n /\ f \in Seq(Nat)
  BY <1>1, <1>5, <1>7, <1>8, <1>9, <1>10
<1>12. \A i \in 1 .. 6 + n : f[i] = a[i]
  BY <1>7, <1>10, <1>11
<1>13. f[1] = FrameUnits + n
  <2>1. 1 \in 1 .. 6 + n
    BY <1>1
  <2> QED
    BY <1>8, <1>9, <1>12, <2>1
<1>14. \A i \in 1 .. 5 + n : f[1 + i] = summed[i]
  <2> TAKE i \in 1 .. 5 + n
  <2>1. 1 + i \in 1 .. 6 + n
    BY <1>1
  <2>2. a[1 + i] = summed[i]
    BY <1>5, <1>8, <1>9
  <2> QED
    BY <1>12, <2>1, <2>2
<1>15. f[FrameUnits + n] = c
  <2>1. Len(a) + 1 = FrameUnits + n
    BY <1>1, <1>8, <1>11
  <2>2. (a \o last)[Len(a) + 1] = last[1]
    BY <1>8, <1>10
  <2> QED
    BY <1>7, <1>8, <2>1, <2>2
<1> QED
  BY <1>4, <1>5, <1>11, <1>13, <1>14, <1>15 DEF f, n, summed, c, head

\* The frame of a record is what decode() wants to see of it.
LEMMA FrameHeld ==
  ASSUME NEW s \in Seq(Nat), NEW at \in Nat, NEW r \in Framing
  PROVE  Holds(s, at, FrameOf(r)) <=> Fields(s, at, r)
<1> DEFINE p == r.payload
           n == Len(p)
           summed == <<r.type, 0, r.sequence, r.transaction, n>> \o p
           f == FrameOf(r)
           q == Slice(s, at + 1, 5 + n)
<1>1. p \in Seq(Nat) /\ n \in Nat /\ Len(s) \in Nat
  BY DEF Framing
<1>2. /\ summed \in Seq(Nat) /\ Len(summed) = 5 + n
      /\ summed[1] = r.type /\ summed[2] = 0 /\ summed[3] = r.sequence
      /\ summed[4] = r.transaction /\ summed[5] = n
      /\ \A i \in 1 .. n : summed[5 + i] = p[i]
      /\ Len(f) = FrameUnits + n
      /\ f[1] = FrameUnits + n
      /\ \A i \in 1 .. 5 + n : f[1 + i] = summed[i]
      /\ f[FrameUnits + n] = Checksum(summed)
  BY FrameShape
<1>3. FrameUnits = 7 /\ HeaderUnits = 6
  BY DEF FrameUnits, HeaderUnits
<1> HIDE DEF summed, f, n, p
<1>4. SUFFICES ASSUME at + 7 + n <= Len(s)
               PROVE  Holds(s, at, f) <=> Fields(s, at, r)
  BY <1>1, <1>2, <1>3 DEF Holds, Fields, f, n, p
<1>5. /\ q \in Seq(Nat) /\ Len(q) = 5 + n
      /\ \A i \in 1 .. 5 + n : q[i] = s[at + 1 + i]
  <2>1. at + 1 \in Nat /\ 5 + n \in Nat /\ (at + 1) + (5 + n) <= Len(s)
    BY <1>1, <1>4
  <2> QED
    BY <2>1, SliceFacts
<1>6. /\ Slice(s, at + 6, n) \in Seq(Nat) /\ Len(Slice(s, at + 6, n)) = n
      /\ \A i \in 1 .. n : Slice(s, at + 6, n)[i] = s[at + 6 + i]
  <2> DEFINE a == at + 6
  <2>1. a \in Nat /\ n \in Nat /\ a + n <= Len(s)
    BY <1>1, <1>4
  <2> HIDE DEF a
  <2>2. /\ Slice(s, a, n) \in Seq(Nat) /\ Len(Slice(s, a, n)) = n
        /\ \A i \in 1 .. n : Slice(s, a, n)[i] = s[a + i]
    BY <2>1, SliceFacts
  <2> QED
    BY <2>2 DEF a
<1> HIDE DEF q
<1>7. q = summed <=> \A i \in 1 .. 5 + n : s[at + 1 + i] = summed[i]
  <2>1. (\A i \in 1 .. Len(q) : q[i] = summed[i]) => q = summed
    BY <1>2, <1>5, SeqEqual
  <2> QED
    BY <1>5, <2>1
<1>8. Slice(s, at + 6, n) = p <=> \A i \in 1 .. n : s[at + 6 + i] = p[i]
  <2>1. (\A i \in 1 .. Len(Slice(s, at + 6, n)) : Slice(s, at + 6, n)[i] = p[i])
          => Slice(s, at + 6, n) = p
    BY <1>1, <1>6, SeqEqual DEF n
  <2> QED
    BY <1>6, <2>1
<1>9. (\A i \in 1 .. 5 + n : s[at + 1 + i] = summed[i]) <=>
         /\ s[at + 2] = r.type /\ s[at + 3] = 0 /\ s[at + 4] = r.sequence
         /\ s[at + 5] = r.transaction /\ s[at + 6] = n
         /\ \A i \in 1 .. n : s[at + 6 + i] = p[i]
  <2>1. /\ 1 \in 1 .. 5 + n /\ 2 \in 1 .. 5 + n /\ 3 \in 1 .. 5 + n /\ 4 \in 1 .. 5 + n
        /\ 5 \in 1 .. 5 + n /\ at + 1 + 1 = at + 2 /\ at + 1 + 2 = at + 3
        /\ at + 1 + 3 = at + 4 /\ at + 1 + 4 = at + 5 /\ at + 1 + 5 = at + 6
    BY <1>1
  <2>2. \A i \in 1 .. n : 5 + i \in 1 .. 5 + n /\ at + 1 + (5 + i) = at + 6 + i
    BY <1>1
  <2>3. \A i \in 1 .. 5 + n : \/ i = 1 \/ i = 2 \/ i = 3 \/ i = 4 \/ i = 5
                              \/ i - 5 \in 1 .. n /\ 5 + (i - 5) = i
    BY <1>1
  <2>4. ASSUME \A i \in 1 .. 5 + n : s[at + 1 + i] = summed[i]
        PROVE  /\ s[at + 2] = r.type /\ s[at + 3] = 0 /\ s[at + 4] = r.sequence
               /\ s[at + 5] = r.transaction /\ s[at + 6] = n
               /\ \A i \in 1 .. n : s[at + 6 + i] = p[i]
    <3>1. /\ s[at + 2] = r.type /\ s[at + 3] = 0 /\ s[at + 4] = r.sequence
          /\ s[at + 5] = r.transaction /\ s[at + 6] = n
      BY SMTT(40), <1>2, <2>1, <2>4
    <3>2. ASSUME NEW i \in 1 .. n PROVE s[at + 6 + i] = p[i]
      BY <1>2, <2>2, <2>4
    <3> QED
      BY <3>1, <3>2
  <2>5. ASSUME /\ s[at + 2] = r.type /\ s[at + 3] = 0 /\ s[at + 4] = r.sequence
               /\ s[at + 5] = r.transaction /\ s[at + 6] = n
               /\ \A i \in 1 .. n : s[at + 6 + i] = p[i],
               NEW i \in 1 .. 5 + n
        PROVE  s[at + 1 + i] = summed[i]
    <3>1. CASE i - 5 \in 1 .. n /\ 5 + (i - 5) = i
      <4>1. s[at + 6 + (i - 5)] = p[i - 5] /\ summed[5 + (i - 5)] = p[i - 5]
        BY <1>2, <2>5, <3>1
      <4>2. at + 1 + i = at + 6 + (i - 5)
        BY <2>2, <3>1
      <4> QED
        BY <3>1, <4>1, <4>2
    <3>2. CASE i = 1 \/ i = 2 \/ i = 3 \/ i = 4 \/ i = 5
      BY <1>2, <2>1, <2>5, <3>2
    <3> QED
      BY <2>3, <3>1, <3>2
  <2> QED
    BY <2>4, <2>5
<1>10. Holds(s, at, f) <=>
         /\ s[at + 1] = 7 + n
         /\ \A i \in 1 .. 5 + n : s[at + 1 + i] = summed[i]
         /\ s[at + 7 + n] = Checksum(summed)
  <2>1. /\ 1 \in 1 .. 7 + n /\ 7 + n \in 1 .. 7 + n /\ at + (7 + n) = at + 7 + n
        /\ \A i \in 1 .. 5 + n : 1 + i \in 1 .. 7 + n /\ at + (1 + i) = at + 1 + i
        /\ \A i \in 1 .. 7 + n : \/ i = 1 \/ i = 7 + n
                                 \/ i - 1 \in 1 .. 5 + n /\ 1 + (i - 1) = i
        /\ at + (7 + n) <= Len(s)
    BY <1>1, <1>4
  <2>2. Holds(s, at, f) <=> \A i \in 1 .. 7 + n : s[at + i] = f[i]
    BY <1>2, <1>3, <2>1 DEF Holds
  <2>3. f[1] = 7 + n /\ f[7 + n] = Checksum(summed)
        /\ \A i \in 1 .. 5 + n : f[1 + i] = summed[i]
    BY <1>2, <1>3
  <2>4. (\A i \in 1 .. 7 + n : s[at + i] = f[i]) <=>
           /\ s[at + 1] = f[1] /\ s[at + (7 + n)] = f[7 + n]
           /\ \A i \in 1 .. 5 + n : s[at + (1 + i)] = f[1 + i]
    <3>1. ASSUME \A i \in 1 .. 7 + n : s[at + i] = f[i], NEW i \in 1 .. 5 + n
          PROVE  s[at + (1 + i)] = f[1 + i]
      BY <2>1, <3>1
    <3>2. ASSUME s[at + 1] = f[1], s[at + (7 + n)] = f[7 + n],
                 \A i \in 1 .. 5 + n : s[at + (1 + i)] = f[1 + i], NEW i \in 1 .. 7 + n
          PROVE  s[at + i] = f[i]
      <4>1. CASE i - 1 \in 1 .. 5 + n /\ 1 + (i - 1) = i
        <5>1. s[at + (1 + (i - 1))] = f[1 + (i - 1)]
          BY <3>2, <4>1
        <5> QED
          BY <4>1, <5>1
      <4> QED
        BY <2>1, <3>2, <4>1
    <3> QED
      BY <2>1, <3>1, <3>2
  <2> QED
    BY <2>1, <2>2, <2>3, <2>4
<1>11. Fields(s, at, r) <=>
         /\ s[at + 1] = 7 + n
         /\ s[at + 2] = r.type /\ s[at + 3] = 0 /\ s[at + 4] = r.sequence
         /\ s[at + 5] = r.transaction /\ s[at + 6] = n
         /\ Slice(s, at + 6, n) = p
         /\ s[at + 7 + n] = Checksum(q)
  BY <1>3, <1>4 DEF Fields, n, p, q
<1> QED
  BY <1>7, <1>8, <1>9, <1>10, <1>11 DEF f

-----------------------------------------------------------------------------
(* One turn of decode(), and all of them. *)

Turns == [ok : BOOLEAN, at : Nat, previous : Nat, records : Seq(Framing)]
First == [ok |-> TRUE, at |-> 3, previous |-> 0, records |-> <<>>]

\* What the turn at `at` has to find to go on.
Proceeds(s, turn) ==
  /\ turn.ok /\ Readable(s, turn.at, HeaderUnits) /\ LengthFits(s, turn.at)
  /\ SumFits(s, turn.at) /\ FieldsFit(s, turn.at, turn.previous)

\* A length and a payload length that are accepted leave room for the sum.
LEMMA LengthFacts ==
  ASSUME NEW s \in Seq(Nat), NEW at \in Nat,
         Readable(s, at, HeaderUnits), LengthFits(s, at)
  PROVE  /\ LengthAt(s, at) \in Nat /\ PayloadAt(s, at) \in Nat
         /\ LengthAt(s, at) >= 7 /\ 7 + PayloadAt(s, at) <= LengthAt(s, at)
         /\ at + LengthAt(s, at) <= Len(s)
         /\ PayloadAt(s, at) <= MaxPayload
         /\ LengthAt(s, at) < Word => LengthAt(s, at) = 7 + PayloadAt(s, at)
<1> DEFINE L == LengthAt(s, at)
           P == PayloadAt(s, at)
<1>1. Len(s) \in Nat /\ at + 6 <= Len(s) /\ HeaderUnits = 6 /\ FrameUnits = 7
  BY DEF Readable, HeaderUnits, FrameUnits
<1>2. at + 1 \in 1 .. Len(s) /\ at + 6 \in 1 .. Len(s)
  BY <1>1
<1>3. L \in Nat /\ P \in Nat
  BY <1>1, <1>2 DEF LengthAt, PayloadAt
<1>4. L >= 6 /\ L <= Len(s) - at /\ P = (L - 7) % Word /\ P <= MaxPayload
  BY <1>1 DEF LengthFits
<1>5. Word \in Nat /\ MaxPayload \in Nat /\ MaxPayload < Word - 1
  BY ImageRecordsAssumption, JournalCodecAssumption
<1> HIDE DEF L, P
<1>6. L # 6
  <2> SUFFICES ASSUME L = 6 PROVE FALSE
    OBVIOUS
  <2>1. L - 7 = -1
    OBVIOUS
  <2>2. P = Word - 1
    BY <1>4, <2>1, Remainder
  <2> QED
    BY <1>4, <1>5, <2>2
<1>7. L - 7 \in Nat
  BY <1>3, <1>4, <1>6
<1>8. P <= L - 7 /\ (L - 7 < Word => P = L - 7)
  BY <1>4, <1>7, Remainder
<1>9. L >= 7 /\ 7 + P <= L
  BY <1>3, <1>7, <1>8
<1>10. at + L <= Len(s)
  BY <1>1, <1>3, <1>4
<1>11. L < Word => L = 7 + P
  BY <1>3, <1>5, <1>7, <1>8
<1> QED
  BY <1>3, <1>4, <1>9, <1>10, <1>11 DEF L, P

LEMMA FramedType ==
  ASSUME NEW s \in Seq(Nat), NEW at \in Nat,
         Readable(s, at, HeaderUnits), LengthFits(s, at)
  PROVE  Framed(s, at) \in Framing /\ Len(Framed(s, at).payload) = PayloadAt(s, at)
<1>1. /\ PayloadAt(s, at) \in Nat /\ 7 + PayloadAt(s, at) <= LengthAt(s, at)
      /\ at + LengthAt(s, at) <= Len(s) /\ LengthAt(s, at) \in Nat
  BY LengthFacts
<1>2. Len(s) \in Nat /\ at + 6 <= Len(s) /\ HeaderUnits = 6
  BY DEF Readable, HeaderUnits
<1>3. s[at + 2] \in Nat /\ s[at + 4] \in Nat /\ s[at + 5] \in Nat
  BY SMTT(40), <1>2
<1>4. at + 6 \in Nat /\ (at + 6) + PayloadAt(s, at) <= Len(s)
  BY <1>1, <1>2
<1>5. /\ Slice(s, at + 6, PayloadAt(s, at)) \in Seq(Nat)
      /\ Len(Slice(s, at + 6, PayloadAt(s, at))) = PayloadAt(s, at)
  BY <1>1, <1>4, SliceFacts
<1> QED
  BY <1>2, <1>3, <1>5 DEF Framed, Framing

LEMMA TurnType ==
  ASSUME NEW s \in Seq(Nat), NEW turn \in Turns
  PROVE  /\ DecodeTurn(s, turn) \in Turns
         /\ DecodeTurn(s, turn).ok <=> Proceeds(s, turn)
         /\ Proceeds(s, turn) =>
              DecodeTurn(s, turn) =
                [ok |-> TRUE, at |-> turn.at + LengthAt(s, turn.at),
                 previous |-> s[turn.at + 4],
                 records |-> Append(turn.records, Framed(s, turn.at))]
<1>1. CASE Proceeds(s, turn)
  <2>1. turn.at \in Nat /\ Readable(s, turn.at, HeaderUnits) /\ LengthFits(s, turn.at)
        /\ turn.records \in Seq(Framing)
    BY <1>1 DEF Proceeds, Turns
  <2>2. LengthAt(s, turn.at) \in Nat /\ Framed(s, turn.at) \in Framing
    BY <2>1, LengthFacts, FramedType
  <2>3. s[turn.at + 4] \in Nat
    <3>1. turn.at + 4 \in 1 .. Len(s)
      BY SMTT(40), <2>1 DEF Readable, HeaderUnits
    <3> QED
      BY <3>1
  <2>4. DecodeTurn(s, turn) =
          [ok |-> TRUE, at |-> turn.at + LengthAt(s, turn.at),
           previous |-> s[turn.at + 4],
           records |-> Append(turn.records, Framed(s, turn.at))]
    BY <1>1 DEF Proceeds, DecodeTurn
  <2>5. Append(turn.records, Framed(s, turn.at)) \in Seq(Framing)
    BY <2>1, <2>2
  <2> QED
    BY <1>1, <2>1, <2>2, <2>3, <2>4, <2>5 DEF Turns
<1>2. CASE ~Proceeds(s, turn)
  <2>1. DecodeTurn(s, turn) = [turn EXCEPT !.ok = FALSE]
    BY <1>2 DEF Proceeds, DecodeTurn
  <2> QED
    BY <1>2, <2>1 DEF Turns
<1> QED
  BY <1>1, <1>2

LEMMA DecodingDefined ==
  ASSUME NEW s \in Seq(Nat), Len(s) >= 3
  PROVE  /\ s[3] \in Nat
         /\ Decoding(s) \in [0 .. s[3] -> Turns]
         /\ Decoding(s)[0] = First
         /\ \A n \in 1 .. s[3] : Decoding(s)[n] = DecodeTurn(s, Decoding(s)[n - 1])
<1> DEFINE N == s[3]
           Goes(f) == f = [n \in 0 .. N |-> IF n = 0 THEN First ELSE DecodeTurn(s, f[n - 1])]
           g == [n \in 1 .. N |-> [x \in Turns |-> DecodeTurn(s, x)]]
<1>1. N \in Nat
  <2>1. 3 \in 1 .. Len(s)
    BY Len(s) \in Nat
  <2> QED
    BY <2>1
<1>2. First \in Turns
  BY DEF First, Turns
<1>3. g \in [1 .. N -> [Turns -> Turns]]
  BY TurnType
<1> HIDE DEF N
<1>4. PICK f \in [0 .. N -> Turns] : Iterates(f, First, N, g)
  <2> HIDE DEF g
  <2>1. \E f \in [0 .. N -> Turns] : Iterates(f, First, N, g)
    BY <1>1, <1>2, <1>3, Recursion
  <2> QED
    BY <2>1
<1>5. \A n \in 1 .. N : n \in 0 .. N /\ n # 0 /\ n - 1 \in 0 .. N
  BY <1>1
<1>6. \A n \in 1 .. N : f[n] = DecodeTurn(s, f[n - 1])
  BY <1>4, <1>5 DEF Iterates
<1>7. Goes(f)
  <2>1. \A n \in 0 .. N : n # 0 => n \in 1 .. N
    BY <1>1
  <2>2. \A n \in 0 .. N : f[n] = IF n = 0 THEN First ELSE DecodeTurn(s, f[n - 1])
    BY <1>4, <1>6, <2>1 DEF Iterates
  <2> QED
    BY <2>2
<1>8. Decoding(s) = CHOOSE h : Goes(h)
  BY DEF Decoding, First, N
<1>9. Goes(Decoding(s))
  BY <1>7, <1>8
<1>10. /\ Decoding(s)[0] = First
       /\ \A n \in 1 .. N : Decoding(s)[n] = DecodeTurn(s, Decoding(s)[n - 1])
  <2>1. 0 \in 0 .. N
    BY <1>1
  <2> QED
    BY <1>5, <1>9, <2>1
<1>11. Decoding(s) \in [0 .. N -> Turns]
  <2> DEFINE Bad == {n \in 0 .. N : Decoding(s)[n] \notin Turns}
  <2> SUFFICES ASSUME Bad # {} PROVE FALSE
    BY <1>9
  <2>1. PICK n \in Bad : \A k \in Bad : n <= k
    <3>1. Bad \subseteq Nat
      BY <1>1
    <3> HIDE DEF Bad
    <3> QED
      BY <3>1, LeastOf
  <2>2. n \in 0 .. N /\ n # 0
    BY <1>2, <1>10
  <2>3. n \in 1 .. N /\ n - 1 \in 0 .. N /\ ~(n <= n - 1)
    BY <1>1, <2>2
  <2>4. Decoding(s)[n - 1] \in Turns
    BY <2>1, <2>3
  <2>5. Decoding(s)[n] \in Turns
    BY <1>10, <2>3, <2>4, TurnType
  <2> QED
    BY <2>5
<1> QED
  BY <1>1, <1>10, <1>11 DEF N

-----------------------------------------------------------------------------
(* What encode() writes. *)

FramesOf(q) == [i \in 1 .. Len(q) |-> FrameOf(q[i])]
Body(q) == FlattenSeq(FramesOf(q))
Written(q) == Signature \o <<Len(q)>> \o Body(q)
Before(q, n) == SubSeq(q, 1, n)

LEMMA FrameType ==
  ASSUME NEW r \in Framing
  PROVE  FrameOf(r) \in Seq(Nat) /\ Len(FrameOf(r)) = 7 + Len(r.payload)
BY FrameShape DEF FrameUnits

LEMMA FramesType ==
  ASSUME NEW q \in Seq(Framing)
  PROVE  FramesOf(q) \in Seq(Seq(Nat)) /\ Len(FramesOf(q)) = Len(q)
<1> DEFINE T == Seq(Nat)
<1>1. Len(q) \in Nat /\ \A i \in 1 .. Len(q) : q[i] \in Framing
  OBVIOUS
<1>2. \A i \in 1 .. Len(q) : FrameOf(q[i]) \in T
  BY <1>1, FrameType
<1> HIDE DEF T
<1>3. FramesOf(q) \in Seq(T) /\ Len(FramesOf(q)) = Len(q)
  BY <1>1, <1>2 DEF FramesOf
<1> QED
  BY <1>3 DEF T

LEMMA BodyAppend ==
  ASSUME NEW q \in Seq(Framing), NEW r \in Framing
  PROVE  Body(q) \in Seq(Nat) /\ Body(Append(q, r)) = Body(q) \o FrameOf(r)
<1> DEFINE a == Append(q, r)
           T == Seq(Nat)
<1>1. FramesOf(q) \in Seq(T) /\ FrameOf(r) \in T /\ Len(FramesOf(q)) = Len(q)
  BY FramesType, FrameType
<1>2. /\ a \in Seq(Framing) /\ Len(a) = Len(q) + 1 /\ Len(q) \in Nat
      /\ a[Len(q) + 1] = r /\ \A i \in 1 .. Len(q) : a[i] = q[i]
  OBVIOUS
<1>3. FramesOf(a) \in Seq(T) /\ Len(FramesOf(a)) = Len(q) + 1
  BY <1>2, FramesType
<1> HIDE DEF a, T
<1> DEFINE b == Append(FramesOf(q), FrameOf(r))
<1>4. /\ b \in Seq(T) /\ Len(b) = Len(q) + 1 /\ b[Len(q) + 1] = FrameOf(r)
      /\ \A i \in 1 .. Len(q) : b[i] = FramesOf(q)[i]
  BY <1>1, <1>2
<1> HIDE DEF b
<1>5. ASSUME NEW i \in 1 .. Len(q) + 1 PROVE FramesOf(a)[i] = b[i]
  <2>1. CASE i = Len(q) + 1
    BY <1>2, <1>4, <2>1 DEF FramesOf
  <2>2. CASE i \in 1 .. Len(q)
    BY <1>2, <1>4, <2>2 DEF FramesOf
  <2> QED
    BY <1>2, <2>1, <2>2
<1>6. FramesOf(a) = b
  BY <1>3, <1>4, <1>5, SeqEqual
<1>7. /\ FlattenSeq(FramesOf(q)) \in Seq(Nat)
      /\ FlattenSeq(Append(FramesOf(q), FrameOf(r))) = FlattenSeq(FramesOf(q)) \o FrameOf(r)
  BY <1>1, FlattenAppend DEF T
<1> QED
  BY <1>6, <1>7 DEF Body, a, b

LEMMA BodyEmpty == Body(<<>>) = <<>>
<1>1. FramesOf(<<>>) = <<>>
  BY DEF FramesOf
<1> QED
  BY <1>1, FlattenEmpty DEF Body

LEMMA BodyType ==
  ASSUME NEW q \in Seq(Framing)
  PROVE  Body(q) \in Seq(Nat) /\ Len(Body(q)) \in Nat
<1>1. [type |-> 0, sequence |-> 0, transaction |-> 0, payload |-> <<>>] \in Framing
  BY DEF Framing
<1>2. Body(q) \in Seq(Nat)
  BY <1>1, BodyAppend
<1> QED
  BY <1>2

LEMMA BeforeFacts ==
  ASSUME NEW q \in Seq(Framing), NEW n \in 0 .. Len(q)
  PROVE  /\ Before(q, n) \in Seq(Framing) /\ Len(Before(q, n)) = n
         /\ \A i \in 1 .. n : Before(q, n)[i] = q[i]
         /\ Before(q, 0) = <<>> /\ Before(q, Len(q)) = q
         /\ n > 0 => /\ q[n] \in Framing
                     /\ Before(q, n) = Append(Before(q, n - 1), q[n])
BY DEF Before

\* The first frames of what stands there, and the next one.
LEMMA HoldsBefore ==
  ASSUME NEW s \in Seq(Nat), NEW at \in Nat, NEW q \in Seq(Framing),
         Holds(s, at, Body(q)), NEW n \in 0 .. Len(q)
  PROVE  Holds(s, at, Body(Before(q, n)))
<1> DEFINE N == Len(q)
           Bad == {k \in 0 .. N : ~Holds(s, at, Body(Before(q, N - k)))}
<1>1. N \in Nat
  OBVIOUS
<1> HIDE DEF N
<1>2. ASSUME Bad # {} PROVE FALSE
  <2>1. PICK k \in Bad : \A j \in Bad : k <= j
    <3>1. Bad \subseteq Nat
      BY <1>1
    <3> HIDE DEF Bad
    <3> QED
      BY <1>2, <3>1, LeastOf
  <2>2. k \in 0 .. N /\ ~Holds(s, at, Body(Before(q, N - k)))
    BY <2>1
  <2>3. k # 0
    <3>1. N - 0 = N /\ Before(q, N) = q
      BY <1>1, BeforeFacts DEF N
    <3> QED
      BY <2>2, <3>1
  <2>4. /\ k - 1 \in 0 .. N /\ ~(k <= k - 1) /\ N - (k - 1) = (N - k) + 1
        /\ (N - k) + 1 \in 0 .. N /\ (N - k) + 1 > 0 /\ ((N - k) + 1) - 1 = N - k
        /\ N - k \in 0 .. N
    BY <1>1, <2>2, <2>3
  <2> DEFINE j == (N - k) + 1
  <2>5. Holds(s, at, Body(Before(q, j)))
    BY <2>1, <2>4
  <2>6. /\ q[j] \in Framing /\ Before(q, j) = Append(Before(q, N - k), q[j])
        /\ Before(q, N - k) \in Seq(Framing)
    BY <2>4, BeforeFacts DEF N
  <2> HIDE DEF j
  <2>7. /\ Body(Before(q, j)) = Body(Before(q, N - k)) \o FrameOf(q[j])
        /\ Body(Before(q, N - k)) \in Seq(Nat) /\ FrameOf(q[j]) \in Seq(Nat)
    BY <2>6, BodyAppend, FrameType
  <2>8. Holds(s, at, Body(Before(q, N - k)))
    BY <2>5, <2>7, HoldsConcat
  <2> QED
    BY <2>2, <2>8
<1>3. N - n \in 0 .. N /\ N - (N - n) = n
  BY <1>1 DEF N
<1> QED
  BY <1>2, <1>3

LEMMA HoldsNext ==
  ASSUME NEW s \in Seq(Nat), NEW at \in Nat, NEW q \in Seq(Framing),
         Holds(s, at, Body(q)), NEW n \in 1 .. Len(q)
  PROVE  /\ Holds(s, at + Len(Body(Before(q, n - 1))), FrameOf(q[n]))
         /\ Len(Body(Before(q, n))) = Len(Body(Before(q, n - 1))) + Len(FrameOf(q[n]))
<1>1. n \in 0 .. Len(q) /\ n - 1 \in 0 .. Len(q) /\ n > 0
  OBVIOUS
<1>2. /\ q[n] \in Framing /\ Before(q, n) = Append(Before(q, n - 1), q[n])
      /\ Before(q, n - 1) \in Seq(Framing)
  BY <1>1, BeforeFacts
<1>3. /\ Body(Before(q, n)) = Body(Before(q, n - 1)) \o FrameOf(q[n])
      /\ Body(Before(q, n - 1)) \in Seq(Nat) /\ FrameOf(q[n]) \in Seq(Nat)
  BY <1>2, BodyAppend, FrameType
<1>4. Holds(s, at, Body(Before(q, n)))
  BY <1>1, HoldsBefore
<1>5. IsConcat(Body(Before(q, n)), Body(Before(q, n - 1)), FrameOf(q[n]))
  BY <1>3, ConcatFacts
<1> QED
  BY <1>3, <1>4, <1>5, HoldsConcat DEF IsConcat

-----------------------------------------------------------------------------
(* Decoding what encode() writes. *)

\* The records that decode() can take in this order.
Takes(q) ==
  \A i \in 1 .. Len(q) :
    /\ q[i].type \in 1 .. Len(TypeCodes) /\ Len(q[i].payload) <= MaxPayload
    /\ q[i].sequence > IF i = 1 THEN 0 ELSE q[i - 1].sequence

LastNumber(q, n) == IF n = 0 THEN 0 ELSE q[n].sequence

\* The loop when it has decoded the first n of the records q.
TurnOf(q, n) == [ok |-> TRUE, at |-> 3 + Len(Body(Before(q, n))),
                 previous |-> LastNumber(q, n), records |-> Before(q, n)]

\* A turn takes a record that stands there.
LEMMA FieldsProceed ==
  ASSUME NEW s \in Seq(Nat), NEW turn \in Turns, NEW r \in Framing,
         turn.ok, Fields(s, turn.at, r), r.sequence > turn.previous,
         r.type \in 1 .. Len(TypeCodes), Len(r.payload) <= MaxPayload
  PROVE  /\ Proceeds(s, turn)
         /\ LengthAt(s, turn.at) = 7 + Len(r.payload)
         /\ s[turn.at + 4] = r.sequence
         /\ Framed(s, turn.at) = r
<1> DEFINE at == turn.at
           p == r.payload
           n == Len(p)
<1>1. at \in Nat /\ p \in Seq(Nat) /\ n \in Nat /\ Len(s) \in Nat
  BY DEF Turns, Framing
<1>2. FrameUnits = 7 /\ HeaderUnits = 6
  BY DEF FrameUnits, HeaderUnits
<1>3. /\ at + 7 + n <= Len(s) /\ s[at + 1] = 7 + n
      /\ s[at + 2] = r.type /\ s[at + 3] = 0
      /\ s[at + 4] = r.sequence /\ s[at + 5] = r.transaction
      /\ s[at + 6] = n /\ Slice(s, at + 6, n) = p
      /\ s[at + 7 + n] = Checksum(Slice(s, at + 1, 5 + n))
  BY <1>2 DEF Fields
<1>4. n <= MaxPayload /\ n < Word /\ MaxPayload \in Nat
  BY <1>1, ImageRecordsAssumption, JournalCodecAssumption
<1> HIDE DEF at, n, p
<1>5. n % Word = n /\ (7 + n) - 7 = n /\ (7 + n) - 2 = 5 + n /\ 7 + n >= 6
      /\ at + (7 + n) = at + 7 + n /\ 7 + n <= Len(s) - at /\ at + 6 <= Len(s)
  BY <1>1, <1>3, <1>4, Remainder
<1>6. LengthAt(s, at) = 7 + n /\ PayloadAt(s, at) = n
  BY <1>2, <1>3 DEF LengthAt, PayloadAt
<1>7. Readable(s, at, HeaderUnits)
  BY <1>2, <1>5 DEF Readable
<1>8. LengthFits(s, at)
  BY <1>2, <1>4, <1>5, <1>6 DEF LengthFits
<1>9. SumFits(s, at)
  BY <1>3, <1>5, <1>6 DEF SumFits
<1>10. FieldsFit(s, at, turn.previous)
  BY <1>3 DEF FieldsFit
<1>11. Framed(s, at) = r
  <2>1. Framed(s, at) = [type |-> r.type, sequence |-> r.sequence,
                         transaction |-> r.transaction, payload |-> r.payload]
    BY <1>2, <1>3, <1>6 DEF Framed, p
  <2> QED
    BY <2>1 DEF Framing
<1> QED
  BY <1>3, <1>6, <1>7, <1>8, <1>9, <1>10, <1>11 DEF Proceeds, at, n, p

\* decode() finds the records that stand behind the header.
LEMMA DecodesHeld ==
  ASSUME NEW s \in Seq(Nat), Len(s) >= 3, NEW q \in Seq(Framing), Takes(q),
         Len(q) <= s[3], Holds(s, 3, Body(q)), NEW n \in 0 .. Len(q)
  PROVE  Decoding(s)[n] = TurnOf(q, n)
<1> DEFINE N == Len(q)
           D == Decoding(s)
           Bad == {k \in 0 .. N : D[k] # TurnOf(q, k)}
<1>1. N \in Nat /\ s[3] \in Nat /\ D[0] = First /\ D \in [0 .. s[3] -> Turns]
      /\ \A k \in 1 .. s[3] : D[k] = DecodeTurn(s, D[k - 1])
  BY DecodingDefined
<1> HIDE DEF N, D
<1> SUFFICES ASSUME Bad # {} PROVE FALSE
  BY DEF N, D
<1>2. PICK k \in Bad : \A j \in Bad : k <= j
  <2>1. Bad \subseteq Nat
    BY <1>1
  <2> HIDE DEF Bad
  <2> QED
    BY <2>1, LeastOf
<1>3. k \in 0 .. N /\ D[k] # TurnOf(q, k)
  BY <1>2
<1>4. k # 0
  <2>1. Before(q, 0) = <<>>
    BY <1>1, BeforeFacts
  <2>2. 3 + Len(Body(Before(q, 0))) = 3
    BY <2>1, BodyEmpty
  <2>3. TurnOf(q, 0) = First
    BY <2>1, <2>2 DEF TurnOf, First, LastNumber
  <2> QED
    BY <1>1, <1>3, <2>3
<1>5. /\ k \in 1 .. N /\ k \in 1 .. s[3] /\ k - 1 \in 0 .. N /\ k - 1 \in 0 .. s[3]
      /\ ~(k <= k - 1) /\ k > 0
  BY <1>1, <1>3, <1>4 DEF N
<1>6. D[k - 1] = TurnOf(q, k - 1) /\ D[k - 1] \in Turns
  BY <1>1, <1>2, <1>5
<1> DEFINE turn == D[k - 1]
           r == q[k]
<1>7. turn.ok /\ turn.at = 3 + Len(Body(Before(q, k - 1)))
      /\ turn.previous = LastNumber(q, k - 1) /\ turn.records = Before(q, k - 1)
  BY <1>6 DEF TurnOf
<1>8. /\ r \in Framing /\ Before(q, k) = Append(Before(q, k - 1), r)
      /\ Before(q, k - 1) \in Seq(Framing)
  BY <1>3, <1>5, BeforeFacts DEF N
<1>9. /\ Holds(s, turn.at, FrameOf(r))
      /\ Len(Body(Before(q, k))) = Len(Body(Before(q, k - 1))) + Len(FrameOf(r))
  <2>1. /\ Holds(s, 3 + Len(Body(Before(q, k - 1))), FrameOf(r))
        /\ Len(Body(Before(q, k))) = Len(Body(Before(q, k - 1))) + Len(FrameOf(r))
    BY <1>5, HoldsNext DEF N
  <2> QED
    BY <1>7, <2>1
<1>10. /\ r.type \in 1 .. Len(TypeCodes) /\ Len(r.payload) <= MaxPayload
       /\ r.sequence > turn.previous
  <2>1. /\ r.type \in 1 .. Len(TypeCodes) /\ Len(r.payload) <= MaxPayload
        /\ r.sequence > IF k = 1 THEN 0 ELSE q[k - 1].sequence
    BY <1>5 DEF Takes, N
  <2>2. k - 1 = 0 <=> k = 1
    BY <1>5
  <2> QED
    BY <1>7, <2>1, <2>2 DEF LastNumber
<1> HIDE DEF turn, r
<1>11. turn \in Turns /\ turn.at \in Nat
  BY <1>6 DEF turn, Turns
<1>12. Fields(s, turn.at, r)
  BY <1>8, <1>9, <1>11, FrameHeld
<1>13. /\ Proceeds(s, turn) /\ LengthAt(s, turn.at) = 7 + Len(r.payload)
       /\ s[turn.at + 4] = r.sequence /\ Framed(s, turn.at) = r
  BY <1>7, <1>8, <1>10, <1>11, <1>12, FieldsProceed
<1>14. DecodeTurn(s, turn) =
         [ok |-> TRUE, at |-> turn.at + LengthAt(s, turn.at),
          previous |-> s[turn.at + 4],
          records |-> Append(turn.records, Framed(s, turn.at))]
  BY <1>11, <1>13, TurnType
<1>15. D[k] = DecodeTurn(s, turn)
  BY <1>1, <1>5 DEF turn
<1>16. turn.at + LengthAt(s, turn.at) = 3 + Len(Body(Before(q, k)))
  <2>1. Len(FrameOf(r)) = 7 + Len(r.payload) /\ Len(r.payload) \in Nat
    BY <1>8, FrameType DEF Framing
  <2> DEFINE b == Len(Body(Before(q, k - 1)))
             c == Len(Body(Before(q, k)))
             f == Len(FrameOf(r))
             p == Len(r.payload)
             l == LengthAt(s, turn.at)
  <2>2. b \in Nat
    BY <1>8, BodyType
  <2>3. turn.at = 3 + b /\ c = b + f /\ l = 7 + p /\ f = 7 + p /\ p \in Nat
    BY <1>7, <1>9, <1>13, <2>1
  <2> HIDE DEF b, c, f, p, l
  <2>4. turn.at + l = 3 + c
    BY <2>2, <2>3
  <2> QED
    BY <2>4 DEF l, c
<1>17. TurnOf(q, k) = [ok |-> TRUE, at |-> 3 + Len(Body(Before(q, k))),
                       previous |-> r.sequence, records |-> Before(q, k)]
  BY <1>4 DEF TurnOf, LastNumber, r
<1>18. D[k] = TurnOf(q, k)
  BY <1>7, <1>8, <1>13, <1>14, <1>15, <1>16, <1>17
<1> QED
  BY <1>3, <1>18

LEMMA WrittenFacts ==
  ASSUME NEW q \in Seq(Framing)
  PROVE  /\ Written(q) \in Seq(Nat) /\ Len(Written(q)) = 3 + Len(Body(q))
         /\ Len(Body(q)) \in Nat
         /\ SubSeq(Written(q), 1, 2) = Signature /\ Written(q)[3] = Len(q)
         /\ Holds(Written(q), 3, Body(q))
<1> DEFINE h == Signature \o <<Len(q)>>
           w == Written(q)
           b == Body(q)
<1>1. b \in Seq(Nat) /\ Len(b) \in Nat
  BY BodyType
<1>2. h \in Seq(Nat) /\ Len(h) = 3 /\ h[1] = 1 /\ h[2] = 2 /\ h[3] = Len(q)
  BY Len(q) \in Nat DEF Signature
<1>3. w = h \o b
  BY DEF Written
<1> HIDE DEF h, w, b
<1>4. /\ w \in Seq(Nat) /\ Len(w) = 3 + Len(b)
      /\ \A i \in 1 .. 3 : w[i] = h[i]
      /\ \A i \in 1 .. Len(b) : w[3 + i] = b[i]
  <2>1. IsConcat(w, h, b)
    BY <1>1, <1>2, <1>3, ConcatFacts
  <2> QED
    BY <1>2, <2>1 DEF IsConcat
<1>5. Holds(w, 3, b)
  BY <1>4 DEF Holds
<1>6. w[1] = 1 /\ w[2] = 2 /\ w[3] = Len(q)
  BY <1>2, <1>4
<1>7. SubSeq(w, 1, 2) = Signature
  <2>1. Len(w) >= 3
    BY <1>1, <1>4
  <2>2. SubSeq(w, 1, 2) \in Seq(Nat) /\ Len(SubSeq(w, 1, 2)) = 2
        /\ SubSeq(w, 1, 2)[1] = w[1] /\ SubSeq(w, 1, 2)[2] = w[2]
    <3>1. SubSeq(w, 1, 2) = Slice(w, 0, 2)
      BY DEF Slice
    <3> DEFINE o == 0
               t == 2
    <3>2. w \in Seq(Nat) /\ o \in Nat /\ t \in Nat /\ o + t <= Len(w)
      BY <1>4, <2>1
    <3> HIDE DEF o, t
    <3>3. /\ Slice(w, o, t) \in Seq(Nat) /\ Len(Slice(w, o, t)) = t
          /\ \A i \in 1 .. t : Slice(w, o, t)[i] = w[o + i]
      BY <3>2, SliceFacts
    <3>4. \A i \in 1 .. 2 : Slice(w, 0, 2)[i] = w[0 + i]
      BY <3>3 DEF o, t
    <3> QED
      BY <3>1, <3>3, <3>4 DEF o, t
  <2>3. /\ Signature \in Seq(Nat) /\ Len(Signature) = 2
        /\ Signature[1] = 1 /\ Signature[2] = 2
    BY DEF Signature
  <2>4. \A i \in 1 .. 2 : SubSeq(w, 1, 2)[i] = Signature[i]
    BY <1>6, <2>2, <2>3
  <2> QED
    BY <2>2, <2>3, <2>4, SeqEqual
<1> QED
  BY <1>1, <1>4, <1>5, <1>6, <1>7 DEF w, b

\* What is written is decoded to the records it was written from.
LEMMA DecodedWritten ==
  ASSUME NEW q \in Seq(Framing), Takes(q), Len(q) <= MaxRecords
  PROVE  Decoded(Written(q)) = {q}
<1> DEFINE w == Written(q)
           n == Len(q)
<1>1. /\ w \in Seq(Nat) /\ Len(w) = 3 + Len(Body(q)) /\ Len(Body(q)) \in Nat
      /\ SubSeq(w, 1, 2) = Signature /\ w[3] = n /\ Holds(w, 3, Body(q))
  BY WrittenFacts
<1>2. n \in Nat /\ n \in 0 .. n /\ Before(q, n) = q
  BY BeforeFacts
<1> HIDE DEF w
<1>3. Len(w) >= 3
  BY <1>1
<1>4. Decoding(w)[n] = TurnOf(q, n)
  BY <1>1, <1>2, <1>3, DecodesHeld
<1>5. Decoding(w)[n].ok /\ Decoding(w)[n].at = Len(w) /\ Decoding(w)[n].records = q
  BY <1>1, <1>2, <1>4 DEF TurnOf
<1>6. HeaderFits(w)
  BY <1>1, <1>3 DEF HeaderFits
<1>7. Decoded(w) = {q}
  BY <1>1, <1>5, <1>6 DEF Decoded
<1> QED
  BY <1>7 DEF w

Framings(rs) ==
  [i \in 1 .. Len(rs) |->
     [type |-> Code(rs[i].type), sequence |-> rs[i].sequence,
      transaction |-> rs[i].transaction, payload |-> Payload(rs[i])]]

LEMMA CodeType ==
  ASSUME NEW type \in Types
  PROVE  Code(type) \in 1 .. Len(TypeCodes) /\ Len(TypeCodes) = 5
<1>1. \E k \in 1 .. 5 : TypeCodes[k] = type
  BY DEF Types, Control, TypeCodes
<1>2. Len(TypeCodes) = 5
  BY DEF TypeCodes
<1> QED
  BY <1>1, <1>2 DEF Code

LEMMA PayloadType ==
  ASSUME NEW r \in JournalRecord
  PROVE  Payload(r) \in Seq(Nat) /\ Len(Payload(r)) \in 0 .. 1
<1>1. r.sequence % Word \in Nat
  BY Remainder DEF JournalRecord
<1> QED
  BY <1>1 DEF Payload

LEMMA FramingsType ==
  ASSUME NEW rs \in Seq(JournalRecord)
  PROVE  Framings(rs) \in Seq(Framing) /\ Len(Framings(rs)) = Len(rs)
<1>1. Len(rs) \in Nat /\ \A i \in 1 .. Len(rs) : rs[i] \in JournalRecord
  OBVIOUS
<1>2. ASSUME NEW i \in 1 .. Len(rs) PROVE Framings(rs)[i] \in Framing
  <2>1. /\ rs[i] \in JournalRecord /\ rs[i].type \in Types
        /\ rs[i].sequence \in Nat /\ rs[i].transaction \in Nat
    BY <1>1 DEF JournalRecord
  <2>2. Code(rs[i].type) \in Nat /\ Payload(rs[i]) \in Seq(Nat)
    BY <2>1, CodeType, PayloadType
  <2> QED
    BY <2>1, <2>2 DEF Framings, Framing
<1> QED
  BY <1>1, <1>2 DEF Framings

LEMMA EncodedIsWritten ==
  ASSUME NEW rs \in Seq(JournalRecord)
  PROVE  Encoded(rs) = Written(Framings(rs))
<1> DEFINE n == Len(rs)
<1>1. n \in Nat /\ Len(Framings(rs)) = n
  BY FramingsType
<1>2. \A i \in 1 .. n : Frame(rs[i]) = FrameOf(Framings(rs)[i])
  BY DEF Frame, FrameOf, Framings
<1>3. [i \in 1 .. n |-> Frame(rs[i])] = FramesOf(Framings(rs))
  BY <1>1, <1>2 DEF FramesOf
<1> QED
  BY <1>1, <1>3 DEF Encoded, Written, Body

LEMMA EncodableTakes ==
  ASSUME NEW rs \in Seq(JournalRecord), Encodable(rs)
  PROVE  Takes(Framings(rs)) /\ Len(Framings(rs)) <= MaxRecords
<1>1. Len(Framings(rs)) = Len(rs)
  BY FramingsType
<1>2. ASSUME NEW i \in 1 .. Len(rs)
      PROVE  /\ Framings(rs)[i].type \in 1 .. Len(TypeCodes)
             /\ Len(Framings(rs)[i].payload) <= MaxPayload
             /\ Framings(rs)[i].sequence >
                  IF i = 1 THEN 0 ELSE Framings(rs)[i - 1].sequence
  <2>1. rs[i] \in JournalRecord /\ rs[i].type \in Types
    <3>1. rs[i] \in JournalRecord
      OBVIOUS
    <3> QED
      BY <3>1 DEF JournalRecord
  <2>2. Framings(rs)[i] = [type |-> Code(rs[i].type), sequence |-> rs[i].sequence,
                           transaction |-> rs[i].transaction, payload |-> Payload(rs[i])]
    BY DEF Framings
  <2>3. Code(rs[i].type) \in 1 .. Len(TypeCodes)
    BY <2>1, CodeType
  <2>4. CASE i = 1
    BY <2>2, <2>3, <2>4 DEF Encodable
  <2>5. CASE i # 1
    <3>1. i - 1 \in 1 .. Len(rs) /\ i \in 2 .. Len(rs)
      BY <2>5
    <3>2. Framings(rs)[i - 1].sequence = rs[i - 1].sequence
      BY <3>1 DEF Framings
    <3> QED
      BY <2>2, <2>3, <2>5, <3>1, <3>2 DEF Encodable
  <2> QED
    BY <2>4, <2>5
<1> QED
  BY <1>1, <1>2 DEF Takes, Encodable

LEMMA AcceptedEncodable ==
  ASSUME NEW rs \in Seq(JournalRecord), Accepts(rs)
  PROVE  Encodable(rs)
<1>1. Len(rs) \in Nat /\ MaxPayload >= 1 /\ MaxPayload \in Int
  BY JournalCodecAssumption, ImageRecordsAssumption
<1>2. ASSUME NEW i \in 1 .. Len(rs)
      PROVE rs[i].sequence > 0 /\ Len(Payload(rs[i])) <= MaxPayload
  <2>1. rs[i] \in JournalRecord /\ RecordFits(rs, i)
    BY DEF Accepts
  <2>2. Len(Payload(rs[i])) \in 0 .. 1
    BY <2>1, PayloadType
  <2>3. Len(Payload(rs[i])) <= MaxPayload
    <3> DEFINE l == Len(Payload(rs[i]))
    <3>1. l \in 0 .. 1
      BY <2>2
    <3> HIDE DEF l
    <3>2. l <= MaxPayload
      BY <1>1, <3>1
    <3> QED
      BY <3>2 DEF l
  <2> QED
    BY <2>1, <2>3 DEF RecordFits
<1>3. ASSUME NEW i \in 2 .. Len(rs) PROVE rs[i].sequence > rs[i - 1].sequence
  <2>1. i \in 1 .. Len(rs) /\ i - 1 \in 1 .. i - 1
    BY <1>1
  <2>2. RecordFits(rs, i)
    BY <2>1 DEF Accepts
  <2> QED
    BY <2>1, <2>2 DEF RecordFits
<1> QED
  BY <1>2, <1>3 DEF Encodable, Accepts

LEMMA CodecIsJournal == CodecSpec => Spec
<1>1. CodecInit => Init
  BY DEF CodecInit
<1>2. [CodecNext]_all => [Next]_vars
  BY DEF CodecNext, all, vars
<1> QED
  BY <1>1, <1>2, PTL DEF CodecSpec, Spec

LEMMA ReadBackNow == IInv => JournalReadBack
<1> SUFFICES ASSUME IInv PROVE JournalReadBack
  OBVIOUS
<1>1. records \in Seq(JournalRecord) /\ Accepts(records)
  BY DEF IInv, TypeOK, Reloadable
<1>2. Encodable(records)
  BY <1>1, AcceptedEncodable
<1>3. Framings(records) \in Seq(Framing)
  BY <1>1, FramingsType
<1>4. Takes(Framings(records)) /\ Len(Framings(records)) <= MaxRecords
  BY <1>1, <1>2, EncodableTakes
<1>5. Decoded(Encoded(records)) = {Framings(records)}
  BY <1>1, <1>3, <1>4, EncodedIsWritten, DecodedWritten
<1> QED
  BY <1>2, <1>5 DEF JournalReadBack, Framings

\* Whatever the journal has been through, clear() and reloads included, encode()
\* takes it and decode() returns its records (codec.cc, JournalCodec).
THEOREM JournalIsReadBack == CodecSpec => []JournalReadBack
BY CodecIsJournal, Invariance, ReadBackNow, PTL

-----------------------------------------------------------------------------
(* What is decoded is what encode() writes. *)

\* A record that a turn takes stands there.
LEMMA ProceedsFields ==
  ASSUME NEW s \in Seq(Units), NEW turn \in Turns, Proceeds(s, turn),
         NEW r, r = Framed(s, turn.at)
  PROVE  /\ r \in Framing /\ Fields(s, turn.at, r)
         /\ LengthAt(s, turn.at) = 7 + Len(r.payload)
         /\ r.type \in 1 .. Len(TypeCodes) /\ Len(r.payload) <= MaxPayload
         /\ r.sequence > turn.previous /\ r.sequence = s[turn.at + 4]
<1> DEFINE at == turn.at
           n == PayloadAt(s, at)
<1>1. /\ s \in Seq(Nat) /\ at \in Nat /\ Readable(s, at, HeaderUnits)
      /\ LengthFits(s, at) /\ SumFits(s, at) /\ FieldsFit(s, at, turn.previous)
  BY UnitsAreNumbers DEF Proceeds, Turns
<1> HIDE DEF at
<1>2. /\ LengthAt(s, at) \in Nat /\ n \in Nat /\ at + LengthAt(s, at) <= Len(s)
      /\ LengthAt(s, at) >= 7 /\ n <= MaxPayload
      /\ LengthAt(s, at) < Word => LengthAt(s, at) = 7 + n
  BY <1>1, LengthFacts
<1>3. r \in Framing /\ Len(r.payload) = n
  BY <1>1, FramedType DEF at
<1>4. FrameUnits = 7 /\ HeaderUnits = 6 /\ Len(s) \in Nat
  BY DEF FrameUnits, HeaderUnits
<1> HIDE DEF n
<1>5. LengthAt(s, at) = 7 + n
  <2>1. at + 1 \in 1 .. Len(s)
    BY <1>1, <1>2, <1>4
  <2>2. LengthAt(s, at) \in Units
    BY <2>1 DEF LengthAt
  <2> QED
    BY <1>2, <2>2, ImageRecordsAssumption DEF Units
<1>6. /\ r.type = s[at + 2] /\ r.sequence = s[at + 4] /\ r.transaction = s[at + 5]
      /\ r.payload = Slice(s, at + 6, n)
  BY <1>4 DEF Framed, at, n
<1>7. s[at + 3] = 0 /\ s[at + 2] \in 1 .. Len(TypeCodes) /\ s[at + 4] > turn.previous
  BY <1>1 DEF FieldsFit
<1>8. s[at + 7 + n] = Checksum(Slice(s, at + 1, 5 + n))
  <2>1. at + (7 + n) = at + 7 + n /\ (7 + n) - 2 = 5 + n
    BY <1>1, <1>2
  <2> QED
    BY <1>1, <1>5, <2>1 DEF SumFits
<1>9. s[at + 1] = 7 + n /\ s[at + 6] = n
  BY <1>4, <1>5 DEF LengthAt, PayloadAt, n
<1>10. at + 7 + n <= Len(s)
  BY <1>1, <1>2, <1>4, <1>5
<1>11. Fields(s, at, r)
  BY <1>3, <1>4, <1>6, <1>7, <1>8, <1>9, <1>10 DEF Fields
<1> QED
  BY <1>2, <1>3, <1>5, <1>6, <1>7, <1>11 DEF at

\* What the loop knows after n turns.
Found(s, n) ==
  LET q == Decoding(s)[n].records IN
  /\ Len(q) = n /\ Takes(q) /\ Holds(s, 3, Body(q))
  /\ Decoding(s)[n].at = 3 + Len(Body(q))
  /\ Decoding(s)[n].previous = LastNumber(q, n)

LEMMA FoundNext ==
  ASSUME NEW s \in Seq(Units), NEW turn \in Turns, Proceeds(s, turn),
         NEW q \in Seq(Framing), q = turn.records, Takes(q), Holds(s, 3, Body(q)),
         turn.at = 3 + Len(Body(q)), turn.previous = LastNumber(q, Len(q))
  PROVE  LET r == Framed(s, turn.at)
             a == Append(q, r)
         IN /\ Len(a) = Len(q) + 1 /\ Takes(a) /\ Holds(s, 3, Body(a))
            /\ turn.at + LengthAt(s, turn.at) = 3 + Len(Body(a))
            /\ s[turn.at + 4] = LastNumber(a, Len(a))
<1> DEFINE r == Framed(s, turn.at)
           a == Append(q, r)
           at == turn.at
           b == Len(Body(q))
<1>1. /\ r \in Framing /\ Fields(s, at, r) /\ LengthAt(s, at) = 7 + Len(r.payload)
      /\ r.type \in 1 .. Len(TypeCodes) /\ Len(r.payload) <= MaxPayload
      /\ r.sequence > turn.previous /\ r.sequence = s[at + 4]
  BY ProceedsFields
<1>2. s \in Seq(Nat) /\ at \in Nat /\ Len(q) \in Nat
  BY UnitsAreNumbers DEF Turns
<1> HIDE DEF r
<1>3. /\ Len(a) = Len(q) + 1 /\ a[Len(q) + 1] = r
      /\ \A i \in 1 .. Len(q) : a[i] = q[i]
  BY <1>1
<1>4. /\ Body(q) \in Seq(Nat) /\ Body(a) = Body(q) \o FrameOf(r)
      /\ FrameOf(r) \in Seq(Nat) /\ Len(FrameOf(r)) = 7 + Len(r.payload)
  BY <1>1, BodyAppend, FrameType
<1> HIDE DEF a, at
<1>5. Holds(s, at, FrameOf(r))
  BY <1>1, <1>2, FrameHeld
<1>6. Holds(s, 3, Body(a))
  BY <1>2, <1>4, <1>5, HoldsConcat DEF at
<1>7. at + LengthAt(s, at) = 3 + Len(Body(a))
  <2>1. IsConcat(Body(a), Body(q), FrameOf(r))
    BY <1>4, ConcatFacts
  <2>2. Len(r.payload) \in Nat
    BY <1>1 DEF Framing
  <2> DEFINE p == Len(r.payload)
             f == Len(FrameOf(r))
             c == Len(Body(a))
             l == LengthAt(s, at)
  <2>3. at = 3 + b /\ c = b + f /\ b \in Nat /\ f = 7 + p /\ l = 7 + p /\ p \in Nat
    BY <1>1, <1>4, <2>1, <2>2 DEF at, IsConcat
  <2> HIDE DEF b, p, f, c, l
  <2>4. at + l = 3 + c
    BY <2>3
  <2> QED
    BY <2>4 DEF l, c
<1>8. ASSUME NEW i \in 1 .. Len(a)
      PROVE  /\ a[i].type \in 1 .. Len(TypeCodes) /\ Len(a[i].payload) <= MaxPayload
             /\ a[i].sequence > IF i = 1 THEN 0 ELSE a[i - 1].sequence
  <2>1. CASE i \in 1 .. Len(q)
    <3>1. /\ q[i].type \in 1 .. Len(TypeCodes) /\ Len(q[i].payload) <= MaxPayload
          /\ q[i].sequence > IF i = 1 THEN 0 ELSE q[i - 1].sequence
      BY <2>1 DEF Takes
    <3>2. i # 1 => i - 1 \in 1 .. Len(q)
      BY <1>2, <2>1
    <3>3. a[i] = q[i] /\ (i # 1 => a[i - 1] = q[i - 1])
      BY <1>3, <2>1, <3>2
    <3> QED
      BY <3>1, <3>3
  <2>2. CASE i = Len(q) + 1
    <3>1. a[i] = r /\ (i = 1 <=> Len(q) = 0) /\ i - 1 = Len(q)
      BY <1>2, <1>3, <2>2
    <3>2. Len(q) # 0 => a[i - 1] = q[Len(q)]
      BY SMTT(40), <1>2, <1>3, <3>1
    <3> QED
      BY <1>1, <3>1, <3>2 DEF LastNumber
  <2> QED
    BY <1>2, <1>3, <2>1, <2>2
<1>9. Takes(a)
  BY <1>8 DEF Takes
<1>10. s[at + 4] = LastNumber(a, Len(a))
  BY <1>1, <1>2, <1>3 DEF LastNumber
<1> QED
  BY <1>3, <1>6, <1>7, <1>9, <1>10 DEF a, r, at

LEMMA DecodedFound ==
  ASSUME NEW s \in Seq(Units), Len(s) >= 3, NEW n \in 0 .. s[3], Decoding(s)[n].ok
  PROVE  Found(s, n) /\ Decoding(s)[n].records \in Seq(Framing)
<1> DEFINE D == Decoding(s)
           Bad == {k \in 0 .. s[3] : D[k].ok /\ ~Found(s, k)}
<1>1. /\ s \in Seq(Nat) /\ s[3] \in Nat /\ D[0] = First /\ D \in [0 .. s[3] -> Turns]
      /\ \A k \in 1 .. s[3] : D[k] = DecodeTurn(s, D[k - 1])
  BY UnitsAreNumbers, DecodingDefined
<1> HIDE DEF D
<1>2. ASSUME Bad # {} PROVE FALSE
  <2>1. PICK k \in Bad : \A j \in Bad : k <= j
    <3>1. Bad \subseteq Nat
      BY <1>1
    <3> HIDE DEF Bad
    <3> QED
      BY <1>2, <3>1, LeastOf
  <2>2. k \in 0 .. s[3] /\ D[k].ok /\ ~Found(s, k)
    BY <2>1
  <2>3. k # 0
    <3>1. Found(s, 0)
      <4>1. Body(<<>>) = <<>> /\ Takes(<<>>)
        BY BodyEmpty DEF Takes
      <4>2. D[0].records = <<>> /\ D[0].at = 3 /\ D[0].previous = 0
        BY <1>1 DEF First
      <4>3. Holds(s, 3, <<>>)
        BY <1>1 DEF Holds
      <4> QED
        BY <4>1, <4>2, <4>3 DEF Found, D, LastNumber
    <3> QED
      BY <2>2, <3>1
  <2>4. k \in 1 .. s[3] /\ k - 1 \in 0 .. s[3] /\ ~(k <= k - 1)
    BY <1>1, <2>2, <2>3
  <2> DEFINE turn == D[k - 1]
             q == turn.records
  <2>5. turn \in Turns /\ D[k] = DecodeTurn(s, turn) /\ q \in Seq(Framing)
    BY <1>1, <2>4 DEF Turns
  <2> HIDE DEF turn
  <2>6. /\ Proceeds(s, turn)
        /\ D[k] = [ok |-> TRUE, at |-> turn.at + LengthAt(s, turn.at),
                   previous |-> s[turn.at + 4],
                   records |-> Append(q, Framed(s, turn.at))]
    BY <1>1, <2>2, <2>5, TurnType
  <2>7. turn.ok
    BY <2>6 DEF Proceeds
  <2>8. Found(s, k - 1)
    BY <2>1, <2>4, <2>7 DEF turn
  <2>9. /\ Len(q) = k - 1 /\ Takes(q) /\ Holds(s, 3, Body(q))
        /\ turn.at = 3 + Len(Body(q)) /\ turn.previous = LastNumber(q, Len(q))
    BY <2>8 DEF Found, turn, D
  <2> DEFINE a == Append(q, Framed(s, turn.at))
  <2> HIDE DEF q
  <2>10. /\ Len(a) = Len(q) + 1 /\ Takes(a) /\ Holds(s, 3, Body(a))
         /\ turn.at + LengthAt(s, turn.at) = 3 + Len(Body(a))
         /\ s[turn.at + 4] = LastNumber(a, Len(a))
    <3>1. q = turn.records
      BY DEF q
    <3> QED
      BY <2>5, <2>6, <2>9, <3>1, FoundNext
  <2> HIDE DEF a
  <2>11. /\ D[k].records = a /\ D[k].at = turn.at + LengthAt(s, turn.at)
         /\ D[k].previous = s[turn.at + 4]
    BY <2>6 DEF a
  <2>12. Len(a) = k
    BY <2>4, <2>9, <2>10
  <2>13. Found(s, k)
    BY <2>10, <2>11, <2>12 DEF Found, D
  <2> QED
    BY <2>2, <2>13
<1>3. D[n] \in Turns
  BY <1>1
<1> QED
  BY <1>2, <1>3 DEF D, Turns

\* Data that is accepted is what is written from the records it gives.
LEMMA DecodedForm ==
  ASSUME NEW s \in Seq(Units), NEW q \in Decoded(s)
  PROVE  /\ q \in Seq(Framing) /\ Takes(q) /\ Len(q) = s[3] /\ Len(q) <= MaxRecords
         /\ s \in Seq(Nat) /\ Len(s) >= 3 /\ s[3] \in Nat
         /\ Decoding(s)[s[3]].ok /\ Decoding(s)[s[3]].at = Len(s)
         /\ Holds(s, 3, Body(q)) /\ Len(s) = 3 + Len(Body(q))
         /\ s = Written(q)
<1> DEFINE end == Decoding(s)[s[3]]
           w == Written(q)
<1>1. /\ Len(s) >= 3 /\ SubSeq(s, 1, 2) = Signature /\ s[3] <= MaxRecords
      /\ end.ok /\ end.at = Len(s) /\ q = end.records
  BY DEF Decoded, HeaderFits
<1>2. s \in Seq(Nat) /\ s[3] \in Nat /\ s[3] \in 0 .. s[3]
  BY <1>1, UnitsAreNumbers, DecodingDefined
<1>3. Found(s, s[3]) /\ q \in Seq(Framing)
  BY <1>1, <1>2, DecodedFound
<1>4. Len(q) = s[3] /\ Takes(q) /\ Holds(s, 3, Body(q)) /\ Len(s) = 3 + Len(Body(q))
  BY <1>1, <1>3 DEF Found
<1>5. /\ w \in Seq(Nat) /\ Len(w) = 3 + Len(Body(q)) /\ Len(Body(q)) \in Nat
      /\ SubSeq(w, 1, 2) = Signature /\ w[3] = Len(q) /\ Holds(w, 3, Body(q))
  BY <1>3, WrittenFacts
<1> HIDE DEF w, end
<1>6. ASSUME NEW u \in Seq(Nat), Len(u) >= 3, SubSeq(u, 1, 2) = Signature
      PROVE  u[1] = 1 /\ u[2] = 2
  <2>1. Len(u) \in Nat /\ 0 + 2 <= Len(u) /\ 0 \in Nat /\ 2 \in Nat
    BY <1>6
  <2>2. \A i \in 1 .. 2 : SubSeq(u, 1, 2)[i] = u[i]
    BY <1>6
  <2>3. Signature[1] = 1 /\ Signature[2] = 2
    BY DEF Signature
  <2>4. SubSeq(u, 1, 2)[1] = u[1] /\ SubSeq(u, 1, 2)[2] = u[2]
    BY <2>2
  <2> QED
    BY <1>6, <2>3, <2>4
<1>7. ASSUME NEW i \in 1 .. Len(s) PROVE s[i] = w[i]
  <2>1. CASE i \in 1 .. 2
    <3>1. Len(w) >= 3
      BY <1>5
    <3>2. s[1] = 1 /\ s[2] = 2 /\ w[1] = 1 /\ w[2] = 2
      BY <1>1, <1>2, <1>5, <1>6, <3>1
    <3> QED
      BY <2>1, <3>2
  <2>2. CASE i = 3
    BY <1>4, <1>5, <2>2
  <2>3. CASE i - 3 \in 1 .. Len(Body(q)) /\ 3 + (i - 3) = i
    <3>1. s[3 + (i - 3)] = Body(q)[i - 3] /\ w[3 + (i - 3)] = Body(q)[i - 3]
      BY <1>4, <1>5, <2>3 DEF Holds
    <3> QED
      BY <2>3, <3>1
  <2>4. i \in 1 .. 2 \/ i = 3 \/ (i - 3 \in 1 .. Len(Body(q)) /\ 3 + (i - 3) = i)
    BY <1>4, <1>5
  <2> QED
    BY <2>1, <2>2, <2>3, <2>4
<1>8. s = w
  BY <1>2, <1>4, <1>5, <1>7, SeqEqual
<1> QED
  BY <1>1, <1>2, <1>3, <1>4, <1>8 DEF w, end

-----------------------------------------------------------------------------
(* Two images that decode() accepts do not differ in one unit only, and    *)
(* neither continues the other.                                            *)

LEMMA StaysRefused ==
  ASSUME NEW s \in Seq(Nat), Len(s) >= 3, NEW n \in 0 .. s[3], Decoding(s)[n].ok,
         NEW k \in 0 .. n
  PROVE  Decoding(s)[k].ok
<1> DEFINE D == Decoding(s)
           Bad == {m \in 0 .. s[3] : D[m].ok /\ \E j \in 0 .. m : ~D[j].ok}
<1>1. /\ s[3] \in Nat /\ D \in [0 .. s[3] -> Turns]
      /\ \A m \in 1 .. s[3] : D[m] = DecodeTurn(s, D[m - 1])
  BY DecodingDefined
<1> HIDE DEF D
<1>2. ASSUME Bad # {} PROVE FALSE
  <2>1. PICK m \in Bad : \A j \in Bad : m <= j
    <3>1. Bad \subseteq Nat
      BY <1>1
    <3> HIDE DEF Bad
    <3> QED
      BY <1>2, <3>1, LeastOf
  <2>2. m \in 0 .. s[3] /\ D[m].ok
    BY <2>1
  <2>3. PICK j \in 0 .. m : ~D[j].ok
    BY <2>1
  <2>4. /\ m \in 1 .. s[3] /\ m - 1 \in 0 .. s[3] /\ ~(m <= m - 1)
        /\ j \in 0 .. m - 1
    BY <1>1, <2>2, <2>3
  <2>5. D[m - 1] \in Turns /\ D[m] = DecodeTurn(s, D[m - 1])
    BY <1>1, <2>4
  <2>6. D[m - 1].ok
    BY <2>2, <2>5, TurnType DEF Proceeds
  <2>7. m - 1 \in Bad
    BY <2>3, <2>4, <2>6
  <2> HIDE DEF Bad
  <2> QED
    BY <2>1, <2>4, <2>7
<1> QED
  BY <1>1, <1>2 DEF D

\* The records that end with the data are all of them.
LEMMA NotFewer ==
  ASSUME NEW s \in Seq(Units), NEW t \in Seq(Units), NEW p \in Decoded(s),
         NEW q \in Decoded(t), Len(s) = Len(t),
         \A i \in 4 .. Len(s) : s[i] = t[i], s[3] < t[3]
  PROVE  FALSE
<1> DEFINE n == s[3]
<1>1. /\ p \in Seq(Framing) /\ Takes(p) /\ Len(p) = n /\ n \in Nat
      /\ Holds(s, 3, Body(p)) /\ Len(s) = 3 + Len(Body(p)) /\ Len(s) >= 3
      /\ Len(Body(p)) \in Nat
  BY DecodedForm, BodyType
<1>2. /\ t \in Seq(Nat) /\ Len(t) >= 3 /\ t[3] \in Nat /\ Decoding(t)[t[3]].ok
  BY DecodedForm
<1>3. Holds(t, 3, Body(p))
  BY <1>1 DEF Holds
<1> HIDE DEF n
<1>4. n < t[3]
  BY DEF n
<1>5. n \in 0 .. n /\ n <= t[3] /\ n + 1 \in 1 .. t[3] /\ n + 1 \in 0 .. t[3]
      /\ t[3] \in 0 .. t[3] /\ (n + 1) - 1 = n /\ n \in 0 .. t[3]
  BY <1>1, <1>2, <1>4
<1>6. Decoding(t)[n] = TurnOf(p, n) /\ Before(p, n) = p
  BY <1>1, <1>2, <1>3, <1>5, DecodesHeld, BeforeFacts
<1> DEFINE turn == Decoding(t)[n]
<1>7. turn \in Turns /\ Decoding(t)[n + 1] = DecodeTurn(t, turn)
  BY <1>2, <1>5, DecodingDefined
<1>8. Decoding(t)[n + 1].ok
  BY <1>2, <1>5, StaysRefused
<1>9. turn.at = Len(t)
  BY <1>1, <1>6 DEF TurnOf
<1> HIDE DEF turn
<1>10. Readable(t, turn.at, HeaderUnits)
  BY <1>2, <1>7, <1>8, TurnType DEF Proceeds
<1> QED
  BY <1>9, <1>10 DEF Readable, HeaderUnits

LEMMA NotContinued ==
  ASSUME NEW s \in Seq(Units), NEW t \in Seq(Units), NEW p \in Decoded(s),
         NEW q \in Decoded(t), Len(s) <= Len(t), \A i \in 1 .. Len(s) : t[i] = s[i]
  PROVE  Len(s) = Len(t)
<1>1. /\ p \in Seq(Framing) /\ Takes(p) /\ Len(p) = s[3] /\ s[3] \in Nat
      /\ Holds(s, 3, Body(p)) /\ Len(s) = 3 + Len(Body(p)) /\ Len(s) >= 3
      /\ Len(Body(p)) \in Nat
  BY DecodedForm, BodyType
<1>2. /\ t \in Seq(Nat) /\ Len(t) >= 3 /\ t[3] \in Nat
      /\ Decoding(t)[t[3]].at = Len(t)
  BY DecodedForm
<1>3. t[3] = s[3] /\ s[3] \in 0 .. s[3] /\ s[3] <= t[3]
  BY <1>1
<1>4. Holds(t, 3, Body(p))
  <2>1. 3 + Len(Body(p)) <= Len(t)
    BY <1>1
  <2>2. ASSUME NEW i \in 1 .. Len(Body(p)) PROVE t[3 + i] = Body(p)[i]
    <3>1. 3 + i \in 1 .. Len(s)
      BY <1>1
    <3> QED
      BY <1>1, <3>1 DEF Holds
  <2> QED
    BY <2>1, <2>2 DEF Holds
<1> DEFINE n == s[3]
<1>5. n \in 0 .. Len(p) /\ Len(p) <= t[3] /\ n = t[3] /\ n = Len(p)
  BY <1>1, <1>3
<1> HIDE DEF n
<1>6. Decoding(t)[n] = TurnOf(p, n)
  BY <1>1, <1>2, <1>4, <1>5, DecodesHeld
<1>7. Before(p, n) = p
  BY <1>1, <1>5, BeforeFacts
<1> QED
  BY <1>1, <1>2, <1>5, <1>6, <1>7 DEF TurnOf

\* Two records at one place are the same when one unit of the data differs.
LEMMA SameFields ==
  ASSUME NEW s \in Seq(Units), NEW t \in Seq(Units), NEW at \in Nat,
         NEW p \in Framing, NEW q \in Framing, Fields(s, at, p), Fields(t, at, q),
         NEW i \in Nat, s[i] # t[i], \A j \in 1 .. Len(s) : j # i => s[j] = t[j],
         Len(s) = Len(t)
  PROVE  p = q
<1> DEFINE n == Len(p.payload)
           m == Len(q.payload)
<1>1. n \in Nat /\ m \in Nat /\ Len(s) \in Nat /\ s \in Seq(Nat) /\ t \in Seq(Nat)
  BY UnitsAreNumbers DEF Framing
<1>2. /\ at + 7 + n <= Len(s) /\ s[at + 1] = 7 + n
      /\ s[at + 2] = p.type
      /\ s[at + 4] = p.sequence /\ s[at + 5] = p.transaction
      /\ s[at + 6] = n /\ Slice(s, at + 6, n) = p.payload
      /\ s[at + 7 + n] = Checksum(Slice(s, at + 1, 5 + n))
  BY DEF Fields, FrameUnits, HeaderUnits
<1>3. /\ at + 7 + m <= Len(t) /\ t[at + 1] = 7 + m
      /\ t[at + 2] = q.type
      /\ t[at + 4] = q.sequence /\ t[at + 5] = q.transaction
      /\ t[at + 6] = m /\ Slice(t, at + 6, m) = q.payload
      /\ t[at + 7 + m] = Checksum(Slice(t, at + 1, 5 + m))
  BY DEF Fields, FrameUnits, HeaderUnits
<1> HIDE DEF n, m
<1>0. at + 7 + n <= Len(s) /\ at + 7 + m <= Len(t)
  BY <1>2, <1>3
<1>4. n = m
  <2> SUFFICES ASSUME n # m PROVE FALSE
    OBVIOUS
  <2>1. at + 1 \in 1 .. Len(s) /\ at + 6 \in 1 .. Len(s) /\ at + 1 # at + 6
    BY <1>0, <1>1
  <2>2. s[at + 1] # t[at + 1] /\ s[at + 6] # t[at + 6]
    BY <1>1, <1>2, <1>3
  <2> QED
    BY <2>1, <2>2
<1> DEFINE a == Slice(s, at + 1, 5 + n)
           b == Slice(t, at + 1, 5 + n)
<1>5. /\ a \in Seq(Units) /\ b \in Seq(Units) /\ Len(a) = 5 + n /\ Len(b) = 5 + n
      /\ \A k \in 1 .. 5 + n : a[k] = s[at + 1 + k] /\ b[k] = t[at + 1 + k]
  <2>1. at + 1 \in Nat /\ 5 + n \in Nat /\ (at + 1) + (5 + n) <= Len(s)
        /\ (at + 1) + (5 + n) <= Len(t)
    BY <1>0, <1>1
  <2>2. /\ a \in Seq(Units) /\ Len(a) = 5 + n
        /\ \A k \in 1 .. 5 + n : a[k] = s[at + 1 + k]
    BY <2>1, SliceUnits
  <2>3. /\ b \in Seq(Units) /\ Len(b) = 5 + n
        /\ \A k \in 1 .. 5 + n : b[k] = t[at + 1 + k]
    BY <2>1, SliceUnits
  <2> QED
    BY <2>2, <2>3
<1>6. s[at + 7 + n] = Checksum(a) /\ t[at + 7 + n] = Checksum(b)
  BY <1>2, <1>3, <1>4
<1> HIDE DEF a, b
<1>7. i \notin at + 2 .. at + 7 + n
  <2>1. CASE i = at + 7 + n
    <3>1. \A k \in 1 .. 5 + n : at + 1 + k \in 1 .. Len(s) /\ at + 1 + k # i
      BY <1>0, <1>1, <2>1
    <3>2. \A k \in 1 .. Len(a) : a[k] = b[k]
      BY <1>5, <3>1
    <3>3. a = b
      BY <1>5, <3>2, SeqEqual
    <3> QED
      BY <1>6, <2>1, <3>3
  <2>2. CASE i \in at + 2 .. at + 6 + n
    <3>1. /\ i - (at + 1) \in 1 .. 5 + n /\ at + 1 + (i - (at + 1)) = i
          /\ \A k \in 1 .. 5 + n : /\ at + 1 + k \in 1 .. Len(s)
                                   /\ k # i - (at + 1) => at + 1 + k # i
      BY <1>0, <1>1, <2>2
    <3> DEFINE j == i - (at + 1)
    <3>2. j \in 1 .. Len(a) /\ a[j] # b[j]
      BY <1>5, <3>1
    <3>3. \A k \in 1 .. Len(a) : k # j => a[k] = b[k]
      BY <1>5, <3>1
    <3> HIDE DEF j
    <3>4. Checksum(a) # Checksum(b)
      BY <1>5, <3>2, <3>3, ChecksumDiffers
    <3>5. at + 7 + n \in 1 .. Len(s) /\ at + 7 + n # i
      BY <1>0, <1>1, <2>2
    <3> QED
      BY <1>6, <3>4, <3>5
  <2> QED
    BY <1>1, <2>1, <2>2
<1>8. \A k \in at + 2 .. at + 7 + n : s[k] = t[k]
  <2> TAKE k \in at + 2 .. at + 7 + n
  <2>1. k \in 1 .. Len(s) /\ k # i
    BY <1>0, <1>1, <1>7
  <2> QED
    BY <2>1
<1>9. /\ p.type = q.type /\ p.sequence = q.sequence /\ p.transaction = q.transaction
  <2>1. at + 2 \in at + 2 .. at + 7 + n /\ at + 4 \in at + 2 .. at + 7 + n
        /\ at + 5 \in at + 2 .. at + 7 + n
    BY <1>1
  <2> QED
    BY <1>2, <1>3, <1>8, <2>1
<1>10. p.payload = q.payload
  <2>1. at + 6 \in Nat /\ (at + 6) + n <= Len(s) /\ (at + 6) + n <= Len(t)
        /\ p.payload = Slice(s, at + 6, n) /\ q.payload = Slice(t, at + 6, n)
    BY <1>0, <1>1, <1>2, <1>3, <1>4
  <2>2. /\ p.payload \in Seq(Units) /\ Len(p.payload) = n
        /\ \A k \in 1 .. n : p.payload[k] = s[at + 6 + k]
    <3>1. /\ Slice(s, at + 6, n) \in Seq(Units) /\ Len(Slice(s, at + 6, n)) = n
          /\ \A k \in 1 .. n : Slice(s, at + 6, n)[k] = s[at + 6 + k]
      BY <1>1, <2>1, SliceUnits
    <3> QED
      BY <2>1, <3>1
  <2>3. /\ q.payload \in Seq(Units) /\ Len(q.payload) = n
        /\ \A k \in 1 .. n : q.payload[k] = t[at + 6 + k]
    <3>1. /\ Slice(t, at + 6, n) \in Seq(Units) /\ Len(Slice(t, at + 6, n)) = n
          /\ \A k \in 1 .. n : Slice(t, at + 6, n)[k] = t[at + 6 + k]
      BY <1>1, <2>1, SliceUnits
    <3> QED
      BY <2>1, <3>1
  <2>4. \A k \in 1 .. n : at + 6 + k \in at + 2 .. at + 7 + n
    BY <1>1
  <2>5. \A k \in 1 .. Len(p.payload) : p.payload[k] = q.payload[k]
    BY <1>8, <2>2, <2>3, <2>4
  <2> QED
    BY <2>2, <2>3, <2>5, SeqEqual
<1> QED
  <2>1. /\ p = [type |-> p.type, sequence |-> p.sequence,
               transaction |-> p.transaction, payload |-> p.payload]
        /\ q = [type |-> q.type, sequence |-> q.sequence,
               transaction |-> q.transaction, payload |-> q.payload]
    BY DEF Framing
  <2> QED
    BY <1>9, <1>10, <2>1

LEMMA NotOneUnit ==
  ASSUME NEW s \in Seq(Units), NEW t \in Seq(Units), NEW p \in Decoded(s),
         NEW q \in Decoded(t), Len(s) = Len(t), NEW i \in 1 .. Len(s), s[i] # t[i],
         \A j \in 1 .. Len(s) : j # i => s[j] = t[j]
  PROVE  FALSE
<1>1. /\ p \in Seq(Framing) /\ Takes(p) /\ Len(p) = s[3] /\ s[3] \in Nat
      /\ Holds(s, 3, Body(p)) /\ Len(s) >= 3 /\ s = Written(p)
      /\ s \in Seq(Nat) /\ SubSeq(s, 1, 2) = Signature
  BY DecodedForm DEF Decoded, HeaderFits
<1>2. /\ q \in Seq(Framing) /\ Takes(q) /\ Len(q) = t[3] /\ t[3] \in Nat
      /\ Holds(t, 3, Body(q)) /\ t = Written(q)
      /\ t \in Seq(Nat) /\ SubSeq(t, 1, 2) = Signature
  BY DecodedForm DEF Decoded, HeaderFits
<1>3. i # 3
  <2> SUFFICES ASSUME i = 3 PROVE FALSE
    OBVIOUS
  <2>1. \A j \in 4 .. Len(s) : s[j] = t[j] /\ t[j] = s[j]
    OBVIOUS
  <2>2. s[3] < t[3] \/ t[3] < s[3]
    BY <1>1, <1>2
  <2>3. ~(s[3] < t[3])
    BY <2>1, NotFewer
  <2>4. ~(t[3] < s[3])
    <3>1. Len(t) = Len(s) /\ \A j \in 4 .. Len(t) : t[j] = s[j]
      BY <2>1
    <3> QED
      BY <3>1, NotFewer
  <2> QED
    BY <2>2, <2>3, <2>4
<1> DEFINE N == Len(p)
<1>4. N \in Nat /\ Len(q) = N
  <2>1. 3 \in 1 .. Len(s)
    BY <1>1
  <2> QED
    BY <1>1, <1>2, <1>3, <2>1
<1>5. p # q
  BY <1>1, <1>2
<1> DEFINE Bad == {n \in 1 .. N : p[n] # q[n]}
<1>6. Bad # {}
  <2> SUFFICES ASSUME Bad = {} PROVE FALSE
    OBVIOUS
  <2>1. \A n \in 1 .. Len(p) : p[n] = q[n]
    OBVIOUS
  <2> QED
    BY <1>1, <1>2, <1>4, <1>5, <2>1, SeqEqual
<1>7. PICK n \in Bad : \A k \in Bad : n <= k
  <2>1. Bad \subseteq Nat
    BY <1>4
  <2> HIDE DEF Bad
  <2> QED
    BY <1>6, <2>1, LeastOf
<1>8. n \in 1 .. N /\ p[n] # q[n] /\ n - 1 \in 0 .. N
  BY <1>4, <1>7
<1>9. Before(p, n - 1) = Before(q, n - 1)
  <2>1. /\ Before(p, n - 1) \in Seq(Framing) /\ Len(Before(p, n - 1)) = n - 1
        /\ \A k \in 1 .. n - 1 : Before(p, n - 1)[k] = p[k]
    BY <1>1, <1>8, BeforeFacts
  <2>2. /\ Before(q, n - 1) \in Seq(Framing) /\ Len(Before(q, n - 1)) = n - 1
        /\ \A k \in 1 .. n - 1 : Before(q, n - 1)[k] = q[k]
    <3>1. n - 1 \in 0 .. Len(q)
      BY <1>4, <1>8
    <3> QED
      BY <1>2, <3>1, BeforeFacts
  <2>3. ASSUME NEW k \in 1 .. n - 1 PROVE p[k] = q[k]
    <3>1. k \in 1 .. N /\ ~(n <= k)
      BY <1>4, <1>8
    <3> QED
      BY <1>7, <3>1
  <2>4. \A k \in 1 .. Len(Before(p, n - 1)) : Before(p, n - 1)[k] = Before(q, n - 1)[k]
    BY <2>1, <2>2, <2>3
  <2> QED
    BY <2>1, <2>2, <2>4, SeqEqual
<1> DEFINE at == 3 + Len(Body(Before(p, n - 1)))
<1>10. at \in Nat
  <2>1. Before(p, n - 1) \in Seq(Framing)
    BY <1>1, <1>8, BeforeFacts
  <2> QED
    BY <2>1, BodyType
<1>11. Holds(s, at, FrameOf(p[n])) /\ p[n] \in Framing
  BY <1>1, <1>8, HoldsNext
<1>12. Holds(t, at, FrameOf(q[n])) /\ q[n] \in Framing
  <2>1. n \in 1 .. Len(q)
    BY <1>4, <1>8
  <2>2. Holds(t, 3 + Len(Body(Before(q, n - 1))), FrameOf(q[n]))
    BY <1>2, <2>1, HoldsNext
  <2> QED
    BY <1>2, <1>9, <2>1, <2>2
<1> HIDE DEF at
<1>13. Fields(s, at, p[n]) /\ Fields(t, at, q[n])
  BY <1>1, <1>2, <1>10, <1>11, <1>12, FrameHeld
<1>14. p[n] = q[n]
  <2>1. i \in Nat
    OBVIOUS
  <2> QED
    BY <1>10, <1>11, <1>12, <1>13, <2>1, SameFields
<1> QED
  BY <1>8, <1>14

\* No change in one place makes another image that is accepted.
LEMMA EditRefused ==
  ASSUME NEW s \in Seq(Units), NEW t \in Edits(s), t \in Seq(Units),
         NEW p \in Decoded(s), NEW q \in Decoded(t)
  PROVE  FALSE
<1>1. Len(s) \in Nat
  OBVIOUS
<1>2. CASE t \in {[s EXCEPT ![i] = u] : i \in 1 .. Len(s), u \in Units} \ {s}
  <2>1. PICK i \in 1 .. Len(s), u \in Units : t = [s EXCEPT ![i] = u]
    BY <1>2
  <2>2. Len(t) = Len(s) /\ \A j \in 1 .. Len(s) : j # i => s[j] = t[j]
    BY <2>1
  <2>3. s[i] # t[i]
    <3> SUFFICES ASSUME s[i] = t[i] PROVE FALSE
      OBVIOUS
    <3>1. \A j \in 1 .. Len(s) : s[j] = t[j]
      BY <2>2
    <3>2. s = t
      BY <2>2, <3>1, SeqEqual
    <3> QED
      BY <1>2, <3>2
  <2> QED
    BY <2>2, <2>3, NotOneUnit
<1>3. CASE t \in {SubSeq(s, 1, n) : n \in 0 .. Len(s) - 1}
  <2>1. PICK n \in 0 .. Len(s) - 1 : t = SubSeq(s, 1, n)
    BY <1>3
  <2>2. Len(t) = n /\ \A i \in 1 .. n : t[i] = s[i]
    BY <1>1, <2>1
  <2>3. Len(t) <= Len(s) /\ Len(t) # Len(s) /\ \A i \in 1 .. Len(t) : s[i] = t[i]
    BY <1>1, <2>2
  <2> QED
    BY <2>3, NotContinued
<1>4. CASE t \in {Append(s, u) : u \in Units}
  <2>1. PICK u \in Units : t = Append(s, u)
    BY <1>4
  <2>2. Len(s) <= Len(t) /\ Len(s) # Len(t) /\ \A i \in 1 .. Len(s) : t[i] = s[i]
    BY <1>1, <2>1
  <2> QED
    BY <2>2, NotContinued
<1> QED
  BY <1>2, <1>3, <1>4 DEF Edits

-----------------------------------------------------------------------------
(* What the data is in every state. *)

\* An image that encode() wrote.
Image(s) == /\ s \in Seq(Units)
            /\ \E q \in Seq(Framing) : /\ Takes(q) /\ Len(q) <= MaxRecords
                                       /\ s = Written(q)

DataInv ==
  /\ data \in Seq(Units)
  /\ kind = "none" => change = "no" /\ data = <<>>
  /\ kind # "none" /\ change = "no" => Image(data)
  /\ change = "damaged" => \E s \in Seq(Units) : Image(s) /\ data \in Edits(s)

\* The frame of a record of small numbers.
LEMMA FrameUnitsType ==
  ASSUME NEW r \in Framing, r.type \in Units, r.sequence \in Units,
         r.transaction \in Units, r.payload \in Seq(Units),
         7 + Len(r.payload) < Word
  PROVE  FrameOf(r) \in Seq(Units)
<1> DEFINE n == Len(r.payload)
           head == <<r.type, 0, r.sequence, r.transaction, n>>
           summed == head \o r.payload
           c == Checksum(summed)
           one == <<FrameUnits + n>>
           last == <<c>>
<1>1. n \in Nat /\ n \in Units /\ 7 + n \in Units /\ 0 \in Units
  BY ImageRecordsAssumption DEF Units
<1> HIDE DEF n
<1>2. head \in Seq(Units)
  BY <1>1
<1> HIDE DEF head
<1>3. summed \in Seq(Units)
  BY <1>2, ConcatUnits
<1> HIDE DEF summed
<1>4. c \in Units
  BY <1>3, UnitsAreNumbers, ChecksumType
<1> HIDE DEF c
<1>5. one \in Seq(Units) /\ last \in Seq(Units)
  BY <1>1, <1>4 DEF FrameUnits
<1> HIDE DEF one, last
<1>6. one \o summed \in Seq(Units)
  BY <1>3, <1>5, ConcatUnits
<1>7. (one \o summed) \o last \in Seq(Units)
  BY <1>5, <1>6, ConcatUnits
<1>8. FrameOf(r) = (one \o summed) \o last
  BY DEF FrameOf, FramedRecord, one, last, c, summed, head, n
<1> QED
  BY <1>7, <1>8

\* The journal's counters fit their fields, and so what is saved is an image.
LEMMA SavedIsImage ==
  ASSUME IInv, Encodable(records)
  PROVE  Image(Encoded(records))
<1> DEFINE q == Framings(records)
           N == Len(q)
<1>1. records \in Seq(JournalRecord) /\ N = Len(records) /\ N \in Nat
      /\ q \in Seq(Framing)
  BY FramingsType DEF IInv, TypeOK
<1>2. Takes(q) /\ N <= MaxRecords
  BY <1>1, EncodableTakes
<1>3. ASSUME NEW i \in 1 .. N PROVE FrameOf(q[i]) \in Seq(Units)
  <2>1. /\ records[i] \in JournalRecord /\ records[i].type \in Types
        /\ records[i].sequence \in Nat /\ records[i].transaction \in Nat
    <3>1. records[i] \in JournalRecord
      BY <1>1
    <3> QED
      BY <3>1 DEF JournalRecord
  <2>2. /\ records[i].sequence < next_sequence /\ records[i].transaction < next_transaction
        /\ next_sequence \in 0 .. MaxNumber + 1 /\ next_transaction \in 0 .. MaxNumber + 1
    BY <1>1 DEF IInv, NumbersFresh, TypeOK, Numbers
  <2>3. MaxNumber \in Nat /\ MaxNumber < Word /\ 8 < Word /\ Word \in Nat
    BY JournalAssumption, FieldsAssumption, ImageRecordsAssumption DEF FrameUnits
  <2>4. records[i].sequence \in Units /\ records[i].transaction \in Units
    BY <2>1, <2>2, <2>3 DEF Units
  <2>5. Code(records[i].type) \in Units
    <3>1. Code(records[i].type) \in 1 .. 5
      BY <2>1, CodeType
    <3> QED
      BY <2>3, <3>1 DEF Units
  <2>6. /\ Payload(records[i]) \in Seq(Units)
        /\ 7 + Len(Payload(records[i])) < Word
    <3>1. records[i].sequence % Word = records[i].sequence
      BY <2>1, <2>3, <2>4, Remainder DEF Units
    <3>2. Payload(records[i]) = <<records[i].sequence>> \/ Payload(records[i]) = <<>>
      BY <3>1 DEF Payload
    <3>3. CASE Payload(records[i]) = <<records[i].sequence>>
      <4> DEFINE x == records[i].sequence
      <4>1. x \in Units
        BY <2>4
      <4> HIDE DEF x
      <4>2. <<x>> \in Seq(Units) /\ Len(<<x>>) = 1
        BY <4>1
      <4> QED
        BY <2>3, <3>3, <4>2 DEF x
    <3>4. CASE Payload(records[i]) = <<>>
      BY <2>3, <3>4
    <3> QED
      BY <3>2, <3>3, <3>4
  <2>7. q[i] = [type |-> Code(records[i].type), sequence |-> records[i].sequence,
                transaction |-> records[i].transaction, payload |-> Payload(records[i])]
    BY <1>1 DEF Framings
  <2>8. q[i] \in Framing
    BY <1>1
  <2> HIDE DEF q
  <2> QED
    BY <2>4, <2>5, <2>6, <2>7, <2>8, FrameUnitsType
<1> HIDE DEF q
<1>4. FramesOf(q) \in Seq(Seq(Units))
  <2> DEFINE T == Seq(Units)
  <2>1. \A i \in 1 .. N : FrameOf(q[i]) \in T
    BY <1>3
  <2> HIDE DEF T
  <2>2. FramesOf(q) \in Seq(T)
    BY <1>1, <2>1 DEF FramesOf
  <2> QED
    BY <2>2 DEF T
<1>5. Body(q) \in Seq(Units)
  <2> DEFINE U == Units
             x == <<>>
  <2>1. FramesOf(q) \in Seq(Seq(U)) /\ x \in Seq(U)
    BY <1>4
  <2> HIDE DEF U, x
  <2>2. FlattenSeq(FramesOf(q)) \in Seq(U)
    BY <2>1, FlattenAppend
  <2> QED
    BY <2>2 DEF Body, U
<1>6. Signature \o <<N>> \in Seq(Units)
  <2>1. N \in Units /\ 1 \in Units /\ 2 \in Units
    <3>1. MaxRecords \in Nat /\ MaxRecords < Word /\ 8 < Word /\ Word \in Nat
      BY JournalAssumption, FieldsAssumption, ImageRecordsAssumption DEF FrameUnits
    <3> QED
      BY <1>1, <1>2, <3>1 DEF Units
  <2>2. Signature \in Seq(Units) /\ <<N>> \in Seq(Units)
    BY <2>1 DEF Signature
  <2> QED
    BY <2>2, ConcatUnits
<1>7. Written(q) \in Seq(Units)
  BY <1>5, <1>6, ConcatUnits DEF Written
<1>8. Encoded(records) = Written(q)
  BY <1>1, EncodedIsWritten DEF q
<1> QED
  BY <1>1, <1>2, <1>7, <1>8 DEF Image

\* Where a record begins in an image, there is one.
LEMMA StartsFit ==
  ASSUME NEW s, Image(s), NEW at \in Starts(s)
  PROVE  /\ s \in Seq(Units) /\ at \in Nat /\ LengthAt(s, at) \in Nat
         /\ LengthAt(s, at) >= 7 /\ at + LengthAt(s, at) <= Len(s)
<1>1. s \in Seq(Units) /\ s \in Seq(Nat)
  BY UnitsAreNumbers DEF Image
<1>2. PICK q \in Seq(Framing) : Takes(q) /\ Len(q) <= MaxRecords /\ s = Written(q)
  BY DEF Image
<1>3. /\ Len(s) = 3 + Len(Body(q)) /\ s[3] = Len(q) /\ Holds(s, 3, Body(q))
      /\ Len(Body(q)) \in Nat
  BY <1>2, WrittenFacts
<1>4. PICK n \in 0 .. s[3] - 1 : at = Decoding(s)[n].at
  BY DEF Starts
<1> DEFINE k == n + 1
<1>5. /\ Len(q) \in Nat /\ Len(s) >= 3 /\ Len(q) <= s[3] /\ n \in 0 .. Len(q)
      /\ k \in 1 .. Len(q) /\ k - 1 = n
  BY <1>3
<1>6. Decoding(s)[n] = TurnOf(q, n)
  BY <1>1, <1>2, <1>3, <1>5, DecodesHeld
<1> HIDE DEF k
<1> DEFINE b == Len(Body(Before(q, n)))
           r == q[k]
           f == Len(FrameOf(r))
<1>7. at = 3 + b /\ b \in Nat
  <2>1. Before(q, n) \in Seq(Framing)
    BY <1>5, BeforeFacts
  <2> QED
    BY <1>4, <1>6, <2>1, BodyType DEF TurnOf
<1>8. Holds(s, 3 + b, FrameOf(r)) /\ r \in Framing
  <2>1. Holds(s, 3 + Len(Body(Before(q, k - 1))), FrameOf(q[k]))
    BY <1>1, <1>3, <1>5, HoldsNext
  <2> QED
    BY <1>5, <2>1
<1> HIDE DEF b, r
<1>9. f = 7 + Len(r.payload) /\ Len(r.payload) \in Nat
  <2>1. Len(FrameOf(r)) = 7 + Len(r.payload)
    BY <1>8, FrameType
  <2>2. r.payload \in Seq(Nat)
    BY <1>8 DEF Framing
  <2> QED
    BY <2>1, <2>2
<1>10. at \in Nat /\ Fields(s, at, r)
  <2>1. at \in Nat /\ Holds(s, at, FrameOf(r))
    BY <1>7, <1>8
  <2> QED
    BY <1>1, <1>8, <2>1, FrameHeld
<1>11. LengthAt(s, at) = f /\ at + f <= Len(s)
  BY <1>7, <1>8, <1>9, <1>10 DEF Fields, LengthAt, Holds, FrameUnits
<1> HIDE DEF f
<1> QED
  BY SMTT(60), <1>1, <1>9, <1>10, <1>11

\* The forgeries of one record.
ForgeriesAt(s, at) ==
  LET summed == Slice(s, at + 1, LengthAt(s, at) - 2)
      rest == SubSeq(s, at + LengthAt(s, at) + 1, Len(s))
  IN {Slice(s, 0, at) \o <<l>> \o t \o <<Checksum(t)>> \o rest :
        l \in Units, t \in Edits(summed) \cup {summed}}

LEMMA ForgeriesType ==
  ASSUME NEW s, Image(s), NEW t \in Forgeries(s)
  PROVE  t \in Seq(Units)
<1>0. Forgeries(s) = UNION {ForgeriesAt(s, at) : at \in Starts(s)}
  BY SMT DEF Forgeries, ForgeriesAt
<1>1. PICK at \in Starts(s) : t \in ForgeriesAt(s, at)
  BY <1>0
<1> DEFINE summed == Slice(s, at + 1, LengthAt(s, at) - 2)
           rest == SubSeq(s, at + LengthAt(s, at) + 1, Len(s))
           head == Slice(s, 0, at)
<1>2. PICK l \in Units, u \in Edits(summed) \cup {summed} :
        t = head \o <<l>> \o u \o <<Checksum(u)>> \o rest
  <2> DEFINE G == Edits(summed) \cup {summed}
             M(l, u) == head \o <<l>> \o u \o <<Checksum(u)>> \o rest
  <2>1. ForgeriesAt(s, at) = {M(l, u) : l \in Units, u \in G}
    BY DEF ForgeriesAt
  <2> HIDE DEF head, rest, summed, G, M
  <2>2. \E l \in Units, u \in G : t = M(l, u)
    BY <1>1, <2>1
  <2> QED
    BY <2>2 DEF G, M
<1>3. /\ s \in Seq(Units) /\ at \in Nat /\ LengthAt(s, at) \in Nat
      /\ LengthAt(s, at) >= 7 /\ at + LengthAt(s, at) <= Len(s) /\ Len(s) \in Nat
  BY StartsFit
<1>4. summed \in Seq(Units)
  <2>1. /\ at + 1 \in Nat /\ LengthAt(s, at) - 2 \in Nat
        /\ (at + 1) + (LengthAt(s, at) - 2) <= Len(s)
    BY <1>3
  <2> QED
    BY <1>3, <2>1, SliceUnits
<1>5. head \in Seq(Units)
  <2> DEFINE o == 0
  <2>1. o \in Nat /\ o + at <= Len(s) /\ head = Slice(s, o, at)
    BY <1>3
  <2> HIDE DEF o, head
  <2> QED
    BY <1>3, <2>1, SliceUnits
<1>6. rest \in Seq(Units)
  <2> DEFINE e == at + LengthAt(s, at)
             d == Len(s) - e
  <2>1. e \in Nat /\ d \in Nat /\ e + d = Len(s) /\ e + d <= Len(s)
    <3>1. e \in Nat /\ e <= Len(s)
      BY <1>3
    <3> HIDE DEF e
    <3> QED
      BY <1>3, <3>1
  <2>2. rest = Slice(s, e, d)
    BY <2>1 DEF Slice
  <2> HIDE DEF e, d, rest
  <2> QED
    BY <1>3, <2>1, <2>2, SliceUnits
<1> HIDE DEF summed, rest, head
<1>7. u \in Seq(Units)
  BY <1>2, <1>4, EditsType
<1>8. Checksum(u) \in Units
  BY <1>7, UnitsAreNumbers, ChecksumType
<1>9. <<l>> \in Seq(Units) /\ <<Checksum(u)>> \in Seq(Units)
  BY <1>2, <1>8
<1>10. head \o <<l>> \in Seq(Units)
  BY <1>5, <1>9, ConcatUnits
<1>11. (head \o <<l>>) \o u \in Seq(Units)
  BY <1>7, <1>10, ConcatUnits
<1>12. ((head \o <<l>>) \o u) \o <<Checksum(u)>> \in Seq(Units)
  BY <1>9, <1>11, ConcatUnits
<1> QED
  BY <1>2, <1>6, <1>12, ConcatUnits

LEMMA DataStart == CodecInit => DataInv
<1> SUFFICES ASSUME CodecInit PROVE DataInv
  OBVIOUS
<1>1. kind = "none" /\ data = <<>> /\ change = "no" /\ <<>> \in Seq(Units)
  BY DEF CodecInit, Nothing
<1> QED
  BY <1>1 DEF DataInv

LEMMA DataStep == IInv /\ DataInv /\ [CodecNext]_all => DataInv'
<1> SUFFICES ASSUME IInv, DataInv, [CodecNext]_all PROVE DataInv'
  OBVIOUS
<1>1. CASE UNCHANGED image
  BY <1>1 DEF DataInv, image, Image, Written, Takes
<1>2. CASE SaveJournal
  <2>1. Encodable(records) /\ data' = Encoded(records) /\ kind' = "journal"
        /\ change' = "no"
    BY <1>2 DEF SaveJournal, Save
  <2>2. Image(data')
    BY <2>1, SavedIsImage
  <2>3. data' \in Seq(Units)
    BY <2>2 DEF Image
  <2> QED
    BY <2>1, <2>2, <2>3 DEF DataInv, Image
<1>3. CASE Damage
  <2>1. kind # "none" /\ change = "no" /\ data' \in Edits(data) /\ change' = "damaged"
        /\ kind' = kind
    BY <1>3 DEF Damage
  <2>2. Image(data) /\ data \in Seq(Units)
    BY <2>1 DEF DataInv
  <2>3. data' \in Seq(Units)
    BY <2>1, <2>2, EditsType
  <2> QED
    BY <2>1, <2>2, <2>3 DEF DataInv
<1>4. CASE Forge("journal", Forgeries(data))
  <2>1. kind = "journal" /\ change = "no" /\ data' \in Forgeries(data)
        /\ change' = "forged" /\ kind' = kind
    BY <1>4 DEF Forge
  <2>2. Image(data)
    BY <2>1 DEF DataInv
  <2>3. data' \in Seq(Units)
    BY <2>1, <2>2, ForgeriesType
  <2> QED
    BY <2>1, <2>3 DEF DataInv
<1> QED
  BY <1>1, <1>2, <1>3, <1>4 DEF CodecNext, all, image

LEMMA DataAlways == CodecSpec => [](IInv /\ DataInv)
<1>1. CodecSpec => []IInv
  BY CodecIsJournal, Invariance, PTL
<1> QED
  BY <1>1, DataStart, DataStep, PTL DEF CodecSpec

LEMMA WithinNow == DataInv => ReadsWithin
<1> SUFFICES ASSUME DataInv, Len(data) >= 3, NEW n \in 0 .. data[3] - 1,
                    NEW turn, turn = Decoding(data)[n], turn.ok,
                    Readable(data, turn.at, HeaderUnits), LengthFits(data, turn.at)
             PROVE  /\ turn.at + LengthAt(data, turn.at) <= Len(data)
                    /\ HeaderUnits + PayloadAt(data, turn.at) < LengthAt(data, turn.at)
  BY DEF ReadsWithin
<1>1. data \in Seq(Nat)
  BY UnitsAreNumbers DEF DataInv
<1>2. turn.at \in Nat
  <2>1. data[3] \in Nat /\ Decoding(data) \in [0 .. data[3] -> Turns]
    BY <1>1, DecodingDefined
  <2>2. n \in 0 .. data[3]
    BY <2>1
  <2>3. turn \in Turns
    BY <2>1, <2>2
  <2> QED
    BY <2>3 DEF Turns
<1> DEFINE L == LengthAt(data, turn.at)
           P == PayloadAt(data, turn.at)
<1>3. /\ L \in Nat /\ P \in Nat /\ 7 + P <= L /\ turn.at + L <= Len(data)
  BY <1>1, <1>2, LengthFacts
<1> HIDE DEF L, P
<1>4. HeaderUnits + P < L
  BY <1>3 DEF HeaderUnits
<1> QED
  BY <1>3, <1>4 DEF L, P

LEMMA OneFormNow == DataInv => JournalOneForm
<1> SUFFICES ASSUME DataInv, NEW q \in Decoded(data)
             PROVE  /\ change # "damaged"
                    /\ data = Signature \o <<Len(q)>> \o FlattenSeq([i \in 1 .. Len(q) |->
                         FramedRecord(q[i].type, q[i].sequence, q[i].transaction, q[i].payload)])
  BY DEF JournalOneForm
<1>1. data \in Seq(Units)
  BY DEF DataInv
<1>2. change # "damaged"
  <2> SUFFICES ASSUME change = "damaged" PROVE FALSE
    OBVIOUS
  <2>1. PICK s \in Seq(Units) : Image(s) /\ data \in Edits(s)
    BY DEF DataInv
  <2>2. PICK p \in Seq(Framing) : Takes(p) /\ Len(p) <= MaxRecords /\ s = Written(p)
    BY <2>1 DEF Image
  <2>3. p \in Decoded(s)
    BY <2>2, DecodedWritten
  <2> QED
    BY <1>1, <2>1, <2>3, EditRefused
<1>3. data = Written(q)
  BY <1>1, DecodedForm
<1> QED
  BY <1>2, <1>3 DEF Written, Body, FramesOf, FrameOf

\* decode() looks at nothing beyond the data, whatever the data: not after a change,
\* not in a record with a forged length (codec.cc, JournalCodec::decode).
THEOREM NothingReadBeyond == CodecSpec => []ReadsWithin
BY DataAlways, WithinNow, PTL

\* No change of one unit of a written journal, of its length either, is accepted,
\* and data that is accepted is what encode() writes of the records in it
\* (codec.cc, JournalCodec).
THEOREM JournalHasOneForm == CodecSpec => []JournalOneForm
BY DataAlways, OneFormNow, PTL
=============================================================================
