------------------------------ MODULE Journal ------------------------------
(***************************************************************************)
(* Journal of src/src/journal.cc: the records, the two counters and the    *)
(* active transaction, and the scan by which load() accepts the records of *)
(* an image and recovers the counters from them.                           *)
(*                                                                         *)
(* The eight mutation types of JournalType differ only in what a reader    *)
(* makes of them and are one type here; targets and payloads are left out, *)
(* except that a payload may be too long.  Sequence and transaction        *)
(* numbers stop at MaxNumber instead of wrapping at 2^64.                  *)
(***************************************************************************)
EXTENDS Naturals, Sequences

CONSTANTS MaxRecords,   \* Limits::max_journal_records
          MaxNumber,    \* bound on sequence and transaction numbers
          Images        \* record sequences of images that may be mounted first

Control == {"begin", "commit", "rollback", "checkpoint"}
Types == Control \cup {"mutation"}

JournalRecord == [type : Types, sequence : Nat, transaction : Nat]

ASSUME JournalAssumption ==
  /\ MaxRecords \in Nat /\ MaxNumber \in Nat
  /\ Images \subseteq Seq(JournalRecord)

VARIABLES records,            \* records_
          next_sequence,      \* next_sequence_
          next_transaction,   \* next_transaction_
          active,             \* active_transaction_, 0 when there is none
          ok                  \* what the last operation returned

vars == <<records, next_sequence, next_transaction, active, ok>>

-----------------------------------------------------------------------------
(* What load() accepts, stated on the records themselves. *)

IsCompletion(r) == r.type \in {"commit", "rollback"}
IsBegin(r) == r.type = "begin"
IsMutation(r) == r.type \notin Control

\* Transaction t is open after the first n records of s.
OpenAfter(s, n, t) ==
  \E b \in 1 .. n : /\ IsBegin(s[b]) /\ s[b].transaction = t
                    /\ \A c \in b + 1 .. n : ~IsBegin(s[c]) /\ ~IsCompletion(s[c])

\* No transaction is open after the first n records of s.
IdleAfter(s, n) ==
  \A b \in 1 .. n : IsBegin(s[b]) => \E c \in b + 1 .. n : IsCompletion(s[c])

\* The state of the scan after n records: transaction t, or none when t = 0.
ScanAfter(s, n, t) == IF t = 0 THEN IdleAfter(s, n) ELSE OpenAfter(s, n, t)

RecordFits(s, i) ==
  /\ s[i].sequence > 0 /\ \A j \in 1 .. i - 1 : s[i].sequence > s[j].sequence
  /\ IsBegin(s[i]) => s[i].transaction # 0 /\ IdleAfter(s, i - 1)
  /\ IsCompletion(s[i]) => /\ s[i].transaction # 0
                           /\ OpenAfter(s, i - 1, s[i].transaction)
  /\ IsMutation(s[i]) => ScanAfter(s, i - 1, s[i].transaction)

Accepts(s) == /\ Len(s) <= MaxRecords
              /\ \A i \in 1 .. Len(s) : RecordFits(s, i)

\* Mutant of LoadedFrom: transactions are numbered from 1 again.
LoadedFromOne(s, ns, nt, a) ==
  /\ ns = IF s = <<>> THEN 1 ELSE s[Len(s)].sequence + 1
  /\ nt = 1 /\ ScanAfter(s, Len(s), a)

\* The state load() leaves behind when it accepts s.
LoadedFrom(s, ns, nt, a) ==
  /\ ns = IF s = <<>> THEN 1 ELSE s[Len(s)].sequence + 1
  /\ nt > 0 /\ \A i \in 1 .. Len(s) : s[i].transaction < nt
  /\ nt = 1 \/ \E i \in 1 .. Len(s) : s[i].transaction + 1 = nt
  /\ ScanAfter(s, Len(s), a)

Numbers == 0 .. MaxNumber + 1

\* A new FileSystem's journal is empty; a mounted one comes from an image.
Init == /\ records \in Images \cup {<<>>}
        /\ Accepts(records)
        /\ next_sequence \in Numbers
        /\ next_transaction \in Numbers
        /\ active \in Numbers
        /\ LoadedFrom(records, next_sequence, next_transaction, active)
        /\ ok = TRUE

-----------------------------------------------------------------------------
\* Mutant of Full: one record too many.
FullLate == Len(records) > MaxRecords

Full == Len(records) >= MaxRecords

Refuse == ok' = FALSE /\ UNCHANGED <<records, next_sequence, next_transaction, active>>

\* records_.push_back({type, next_sequence_++, t, ...})
Push(type, t) ==
  /\ records' = Append(records, [type |-> type, sequence |-> next_sequence,
                                 transaction |-> t])
  /\ next_sequence' = next_sequence + 1
  /\ ok' = TRUE

\* The model's bound on the two counters, not a check of the code.
BelowBound == next_sequence <= MaxNumber /\ next_transaction <= MaxNumber

Begin == /\ BelowBound
         /\ IF active # 0 \/ Full
            THEN Refuse
            ELSE /\ Push("begin", next_transaction)
                 /\ next_transaction' = next_transaction + 1
                 /\ active' = next_transaction

AppendRecord(type, oversize) ==
  /\ BelowBound
  /\ IF active = 0 \/ type \in Control \/ Full \/ oversize
     THEN Refuse
     ELSE Push(type, active) /\ UNCHANGED <<next_transaction, active>>

\* commit() and rollback() of the journal differ in the record they write.
Complete(type) ==
  /\ BelowBound
  /\ IF active = 0 \/ Full
     THEN Refuse
     ELSE Push(type, active) /\ active' = 0 /\ UNCHANGED next_transaction

Commit == Complete("commit")
Rollback == Complete("rollback")

Checkpoint ==
  /\ BelowBound
  /\ IF active # 0 \/ Full
     THEN Refuse
     ELSE Push("checkpoint", 0) /\ UNCHANGED <<next_transaction, active>>

\* Mutant of Clear: the active transaction is kept.
ClearRecords == /\ records' = <<>> /\ ok' = TRUE
                /\ UNCHANGED <<next_sequence, next_transaction, active>>

\* clear() keeps both counters.
Clear == /\ records' = <<>> /\ active' = 0 /\ ok' = TRUE
         /\ UNCHANGED <<next_sequence, next_transaction>>

\* serialize() and mount() of the journal's own records.
Reload == IF Accepts(records)
          THEN /\ \E ns, nt, a \in Numbers :
                    /\ LoadedFrom(records, ns, nt, a)
                    /\ next_sequence' = ns /\ next_transaction' = nt /\ active' = a
               /\ ok' = TRUE
               /\ UNCHANGED records
          ELSE Refuse

Next == \/ Begin
        \/ \E type \in Types, oversize \in BOOLEAN : AppendRecord(type, oversize)
        \/ Commit \/ Rollback \/ Checkpoint
        \/ Clear \/ Reload

Spec == Init /\ [][Next]_vars

-----------------------------------------------------------------------------
\* The state is well typed.
TypeOK == /\ records \in Seq(JournalRecord)
          /\ next_sequence \in Numbers \ {0}
          /\ next_transaction \in Numbers \ {0}
          /\ active \in Numbers
          /\ ok \in BOOLEAN

\* Whatever the operations did, load() accepts the journal again and recovers
\* the transaction that is active now: a serialized image can be mounted.
Reloadable == /\ Accepts(records)
              /\ ScanAfter(records, Len(records), active)

\* The counters are ahead of every number in the records, so that a BEGIN
\* never reuses a transaction and a record never repeats a sequence number,
\* also after clear() and after a reload that recovers the counters.
NumbersFresh == /\ \A i \in 1 .. Len(records) :
                     /\ records[i].sequence < next_sequence
                     /\ records[i].transaction < next_transaction
                /\ active < next_transaction

\* FileSystem can think of the journal as a bounded log with at most one open
\* transaction, in which only clear() makes room.
Log == INSTANCE TransactionLog
         WITH length <- Len(records), open <- (active # 0)
BoundedLog == Log!Spec
=============================================================================
