---------------------------- MODULE JournalTools ----------------------------
(***************************************************************************)
(* The two inspection tools that look at the transactions of a journal,    *)
(* src/tools/python/journal_audit.py and src/tools/java/JournalReport.java,*)
(* next to load() and the consistency checker: the four read the same      *)
(* records, one at a time.  Of the tools' reports only whether there is    *)
(* any warning is kept.                                                    *)
(***************************************************************************)
EXTENDS JournalScan

VARIABLES python,   \* the locals of audit() in journal_audit.py
          java      \* the locals of report() in JournalReport.java

readers == <<input, scan, audit, python, java>>

IsCheckpoint(r) == r.type = "checkpoint"

\* What journal_audit.py objects to in record r; `active` are the transactions
\* begun and not completed, `complete` those that have an outcome.
PythonWarns(r) ==
  \/ r.sequence <= python.previous
  \/ IsCheckpoint(r) /\ (python.active # {} \/ r.transaction # 0)
  \/ IsBegin(r) /\ (r.transaction = 0 \/ r.transaction \in python.active)
  \/ /\ IsCompletion(r)
     /\ r.transaction \notin python.active \/ r.transaction \in python.complete
  \/ IsMutation(r) /\ r.transaction \notin python.active

PythonStart == [previous |-> 0, active |-> {}, complete |-> {}, warned |-> FALSE]

PythonRecord(r) ==
  python' = [previous |-> r.sequence,
             active |-> IF IsBegin(r) THEN python.active \cup {r.transaction}
                        ELSE IF IsCompletion(r) THEN python.active \ {r.transaction}
                        ELSE python.active,
             complete |-> IF IsCompletion(r) THEN python.complete \cup {r.transaction}
                          ELSE python.complete,
             warned |-> python.warned \/ PythonWarns(r)]

\* After the loop it warns of every transaction that is still active.
PythonReports == python.warned \/ python.active # {}

\* JournalReport.java knows one active transaction.  Its decoder refuses
\* sequence numbers that do not ascend (and, its numbers being signed, those from
\* 2^63 on, which is left out).
JavaWarns(r) ==
  \/ (IsCheckpoint(r) \/ IsBegin(r)) /\ java.active # 0
  \/ IsCompletion(r) /\ (r.transaction # java.active \/ r.transaction \in java.complete)
  \/ IsMutation(r) /\ r.transaction # java.active

JavaStart == [active |-> 0, complete |-> {}, warned |-> FALSE]

JavaRecord(r) ==
  java' = [active |-> IF IsBegin(r) THEN r.transaction
                      ELSE IF IsCompletion(r) THEN 0 ELSE java.active,
           complete |-> IF IsCompletion(r) THEN java.complete \cup {r.transaction}
                        ELSE java.complete,
           warned |-> java.warned \/ JavaWarns(r)]

JavaReports == java.warned \/ java.active # 0

-----------------------------------------------------------------------------
ReadersInit == /\ input = <<>> /\ scan = ScanStart /\ audit = AuditStart
               /\ python = PythonStart /\ java = JavaStart

\* Each of the loops takes a turn.  What load() refuses stays refused, whatever
\* follows.
ReadOne == /\ Len(input) < MaxInput /\ scan.ok
           /\ \E r \in Alphabet :
                /\ input' = Append(input, r)
                /\ ScanRecord(r) /\ AuditRecord(r) /\ PythonRecord(r) /\ JavaRecord(r)

ReadersSpec == ReadersInit /\ [][ReadOne]_readers

-----------------------------------------------------------------------------
\* A checkpoint is inside a transaction.
Interrupted(s) ==
  \E i \in 1 .. Len(s) : IsCheckpoint(s[i]) /\ ~IdleAfter(s, i - 1)

\* A number has been used for two transactions.
Reused(s) ==
  \E i, j \in 1 .. Len(s) : /\ i < j /\ IsCompletion(s[i]) /\ IsCompletion(s[j])
                            /\ s[i].transaction = s[j].transaction

Numbered(s) == \E i \in 1 .. Len(s) : IsCheckpoint(s[i]) /\ s[i].transaction # 0

\* Of a journal that load() accepts both tools warn when a transaction is open
\* at its end, a checkpoint is inside a transaction, or a number has been used
\* for two transactions; journal_audit.py alone warns of a checkpoint with a
\* transaction number and of a mutation outside any transaction.
Suspect(s) == ~IdleAfter(s, Len(s)) \/ Interrupted(s) \/ Reused(s)

ToolsFollowLoad ==
  Loaded => /\ JavaReports <=> Suspect(input)
            /\ PythonReports <=> Suspect(input) \/ Numbered(input) \/ Unowned(input) # {}

\* The four programs that follow the transactions of a journal with code of
\* their own disagree about a journal that can be mounted only as stated.
ReadersAgree == LoadIsAccepts /\ AuditFollowsLoad /\ ToolsFollowLoad
=============================================================================
