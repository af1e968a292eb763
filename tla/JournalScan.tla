---------------------------- MODULE JournalScan ----------------------------
(***************************************************************************)
(* The two loops that read a journal: Journal::load (journal.cc:89-120)    *)
(* and the consistency checker's pass over the records (checker.cc:206-    *)
(* 238), one turn at a time.  Module JournalTools lets them read the same  *)
(* records, and compares them with each other and with Accepts, which      *)
(* module Journal uses for the first.                                      *)
(***************************************************************************)
EXTENDS Journal, FiniteSets

CONSTANTS Alphabet,     \* the records an input is made of
          MaxInput      \* bound on the length of an input

ASSUME ScanAssumption == Alphabet \subseteq JournalRecord /\ MaxInput \in Nat

VARIABLES input,        \* the records that have been read
          scan,         \* the locals of load()
          audit         \* the locals of check() and its count of errors

-----------------------------------------------------------------------------
(* Journal::load. *)

\* ok is FALSE once the loop has returned an error.
ScanStart == [ok |-> TRUE, previous |-> 0, open |-> 0, maximum |-> 0]

Continues(r) ==
  /\ r.sequence > scan.previous
  /\ IsBegin(r) => scan.open = 0 /\ r.transaction # 0
  /\ IsCompletion(r) => scan.open # 0 /\ r.transaction = scan.open
  /\ IsMutation(r) => r.transaction = scan.open

ScanRecord(r) ==
  scan' = IF ~Continues(r) THEN [scan EXCEPT !.ok = FALSE]
          ELSE [ok |-> TRUE,
                previous |-> r.sequence,
                open |-> IF IsBegin(r) THEN r.transaction
                         ELSE IF IsCompletion(r) THEN 0 ELSE scan.open,
                maximum |-> IF r.transaction > scan.maximum THEN r.transaction
                            ELSE scan.maximum]

\* load() accepts a journal that consists of the records read so far.
Loaded == Len(input) <= MaxRecords /\ scan.ok

-----------------------------------------------------------------------------
(* The checker. *)

AuditStart == [previous |-> 0, open |-> {}, errors |-> 0]

\* Mutant of Wrong: a checkpoint is held to the rule for mutations.
WrongCheckpoint(r) ==
  (IF r.sequence <= audit.previous THEN 1 ELSE 0) +
  (IF \/ IsBegin(r) /\ r.transaction \in audit.open
      \/ ~IsBegin(r) /\ r.transaction \notin audit.open
   THEN 1 ELSE 0)

\* The errors record r adds to the report.
Wrong(r) ==
  (IF r.sequence <= audit.previous THEN 1 ELSE 0) +
  (IF \/ IsBegin(r) /\ r.transaction \in audit.open
      \/ (IsCompletion(r) \/ IsMutation(r)) /\ r.transaction \notin audit.open
   THEN 1 ELSE 0)

AuditRecord(r) ==
  audit' = [previous |-> r.sequence,
            open |-> IF IsBegin(r) THEN audit.open \cup {r.transaction}
                     ELSE IF IsCompletion(r) THEN audit.open \ {r.transaction}
                     ELSE audit.open,
            errors |-> audit.errors + Wrong(r)]

-----------------------------------------------------------------------------
\* The loop of load() accepts exactly the sequences Accepts describes, and
\* finds in them the open transaction and the numbers LoadedFrom describes.
LoadIsAccepts ==
  /\ Loaded <=> Accepts(input)
  /\ Loaded => LoadedFrom(input, scan.previous + 1, scan.maximum + 1, scan.open)

\* The mutations outside any transaction.
Unowned(s) == {i \in 1 .. Len(s) : IsMutation(s[i]) /\ s[i].transaction = 0}

\* The checker reports an error in a journal that load() has accepted only
\* for a mutation outside any transaction, which load() lets pass; and it
\* calls incomplete exactly the transaction load() recovers as active.
AuditFollowsLoad ==
  Loaded => /\ audit.errors = Cardinality(Unowned(input))
            /\ audit.open = IF scan.open = 0 THEN {} ELSE {scan.open}
=============================================================================
