--------------------------- MODULE TransactionLog ---------------------------
(***************************************************************************)
(* What the journal promises to FileSystem, which never looks inside it: a *)
(* log of bounded length in which at most one transaction is open.  Every  *)
(* successful operation costs one record and no operation gives one back;  *)
(* only clear(), which format() calls, and an image that is mounted,       *)
(* replace the log.                                                        *)
(***************************************************************************)
EXTENDS Naturals

CONSTANT MaxRecords    \* Limits::max_journal_records

VARIABLES length,      \* number of records
          open,        \* is a transaction open?
          ok           \* did the last operation succeed?

logVars == <<length, open, ok>>

Room == length < MaxRecords

Grow(opened) == length' = length + 1 /\ open' = opened /\ ok' = TRUE
Fail == ok' = FALSE /\ UNCHANGED <<length, open>>

Init == length \in 0 .. MaxRecords /\ open \in BOOLEAN /\ ok = TRUE

Begin == IF ~open /\ Room THEN Grow(TRUE) ELSE Fail
Mutate == \/ open /\ Room /\ Grow(TRUE)
          \/ Fail                       \* a control type or a long payload
Finish == IF open /\ Room THEN Grow(FALSE) ELSE Fail
Checkpoint == IF ~open /\ Room THEN Grow(FALSE) ELSE Fail
Clear == length' = 0 /\ open' = FALSE /\ ok' = TRUE
Reload == ok' = TRUE /\ UNCHANGED <<length, open>>

Next == Begin \/ Mutate \/ Finish \/ Checkpoint \/ Clear \/ Reload

Spec == Init /\ [][Next]_logVars
=============================================================================
