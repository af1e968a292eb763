---------------------------- MODULE AtomicStore ----------------------------
(***************************************************************************)
(* What begin, commit and rollback promise: an undo copy of the whole      *)
(* store that no operation touches, that rollback puts back and commit     *)
(* drops.  A begin, commit or rollback that fails changes nothing.         *)
(* Mounting, formatting and losing the process replace the store and end   *)
(* whatever transaction there was.                                         *)
(***************************************************************************)
CONSTANTS Trees,      \* the contents a store can have
          NoUndo      \* no transaction is active

VARIABLES working,    \* what the operations see
          undo,       \* what rollback would put back
          call        \* the last call and whether it succeeded

Calls == {"operate", "begin", "commit", "rollback", "replace"}

Did(op, ok) == call' = [op |-> op, ok |-> ok]

Init == working \in Trees /\ undo = NoUndo /\ call = [op |-> "replace", ok |-> TRUE]

\* An operation on files, a checkpoint, a serialization.
Operate == /\ working' \in Trees /\ undo' = undo
           /\ \E ok \in BOOLEAN : Did("operate", ok)

Begin == /\ undo = NoUndo /\ undo' = working /\ working' = working
         /\ Did("begin", TRUE)
Commit == /\ undo # NoUndo /\ undo' = NoUndo /\ working' = working
          /\ Did("commit", TRUE)
Rollback == /\ undo # NoUndo /\ undo' = NoUndo /\ working' = undo
            /\ Did("rollback", TRUE)
Fail == /\ UNCHANGED <<working, undo>>
        /\ \E op \in Calls : Did(op, FALSE)
Replace == /\ working' \in Trees /\ undo' = NoUndo
           /\ \E ok \in BOOLEAN : Did("replace", ok)

Next == Operate \/ Begin \/ Commit \/ Rollback \/ Fail \/ Replace
Spec == Init /\ [][Next]_<<working, undo, call>>
=============================================================================
