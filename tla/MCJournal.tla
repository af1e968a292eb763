----------------------------- MODULE MCJournal -----------------------------
(* Journals that start empty or from any image of at most two records, and *)
(* inputs over four sequence numbers and three transaction numbers.        *)
EXTENDS JournalCodec

MCRecords == [type : Types, sequence : 1 .. 2, transaction : 0 .. 2]
MCImages == {<<>>} \cup {<<r>> : r \in MCRecords}
                   \cup {<<r, s>> : r \in MCRecords, s \in MCRecords}
MCAlphabet == [type : Types, sequence : 1 .. 4, transaction : 0 .. 2]
=============================================================================
