---------------------------- MODULE ImageRecords ----------------------------
(***************************************************************************)
(* What the three codecs of src/src/codec.cc have in common, and how the   *)
(* bytes that they are given to decode come about: an encoded record is    *)
(* read as it was written, or after a change on the medium, or from a      *)
(* program that changed it and made its checksums right again.             *)
(*                                                                         *)
(* An image is a sequence of units; a field of an encoding takes one unit, *)
(* whatever its width, and so does each byte of a string.  Lengths and     *)
(* positions count units.                                                  *)
(***************************************************************************)
EXTENDS Integers, SequencesExt

CONSTANT Word     \* the values of a unit are 0 .. Word - 1

ASSUME ImageRecordsAssumption == Word \in Nat /\ Word > 1

VARIABLES kind,      \* which codec the data is for, "none" before any is written
          data,      \* the units
          change     \* "no", "damaged" or "forged"

image == <<kind, data, change>>
Nothing == kind = "none" /\ data = <<>> /\ change = "no"

Units == 0 .. Word - 1

\* crc32(): all that is used of it here is that it tells apart two sequences of
\* the same length that differ in one unit.
Checksum(s) ==
  LET sum[n \in 0 .. Len(s)] == IF n = 0 THEN 0 ELSE (sum[n - 1] + s[n]) % Word
  IN sum[Len(s)]

\* A reader at position `at` has n units left to read; what it reads then.
Readable(s, at, n) == at + n <= Len(s)
Slice(s, at, n) == SubSeq(s, at + 1, at + n)

\* Changes of one unit, and of the length.
Edits(s) ==
  ({[s EXCEPT ![i] = u] : i \in 1 .. Len(s), u \in Units} \ {s})
    \cup {SubSeq(s, 1, n) : n \in 0 .. Len(s) - 1}
    \cup {Append(s, u) : u \in Units}

Save(k, s) == kind = "none" /\ kind' = k /\ data' = s /\ change' = "no"

\* The medium changes what was written.
Damage == /\ kind # "none" /\ change = "no"
          /\ data' \in Edits(data) /\ change' = "damaged" /\ UNCHANGED kind

\* So does a program, one that knows the format.
Forge(k, forgeries) == /\ kind = k /\ change = "no"
                       /\ data' \in forgeries /\ change' = "forged" /\ UNCHANGED kind
=============================================================================
