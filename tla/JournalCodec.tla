---------------------------- MODULE JournalCodec ----------------------------
(***************************************************************************)
(* JournalCodec of src/src/codec.cc, which finds its way through the data  *)
(* by hand and without the bounds-checked reader.  A record is             *)
(*                                                                         *)
(*   length type flags sequence transaction payload_length payload sum     *)
(*                                                                         *)
(* where the length counts all of it and the sum covers all but the length *)
(* and itself; target and generation are carried along with the payload    *)
(* and left out.  The payload of a mutation is one unit here.  The bound   *)
(* on the length of the data, max_image_bytes, is left out.                *)
(***************************************************************************)
EXTENDS JournalTools, ImageRecords

CONSTANT MaxPayload      \* Limits::max_file_bytes

\* The payload of a mutation fits, and a length is not the one below zero.
ASSUME JournalCodecAssumption == MaxPayload \in 1 .. Word - 2

HeaderUnits == 6         \* 44 bytes
FrameUnits == 7          \* 48 bytes: the header and the sum
Signature == <<1, 2>>    \* the magic bytes and the version

\* What the journal counts to and the longest record it makes fit their fields.
ASSUME FieldsAssumption ==
  MaxNumber < Word /\ MaxRecords < Word /\ FrameUnits + 1 < Word

TypeCodes == <<"begin", "mutation", "commit", "rollback", "checkpoint">>
Code(type) == CHOOSE k \in 1 .. Len(TypeCodes) : TypeCodes[k] = type
Payload(r) == IF IsMutation(r) THEN <<r.sequence % Word>> ELSE <<>>

-----------------------------------------------------------------------------
\* Mutant of FramedRecord: the sum is missing from the length.
FramedShort(type, sequence, transaction, payload) ==
  LET summed == <<type, 0, sequence, transaction, Len(payload)>> \o payload
  IN <<HeaderUnits + Len(payload)>> \o summed \o <<Checksum(summed)>>

FramedRecord(type, sequence, transaction, payload) ==
  LET summed == <<type, 0, sequence, transaction, Len(payload)>> \o payload
  IN <<FrameUnits + Len(payload)>> \o summed \o <<Checksum(summed)>>

Frame(r) == FramedRecord(Code(r.type), r.sequence, r.transaction, Payload(r))

\* encode() refuses a journal whose sequence numbers do not ascend.
Encodable(s) == /\ Len(s) <= MaxRecords
                /\ \A i \in 1 .. Len(s) : s[i].sequence > 0 /\ Len(Payload(s[i])) <= MaxPayload
                /\ \A i \in 2 .. Len(s) : s[i].sequence > s[i - 1].sequence

Encoded(s) == Signature \o <<Len(s)>> \o FlattenSeq([i \in 1 .. Len(s) |-> Frame(s[i])])

-----------------------------------------------------------------------------
(* decode(): the loop has the position after the last record, and reads    *)
(* are given as the positions that the turn at `at` touches.               *)

LengthAt(s, at) == s[at + 1]
PayloadAt(s, at) == s[at + HeaderUnits]

\* Mutant of LengthFits: the bound on payloads is not tested.
LengthFitsLoosely(s, at) ==
  /\ LengthAt(s, at) >= HeaderUnits /\ LengthAt(s, at) <= Len(s) - at
  /\ PayloadAt(s, at) = (LengthAt(s, at) - FrameUnits) % Word

\* The length is at least that of the header, 4 bytes less than a record takes;
\* a shorter payload than none is one of 2^32 - 1 or a little less.
LengthFits(s, at) ==
  /\ LengthAt(s, at) >= HeaderUnits /\ LengthAt(s, at) <= Len(s) - at
  /\ PayloadAt(s, at) = (LengthAt(s, at) - FrameUnits) % Word
  /\ PayloadAt(s, at) <= MaxPayload

SumFits(s, at) ==
  s[at + LengthAt(s, at)] = Checksum(Slice(s, at + 1, LengthAt(s, at) - 2))

\* Mutant of FieldsFit: the flags are not looked at.
FieldsFitAnyFlags(s, at, previous) ==
  s[at + 2] \in 1 .. Len(TypeCodes) /\ s[at + 4] > previous

FieldsFit(s, at, previous) ==
  /\ s[at + 3] = 0
  /\ s[at + 2] \in 1 .. Len(TypeCodes) /\ s[at + 4] > previous

Framed(s, at) == [type |-> s[at + 2], sequence |-> s[at + 4], transaction |-> s[at + 5],
                  payload |-> Slice(s, at + HeaderUnits, PayloadAt(s, at))]

\* One turn of the loop.
DecodeTurn(s, turn) ==
  IF /\ turn.ok
     /\ Readable(s, turn.at, HeaderUnits)
     /\ LengthFits(s, turn.at)
     /\ SumFits(s, turn.at)
     /\ FieldsFit(s, turn.at, turn.previous)
  THEN [ok |-> TRUE, at |-> turn.at + LengthAt(s, turn.at),
        previous |-> s[turn.at + 4],
        records |-> Append(turn.records, Framed(s, turn.at))]
  ELSE [turn EXCEPT !.ok = FALSE]

\* The loop after n turns.
Decoding(s) ==
  LET after[n \in 0 .. s[3]] ==
        IF n = 0 THEN [ok |-> TRUE, at |-> 3, previous |-> 0, records |-> <<>>]
        ELSE DecodeTurn(s, after[n - 1])
  IN after

HeaderFits(s) == /\ Len(s) >= 3 /\ SubSeq(s, 1, 2) = Signature
                 /\ s[3] <= MaxRecords

\* The records that decode() returns, if it does.
Decoded(s) ==
  LET end == Decoding(s)[s[3]]
  IN IF HeaderFits(s) /\ end.ok /\ end.at = Len(s) THEN {end.records} ELSE {}

-----------------------------------------------------------------------------
(* A journal at work, journals to be read, and images of small journals    *)
(* that are changed in one place.                                          *)

CONSTANT MaxSaved        \* bound on the sequence numbers of images to change

all == <<vars, readers, image>>

\* Where the records of an image begin.
Starts(s) == {Decoding(s)[n].at : n \in 0 .. s[3] - 1}

\* A record with any length and one change in what it sums.
Forgeries(s) ==
  UNION {LET summed == Slice(s, at + 1, LengthAt(s, at) - 2)
             rest == SubSeq(s, at + LengthAt(s, at) + 1, Len(s))
         IN {Slice(s, 0, at) \o <<l>> \o t \o <<Checksum(t)>> \o rest :
               l \in Units, t \in Edits(summed) \cup {summed}} : at \in Starts(s)}

SaveJournal == /\ next_sequence <= MaxSaved
               /\ Encodable(records) /\ Save("journal", Encoded(records))

CodecInit == Init /\ ReadersInit /\ Nothing
CodecNext ==
  \/ input = <<>> /\ Nothing /\ Next /\ UNCHANGED <<readers, image>>
  \/ vars = <<<<>>, 1, 1, 0, TRUE>> /\ Nothing /\ ReadOne /\ UNCHANGED <<vars, image>>
  \/ /\ input = <<>> /\ UNCHANGED <<vars, readers>>
     /\ SaveJournal \/ Damage \/ Forge("journal", Forgeries(data))
CodecSpec == CodecInit /\ [][CodecNext]_all

\* Whatever the journal has been through, encode() takes it and decode() gives
\* back the same records.
JournalReadBack ==
  /\ Encodable(records)
  /\ Decoded(Encoded(records)) =
       {[i \in 1 .. Len(records) |->
           [type |-> Code(records[i].type), sequence |-> records[i].sequence,
            transaction |-> records[i].transaction, payload |-> Payload(records[i])]]}

\* A journal that differs from a written one in one unit, or that is cut short
\* or goes on, is refused, although nothing sums the number of the records, nor
\* their lengths; and data that decode() accepts, right sums or not, is what
\* encode() makes of the records it returns: nothing in it is overlooked.
JournalOneForm ==
  \A rs \in IF change = "no" THEN {} ELSE Decoded(data) :
    /\ change # "damaged"
    /\ data = Signature \o <<Len(rs)>> \o FlattenSeq([i \in 1 .. Len(rs) |->
                FramedRecord(rs[i].type, rs[i].sequence, rs[i].transaction, rs[i].payload)])

\* decode() reads nothing beyond the data, and a payload ends where the sum
\* begins, although the bound on lengths lets a record without a sum pass.
ReadsWithin ==
  Len(data) >= 3 =>
    \A n \in 0 .. data[3] - 1 :
      LET turn == Decoding(data)[n] IN
      turn.ok /\ Readable(data, turn.at, HeaderUnits) /\ LengthFits(data, turn.at) =>
        /\ turn.at + LengthAt(data, turn.at) <= Len(data)
        /\ HeaderUnits + PayloadAt(data, turn.at) < LengthAt(data, turn.at)
=============================================================================
