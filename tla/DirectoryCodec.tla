--------------------------- MODULE DirectoryCodec ---------------------------
(***************************************************************************)
(* DirectoryCodec of src/src/codec.cc with DirectoryEntry::validate of     *)
(* base.cc.  An entry is written in a record of its own length, which a    *)
(* rename or another program can have chosen larger than needed; what is   *)
(* left of it is padding.                                                  *)
(***************************************************************************)
EXTENDS InodeCodec

VARIABLE entries       \* the entries of one directory

DirectorySignature == 4
EntryUnits == 5        \* 16 bytes
Alignment == 2         \* 8 bytes
Separator == 0         \* a character that no name has: '/' or NUL

\* aligned_directory_length()
AlignedLength(n) == ((EntryUnits + n + Alignment - 1) \div Alignment) * Alignment

EntryValid(e) ==
  /\ e.inode # 0 /\ e.type \in Regular .. SymbolicLink
  /\ Len(e.name) \in 1 .. MaxName /\ Separator \notin Range(e.name)
  /\ e.record_length = 0 \/ /\ e.record_length >= AlignedLength(Len(e.name))
                            /\ e.record_length % Alignment = 0

RecordLength(e) == IF e.record_length = 0 THEN AlignedLength(Len(e.name)) ELSE e.record_length

\* Looked at for entries that are valid, it always holds.
FitsRecord(e) == EntryUnits + Len(e.name) <= RecordLength(e)

EntriesEncodable(es) ==
  Len(es) <= MaxEntries /\ \A k \in 1 .. Len(es) : EntryValid(es[k]) /\ FitsRecord(es[k])

Padding(n) == [k \in 1 .. n |-> 0]

\* Mutant of EncodedEntry: it is not padded.
EncodedEntryBare(e) ==
  <<RecordLength(e), e.inode, e.type, IF e.deleted THEN 1 ELSE 0, Len(e.name)>> \o e.name

EncodedEntry(e) ==
  <<RecordLength(e), e.inode, e.type, IF e.deleted THEN 1 ELSE 0, Len(e.name)>>
    \o e.name \o Padding(RecordLength(e) - EntryUnits - Len(e.name))

EncodedEntries(es) ==
  Sealed(<<DirectorySignature, Len(es)>>
           \o FlattenSeq([k \in 1 .. Len(es) |-> EncodedEntry(es[k])]))

-----------------------------------------------------------------------------
EntryAt(s, at) == [record_length |-> s[at + 1], inode |-> s[at + 2], type |-> s[at + 3],
                   deleted |-> s[at + 4] = 1, name |-> Slice(s, at + EntryUnits, s[at + 5])]

\* The record has room for its header and its name, and the body for it.
EntryFits(s, at) ==
  /\ s[at + 1] >= EntryUnits /\ s[at + 1] % Alignment = 0
  /\ s[at + 1] <= Len(s) - at
  /\ s[at + 5] <= s[at + 1] - EntryUnits
  /\ s[at + 5] <= MaxName /\ Flag(s[at + 4])

ReadEntry(s, read) ==
  IF /\ read.ok
     /\ Readable(s, read.at, EntryUnits)
     /\ EntryFits(s, read.at)
     /\ EntryValid(EntryAt(s, read.at))
  THEN [ok |-> TRUE, at |-> read.at + s[read.at + 1],
        list |-> Append(read.list, EntryAt(s, read.at))]
  ELSE [read EXCEPT !.ok = FALSE]

ReadEntries(s, n) ==
  LET after[k \in 0 .. n] == IF k = 0 THEN [ok |-> TRUE, at |-> 1, list |-> <<>>]
                             ELSE ReadEntry(s, after[k - 1])
  IN after[n]

\* The entries that decode() returns, if it does.
DecodedEntries(s) ==
  LET body == SubSeq(s, 2, Len(s) - 1)
      read == ReadEntries(body, body[1])
  IN IF /\ Len(s) >= 3 /\ s[1] = DirectorySignature /\ Intact(s)
        /\ body[1] <= MaxEntries
        /\ read.ok /\ AllRead(body, read.at)
     THEN {read.list} ELSE {}
=============================================================================
