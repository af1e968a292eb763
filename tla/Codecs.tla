------------------------------- MODULE Codecs -------------------------------
(***************************************************************************)
(* Extents, attributes and directory entries as they come, what the codecs *)
(* make of them, and what they make of the result after a change.          *)
(***************************************************************************)
EXTENDS DirectoryCodec

CONSTANTS MaxCoded,     \* bound on the extents of an inode that is read back
          MaxSet        \* bound on the attributes of an inode

\* The files that are put together have sizes that are allowed.
ASSUME CodecsAssumption ==
  /\ MaxCoded \in 0 .. MaxExtents /\ MaxSet \in Nat
  /\ LogicalBlocks <= MaxSize /\ MaxCoded * MaxCount <= MaxSize

\* What the limits allow fits the fields it is written in.
ASSUME FieldsAssumption ==
  /\ {MaxInodes, MaxLinks, MaxSize, MaxExtents, MaxTarget, MaxEntries, MaxValues,
      LogicalBlocks, DeviceBlocks, MaxCount, DirectorySignature} \subseteq Units
  /\ AlignedLength(MaxName) \in Units

all == <<list, attributes, entries, image>>

\* Inodes with these extents and attributes.
Inodes ==
  {[identifier |-> 1, type |-> k.type, links |-> 1, size |-> k.size,
    allocated |-> PhysicalBlockCount(list), deleted |-> FALSE, target |-> k.target,
    extents |-> list, attributes |-> attributes] :
     k \in {k \in [type : {Regular, SymbolicLink}, size : {0, 1, LogicalBlocks},
                   target : Strings] :
              /\ k.type = Regular <=> k.target = <<>>
              /\ Len(k.target) <= MaxTarget}}

\* Entries as add() makes them, with the length their name needs or none yet,
\* and as load() finds them.
Entries ==
  {[record_length |-> k.length, inode |-> k.inode, type |-> Regular,
    deleted |-> k.deleted, name |-> k.name] :
     k \in {k \in [name : Strings, inode : {1, 2}, deleted : BOOLEAN,
                   length : {0} \cup {Alignment * n : n \in 1 .. (Word - 1) \div Alignment}] :
              /\ Len(k.name) \in 1 .. MaxName
              /\ k.length \in {0} \cup {AlignedLength(Len(k.name)) + n : n \in {0, Alignment}}}}

CodecsInit == Init /\ attributes = <<>> /\ entries = <<>> /\ Nothing

Compose ==
  /\ Nothing /\ UNCHANGED image
  /\ \/ /\ attributes = <<>> /\ entries = <<>>
        /\ Next /\ UNCHANGED <<attributes, entries>>
     \/ /\ Len(list) <= 1 /\ entries = <<>>
        /\ \E name, value \in Strings :
             \/ Len(attributes) < MaxSet /\ SetAttribute(name, value)
             \/ RemoveAttribute(name)
        /\ UNCHANGED <<list, entries>>
     \/ /\ list = <<>> /\ attributes = <<>> /\ Len(entries) < MaxEntries
        /\ \E e \in Entries : entries' = Append(entries, e)
        /\ UNCHANGED <<list, attributes>>

Forgeries == {Sealed(body) : body \in Edits(Front(data))}

Change ==
  /\ UNCHANGED <<list, attributes, entries>>
  /\ \/ /\ Len(list) + Len(attributes) <= 1 /\ entries = <<>>
        /\ \E i \in Inodes : Encodable(i) /\ Valid(i) /\ Save("inode", EncodedInode(i))
     \/ /\ entries # <<>> /\ EntriesEncodable(entries)
        /\ Save("directory", EncodedEntries(entries))
     \/ Damage
     \/ \E k \in {"inode", "directory"} : Forge(k, Forgeries)

CodecsNext == Compose \/ Change
CodecsSpec == CodecsInit /\ [][CodecsNext]_all

\* An inode that encode() takes comes back as it was, unless it was not valid:
\* encode() does not look, and mount() then refuses the image.
InodeReadBack ==
  entries = <<>> /\ Len(list) <= MaxCoded =>
    \A i \in Inodes :
      Encodable(i) => DecodedInode(EncodedInode(i)) = IF Valid(i) THEN {i} ELSE {}

\* Entries come back as they were, with their lengths.
EntriesReadBack ==
  EntriesEncodable(entries) =>
    DecodedEntries(EncodedEntries(entries)) =
      {[k \in 1 .. Len(entries) |->
          [entries[k] EXCEPT !.record_length = RecordLength(entries[k])]]}

\* What was put together by legal calls and encoded is decoded as it was.
RecordsReadBack == kind = "none" => InodeReadBack /\ EntriesReadBack

\* Of the attributes that set_attribute accepts one by one, encode() refuses
\* only too many or too much of them, and it writes none that decode() refuses.
AttributesRefusedInTotal ==
  kind = "none" /\ entries = <<>> /\ Len(list) <= MaxCoded =>
    \A i \in Inodes :
      /\ Encodable(i) <=> /\ Len(attributes) <= MaxEntries
                          /\ AttributeBytes(attributes) <= MaxValues
      /\ Encodable(i) /\ Verify(list, i.size, i.allocated) => Valid(i)

\* Whoever made it, an inode record that decode() accepts is the one that
\* encode() makes of the inode: an image that is mounted and saved keeps it.
InodeOneForm == \A i \in DecodedInode(data) : Encodable(i) /\ EncodedInode(i) = data

\* A directory record becomes one of the same length that holds the same
\* entries: only padding is lost.
EntriesOneForm ==
  \A es \in DecodedEntries(data) :
    /\ EntriesEncodable(es) /\ Len(EncodedEntries(es)) = Len(data)
    /\ DecodedEntries(EncodedEntries(es)) = {es}

\* A record that was changed in one place, cut or continued is refused, changed
\* padding included, and any that is accepted can be saved again.
RecordsOneForm ==
  /\ kind = "inode" => InodeOneForm /\ (change = "damaged" => DecodedInode(data) = {})
  /\ kind = "directory" => EntriesOneForm /\ (change = "damaged" => DecodedEntries(data) = {})
=============================================================================
