----------------------------- MODULE InodeCodec -----------------------------
(***************************************************************************)
(* InodeCodec of src/src/codec.cc with Inode::validate of base.cc, and the *)
(* extended attributes of an inode as Filesystem::set_attribute and        *)
(* remove_attribute make them.  The extents are the list of module Extents *)
(* and a file's sizes count blocks.  The fields that nothing looks at, the *)
(* mode, the owners, the times and the generation, are left out, and so is *)
(* the bound on the length of a record, max_file_bytes.                    *)
(***************************************************************************)
EXTENDS Extents, ImageRecords

CONSTANTS MaxInodes, MaxLinks,     \* Limits::max_inodes, max_hard_links
          MaxSize,                 \* Limits::max_file_bytes
          MaxTarget,               \* Limits::max_path_bytes
          MaxName,                 \* Limits::max_name_bytes
          MaxValues,               \* Limits::max_extended_attribute_bytes
          MaxEntries,              \* Limits::max_directory_entries
          Strings                  \* names, values and targets that are used

ASSUME InodeCodecAssumption ==
  /\ MaxInodes \in Nat \ {0} /\ MaxLinks \in Nat \ {0}
  /\ {MaxSize, MaxTarget, MaxName, MaxValues, MaxEntries} \subseteq Nat
  /\ Strings \subseteq Seq(Units)

VARIABLE attributes       \* Inode::attributes

InodeSignature == 3
Regular == 1
Directory == 2
SymbolicLink == 3

Attribute(name, value) == [name |-> name, value |-> value]

-----------------------------------------------------------------------------
(* set_attribute, remove_attribute *)

Settable(name, value) ==
  /\ name # <<>> /\ Len(name) <= MaxName
  /\ Len(value) <= MaxValues

\* Where std::find_if finds a name, if it does.
Find(name) == {k \in 1 .. Len(attributes) :
                 /\ attributes[k].name = name
                 /\ \A l \in 1 .. k - 1 : attributes[l].name # name}

\* Mutant of SetAttribute: a name that is there is not looked for.
SetAttributeAgain(name, value) ==
  Settable(name, value) /\ attributes' = Append(attributes, Attribute(name, value))

SetAttribute(name, value) ==
  /\ Settable(name, value)
  /\ \/ Find(name) = {} /\ attributes' = Append(attributes, Attribute(name, value))
     \/ \E k \in Find(name) : attributes' = [attributes EXCEPT ![k].value = value]

RemoveAttribute(name) == \E k \in Find(name) : attributes' = RemoveAt(attributes, k)

-----------------------------------------------------------------------------
(* Inode::validate, encode and decode. *)

AttributeBytes(as) ==
  LET sum[n \in 0 .. Len(as)] ==
        IF n = 0 THEN 0 ELSE sum[n - 1] + (Len(as[n].name) + Len(as[n].value))
  IN sum[Len(as)]

Valid(i) ==
  /\ i.identifier \in 1 .. MaxInodes
  /\ i.type \in Regular .. SymbolicLink
  /\ i.links \in 1 .. MaxLinks
  /\ i.size <= MaxSize /\ i.allocated <= MaxSize
  /\ Len(i.extents) <= MaxExtents
  /\ IF i.type = SymbolicLink THEN Len(i.target) \in 1 .. MaxTarget ELSE i.target = <<>>
  /\ \A k \in 1 .. Len(i.attributes) :
       /\ Len(i.attributes[k].name) \in 1 .. MaxName
       /\ \A l \in 1 .. k - 1 : i.attributes[l].name # i.attributes[k].name
  /\ AttributeBytes(i.attributes) <= MaxValues
  /\ Verify(i.extents, i.size, i.allocated)

\* encode() refuses less: it does not call validate().
Encodable(i) ==
  /\ i.identifier # 0
  /\ Len(i.extents) <= MaxExtents /\ Len(i.target) <= MaxTarget
  /\ Len(i.attributes) <= MaxEntries
  /\ \A k \in 1 .. Len(i.attributes) : Len(i.attributes[k].name) <= MaxName
  /\ AttributeBytes(i.attributes) <= MaxValues

EncodedExtent(e) == <<e.logical, e.physical, e.count, IF e.sparse THEN 1 ELSE 0>>
EncodedString(s) == <<Len(s)>> \o s
EncodedAttribute(a) == EncodedString(a.name) \o EncodedString(a.value)

Sealed(body) == Append(body, Checksum(body))

EncodedInode(i) ==
  Sealed(<<InodeSignature, i.identifier, i.type, i.links, i.size, i.allocated,
           IF i.deleted THEN 1 ELSE 0, Len(i.extents), Len(i.attributes)>>
           \o EncodedString(i.target)
           \o FlattenSeq([k \in 1 .. Len(i.extents) |-> EncodedExtent(i.extents[k])])
           \o FlattenSeq([k \in 1 .. Len(i.attributes) |->
                            EncodedAttribute(i.attributes[k])]))

\* The string at a position whose length is in bounds and in the body.
StringFits(s, at, bound) ==
  Readable(s, at, 1) /\ s[at + 1] <= bound /\ Readable(s, at + 1, s[at + 1])
StringAt(s, at) == Slice(s, at + 1, s[at + 1])

\* One attribute after the other; `at` is the position after the last one.
ReadAttribute(s, read) ==
  LET name == StringAt(s, read.at)
      after == read.at + 1 + Len(name)
      value == StringAt(s, after)
      grown == Append(read.list, Attribute(name, value))
  IN IF /\ read.ok
        /\ StringFits(s, read.at, MaxName)
        /\ StringFits(s, after, MaxValues)
        /\ AttributeBytes(grown) <= MaxValues
     THEN [ok |-> TRUE, at |-> after + 1 + Len(value), list |-> grown]
     ELSE [read EXCEPT !.ok = FALSE]

ReadAttributes(s, at, n) ==
  LET after[k \in 0 .. n] == IF k = 0 THEN [ok |-> TRUE, at |-> at, list |-> <<>>]
                             ELSE ReadAttribute(s, after[k - 1])
  IN after[n]

ExtentAt(s, at) == [logical |-> s[at + 1], physical |-> s[at + 2], count |-> s[at + 3],
                    sparse |-> s[at + 4] = 1]

HeadUnits == 9          \* up to the length of the link's target
LeastUnits == 11        \* 92 bytes: signature, head and sum

\* Mutant of AllRead: what is left of the record is not looked at.
AllReadOrNot(s, at) == TRUE
AllRead(s, at) == at = Len(s)

Intact(s) == Last(s) = Checksum(Front(s))

Flag(u) == u <= 1

\* The inode that decode() returns, if it does.
DecodedInode(s) ==
  LET body == SubSeq(s, 2, Len(s) - 1)
      extents == HeadUnits + Len(StringAt(body, HeadUnits - 1))
      values == ReadAttributes(body, extents + 4 * body[7], body[8])
      inode == [identifier |-> body[1], type |-> body[2], links |-> body[3],
                size |-> body[4], allocated |-> body[5], deleted |-> body[6] = 1,
                target |-> StringAt(body, HeadUnits - 1),
                extents |-> [k \in 1 .. body[7] |-> ExtentAt(body, extents + 4 * (k - 1))],
                attributes |-> values.list]
  IN IF /\ Len(s) >= LeastUnits - 1          \* 91 bytes: one less than the least
        /\ s[1] = InodeSignature /\ Intact(s)
        /\ Readable(body, 0, HeadUnits - 1) /\ StringFits(body, HeadUnits - 1, MaxTarget)
        /\ body[2] \in Regular .. SymbolicLink /\ Flag(body[6])
        /\ body[7] <= MaxExtents /\ body[8] <= MaxEntries
        /\ Readable(body, extents, 4 * body[7])
        /\ \A k \in 1 .. body[7] : Flag(body[extents + 4 * k])
        /\ values.ok /\ AllRead(body, values.at)
        /\ Valid(inode)
     THEN {inode} ELSE {}
=============================================================================
