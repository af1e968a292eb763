------------------------------ MODULE FlatFiles ------------------------------
(***************************************************************************)
(* What the storage of file data promises to the users of a file system:   *)
(* files that do not disturb each other, whose bytes are zero until they   *)
(* are written.  A write that fails may have extended its file and written *)
(* a prefix of its data, but it does nothing else; one that is unrecorded, *)
(* because the journal did not take its record, is complete.  There are no *)
(* blocks and no journal here: the promise leaves open when a call fails.  *)
(***************************************************************************)
EXTENDS Naturals

CONSTANTS Files, Values, MaxFileBytes

VARIABLES content,    \* content[f] is what a reader of f sees
          outcome     \* how the last operation ended

\* An unrecorded call has returned an error, but did all it was called for.
Complete == {"done", "unrecorded"}

Offsets == 0 .. MaxFileBytes - 1
Bytes == {0} \cup Values

Absent == [live |-> FALSE, size |-> 0, byte |-> [i \in Offsets |-> 0]]
Larger(m, n) == IF m < n THEN n ELSE m

\* File c grown to at least `size` bytes, with v in the bytes from lo up to hi.
Overwritten(c, size, lo, hi, v) ==
  [c EXCEPT !.size = Larger(c.size, size),
            !.byte = [i \in Offsets |-> IF lo <= i /\ i < hi THEN v ELSE c.byte[i]]]

Init == /\ content \in [Files -> [live : BOOLEAN, size : 0 .. MaxFileBytes,
                                  byte : [Offsets -> Bytes]]]
        /\ \A f \in Files : content[f].live \/ content[f] = Absent
        /\ outcome = "done"

Create(f, n, v) ==
  /\ ~content[f].live
  /\ content' = [content EXCEPT ![f] =
                   Overwritten([Absent EXCEPT !.live = TRUE], n, 0, n, v)]
  /\ outcome' \in Complete

Write(f, off, n, v) ==
  /\ outcome' \in Complete
  /\ content[f].live
  /\ content' = [content EXCEPT ![f] =
                   Overwritten(content[f], off + n, off, off + n, v)]

\* A write that stops before the byte at `stop`.
Torn(f, off, n, v) ==
  /\ outcome' = "failed"
  /\ content[f].live
  /\ \E stop \in off .. off + n :
       content' = [content EXCEPT ![f] =
                     Overwritten(content[f], off + n, off, stop, v)]

Remove(f) == /\ content[f].live
             /\ content' = [content EXCEPT ![f] = Absent]
             /\ outcome' = "done"

Refused == outcome' = "failed" /\ UNCHANGED content

Next == \/ Refused
        \/ \E f \in Files : Remove(f)
        \/ \E f \in Files, n \in 0 .. MaxFileBytes, v \in Values : Create(f, n, v)
        \/ \E f \in Files, off \in 0 .. MaxFileBytes, v \in Values :
             \E n \in 0 .. MaxFileBytes - off :
               Write(f, off, n, v) \/ Torn(f, off, n, v)

Spec == Init /\ [][Next]_<<content, outcome>>
==============================================================================
