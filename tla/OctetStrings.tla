---------------------------- MODULE OctetStrings ----------------------------
(***************************************************************************)
(* What a block buffer promises to its users, whatever segments it is made *)
(* of (include/upipe/ubuf_block.h): each handle is a sequence of octets,   *)
(* and a call does to it, and to no other handle, what the comment above   *)
(* the function says.  Negative offsets count from the end, and a size of  *)
(* -1 means up to the end.                                                 *)
(*                                                                         *)
(* call is the interface: which call is made, on which handle, with which  *)
(* arguments, and what it returns.                                         *)
(***************************************************************************)
EXTENDS Integers, Sequences

CONSTANTS
    Handles,        \* pointers the application has
    None

VARIABLES content, call

From(s, o) == IF o < 0 THEN o + Len(s) ELSE o
Size(s, o, n) == IF n = -1 THEN Len(s) - From(s, o) ELSE n
InReach(s, o) == From(s, o) \in 0..Len(s) - 1

Before(s, o) == SubSeq(s, 1, From(s, o))
After(s, o) == SubSeq(s, From(s, o) + 1, Len(s))
Part(s, o, n) == SubSeq(s, From(s, o) + 1, From(s, o) + Size(s, o, n))

IsHeld(h) == content[h] # None
Returned(r) == call'.ret = r
Becomes(h, s) == content' = [content EXCEPT ![h] = s]
Become(h, s, i, t) == content' = [content EXCEPT ![h] = s, ![i] = t]

Init ==
    /\ content = [h \in Handles |-> None]
    /\ call = None

Alloc(h, p) ==
    /\ ~IsHeld(h)
    /\ Returned(TRUE)
    /\ Becomes(h, p)

Free(h) ==
    /\ IsHeld(h)
    /\ Returned(TRUE)
    /\ Becomes(h, None)

Dup(h, i) ==
    /\ IsHeld(h) /\ ~IsHeld(i)
    /\ Returned(TRUE)
    /\ Becomes(i, content[h])

(* A read returns some of the octets that follow the offset, at least one. *)
Read(h, o) ==
    LET rest == After(content[h], o) IN
    /\ IsHeld(h)
    /\ IF InReach(content[h], o)
       THEN \E n \in 1..Len(rest) : Returned(SubSeq(rest, 1, n))
       ELSE Returned(None)
    /\ UNCHANGED content

AppendTo(h, i) ==
    /\ IsHeld(h) /\ IsHeld(i) /\ h # i
    /\ Returned(TRUE)
    /\ Become(h, content[h] \o content[i], i, None)

InsertInto(h, o, i) ==
    LET s == content[h] IN
    /\ IsHeld(h) /\ IsHeld(i) /\ h # i
    /\ Returned(InReach(s, o))
    /\ IF InReach(s, o)
       THEN Become(h, Before(s, o) \o content[i] \o After(s, o), i, None)
       ELSE UNCHANGED content

DeleteFrom(h, o, n) ==
    LET s == content[h] IN
    /\ IsHeld(h)
    /\ Returned(InReach(s, o))
    /\ IF InReach(s, o)
       THEN Becomes(h, Before(s, o) \o After(s, From(s, o) + Size(s, o, n)))
       ELSE UNCHANGED content

TruncateAt(h, o) ==
    LET s == content[h] IN
    /\ IsHeld(h)
    /\ Returned(o <= Len(s))
    /\ IF o <= Len(s) THEN Becomes(h, Before(s, o)) ELSE UNCHANGED content

ResizeTo(h, o, n) ==
    LET s == content[h]
        fits == From(s, o) >= 0 /\ From(s, o) + Size(s, o, n) <= Len(s)
    IN  /\ IsHeld(h)
        /\ Returned(fits)
        /\ IF fits THEN Becomes(h, Part(s, o, n)) ELSE UNCHANGED content

(* Nothing is said of the n octets that are prepended.                     *)
PrependTo(h, n) ==
    LET new == SubSeq(content'[h], 1, n) IN
    /\ IsHeld(h)
    /\ \/ /\ Returned(TRUE)
          /\ Len(new) = n
          /\ Becomes(h, new \o content[h])
       \/ /\ Returned(FALSE)
          /\ UNCHANGED content

SpliceOut(h, o, n, i) ==
    LET s == content[h] IN
    /\ IsHeld(h) /\ ~IsHeld(i)
    /\ Returned(InReach(s, o))
    /\ IF InReach(s, o) THEN Becomes(i, Part(s, o, n)) ELSE UNCHANGED content

SplitAt(h, o, i) ==
    LET s == content[h] IN
    /\ IsHeld(h) /\ ~IsHeld(i)
    /\ Returned(InReach(s, o))
    /\ IF InReach(s, o)
       THEN Become(h, Before(s, o), i, After(s, o))
       ELSE UNCHANGED content

Next ==
    LET h == call'.on
        a == call'.args
    IN  \/ call'.op = "alloc" /\ Alloc(h, a[1])
        \/ call'.op = "free" /\ Free(h)
        \/ call'.op = "dup" /\ Dup(h, a[1])
        \/ call'.op = "read" /\ Read(h, a[1])
        \/ call'.op = "append" /\ AppendTo(h, a[1])
        \/ call'.op = "insert" /\ InsertInto(h, a[1], a[2])
        \/ call'.op = "delete" /\ DeleteFrom(h, a[1], a[2])
        \/ call'.op = "truncate" /\ TruncateAt(h, a[1])
        \/ call'.op = "resize" /\ ResizeTo(h, a[1], a[2])
        \/ call'.op = "prepend" /\ PrependTo(h, a[1])
        \/ call'.op = "splice" /\ SpliceOut(h, a[1], a[2], a[3])
        \/ call'.op = "split" /\ SplitAt(h, a[1], a[2])

Spec == Init /\ [][Next]_<<content, call>>
=============================================================================
