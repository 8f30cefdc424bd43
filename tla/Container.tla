------------------------------ MODULE Container -----------------------------
(***************************************************************************)
(* What ulifo and ufifo promise: a container with Length slots, on which a *)
(* push takes a slot and then puts its object in at once, and a pop gets   *)
(* an object out at once and then frees its slot.  The slot that a call    *)
(* has in hand is why a push may fail with fewer than Length objects in.   *)
(***************************************************************************)
EXTENDS Integers, Sequences

CONSTANTS
    Threads, Objects, None, Length,
    Order       \* lifo or fifo

VARIABLES
    spare,      \* how many slots are free
    content,    \* the objects inside, in the order they were put there
    hand        \* the object each thread moves, or None

vars == <<spare, content, hand>>

Init ==
    /\ spare = Length
    /\ content = <<>>
    /\ hand = [t \in Threads |-> None]

(* A push takes a slot for v.                                              *)
Reserve(t, v) ==
    /\ spare > 0
    /\ hand[t] = None
    /\ spare' = spare - 1
    /\ hand' = [hand EXCEPT ![t] = v]
    /\ UNCHANGED content

(* The push puts its object in.                                            *)
Put(t) ==
    /\ hand[t] # None
    /\ content' = Append(content, hand[t])
    /\ hand' = [hand EXCEPT ![t] = None]
    /\ UNCHANGED spare

(* A pop gets the first or the last object.                                *)
Get(t) ==
    /\ content # <<>>
    /\ hand[t] = None
    /\ IF Order = "fifo"
       THEN /\ hand' = [hand EXCEPT ![t] = Head(content)]
            /\ content' = Tail(content)
       ELSE /\ hand' = [hand EXCEPT ![t] = content[Len(content)]]
            /\ content' = SubSeq(content, 1, Len(content) - 1)
    /\ UNCHANGED spare

(* The pop frees its slot.                                                 *)
Release(t) ==
    /\ hand[t] # None
    /\ hand' = [hand EXCEPT ![t] = None]
    /\ spare' = spare + 1
    /\ UNCHANGED content

Next == \E t \in Threads :
          (\E v \in Objects : Reserve(t, v)) \/ Put(t) \/ Get(t) \/ Release(t)

Spec == Init /\ [][Next]_vars
=============================================================================
