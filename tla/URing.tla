-------------------------------- MODULE URing -------------------------------
(***************************************************************************)
(* uring (include/upipe/uring.h): an array of elements chained by indexes, *)
(* on which lock-free lists are built, and the operations on a LIFO of     *)
(* elements.  A descriptor of a LIFO is one word, the index of the top     *)
(* element and the tag this element had when it became the top; it changes *)
(* by compare-and-swap only.  ULifo and UFifo compose these operations.    *)
(*                                                                         *)
(* Each access to memory that other threads may write is a step.  A thread *)
(* reads next and tag of an element that it does not own: that race of the *)
(* code is the interleaving of these steps with those of the owner.        *)
(***************************************************************************)
EXTENDS Integers, FiniteSets

CONSTANTS
    Threads,
    Length,         \* uring.length
    TagMod,         \* tags wrap there: 2^16 in the code
    Lists,          \* the LIFOs of the ring
    None            \* NULL, for an opaque and for nobody

ASSUME RingAssumption ==
    /\ Length \in Nat \ {0}
    /\ TagMod \in Nat \ {0, 1}
    /\ Lists \cap Threads = {}

NULL == 0                                               \* URING_INDEX_NULL
Index == 1..Length

VARIABLES
    tag, next, opaque,  \* uring.elems
    lifo,       \* the descriptor of each list
    where,      \* history: the list an element is on, or the thread that has it
    depth,      \* history: how deep an element is in its list, from 1 at the bottom
    pc,
    old, succ, new,     \* old_lifo, elem->next and new_lifo of uring_lifo_pop,
                        \* old_lifo and new_lifo of uring_lifo_push
    mine        \* index of the element a thread moves between lists

ring == <<tag, next, opaque, lifo, where, depth, pc, old, succ, new, mine>>

Nil == [tag |-> 0, index |-> NULL]                      \* URING_LIFO_NULL
Descriptors == [tag : 0..(TagMod - 1), index : Index] \cup {Nil}
Popping == {"next", "tag", "swap"}
Pushing == {"load", "link", "give"}

Goto(t, s) == pc' = [pc EXCEPT ![t] = s]

Registers(t, o, s, n) ==
    /\ old' = [old EXCEPT ![t] = o]
    /\ succ' = [succ EXCEPT ![t] = s]
    /\ new' = [new EXCEPT ![t] = n]

Described(i) == IF i = NULL THEN Nil ELSE [tag |-> tag[i], index |-> i]

(* uring_init, and the first list gets all the elements, in order.         *)
RingInit(l) ==
    /\ tag = [i \in Index |-> 0]
    /\ next = [i \in Index |-> IF i = Length THEN NULL ELSE i + 1]
    /\ opaque = [i \in Index |-> None]
    /\ lifo = [m \in Lists |-> IF m = l THEN [tag |-> 0, index |-> 1] ELSE Nil]
    /\ where = [i \in Index |-> l]
    /\ depth = [i \in Index |-> Length + 1 - i]
    /\ pc = [t \in Threads |-> "idle"]
    /\ old = [t \in Threads |-> Nil]
    /\ succ = [t \in Threads |-> NULL]
    /\ new = [t \in Threads |-> Nil]
    /\ mine = [t \in Threads |-> NULL]

-----------------------------------------------------------------------------
(* uring_lifo_pop: the descriptor is loaded, at the start and on a failure *)
(* of the compare-and-swap.  URING_INDEX_NULL is returned if there is none.*)
TryTop(t, l) ==
    /\ Registers(t, lifo[l], NULL, Nil)
    /\ Goto(t, IF lifo[l] = Nil THEN "idle" ELSE "next")

(* uring_lifo_pop: elem->next is read.                                     *)
PopNext(t) ==
    /\ pc[t] = "next"
    /\ succ' = [succ EXCEPT ![t] = next[old[t].index]]
    /\ Goto(t, "tag")
    /\ UNCHANGED <<tag, next, opaque, lifo, where, depth, old, new, mine>>

(* uring_lifo_from_index: the tag of that element is read.                 *)
PopTag(t) ==
    /\ pc[t] = "tag"
    /\ new' = [new EXCEPT ![t] = Described(succ[t])]
    /\ Goto(t, "swap")
    /\ UNCHANGED <<tag, next, opaque, lifo, where, depth, old, succ, mine>>

(* Mutated forms, named after the mistake, precede the steps they mutate.  *)
PopSwapIndexOnly(t, l) ==
    /\ pc[t] = "swap"
    /\ IF lifo[l].index = old[t].index
       THEN /\ lifo' = [lifo EXCEPT ![l] = new[t]]
            /\ mine' = [mine EXCEPT ![t] = old[t].index]
            /\ where' = [where EXCEPT ![old[t].index] = t]
            /\ depth' = [depth EXCEPT ![old[t].index] = 0]
            /\ Registers(t, Nil, NULL, Nil)
            /\ Goto(t, "set")
       ELSE /\ TryTop(t, l)
            /\ UNCHANGED <<lifo, mine, where, depth>>
    /\ UNCHANGED <<tag, next, opaque>>

PopSwapStale(t, l) ==
    /\ pc[t] = "swap"
    /\ IF lifo[l] = old[t]
       THEN /\ lifo' = [lifo EXCEPT ![l] = new[t]]
            /\ mine' = [mine EXCEPT ![t] = old[t].index]
            /\ where' = [where EXCEPT ![old[t].index] = t]
            /\ depth' = [depth EXCEPT ![old[t].index] = 0]
            /\ Registers(t, Nil, NULL, Nil)
            /\ Goto(t, "set")
       ELSE /\ Registers(t, old[t], NULL, Nil)
            /\ Goto(t, "next")
            /\ UNCHANGED <<lifo, mine, where, depth>>
    /\ UNCHANGED <<tag, next, opaque>>

(* uring_lifo_pop: the compare-and-swap.                                   *)
PopSwap(t, l) ==
    /\ pc[t] = "swap"
    /\ IF lifo[l] = old[t]
       THEN /\ lifo' = [lifo EXCEPT ![l] = new[t]]
            /\ mine' = [mine EXCEPT ![t] = old[t].index]
            /\ where' = [where EXCEPT ![old[t].index] = t]
            /\ depth' = [depth EXCEPT ![old[t].index] = 0]
            /\ Registers(t, Nil, NULL, Nil)
            /\ Goto(t, "set")
       ELSE /\ TryTop(t, l)
            /\ UNCHANGED <<lifo, mine, where, depth>>
    /\ UNCHANGED <<tag, next, opaque>>

-----------------------------------------------------------------------------
(* The bound on preemption.  A pop that was suspended between its load and *)
(* its compare-and-swap sees an element that went around the ring and has  *)
(* the same tag again as unchanged; at two increments per round, this      *)
(* takes 2^15 rounds.  No element goes full circle during one attempt.     *)
NotFullCircle(i, n) ==
    \A u \in Threads : pc[u] \in Popping => old[u] # [tag |-> n, index |-> i]

(* uring_elem_set: the tag changes at each use.                            *)
ElemSet(t, v) ==
    LET i == mine[t]
        n == (tag[i] + 1) % TagMod
    IN  /\ NotFullCircle(i, n)
        /\ tag' = [tag EXCEPT ![i] = n]
        /\ opaque' = [opaque EXCEPT ![i] = v]

-----------------------------------------------------------------------------
(* uring_lifo_push: the new descriptor is made, and the old one loaded.    *)
PushLoad(t, l) ==
    /\ pc[t] = "load"
    /\ Registers(t, lifo[l], NULL, Described(mine[t]))
    /\ Goto(t, "link")
    /\ UNCHANGED <<tag, next, opaque, lifo, where, depth, mine>>

(* uring_lifo_push: elem->next is written.                                 *)
PushLink(t) ==
    /\ pc[t] = "link"
    /\ next' = [next EXCEPT ![mine[t]] = old[t].index]
    /\ Goto(t, "give")
    /\ UNCHANGED <<tag, opaque, lifo, where, depth, old, succ, new, mine>>

PushSwapNoRelink(t, l) ==
    /\ pc[t] = "give"
    /\ IF lifo[l] = old[t]
       THEN /\ lifo' = [lifo EXCEPT ![l] = new[t]]
            /\ where' = [where EXCEPT ![mine[t]] = l]
            /\ depth' = [depth EXCEPT ![mine[t]] =
                           IF old[t] = Nil THEN 1 ELSE depth[old[t].index] + 1]
            /\ mine' = [mine EXCEPT ![t] = NULL]
            /\ Registers(t, Nil, NULL, Nil)
            /\ Goto(t, "idle")
       ELSE /\ Registers(t, lifo[l], NULL, new[t])
            /\ UNCHANGED <<lifo, where, depth, mine, pc>>
    /\ UNCHANGED <<tag, next, opaque>>

(* uring_lifo_push: the compare-and-swap, which loads again if it fails.   *)
PushSwap(t, l) ==
    /\ pc[t] = "give"
    /\ IF lifo[l] = old[t]
       THEN /\ lifo' = [lifo EXCEPT ![l] = new[t]]
            /\ where' = [where EXCEPT ![mine[t]] = l]
            /\ depth' = [depth EXCEPT ![mine[t]] =
                           IF old[t] = Nil THEN 1 ELSE depth[old[t].index] + 1]
            /\ mine' = [mine EXCEPT ![t] = NULL]
            /\ Registers(t, Nil, NULL, Nil)
            /\ Goto(t, "idle")
       ELSE /\ Registers(t, lifo[l], NULL, new[t])
            /\ Goto(t, "link")
            /\ UNCHANGED <<lifo, where, depth, mine>>
    /\ UNCHANGED <<tag, next, opaque>>

-----------------------------------------------------------------------------
RingTypeOK ==
    /\ tag \in [Index -> 0..(TagMod - 1)]
    /\ next \in [Index -> Index \cup {NULL}]
    /\ lifo \in [Lists -> Descriptors]
    /\ depth \in [Index -> Nat]
    /\ old \in [Threads -> Descriptors]
    /\ succ \in [Threads -> Index \cup {NULL}]
    /\ new \in [Threads -> Descriptors]
    /\ mine \in [Threads -> Index \cup {NULL}]

(* A list l with the elements On: its descriptor carries the right tag of  *)
(* its top, and from there next leads down through every element of On, as *)
(* depth counts, and to nothing else.                                      *)
On(l) == {i \in Index : where[i] = l}

Chained(l) ==
    /\ lifo[l] = Nil <=> On(l) = {}
    /\ lifo[l] # Nil => /\ lifo[l].index \in On(l)
                        /\ lifo[l] = Described(lifo[l].index)
                        /\ \A i \in On(l) : depth[i] <= depth[lifo[l].index]
    /\ \A i \in On(l) :
         /\ depth[i] >= 1
         /\ IF depth[i] = 1
            THEN next[i] = NULL
            ELSE next[i] \in On(l) /\ depth[next[i]] = depth[i] - 1
         /\ \A j \in On(l) : depth[i] = depth[j] => i = j

(* An element that left its list is in the hands of one thread.            *)
Handed ==
    \A t \in Threads, i \in Index : mine[t] = i <=> where[i] = t
=============================================================================
