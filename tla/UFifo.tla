-------------------------------- MODULE UFifo -------------------------------
(***************************************************************************)
(* ufifo (include/upipe/ufifo.h): a thread-safe first-in first-out         *)
(* container of objects, under every uqueue.  Empty elements are on a LIFO *)
(* of the ring, carrying ones on a FIFO: a list chained from the last to   *)
(* the first, with both ends and the low bits of their tags in one word.   *)
(* A pop walks the list to find the element before the first.              *)
(***************************************************************************)
EXTENDS URing, Sequences

CONSTANTS
    Objects,
    Producers, Consumers,   \* the threads that push and that pop
    FifoTagMod              \* tags of a FIFO wrap there: 2^8 in the code

ASSUME FifoAssumption ==
    /\ None \notin Objects
    /\ Lists = {"lifo_empty"} /\ "fifo_carrier" \notin Threads
    /\ Producers \subseteq Threads /\ Consumers \subseteq Threads
    /\ FifoTagMod \in Nat \ {0}

VARIABLES
    fifo,       \* the descriptor of the FIFO
    queue,      \* history: the elements on it, the first at the front
    op, arg, outside,
    seen, made, \* old_fifo and new_fifo
    cursor,     \* index of uring_fifo_find, and prev in the end
    tries

vars == <<ring, fifo, queue, op, arg, outside, seen, made, cursor, tries>>
fifoVars == <<fifo, queue, seen, made, cursor, tries>>
objectVars == <<op, arg, outside>>

FifoNil == [tail |-> NULL, ttag |-> 0, head |-> NULL, htag |-> 0]
LowTag(i) == tag[i] % FifoTagMod

(* uring_fifo_set_tail and uring_fifo_set_head                             *)
WithTail(d, i) == [d EXCEPT !.tail = i, !.ttag = LowTag(i)]
WithHead(d, i) == [d EXCEPT !.head = i, !.htag = LowTag(i)]

Init ==
    /\ RingInit("lifo_empty")
    /\ fifo = FifoNil
    /\ queue = <<>>
    /\ op = [t \in Threads |-> "pop"]
    /\ arg = [t \in Threads |-> None]
    /\ outside = Objects
    /\ seen = [t \in Threads |-> FifoNil]
    /\ made = [t \in Threads |-> FifoNil]
    /\ cursor = [t \in Threads |-> NULL]
    /\ tries = [t \in Threads |-> 0]

FifoRegisters(t, s, m, c, n) ==
    /\ seen' = [seen EXCEPT ![t] = s]
    /\ made' = [made EXCEPT ![t] = m]
    /\ cursor' = [cursor EXCEPT ![t] = c]
    /\ tries' = [tries EXCEPT ![t] = n]

-----------------------------------------------------------------------------
(* ufifo_push is called: it returns false at once when no element is left. *)
CallPush(t, v) ==
    /\ pc[t] = "idle"
    /\ v \in outside
    /\ op' = [op EXCEPT ![t] = "push"]
    /\ TryTop(t, "lifo_empty")
    /\ IF lifo["lifo_empty"] = Nil
       THEN UNCHANGED <<arg, outside>>
       ELSE arg' = [arg EXCEPT ![t] = v] /\ outside' = outside \ {v}
    /\ UNCHANGED <<tag, next, opaque, lifo, where, depth, mine, fifoVars>>

(* An empty element is taken, or the push fails on a retry.                *)
Take(t) ==
    /\ PopSwap(t, "lifo_empty")
    /\ IF pc'[t] = "idle"
       THEN arg' = [arg EXCEPT ![t] = None] /\ outside' = outside \cup {arg[t]}
       ELSE UNCHANGED <<arg, outside>>
    /\ UNCHANGED <<op, fifoVars>>

(* ufifo_push fills its element, ufifo_pop empties it.                     *)
Set(t) ==
    /\ pc[t] = "set"
    /\ IF op[t] = "push"
       THEN /\ ElemSet(t, arg[t])
            /\ arg' = [arg EXCEPT ![t] = None]
            /\ Goto(t, "fload")
       ELSE /\ ElemSet(t, None)
            /\ arg' = [arg EXCEPT ![t] = opaque[mine[t]]]
            /\ Goto(t, "load")
    /\ UNCHANGED <<next, lifo, where, depth, old, succ, new, mine, op, outside,
                   fifoVars>>

(* uring_fifo_push: the descriptor is loaded.                              *)
FifoLoad(t) ==
    /\ pc[t] = "fload"
    /\ FifoRegisters(t, fifo, FifoNil, NULL, 0)
    /\ Goto(t, "flink")
    /\ UNCHANGED <<tag, next, opaque, lifo, where, depth, old, succ, new, mine,
                   fifo, queue, objectVars>>

(* uring_fifo_push: elem->next is written and the new descriptor made.     *)
FifoLink(t) ==
    LET d == IF seen[t].tail = NULL THEN WithHead(seen[t], mine[t]) ELSE seen[t]
    IN  /\ pc[t] = "flink"
        /\ next' = [next EXCEPT ![mine[t]] = seen[t].tail]
        /\ FifoRegisters(t, seen[t], WithTail(d, mine[t]), NULL, 0)
        /\ Goto(t, "fgive")
        /\ UNCHANGED <<tag, opaque, lifo, where, depth, old, succ, new, mine,
                       fifo, queue, objectVars>>

(* Mutated forms, named after the mistake, precede the steps they mutate.  *)
FifoGiveNoRelink(t) ==
    /\ pc[t] = "fgive"
    /\ IF fifo = seen[t]
       THEN /\ fifo' = made[t]
            /\ queue' = Append(queue, mine[t])
            /\ where' = [where EXCEPT ![mine[t]] = "fifo_carrier"]
            /\ mine' = [mine EXCEPT ![t] = NULL]
            /\ FifoRegisters(t, FifoNil, FifoNil, NULL, 0)
            /\ Goto(t, "idle")
       ELSE /\ FifoRegisters(t, fifo, made[t], NULL, 0)
            /\ UNCHANGED <<fifo, queue, where, mine, pc>>
    /\ UNCHANGED <<tag, next, opaque, lifo, depth, old, succ, new, objectVars>>

(* uring_fifo_push: the compare-and-swap ends the push or loads again.     *)
FifoGive(t) ==
    /\ pc[t] = "fgive"
    /\ IF fifo = seen[t]
       THEN /\ fifo' = made[t]
            /\ queue' = Append(queue, mine[t])
            /\ where' = [where EXCEPT ![mine[t]] = "fifo_carrier"]
            /\ mine' = [mine EXCEPT ![t] = NULL]
            /\ FifoRegisters(t, FifoNil, FifoNil, NULL, 0)
            /\ Goto(t, "idle")
       ELSE /\ FifoRegisters(t, fifo, FifoNil, NULL, 0)
            /\ Goto(t, "flink")
            /\ UNCHANGED <<fifo, queue, where, mine>>
    /\ UNCHANGED <<tag, next, opaque, lifo, depth, old, succ, new, objectVars>>

-----------------------------------------------------------------------------
(* uring_fifo_pop: the outer loop starts over with a new descriptor.       *)
StartOver(t) ==
    IF fifo = FifoNil
    THEN Goto(t, "idle") /\ FifoRegisters(t, FifoNil, FifoNil, NULL, 0)
    ELSE IF fifo.head = fifo.tail
         THEN Goto(t, "one") /\ FifoRegisters(t, fifo, FifoNil, NULL, 0)
         ELSE Goto(t, "find") /\ FifoRegisters(t, fifo, FifoNil, fifo.tail, Length)

(* ufifo_pop is called: it returns NULL at once when there is nothing.     *)
CallPop(t) ==
    /\ pc[t] = "idle"
    /\ op' = [op EXCEPT ![t] = "pop"]
    /\ StartOver(t)
    /\ UNCHANGED <<tag, next, opaque, lifo, where, depth, old, succ, new, mine,
                   fifo, queue, arg, outside>>

(* The descriptor changes to d, and the thread has the first element.      *)
FifoTaken(t, d) ==
    /\ fifo' = d
    /\ queue' = Tail(queue)
    /\ where' = [where EXCEPT ![seen[t].head] = t]
    /\ mine' = [mine EXCEPT ![t] = seen[t].head]
    /\ FifoRegisters(t, FifoNil, FifoNil, NULL, 0)
    /\ Goto(t, "set")

(* uring_fifo_pop, one-element FIFO                                        *)
TakeOne(t) ==
    /\ pc[t] = "one"
    /\ IF fifo = seen[t]
       THEN FifoTaken(t, FifoNil)
       ELSE StartOver(t) /\ UNCHANGED <<fifo, queue, where, mine>>
    /\ UNCHANGED <<tag, next, opaque, lifo, depth, old, succ, new, objectVars>>

FindStopsEarly(t) ==
    LET n == next[cursor[t]]
    IN  /\ pc[t] = "find"
        /\ IF n = seen[t].head \/ tries[t] = Length
           THEN /\ Goto(t, "head")
                /\ UNCHANGED <<seen, made, cursor, tries>>
           ELSE IF n = NULL \/ tries[t] = 0
                THEN StartOver(t)
                ELSE /\ FifoRegisters(t, seen[t], FifoNil, n, tries[t] - 1)
                     /\ UNCHANGED pc
        /\ UNCHANGED <<tag, next, opaque, lifo, where, depth, old, succ, new,
                       mine, fifo, queue, objectVars>>

(* uring_fifo_find: one step along the list.  If the first element is not  *)
(* found, the pop starts over.                                             *)
Find(t) ==
    LET n == next[cursor[t]]
    IN  /\ pc[t] = "find"
        /\ IF n = seen[t].head
           THEN /\ Goto(t, "head")
                /\ UNCHANGED <<seen, made, cursor, tries>>
           ELSE IF n = NULL \/ tries[t] = 0
                THEN StartOver(t)
                ELSE /\ FifoRegisters(t, seen[t], FifoNil, n, tries[t] - 1)
                     /\ UNCHANGED pc
        /\ UNCHANGED <<tag, next, opaque, lifo, where, depth, old, succ, new,
                       mine, fifo, queue, objectVars>>

(* uring_fifo_set_head, with the tag of the element found                  *)
SetHead(t) ==
    /\ pc[t] = "head"
    /\ made' = [made EXCEPT ![t] = WithHead(seen[t], cursor[t])]
    /\ Goto(t, "behead")
    /\ UNCHANGED <<tag, next, opaque, lifo, where, depth, old, succ, new, mine,
                   fifo, queue, seen, cursor, tries, objectVars>>

(* uring_fifo_pop: the compare-and-swap.  "Check if only the tail was      *)
(* changed (and then try again), or if we need to restart everything."     *)
Behead(t) ==
    /\ pc[t] = "behead"
    /\ IF fifo = seen[t]
       THEN FifoTaken(t, made[t])
       ELSE /\ IF fifo.head = seen[t].head
               THEN /\ FifoRegisters(t, fifo, FifoNil, cursor[t], 0)
                    /\ Goto(t, "head")
               ELSE StartOver(t)
            /\ UNCHANGED <<fifo, queue, where, mine>>
    /\ UNCHANGED <<tag, next, opaque, lifo, depth, old, succ, new, objectVars>>

(* The element goes back to the empty ones, and the pop returns.           *)
Give(t) ==
    /\ PushSwap(t, "lifo_empty")
    /\ IF pc'[t] = "idle"
       THEN /\ arg' = [arg EXCEPT ![t] = None]
            /\ outside' = outside \cup ({arg[t]} \ {None})
       ELSE UNCHANGED <<arg, outside>>
    /\ UNCHANGED <<op, fifoVars>>

-----------------------------------------------------------------------------
RingStep(t) ==
    /\ PopNext(t) \/ PopTag(t) \/ PushLoad(t, "lifo_empty") \/ PushLink(t)
    /\ UNCHANGED <<fifoVars, objectVars>>

Step(t) ==
    \/ RingStep(t) \/ Take(t) \/ Set(t) \/ Give(t)
    \/ FifoLoad(t) \/ FifoLink(t) \/ FifoGive(t)
    \/ TakeOne(t) \/ Find(t) \/ SetHead(t) \/ Behead(t)

Next ==
    \/ \E t \in Producers, v \in outside : CallPush(t, v)
    \/ \E t \in Consumers : CallPop(t)
    \/ \E t \in Threads : Step(t)

Spec == Init /\ [][Next]_vars

-----------------------------------------------------------------------------
FifoDescriptors ==
    [tail : Index, ttag : 0..(FifoTagMod - 1), head : Index, htag : 0..(FifoTagMod - 1)]
      \cup {FifoNil}

TypeOK ==
    /\ RingTypeOK
    /\ opaque \in [Index -> Objects \cup {None}]
    /\ where \in [Index -> {"lifo_empty", "fifo_carrier"} \cup Threads]
    /\ fifo \in FifoDescriptors
    /\ queue \in Seq(Index)
    /\ op \in [Threads -> {"push", "pop"}]
    /\ arg \in [Threads -> Objects \cup {None}]
    /\ outside \subseteq Objects
    /\ seen \in [Threads -> FifoDescriptors]
    /\ made \in [Threads -> FifoDescriptors]
    /\ cursor \in [Threads -> Index \cup {NULL}]
    /\ tries \in [Threads -> 0..Length]

(* Both lists are whole ("thread-safe first-in first-out data structure",  *)
(* ufifo.h:27): that of empty elements, and the FIFO, whose ends and tags  *)
(* are right, and where next leads from the last element through every     *)
(* other one to the first.  Each other element has one owner.              *)
FifoIntact ==
    /\ TypeOK
    /\ Chained("lifo_empty") /\ Handed
    /\ \A i \in Index :
         where[i] = "fifo_carrier" <=> \E k \in 1..Len(queue) : queue[k] = i
    /\ Len(queue) = Cardinality({queue[k] : k \in 1..Len(queue)})
    /\ fifo = IF queue = <<>> THEN FifoNil
              ELSE WithHead(WithTail(FifoNil, queue[Len(queue)]), queue[1])
    /\ \A k \in 1..(Len(queue) - 1) : next[queue[k + 1]] = queue[k]

(* The container promised to its users: see Container.                     *)
Spare == Cardinality(On("lifo_empty"))
Content == [k \in 1..Len(queue) |-> opaque[queue[k]]]
Hand ==
    [t \in Threads |->
       IF mine[t] = NULL THEN None
       ELSE IF opaque[mine[t]] = None THEN arg[t] ELSE opaque[mine[t]]]

Promised == INSTANCE Container
              WITH spare <- Spare, content <- Content, hand <- Hand, Order <- "fifo"
Atomic == Promised!Spec
=============================================================================
