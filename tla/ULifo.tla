-------------------------------- MODULE ULifo -------------------------------
(***************************************************************************)
(* ulifo (include/upipe/ulifo.h): a thread-safe last-in first-out container*)
(* of objects, used for pools.  It has two lists on one ring, one of the   *)
(* elements that carry an object and one of those that are empty.  A push  *)
(* moves an element from the second to the first, a pop moves it back; an  *)
(* object belongs to the application, to a thread in a call or to the      *)
(* container.                                                              *)
(***************************************************************************)
EXTENDS URing

CONSTANT Objects

ASSUME ObjectsAssumption ==
    /\ None \notin Objects
    /\ {"lifo_empty", "lifo_carrier"} \subseteq Lists

VARIABLES
    op,         \* what each thread does: push or pop
    arg,        \* the object that it pushes, or has popped
    outside     \* the objects of the application

vars == <<ring, op, arg, outside>>

From(t) == IF op[t] = "push" THEN "lifo_empty" ELSE "lifo_carrier"
To(t) == IF op[t] = "push" THEN "lifo_carrier" ELSE "lifo_empty"

Init ==
    /\ RingInit("lifo_empty")
    /\ op = [t \in Threads |-> "pop"]
    /\ arg = [t \in Threads |-> None]
    /\ outside = Objects

-----------------------------------------------------------------------------
(* ulifo_push is called: it returns false at once when no element is left, *)
(* and the caller keeps its object.                                        *)
CallPush(t, v) ==
    /\ pc[t] = "idle"
    /\ v \in outside
    /\ op' = [op EXCEPT ![t] = "push"]
    /\ TryTop(t, "lifo_empty")
    /\ IF lifo["lifo_empty"] = Nil
       THEN UNCHANGED <<arg, outside>>
       ELSE arg' = [arg EXCEPT ![t] = v] /\ outside' = outside \ {v}
    /\ UNCHANGED <<tag, next, opaque, lifo, where, depth, mine>>

(* ulifo_pop is called: it returns NULL at once when there is nothing.     *)
CallPop(t) ==
    /\ pc[t] = "idle"
    /\ op' = [op EXCEPT ![t] = "pop"]
    /\ TryTop(t, "lifo_carrier")
    /\ UNCHANGED <<tag, next, opaque, lifo, where, depth, mine, arg, outside>>

(* An element is taken from its list.  A push whose retry finds the list   *)
(* empty fails with the object given back.                                 *)
Take(t) ==
    /\ PopSwap(t, From(t))
    /\ IF pc'[t] = "idle" /\ op[t] = "push"
       THEN arg' = [arg EXCEPT ![t] = None] /\ outside' = outside \cup {arg[t]}
       ELSE UNCHANGED <<arg, outside>>
    /\ UNCHANGED op

(* Mutated forms, named after the mistake, precede the steps they mutate.  *)
SetBeforeGet(t) ==
    /\ pc[t] = "set"
    /\ arg' = [arg EXCEPT ![t] = None]
    /\ ElemSet(t, IF op[t] = "push" THEN arg[t] ELSE None)
    /\ Goto(t, "load")
    /\ UNCHANGED <<next, lifo, where, depth, old, succ, new, mine, op,
                   outside>>

(* ulifo_push fills the element, ulifo_pop empties it.                     *)
Set(t) ==
    /\ pc[t] = "set"
    /\ arg' = [arg EXCEPT ![t] = IF op[t] = "push" THEN None ELSE opaque[mine[t]]]
    /\ ElemSet(t, IF op[t] = "push" THEN arg[t] ELSE None)
    /\ Goto(t, "load")
    /\ UNCHANGED <<next, lifo, where, depth, old, succ, new, mine, op,
                   outside>>

(* The element is given to the other list, and the call returns.           *)
Give(t) ==
    /\ PushSwap(t, To(t))
    /\ IF pc'[t] = "idle"
       THEN /\ arg' = [arg EXCEPT ![t] = None]
            /\ outside' = outside \cup ({arg[t]} \ {None})
       ELSE UNCHANGED <<arg, outside>>
    /\ UNCHANGED op

RingStep(t) ==
    /\ PopNext(t) \/ PopTag(t) \/ PushLoad(t, To(t)) \/ PushLink(t)
    /\ UNCHANGED <<op, arg, outside>>

Call(t) == CallPop(t) \/ \E v \in outside : CallPush(t, v)
Step(t) == RingStep(t) \/ Take(t) \/ Set(t) \/ Give(t)

Next == \E t \in Threads : Call(t) \/ Step(t)

Spec == Init /\ [][Next]_vars

(* Somebody runs, but any thread may be suspended for ever.                *)
FairSpec == Spec /\ WF_vars(\E t \in Threads : Step(t))

-----------------------------------------------------------------------------
TypeOK ==
    /\ RingTypeOK
    /\ opaque \in [Index -> Objects \cup {None}]
    /\ where \in [Index -> {"lifo_empty", "lifo_carrier"} \cup Threads]
    /\ pc \in [Threads -> {"idle", "set"} \cup Popping \cup Pushing]
    /\ op \in [Threads -> {"push", "pop"}]
    /\ arg \in [Threads -> Objects \cup {None}]
    /\ outside \subseteq Objects

(* No element is lost, on two lists, or twice on one, and none is given to *)
(* two threads: what compare-and-swap on stale descriptors would break.    *)
ListsIntact ==
    /\ Chained("lifo_empty")
    /\ Chained("lifo_carrier")
    /\ Handed

(* Carried elements have an object, empty ones have none, and an object is *)
(* always at one place: a pool never gives one object to two threads, and  *)
(* loses none.                                                             *)
Holders(v) ==
    ({"thread"} \X {t \in Threads : arg[t] = v})
      \cup ({"element"} \X {i \in Index : opaque[i] = v})
      \cup ({"outside"} \X ({v} \cap outside))

ObjectsKept ==
    /\ \A i \in On("lifo_carrier") : opaque[i] # None
    /\ \A i \in On("lifo_empty") : opaque[i] = None
    /\ \A v \in Objects : \E h \in Holders(v) : Holders(v) = {h}

(* Both hold together, whatever elements come and go around the ring while *)
(* a pop is suspended.                                                     *)
RingKept == ListsIntact /\ ObjectsKept

(* A failed compare-and-swap means that somebody else got further: while   *)
(* there are calls in progress some complete, whoever is suspended.        *)
Completes(t) == pc[t] # "idle" /\ pc'[t] = "idle"

LockFree ==
    \/ []<><<\E t \in Threads : Completes(t)>>_vars
    \/ <>[](\A t \in Threads : pc[t] = "idle")

(* The container promised to its users: see Container.                     *)
Spare == Cardinality(On("lifo_empty"))
Content ==
    [k \in 1..Cardinality(On("lifo_carrier")) |->
       opaque[CHOOSE i \in On("lifo_carrier") : depth[i] = k]]
Hand ==
    [t \in Threads |->
       IF mine[t] = NULL THEN None
       ELSE IF opaque[mine[t]] = None THEN arg[t] ELSE opaque[mine[t]]]

Promised == INSTANCE Container
              WITH spare <- Spare, content <- Content, hand <- Hand, Order <- "lifo"
Atomic == Promised!Spec
=============================================================================
