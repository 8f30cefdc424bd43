------------------------------ MODULE UQueue -------------------------------
(***************************************************************************)
(* uqueue (include/upipe/uqueue.h): the bounded queue between threads.     *)
(* It adds to a ufifo a counter and two ueventfds that threads watch in    *)
(* their event loops: event_push, readable when data can be pushed, and    *)
(* event_pop, readable when data can be popped.                            *)
(*                                                                         *)
(* A ufifo is a ring of slots, each on a lifo of empty slots, on the fifo  *)
(* of carriers, or in the hands of a thread that moves it from one to the  *)
(* other.  Each operation on one of these lists, on the counter or on a    *)
(* descriptor is one step here.  Modules ULifo and UFifo open the lists.   *)
(* What is queued does not matter to wake-ups, only how much of it.        *)
(***************************************************************************)
EXTENDS Integers, FiniteSets

CONSTANTS
    Producers, Consumers,
    Length,         \* uqueue.length, the number of slots
    CounterMod,     \* the counter wraps there: 2^32 in the code
    MaxPush         \* bound on the elements each active producer has to push

Threads == Producers \cup Consumers

ASSUME ThreadsAssumption ==
    /\ IsFiniteSet(Producers) /\ IsFiniteSet(Consumers)
    /\ Producers \cap Consumers = {}
ASSUME LengthAssumption == Length \in Nat \ {0}
ASSUME CounterAssumption ==
    CounterMod \in Nat /\ CounterMod > Length + Cardinality(Threads)
ASSUME PushAssumption == MaxPush \in Nat

VARIABLES
    empty,      \* number of slots on ufifo.lifo_empty
    carried,    \* number of slots on ufifo.fifo_carrier
    counter,    \* uqueue.counter
    event_push, event_pop,
    pushed,     \* how many elements each producer has queued
    active,     \* the producers that have something to push, for good
    pc

vars == <<empty, carried, counter, event_push, event_pop, pushed, active, pc>>

(* In push2, fill2, pop2 and drop2, the thread is in its double-check.     *)
PushStates == {"idle", "push", "fill", "drain", "push2", "fill2", "rearm",
               "count", "signal", "blocked"}
PopStates == {"loop", "pop", "drop", "starve", "pop2", "drop2", "revive",
              "discount", "notify"}

In(S) == {t \in Threads : pc[t] \in S}

Goto(t, s) == pc' = [pc EXCEPT ![t] = s]

Incremented(n) == IF n = CounterMod - 1 THEN 0 ELSE n + 1

(* Mutated forms, named after the mistake, precede the steps they mutate.  *)
DecrementedSaturating(n) == IF n = 0 THEN 0 ELSE n - 1
Decremented(n) == IF n = 0 THEN CounterMod - 1 ELSE n - 1

Init ==                                                     \* uqueue_init
    /\ empty = Length
    /\ carried = 0
    /\ counter = 0
    /\ event_push = TRUE
    /\ event_pop = FALSE
    /\ pushed = [p \in Producers |-> 0]
    /\ active \in SUBSET Producers
    /\ pc = [t \in Threads |-> IF t \in Producers THEN "idle" ELSE "loop"]

-----------------------------------------------------------------------------
(* A producer that has something to push calls uqueue_push.                *)
CallPush(p) ==
    /\ p \in active
    /\ pc[p] = "idle"
    /\ pushed[p] < MaxPush
    /\ Goto(p, "push")
    /\ UNCHANGED <<empty, carried, counter, event_push, event_pop, pushed,
                   active>>

(* ufifo_push, first try: a slot is taken from the lifo of empty slots.    *)
TakeSlot(p) ==
    /\ pc[p] = "push"
    /\ IF empty > 0
       THEN empty' = empty - 1 /\ Goto(p, "fill")
       ELSE UNCHANGED empty /\ Goto(p, "drain")
    /\ UNCHANGED <<carried, counter, event_push, event_pop, pushed, active>>

(* signal that we are full *)
DrainPush(p) ==
    /\ pc[p] = "drain"
    /\ event_push' = FALSE
    /\ Goto(p, "push2")
    /\ UNCHANGED <<empty, carried, counter, event_pop, pushed, active>>

(* ufifo_push, double-check: on failure uqueue_push returns false, and its *)
(* caller starts a watcher on event_push.                                  *)
TakeSlotAgain(p) ==
    /\ pc[p] = "push2"
    /\ IF empty > 0
       THEN empty' = empty - 1 /\ Goto(p, "fill2")
       ELSE UNCHANGED empty /\ Goto(p, "blocked")
    /\ UNCHANGED <<carried, counter, event_push, event_pop, pushed, active>>

(* ufifo_push: the slot is filled and put on the fifo of carriers.         *)
Carry(p) ==
    /\ pc[p] \in {"fill", "fill2"}
    /\ carried' = carried + 1
    /\ pushed' = [pushed EXCEPT ![p] = @ + 1]
    /\ Goto(p, IF pc[p] = "fill" THEN "count" ELSE "rearm")
    /\ UNCHANGED <<empty, counter, event_push, event_pop, active>>

(* signal that we're alright again *)
RearmPush(p) ==
    /\ pc[p] = "rearm"
    /\ event_push' = TRUE
    /\ Goto(p, "count")
    /\ UNCHANGED <<empty, carried, counter, event_pop, pushed, active>>

CountTestsNewValue(p) ==
    /\ pc[p] = "count"
    /\ counter' = Incremented(counter)
    /\ Goto(p, IF counter' = 0 THEN "signal" ELSE "idle")
    /\ UNCHANGED <<empty, carried, event_push, event_pop, pushed, active>>

(* uatomic_fetch_add of the counter: the first element calls the consumer. *)
Count(p) ==
    /\ pc[p] = "count"
    /\ counter' = Incremented(counter)
    /\ Goto(p, IF counter = 0 THEN "signal" ELSE "idle")
    /\ UNCHANGED <<empty, carried, event_push, event_pop, pushed, active>>

SignalPop(p) ==
    /\ pc[p] = "signal"
    /\ event_pop' = TRUE
    /\ Goto(p, "idle")
    /\ UNCHANGED <<empty, carried, counter, event_push, pushed, active>>

(* The event loop runs the watcher of a blocked producer.                  *)
Unblock(p) ==
    /\ pc[p] = "blocked"
    /\ event_push
    /\ Goto(p, "push")
    /\ UNCHANGED <<empty, carried, counter, event_push, event_pop, pushed,
                   active>>

-----------------------------------------------------------------------------
(* The event loop runs the watcher of a consumer.                          *)
Trigger(c) ==
    /\ pc[c] = "loop"
    /\ event_pop
    /\ Goto(c, "pop")
    /\ UNCHANGED <<empty, carried, counter, event_push, event_pop, pushed,
                   active>>

(* ufifo_pop, first try: a slot is taken from the fifo of carriers.        *)
Take(c) ==
    /\ pc[c] = "pop"
    /\ IF carried > 0
       THEN carried' = carried - 1 /\ Goto(c, "drop")
       ELSE UNCHANGED carried /\ Goto(c, "starve")
    /\ UNCHANGED <<empty, counter, event_push, event_pop, pushed, active>>

(* signal that we starve *)
DrainPop(c) ==
    /\ pc[c] = "starve"
    /\ event_pop' = FALSE
    /\ Goto(c, "pop2")
    /\ UNCHANGED <<empty, carried, counter, event_push, pushed, active>>

TakeAgainNever(c) ==
    /\ pc[c] = "pop2"
    /\ Goto(c, "loop")
    /\ UNCHANGED <<empty, carried, counter, event_push, event_pop, pushed,
                   active>>

(* ufifo_pop, double-check: on failure uqueue_pop returns NULL, and the    *)
(* caller leaves its watcher on.                                           *)
TakeAgain(c) ==
    /\ pc[c] = "pop2"
    /\ IF carried > 0
       THEN carried' = carried - 1 /\ Goto(c, "drop2")
       ELSE UNCHANGED carried /\ Goto(c, "loop")
    /\ UNCHANGED <<empty, counter, event_push, event_pop, pushed, active>>

(* ufifo_pop: the slot is emptied and put back on the lifo.                *)
ReturnSlot(c) ==
    /\ pc[c] \in {"drop", "drop2"}
    /\ empty' = empty + 1
    /\ Goto(c, IF pc[c] = "drop" THEN "discount" ELSE "revive")
    /\ UNCHANGED <<carried, counter, event_push, event_pop, pushed, active>>

(* signal that we're alright again *)
RearmPop(c) ==
    /\ pc[c] = "revive"
    /\ event_pop' = TRUE
    /\ Goto(c, "discount")
    /\ UNCHANGED <<empty, carried, counter, event_push, pushed, active>>

(* uatomic_fetch_sub of the counter: the first pop of a full queue calls   *)
(* the producer.  The caller has its element; some pop again at once.      *)
Discount(c) ==
    /\ pc[c] = "discount"
    /\ counter' = Decremented(counter)
    /\ IF counter = Length
       THEN Goto(c, "notify")
       ELSE \E s \in {"loop", "pop"} : Goto(c, s)
    /\ UNCHANGED <<empty, carried, event_push, event_pop, pushed, active>>

SignalPush(c) ==
    /\ pc[c] = "notify"
    /\ event_push' = TRUE
    /\ \E s \in {"loop", "pop"} : Goto(c, s)
    /\ UNCHANGED <<empty, carried, counter, event_pop, pushed, active>>

-----------------------------------------------------------------------------
Producer(p) ==
    \/ CallPush(p) \/ TakeSlot(p) \/ DrainPush(p) \/ TakeSlotAgain(p)
    \/ Carry(p) \/ RearmPush(p) \/ Count(p) \/ SignalPop(p) \/ Unblock(p)

Consumer(c) ==
    \/ Trigger(c) \/ Take(c) \/ DrainPop(c) \/ TakeAgain(c)
    \/ ReturnSlot(c) \/ RearmPop(c) \/ Discount(c) \/ SignalPush(c)

Next == (\E p \in Producers : Producer(p)) \/ (\E c \in Consumers : Consumer(c))

Spec == Init /\ [][Next]_vars

(* Every thread is scheduled, and its event loop runs the watchers of      *)
(* readable descriptors.                                                   *)
Fairness == /\ \A p \in Producers : WF_vars(Producer(p))
            /\ \A c \in Consumers : WF_vars(Consumer(c))

FairSpec == Spec /\ Fairness

-----------------------------------------------------------------------------
TypeOK ==
    /\ empty \in 0..Length
    /\ carried \in 0..Length
    /\ counter \in 0..(CounterMod - 1)
    /\ event_push \in BOOLEAN
    /\ event_pop \in BOOLEAN
    /\ pushed \in [Producers -> Nat]
    /\ active \subseteq Producers
    /\ pc \in [Threads -> PushStates \cup PopStates]

(* No slot is lost or made up, whoever holds it.                           *)
SlotsConserved ==
    empty + carried + Cardinality(In({"fill", "fill2", "drop", "drop2"}))
        = Length

(* Pushes that are visible and not counted yet, and the same for pops.     *)
Uncounted == Cardinality(In({"count", "rearm"}))
Undiscounted == Cardinality(In({"drop", "drop2", "revive", "discount"}))

(* The counter runs late by exactly the calls in progress, modulo its      *)
(* width: it is right again whenever nobody is between a list and it.      *)
CounterMatches ==
    LET exact == carried - Uncounted + Undiscounted
    IN  counter = IF exact < 0 THEN exact + CounterMod ELSE exact

(* Neither slots nor counts get lost in any interleaving.                  *)
CountsAddUp == SlotsConserved /\ CounterMatches

(* With one consumer, no wake-up is lost: the consumer does not wait for   *)
(* an unreadable event_pop while something is queued, unless a producer is *)
(* still in its call.  The counter may be below zero then, and it is not   *)
(* the producer whose element is queued that will write.                   *)
ConsumerWoken ==
    /\ carried > 0
    /\ ~event_pop
    /\ \A c \in Consumers : pc[c] = "loop"
    => In({"rearm", "count", "signal"}) # {}

(* A queue between one producer and the consumer, as from queue sink to    *)
(* queue source.  With several producers the wake-ups of event_push are    *)
(* not enough: the README says how one is left waiting.                    *)
Paired == Cardinality(active) = 1

(* Everything a lone producer has to push is pushed and popped: one that   *)
(* found the queue full gets called again, "ueventfd triggered when data   *)
(* can be pushed" (uqueue.h:55), and so does the consumer.                 *)
AllDelivered ==
    Paired => <>[](carried = 0 /\ \A p \in active : pushed[p] = MaxPush)
=============================================================================
