----------------------------- MODULE QueueProofs --------------------------
(***************************************************************************)
(* Proofs about a queue between threads, and about the requests that two   *)
(* such queues carry between the same threads.                             *)
(*                                                                         *)
(* First uqueue, module UQueue, for any finite sets of producers and       *)
(* consumers and any length; the wake-up of the consumer is proved for a   *)
(* single one, as all uqueues of the repository have.  The proof follows   *)
(* the exact number that the counter stands for, below zero included.      *)
(* While the consumer sleeps on a drained descriptor that number is not    *)
(* positive, or somebody is about to write: a push that is counted from 0  *)
(* writes, one that is counted from below only brings the number closer to *)
(* 0, and something queued means a push to be counted.                     *)
(*                                                                         *)
(* Then module UpipeQueueRequest, for any sinks, requests and proxies and  *)
(* any length of the two queues.  What makes the counts of references add  *)
(* up is the order of messages: at most two about a proxy are on their way *)
(* to the source, REGISTER before UNREGISTER, and the first one about a    *)
(* proxy that is registered already is UNREGISTER.  A proxy whose count is *)
(* zero is in no message, so that it may be used anew.                     *)
(***************************************************************************)
EXTENDS UQueue, UpipeQueueRequest, SequenceTheorems, FiniteSetTheorems, TLAPS

Holding == {"fill", "fill2", "drop", "drop2"}
ToCount == {"count", "rearm"}
ToDiscount == {"drop", "drop2", "revive", "discount"}

Exact == carried - Uncounted + Undiscounted

(* A single consumer that sees a drained descriptor has drained it itself. *)
Asleep(c) == pc[c] = "loop" /\ ~event_pop

DrainedBy == \A c \in Consumers :
    ~event_pop => pc[c] \in {"loop", "pop2", "drop2", "revive"}

SleepsBelow == \A c \in Consumers :
    Asleep(c) => Exact <= 0 \/ In({"signal"}) # {}

(* Consumers stay in the states of consumers.                              *)
OwnStates ==
    /\ \A p \in Producers : pc[p] \in PushStates
    /\ \A c \in Consumers : pc[c] \in PopStates

Single == \A c, d \in Consumers : c = d

CInv ==
    /\ TypeOK
    /\ OwnStates
    /\ SlotsConserved
    /\ CounterMatches

WInv == Single => DrainedBy /\ SleepsBelow

-----------------------------------------------------------------------------
LEMMA ThreadsFinite ==
    IsFiniteSet(Threads) /\ Cardinality(Threads) \in Nat
BY ThreadsAssumption, FS_Union, FS_CardinalityType DEF Threads

LEMMA InFinite ==
    ASSUME NEW S
    PROVE  IsFiniteSet(In(S)) /\ Cardinality(In(S)) \in 0..Cardinality(Threads)
<1>1. In(S) \in SUBSET Threads
  BY DEF In
<1>2. IsFiniteSet(In(S)) /\ Cardinality(In(S)) <= Cardinality(Threads)
  BY <1>1, ThreadsFinite, FS_Subset
<1> QED BY <1>2, ThreadsFinite, FS_CardinalityType

LEMMA InFiniteNext ==
    ASSUME NEW S
    PROVE  IsFiniteSet(In(S)') /\ Cardinality(In(S)') \in 0..Cardinality(Threads)
<1>1. In(S)' \in SUBSET Threads
  BY DEF In
<1>2. IsFiniteSet(In(S)') /\ Cardinality(In(S)') <= Cardinality(Threads)
  BY <1>1, ThreadsFinite, FS_Subset
<1> QED BY <1>2, ThreadsFinite, FS_CardinalityType

(* The number of threads in S is a natural number that Threads bounds, and *)
(* a positive one when somebody is there.                                  *)
LEMMA InBound ==
    ASSUME NEW S
    PROVE  /\ Cardinality(In(S)) \in 0..Cardinality(Threads)
           /\ Cardinality(In(S)) = 0 <=> In(S) = {}
           /\ Cardinality(In(S)') \in 0..Cardinality(Threads)
           /\ Cardinality(In(S)') = 0 <=> In(S)' = {}
<1>1. \A A : IsFiniteSet(A) => (Cardinality(A) = 0 <=> A = {})
  BY FS_EmptySet
<1> QED BY <1>1, InFinite, InFiniteNext

LEMMA Counts ==
    ASSUME NEW S, NEW t \in Threads, NEW s,
           pc \in [Threads -> PushStates \cup PopStates], Goto(t, s)
    PROVE  Cardinality(In(S)') =
             Cardinality(In(S)) + (IF s \in S THEN 1 ELSE 0)
                                - (IF pc[t] \in S THEN 1 ELSE 0)
<1>1. pc'[t] = s /\ \A u \in Threads \ {t} : pc'[u] = pc[u]
  BY DEF Goto
<1>2. PICK A, B : A = In(S) /\ B = In(S)'
  OBVIOUS
<1>3. IsFiniteSet(A) /\ Cardinality(A) \in Nat /\ (t \in A <=> pc[t] \in S)
  BY <1>2, InFinite DEF In
<1>4. CASE s \in S
  <2>1. B = A \cup {t}
    BY <1>1, <1>2, <1>4 DEF In
  <2>2. Cardinality(B) = IF t \in A THEN Cardinality(A) ELSE Cardinality(A) + 1
    BY <1>3, <2>1, FS_AddElement
  <2> QED BY <1>2, <1>3, <1>4, <2>2
<1>5. CASE s \notin S
  <2>1. B = A \ {t}
    BY <1>1, <1>2, <1>5 DEF In
  <2>2. Cardinality(B) = IF t \in A THEN Cardinality(A) - 1 ELSE Cardinality(A)
    BY <1>3, <2>1, FS_RemoveElement
  <2> QED BY <1>2, <1>3, <1>5, <2>2
<1> QED BY <1>4, <1>5

LEMMA InitCInv == Init => CInv /\ WInv
<1> SUFFICES ASSUME Init PROVE CInv /\ WInv
  OBVIOUS
<1>1. pc = [t \in Threads |-> IF t \in Producers THEN "idle" ELSE "loop"]
  BY DEF Init
<1>2. /\ In(Holding) = {} /\ In(ToCount) = {} /\ In(ToDiscount) = {}
  BY <1>1 DEF In, Holding, ToCount, ToDiscount
<1>3. Cardinality({}) = 0
  BY FS_EmptySet
<1>4. Uncounted = 0 /\ Undiscounted = 0 /\ Cardinality(In(Holding)) = 0
  BY <1>2, <1>3 DEF Uncounted, Undiscounted, ToCount, ToDiscount
<1>5. Length \in Nat /\ CounterMod \in Nat /\ CounterMod > 0
  <2>1. Length \in Nat \ {0} /\ Cardinality(Threads) \in Nat
    BY LengthAssumption, ThreadsFinite
  <2> QED BY <2>1, CounterAssumption
<1>6. TypeOK
  <2>1. pc \in [Threads -> PushStates \cup PopStates]
    BY <1>1 DEF PushStates, PopStates
  <2>2. pushed \in [Producers -> Nat] /\ active \subseteq Producers
    BY DEF Init
  <2>3. event_push \in BOOLEAN /\ event_pop \in BOOLEAN
    BY DEF Init
  <2>4. empty \in 0..Length /\ carried \in 0..Length
    BY <1>5 DEF Init
  <2>5. counter \in 0..(CounterMod - 1)
    BY <1>5 DEF Init
  <2> QED BY <2>1, <2>2, <2>3, <2>4, <2>5 DEF TypeOK
<1>7. OwnStates
  BY <1>1, ThreadsAssumption DEF OwnStates, Threads, PushStates, PopStates
<1>8. SlotsConserved /\ CounterMatches
  BY <1>4, <1>5 DEF Init, SlotsConserved, Holding, CounterMatches
<1>9. DrainedBy /\ SleepsBelow
  BY <1>1, <1>4, ThreadsAssumption
     DEF Init, DrainedBy, SleepsBelow, Exact, Threads
<1> QED BY <1>6, <1>7, <1>8, <1>9 DEF CInv, WInv

-----------------------------------------------------------------------------
(* What one step of one thread is.                                         *)
Step(t) == \/ t \in Producers /\ Producer(t)
           \/ t \in Consumers /\ Consumer(t)

(* What a step does to the numbers, by where its thread comes from and     *)
(* goes to.                                                                *)
Effect(t, s) ==
    \/ /\ pc[t] \in {"push", "push2"} /\ s \in {"fill", "fill2"}
       /\ empty > 0 /\ empty' = empty - 1
       /\ carried' = carried /\ counter' = counter
    \/ /\ pc[t] \in {"drop", "drop2"} /\ s \in {"discount", "revive"}
       /\ empty' = empty + 1 /\ carried' = carried /\ counter' = counter
    \/ /\ pc[t] \in {"fill", "fill2"} /\ s \in ToCount
       /\ carried' = carried + 1 /\ empty' = empty /\ counter' = counter
    \/ /\ pc[t] \in {"pop", "pop2"} /\ s \in {"drop", "drop2"}
       /\ carried > 0 /\ carried' = carried - 1
       /\ empty' = empty /\ counter' = counter
    \/ /\ pc[t] = "count" /\ s \in {"signal", "idle"}
       /\ counter' = Incremented(counter)
       /\ empty' = empty /\ carried' = carried
    \/ /\ pc[t] = "discount" /\ s \in {"notify", "loop", "pop"}
       /\ counter' = Decremented(counter)
       /\ empty' = empty /\ carried' = carried
    \/ /\ \/ pc[t] = "rearm" /\ s = "count"
          \/ pc[t] = "revive" /\ s = "discount"
          \/ /\ pc[t] \notin Holding \cup ToCount \cup ToDiscount
             /\ s \notin Holding \cup ToCount \cup ToDiscount
       /\ empty' = empty /\ carried' = carried /\ counter' = counter

LEMMA StepMoves ==
    ASSUME CInv, NEW t \in Threads, Step(t)
    PROVE  \E s \in PushStates \cup PopStates :
             /\ Goto(t, s)
             /\ t \in Producers => s \in PushStates
             /\ t \in Consumers => s \in PopStates
             /\ Effect(t, s)
<1> USE DEF Effect, Holding, ToCount, ToDiscount, PushStates, PopStates
<1>1. CASE t \in Producers /\ Producer(t)
  <2>1. t \notin Consumers
    BY <1>1, ThreadsAssumption
  <2>2. CASE CallPush(t) \/ DrainPush(t) \/ SignalPop(t) \/ Unblock(t)
    BY <2>1, <2>2 DEF CallPush, DrainPush, SignalPop, Unblock
  <2>3. CASE TakeSlot(t) \/ TakeSlotAgain(t)
    BY <2>1, <2>3 DEF TakeSlot, TakeSlotAgain
  <2>4. CASE Carry(t)
    BY <2>1, <2>4 DEF Carry
  <2>5. CASE RearmPush(t) \/ Count(t)
    BY <2>1, <2>5 DEF RearmPush, Count
  <2> QED BY <1>1, <2>2, <2>3, <2>4, <2>5 DEF Producer
<1>2. CASE t \in Consumers /\ Consumer(t)
  <2>1. t \notin Producers
    BY <1>2, ThreadsAssumption
  <2>2. CASE Trigger(t) \/ DrainPop(t) \/ SignalPush(t)
    BY <2>1, <2>2 DEF Trigger, DrainPop, SignalPush
  <2>3. CASE Take(t) \/ TakeAgain(t)
    BY <2>1, <2>3 DEF Take, TakeAgain
  <2>4. CASE ReturnSlot(t)
    BY <2>1, <2>4 DEF ReturnSlot
  <2>5. CASE RearmPop(t) \/ Discount(t)
    BY <2>1, <2>5 DEF RearmPop, Discount
  <2> QED BY <1>2, <2>2, <2>3, <2>4, <2>5 DEF Consumer
<1> QED BY <1>1, <1>2 DEF Step

(* The arithmetic of the slots and of the counter: each number follows the *)
(* thread that moves.                                                      *)
LEMMA StepCInv ==
    ASSUME CInv, NEW t \in Threads, Step(t)
    PROVE  /\ CInv'
           /\ Exact' = Exact + (IF pc[t] = "count" THEN 1 ELSE 0)
                             - (IF pc[t] = "discount" THEN 1 ELSE 0)
<1>0. PICK N \in Int, H \in Int, U \in Int, D \in Int,
           H2 \in Int, U2 \in Int, D2 \in Int :
        /\ N = Cardinality(Threads)
        /\ H = Cardinality(In(Holding)) /\ H2 = Cardinality(In(Holding)')
        /\ U = Uncounted /\ U2 = Uncounted'
        /\ D = Undiscounted /\ D2 = Undiscounted'
  <2>1. /\ Cardinality(Threads) \in Int
        /\ \A S : Cardinality(In(S)) \in Int /\ Cardinality(In(S)') \in Int
    BY ThreadsFinite, InBound
  <2> QED BY <2>1 DEF Uncounted, Undiscounted
<1>a. PICK e2, k2, n2 : e2 = empty' /\ k2 = carried' /\ n2 = counter'
  OBVIOUS
<1>1. /\ Length \in Nat /\ Length > 0 /\ N \in Nat
      /\ CounterMod \in Nat /\ CounterMod > Length + N
  BY <1>0, LengthAssumption, ThreadsFinite, CounterAssumption
<1>2. TypeOK /\ OwnStates /\ SlotsConserved /\ CounterMatches
  BY DEF CInv
<1>3. PICK s \in PushStates \cup PopStates :
          /\ Goto(t, s)
          /\ t \in Producers => s \in PushStates
          /\ t \in Consumers => s \in PopStates
          /\ Effect(t, s)
  BY StepMoves
<1>4. pc' = [pc EXCEPT ![t] = s] /\ pc'[t] = s
  BY <1>2, <1>3 DEF Goto, TypeOK
<1>5. /\ H \in 0..N /\ U \in 0..N /\ D \in 0..N
      /\ H2 \in 0..N /\ U2 \in 0..N /\ D2 \in 0..N
  BY <1>0, InBound DEF Uncounted, Undiscounted
<1>6. /\ H2 = H + One(s \in Holding) - One(pc[t] \in Holding)
      /\ U2 = U + One(s \in ToCount) - One(pc[t] \in ToCount)
      /\ D2 = D + One(s \in ToDiscount) - One(pc[t] \in ToDiscount)
  BY <1>0, <1>2, <1>3, Counts DEF TypeOK, One, Uncounted, Undiscounted, ToCount,
     ToDiscount
<1>7. /\ pc[t] \in ToCount => U >= 1
      /\ pc[t] \in ToDiscount => D >= 1
  <2>1. pc[t] \in ToCount => In(ToCount) # {}
    BY DEF In
  <2>2. pc[t] \in ToDiscount => In(ToDiscount) # {}
    BY DEF In
  <2> QED BY <2>1, <2>2, <1>0, <1>5, InBound
          DEF Uncounted, Undiscounted, ToCount, ToDiscount
<1>8. /\ empty \in Int /\ carried \in Int /\ counter \in Int
      /\ empty >= 0 /\ carried >= 0 /\ carried <= Length
      /\ empty + carried + H = Length
      /\ counter = IF carried - U + D < 0
                   THEN carried - U + D + CounterMod ELSE carried - U + D
  BY <1>0, <1>1, <1>2 DEF TypeOK, SlotsConserved, CounterMatches, Holding
<1>b. /\ e2 = empty + One(pc[t] \in {"drop", "drop2"})
                     - One(s \in {"fill", "fill2"})
      /\ s \in {"fill", "fill2"} => empty > 0
  BY <1>a, <1>3, <1>8 DEF Effect, One, Holding, ToCount
<1>c. /\ k2 = carried + One(pc[t] \in {"fill", "fill2"})
                       - One(s \in {"drop", "drop2"})
      /\ s \in {"drop", "drop2"} => carried > 0
  BY <1>a, <1>3, <1>8 DEF Effect, One, Holding, ToCount
<1>d. /\ One(s \in ToCount) - One(pc[t] \in ToCount)
           = One(pc[t] \in {"fill", "fill2"}) - One(pc[t] = "count")
      /\ One(s \in ToDiscount) - One(pc[t] \in ToDiscount)
           = One(s \in {"drop", "drop2"}) - One(pc[t] = "discount")
  BY <1>3 DEF Effect, Holding, ToCount, ToDiscount, One
<1>9. /\ e2 + k2 + H2 = Length
      /\ e2 \in Int /\ e2 >= 0 /\ k2 \in Int /\ k2 >= 0
  BY <1>b, <1>c, <1>5, <1>6, <1>8 DEF Holding, One
<1>10. e2 \in 0..Length /\ k2 \in 0..Length
  BY <1>1, <1>5, <1>9
<1>11. k2 - U2 + D2 = carried - U + D
          + One(pc[t] = "count") - One(pc[t] = "discount")
  BY <1>c, <1>d, <1>5, <1>6, <1>8 DEF One
<1>12. n2 = IF k2 - U2 + D2 < 0
                  THEN k2 - U2 + D2 + CounterMod
                  ELSE k2 - U2 + D2
  <2>1. CASE pc[t] = "count"
    <3>1. n2 = Incremented(counter)
      BY <1>a, <1>3, <2>1 DEF Effect, Holding, ToCount, ToDiscount
    <3>2. carried - U + D < CounterMod - 1 /\ carried - U + D > -CounterMod
      BY <1>1, <1>5, <1>7, <1>8, <2>1 DEF ToCount
    <3> QED BY <1>1, <1>5, <1>8, <1>11, <2>1, <3>1, <3>2
            DEF Incremented, One
  <2>2. CASE pc[t] = "discount"
    <3>1. n2 = Decremented(counter)
      BY <1>a, <1>3, <2>2 DEF Effect, Holding, ToCount, ToDiscount
    <3>2. carried - U + D > 1 - CounterMod /\ carried - U + D < CounterMod
      BY <1>1, <1>5, <1>7, <1>8, <2>2 DEF ToDiscount
    <3> QED BY <1>1, <1>5, <1>8, <1>11, <2>2, <3>1, <3>2
            DEF Decremented, One
  <2>3. CASE pc[t] \notin {"count", "discount"}
    <3>1. n2 = counter
      BY <1>a, <1>3, <2>3 DEF Effect, Holding, ToCount, ToDiscount
    <3> QED BY <1>8, <1>11, <2>3, <3>1 DEF One
  <2> QED BY <2>1, <2>2, <2>3
<1>13. SlotsConserved' /\ CounterMatches'
  BY <1>0, <1>a, <1>9, <1>12 DEF SlotsConserved, CounterMatches, Holding
<1>14. n2 \in 0..(CounterMod - 1)
  <2>1. k2 - U2 + D2 \in Int /\ k2 - U2 + D2 > -CounterMod
    BY <1>1, <1>5, <1>10
  <2>2. k2 - U2 + D2 < CounterMod
    BY <1>1, <1>5, <1>10
  <2> QED BY <1>1, <1>12, <2>1, <2>2
<1>15. TypeOK'
  <2>1. event_push' \in BOOLEAN /\ event_pop' \in BOOLEAN
    <3>1. /\ event_push' = event_push \/ event_push' = TRUE
                \/ event_push' = FALSE
          /\ event_pop' = event_pop \/ event_pop' = TRUE
                \/ event_pop' = FALSE
      BY DEF Step, Producer, Consumer, CallPush, TakeSlot, DrainPush, TakeSlotAgain, Carry, RearmPush, Count,
          SignalPop, Unblock, Trigger, Take, DrainPop, TakeAgain, ReturnSlot,
          RearmPop, Discount, SignalPush
    <3>2. event_push \in BOOLEAN /\ event_pop \in BOOLEAN
      BY <1>2 DEF TypeOK
    <3> QED BY <3>1, <3>2, Zenon
  <2>2. pushed' \in [Producers -> Nat]
    <3>1. pushed' = pushed \/ pushed' = [pushed EXCEPT ![t] = @ + 1]
      BY DEF Step, Producer, Consumer, CallPush, TakeSlot, DrainPush, TakeSlotAgain, Carry, RearmPush, Count,
          SignalPop, Unblock, Trigger, Take, DrainPop, TakeAgain, ReturnSlot,
          RearmPop, Discount, SignalPush
    <3> QED BY <1>2, <3>1 DEF TypeOK
  <2>3. active' \subseteq Producers
    <3>1. active' = active
      BY DEF Step, Producer, Consumer, CallPush, TakeSlot, DrainPush, TakeSlotAgain, Carry, RearmPush, Count,
          SignalPop, Unblock, Trigger, Take, DrainPop, TakeAgain, ReturnSlot,
          RearmPop, Discount, SignalPush
    <3> QED BY <1>2, <3>1 DEF TypeOK
  <2>4. pc' \in [Threads -> PushStates \cup PopStates]
    BY <1>2, <1>4 DEF TypeOK
  <2> QED BY <1>a, <1>10, <1>14, <2>1, <2>2, <2>3, <2>4 DEF TypeOK
<1>16. OwnStates'
  BY <1>2, <1>3, <1>4 DEF OwnStates, TypeOK, Threads
<1>17. CInv'
  BY <1>13, <1>15, <1>16 DEF CInv
<1> QED BY <1>0, <1>a, <1>11, <1>17 DEF Exact, One

-----------------------------------------------------------------------------
(* The counter reads 0 just when the exact number is 0.                    *)
LEMMA ZeroIsZero ==
    ASSUME CInv
    PROVE  /\ Exact \in Int
           /\ counter = 0 <=> Exact = 0
<1>1. /\ Cardinality(Threads) \in Nat /\ Length \in Nat
      /\ CounterMod \in Nat /\ CounterMod > Length + Cardinality(Threads)
  BY ThreadsFinite, LengthAssumption, CounterAssumption
<1>2. /\ Uncounted \in 0..Cardinality(Threads)
      /\ Undiscounted \in 0..Cardinality(Threads)
  BY InBound DEF Uncounted, Undiscounted
<1>3. /\ carried \in 0..Length
      /\ counter = IF carried - Uncounted + Undiscounted < 0
                   THEN carried - Uncounted + Undiscounted + CounterMod
                   ELSE carried - Uncounted + Undiscounted
  BY DEF CInv, TypeOK, CounterMatches
<1> QED BY <1>1, <1>2, <1>3 DEF Exact

(* The descriptor is drained by the consumer itself, and only for the time *)
(* of its double-check or of its sleep.                                    *)
LEMMA StepDrainedBy ==
    ASSUME CInv, Single, DrainedBy, NEW t \in Threads, Step(t)
    PROVE  DrainedBy'
<1> SUFFICES ASSUME NEW c \in Consumers, ~event_pop'
             PROVE  pc'[c] \in {"loop", "pop2", "drop2", "revive"}
  BY DEF DrainedBy
<1>1. pc \in [Threads -> PushStates \cup PopStates] /\ c \in Threads
  BY DEF CInv, TypeOK, Threads
<1>2. CASE t \in Producers /\ Producer(t)
  <2>1. t # c
    BY <1>2, ThreadsAssumption
  <2> QED BY <1>1, <1>2, <2>1
          DEF DrainedBy, Producer, CallPush, TakeSlot, DrainPush,
          TakeSlotAgain, Carry, RearmPush, Count, SignalPop, Unblock, Goto
<1>3. CASE t \in Consumers /\ Consumer(t)
  <2>1. t = c
    BY <1>3 DEF Single
  <2>2. CASE DrainPop(c)
    BY <1>1, <2>2 DEF DrainPop, Goto
  <2>3. CASE TakeAgain(c) \/ ReturnSlot(c)
    BY <1>1, <2>3 DEF DrainedBy, TakeAgain, ReturnSlot, Goto
  <2>4. CASE RearmPop(c)
    BY <2>4 DEF RearmPop
  <2>5. CASE Trigger(c) \/ Take(c) \/ Discount(c) \/ SignalPush(c)
    BY <1>1, <2>5 DEF DrainedBy, Trigger, Take, Discount, SignalPush
  <2> QED BY <1>3, <2>1, <2>2, <2>3, <2>4, <2>5 DEF Consumer
<1> QED BY <1>2, <1>3 DEF Step

(* While the consumer sleeps the exact number is not positive, or somebody *)
(* is about to write.                                                      *)
LEMMA StepSleepsBelow ==
    ASSUME CInv, Single, DrainedBy, SleepsBelow, NEW t \in Threads, Step(t)
    PROVE  SleepsBelow'
<1> SUFFICES ASSUME NEW c \in Consumers, Asleep(c)'
             PROVE  Exact' <= 0 \/ In({"signal"})' # {}
  BY DEF SleepsBelow
<1>1. pc \in [Threads -> PushStates \cup PopStates] /\ c \in Threads
  BY DEF CInv, TypeOK, Threads
<1>2. PICK x \in Int : x = Exact
  BY ZeroIsZero
<1>3. PICK y : y = Exact'
  OBVIOUS
<1>4. y = x + (IF pc[t] = "count" THEN 1 ELSE 0)
            - (IF pc[t] = "discount" THEN 1 ELSE 0)
  BY <1>2, <1>3, StepCInv
<1>5. CASE t \in Producers /\ Producer(t)
  <2>1. t # c
    BY <1>5, ThreadsAssumption
  <2>2. Asleep(c)
    BY <1>1, <1>5, <2>1
       DEF Asleep, Producer, CallPush, TakeSlot, DrainPush, TakeSlotAgain,
       Carry, RearmPush, Count, SignalPop, Unblock, Goto
  <2>3. Exact <= 0 \/ In({"signal"}) # {}
    BY <2>2 DEF SleepsBelow
  <2>4. CASE SignalPop(t)
    BY <2>4 DEF SignalPop, Asleep
  <2>5. CASE Count(t)
    <3>1. CASE In({"signal"}) # {}
      BY <1>1, <2>5, <3>1 DEF Count, Goto, In
    <3>2. CASE counter = 0
      BY <1>1, <2>5, <3>2 DEF Count, Goto, In
    <3>3. CASE In({"signal"}) = {} /\ counter # 0
      <4>1. x < 0
        BY <1>2, <2>3, <3>3, ZeroIsZero
      <4>2. pc[t] = "count"
        BY <2>5 DEF Count
      <4>3. y <= 0
        BY <1>2, <1>4, <4>1, <4>2
      <4> QED BY <1>3, <4>3
    <3> QED BY <3>1, <3>2, <3>3
  <2>6. CASE ~SignalPop(t) /\ ~Count(t)
    <3>1. pc[t] \notin {"count", "discount", "signal"}
      BY <1>5, <2>6
         DEF Producer, CallPush, TakeSlot, DrainPush, TakeSlotAgain, Carry,
         RearmPush, Unblock
    <3>2. y = x
      BY <1>2, <1>4, <3>1
    <3>3. In({"signal"}) # {} => In({"signal"})' # {}
      <4>1. \E s : Goto(t, s)
        BY <1>5
           DEF Producer, CallPush, TakeSlot, DrainPush, TakeSlotAgain, Carry,
           RearmPush, Count, SignalPop, Unblock
      <4> QED BY <1>1, <3>1, <4>1 DEF Goto, In
    <3> QED BY <1>2, <1>3, <2>3, <3>2, <3>3
  <2> QED BY <2>4, <2>5, <2>6
<1>6. CASE t \in Consumers /\ Consumer(t)
  <2>1. t = c
    BY <1>6 DEF Single
  <2>2. TakeAgain(c) /\ carried = 0
    <3>1. pc'[c] = "loop" /\ ~event_pop'
      BY DEF Asleep
    <3>2. CASE ~TakeAgain(c)
      BY <1>1, <1>6, <2>1, <3>1, <3>2
         DEF Consumer, Trigger, Take, DrainPop, ReturnSlot, RearmPop,
         Discount, SignalPush, DrainedBy, Goto
    <3>3. CASE TakeAgain(c)
      BY <1>1, <3>1, <3>3 DEF TakeAgain, Goto, CInv, TypeOK
    <3> QED BY <3>2, <3>3
  <2>3. In(ToDiscount) = {}
    <3>1. \A d \in Consumers : d = c
      BY DEF Single
    <3>2. \A p \in Producers : pc[p] \notin ToDiscount
      BY DEF CInv, OwnStates, PushStates, ToDiscount
    <3> QED BY <2>2, <3>1, <3>2 DEF TakeAgain, ToDiscount, In, Threads
  <2>4. Undiscounted = 0 /\ Uncounted >= 0 /\ Uncounted \in Int
    <3>1. Cardinality(In(ToCount)) \in 0..Cardinality(Threads)
      BY InBound
    <3>2. Cardinality(In(ToDiscount)) = 0
      BY <2>3, InBound
    <3> QED BY <3>1, <3>2, ThreadsFinite
            DEF Uncounted, Undiscounted, ToCount, ToDiscount
  <2>5. x <= 0
    BY <1>2, <2>2, <2>4 DEF Exact
  <2>6. y = x
    BY <1>2, <1>4, <2>1, <2>2 DEF TakeAgain
  <2> QED BY <1>2, <1>3, <2>5, <2>6
<1> QED BY <1>5, <1>6 DEF Step

-----------------------------------------------------------------------------
LEMMA NextInv == CInv /\ WInv /\ [Next]_vars => CInv' /\ WInv'
<1> SUFFICES ASSUME CInv, WInv, [Next]_vars PROVE CInv' /\ WInv'
  OBVIOUS
<1>1. CASE UNCHANGED vars
  <2>1. /\ empty' = empty /\ carried' = carried /\ counter' = counter
        /\ event_push' = event_push /\ event_pop' = event_pop
        /\ pushed' = pushed /\ active' = active /\ pc' = pc
    BY <1>1 DEF vars
  <2>2. \A S : In(S)' = In(S)
    BY <2>1 DEF In
  <2> QED BY <2>1, <2>2
          DEF CInv, WInv, TypeOK, OwnStates, SlotsConserved, CounterMatches,
          Uncounted, Undiscounted, DrainedBy, SleepsBelow, Asleep, Exact
<1>2. CASE Next
  <2>1. PICK t \in Threads : Step(t)
    BY <1>2 DEF Next, Step, Threads
  <2>2. CInv'
    BY <2>1, StepCInv
  <2>3. WInv'
    BY <2>1, StepDrainedBy, StepSleepsBelow DEF WInv
  <2> QED BY <2>2, <2>3
<1> QED BY <1>1, <1>2

THEOREM Invariance == Spec => [](CInv /\ WInv)
BY InitCInv, NextInv, PTL DEF Spec

(* The lists of slots and the counter of a uqueue stay within their        *)
(* bounds, for any number of threads.                                      *)
THEOREM TypeCorrect == Spec => []TypeOK
<1>1. CInv => TypeOK
  BY DEF CInv
<1> QED BY <1>1, Invariance, PTL

(* No slot of the ring is lost, whichever threads hold one, and the counter*)
(* is the number of elements, off by the calls in progress, modulo its     *)
(* width.                                                                  *)
THEOREM CountsCorrect == Spec => []CountsAddUp
<1>1. CInv => CountsAddUp
  BY DEF CInv, CountsAddUp
<1> QED BY <1>1, Invariance, PTL

(* A single consumer does not sleep on an unreadable event_pop while       *)
(* something is queued and no producer is about to write it.               *)
THEOREM ConsumerNeverForgotten ==
    ASSUME Single, Consumers # {}
    PROVE  Spec => []ConsumerWoken
<1>1. CInv /\ WInv => ConsumerWoken
  <2> SUFFICES ASSUME CInv, WInv, carried > 0, ~event_pop,
                      \A c \in Consumers : pc[c] = "loop"
               PROVE  In({"rearm", "count", "signal"}) # {}
    BY DEF ConsumerWoken
  <2>1. PICK c \in Consumers : Asleep(c)
    BY DEF Asleep
  <2>2. Exact <= 0 \/ In({"signal"}) # {}
    BY <2>1 DEF WInv, SleepsBelow
  <2>3. CASE In({"signal"}) # {}
    BY <2>3 DEF In
  <2>4. CASE Exact <= 0
    <3>1. /\ Uncounted \in Int /\ Undiscounted \in Int
          /\ Undiscounted >= 0 /\ carried \in Int
      <4>1. /\ Cardinality(In(ToCount)) \in 0..Cardinality(Threads)
            /\ Cardinality(In(ToDiscount)) \in 0..Cardinality(Threads)
        BY InBound
      <4>2. carried \in 0..Length
        BY DEF CInv, TypeOK
      <4> QED BY <4>1, <4>2, ThreadsFinite, LengthAssumption
              DEF Uncounted, Undiscounted, ToCount, ToDiscount
    <3>2. Uncounted # 0
      BY <2>4, <3>1 DEF Exact
    <3>3. In(ToCount) # {}
      BY <3>2, InBound DEF Uncounted, ToCount
    <3> QED BY <3>3 DEF In, ToCount
  <2> QED BY <2>2, <2>3, <2>4
<1> QED BY <1>1, Invariance, PTL

-----------------------------------------------------------------------------
(* Requests.                                                               *)
Messages == [type : {"REGISTER", "UNREGISTER"}, request : Proxies]

(* Where an element of T is in the sequence s.                             *)
Where(s, T) == {i \in DOMAIN s : s[i] \in T}

LEMMA WhereFinite ==
    ASSUME NEW S, NEW s \in Seq(S), NEW T
    PROVE  /\ IsFiniteSet(Where(s, T)) /\ Cardinality(Where(s, T)) \in Nat
           /\ Cardinality(Where(s, T)) = 0 <=> \A i \in DOMAIN s : s[i] \notin T
<1>1. Len(s) \in Nat /\ DOMAIN s = 1..Len(s)
  BY LenProperties
<1>2. Where(s, T) \in SUBSET (1..Len(s))
  BY <1>1 DEF Where
<1>3. IsFiniteSet(1..Len(s))
  BY <1>1, FS_Interval
<1>4. IsFiniteSet(Where(s, T)) /\ Cardinality(Where(s, T)) \in Nat
  BY <1>2, <1>3, FS_Subset, FS_CardinalityType
<1>5. Cardinality(Where(s, T)) = 0 <=> Where(s, T) = {}
  BY <1>4, FS_EmptySet
<1> QED BY <1>4, <1>5 DEF Where

LEMMA WhereAppended ==
    ASSUME NEW S, NEW s \in Seq(S), NEW e \in S, NEW T
    PROVE  Cardinality(Where(Append(s, e), T)) = Cardinality(Where(s, T)) + One(e \in T)
<1>1. PICK n \in Nat : n = Len(s) /\ DOMAIN s = 1..n
  BY LenProperties
<1>2. PICK t : t = Append(s, e)
  OBVIOUS
<1>3. /\ DOMAIN t = 1..n + 1 /\ t[n + 1] = e /\ \A i \in 1..n : t[i] = s[i]
  <2>1. t \in Seq(S) /\ Len(t) = n + 1 /\ t[n + 1] = e /\ \A i \in 1..n : t[i] = s[i]
    BY <1>1, <1>2, AppendProperties
  <2> QED BY <2>1, LenProperties
<1>4. PICK A, B : A = Where(s, T) /\ B = Where(t, T)
  OBVIOUS
<1>5. IsFiniteSet(A) /\ Cardinality(A) \in Nat /\ n + 1 \notin A
  BY <1>1, <1>4, WhereFinite DEF Where
<1>6. CASE e \in T
  <2>1. B = A \cup {n + 1}
    BY <1>1, <1>3, <1>4, <1>6 DEF Where
  <2>2. Cardinality(B) = Cardinality(A) + 1
    BY <1>5, <2>1, FS_AddElement
  <2> QED BY <1>2, <1>4, <1>6, <2>2 DEF One
<1>7. CASE e \notin T
  <2>1. B = A
    BY <1>1, <1>3, <1>4, <1>7 DEF Where
  <2> QED BY <1>2, <1>4, <1>5, <1>7, <2>1 DEF One
<1> QED BY <1>6, <1>7

LEMMA WhereBeheaded ==
    ASSUME NEW S, NEW s \in Seq(S), s # <<>>, NEW T
    PROVE  Cardinality(Where(Tail(s), T)) = Cardinality(Where(s, T)) - One(Head(s) \in T)
<1>1. PICK n \in Nat : n = Len(s) /\ DOMAIN s = 1..n /\ n > 0
  BY LenProperties, EmptySeq
<1>2. PICK t : t = Tail(s)
  OBVIOUS
<1>3. /\ DOMAIN t = 1..n - 1 /\ Head(s) = s[1] /\ \A i \in 1..n - 1 : t[i] = s[i + 1]
  <2>1. t \in Seq(S) /\ Len(t) = n - 1 /\ \A i \in 1..n - 1 : t[i] = s[i + 1]
    BY <1>1, <1>2, HeadTailProperties
  <2> QED BY <1>1, <2>1, LenProperties
<1>4. PICK A, B : A = Where(s, T) /\ B = Where(t, T)
  OBVIOUS
<1>5. IsFiniteSet(A) /\ Cardinality(A) \in Nat /\ (1 \in A <=> Head(s) \in T)
  <2>1. IsFiniteSet(A) /\ Cardinality(A) \in Nat
    BY <1>4, WhereFinite
  <2>2. 1 \in A <=> Head(s) \in T
    BY <1>1, <1>3, <1>4 DEF Where
  <2> QED BY <2>1, <2>2
<1>6. PICK C : C = A \ {1}
  OBVIOUS
<1>7. IsFiniteSet(C) /\ Cardinality(C) = IF 1 \in A THEN Cardinality(A) - 1 ELSE Cardinality(A)
  BY <1>5, <1>6, FS_RemoveElement
<1>8. Cardinality(B) = Cardinality(C)
  <2>1. PICK f : f = [i \in C |-> i - 1]
    OBVIOUS
  <2>2. \A i \in C : i \in 2..n /\ s[i] \in T
    BY <1>1, <1>4, <1>6 DEF Where
  <2>3. ASSUME NEW i \in C PROVE i - 1 \in B
    <3>1. i - 1 \in 1..n - 1 /\ (i - 1) + 1 = i
      BY <1>1, <2>2
    <3> QED BY <1>3, <1>4, <2>2, <3>1 DEF Where
  <2>4. f \in [C -> B]
    BY <2>1, <2>3
  <2>5. \A i, j \in C : f[i] = f[j] => i = j
    BY <2>1, <2>2
  <2>6. ASSUME NEW j \in B PROVE \E i \in C : f[i] = j
    <3>1. j \in 1..n - 1 /\ s[j + 1] \in T /\ j + 1 \in 1..n /\ j + 1 # 1
      BY <1>1, <1>3, <1>4 DEF Where
    <3>2. j + 1 \in C
      BY <1>1, <1>4, <1>6, <3>1 DEF Where
    <3> QED BY <2>1, <3>1, <3>2
  <2>7. f \in Bijection(C, B)
    BY <2>4, <2>5, <2>6 DEF Bijection, Injection, IsInjective, Surjection
  <2>8. ExistsBijection(C, B)
    BY <2>7 DEF ExistsBijection
  <2> QED BY <1>7, <2>8, FS_Bijection
<1> QED BY <1>2, <1>4, <1>5, <1>7, <1>8 DEF One

-----------------------------------------------------------------------------
(* The types, but for the counts, which are natural numbers because of what*)
(* they count.                                                             *)
Typed ==
    /\ request_list \subseteq Proxies /\ registered \subseteq Proxies /\ lost \subseteq Proxies
    /\ unheard \subseteq registered
    /\ upstream \in [Proxies -> Requests \cup {None}]
    /\ refs \in [Proxies -> Int]
    /\ downstream_oob \in Seq(Messages) /\ upstream_oob \in Seq(Proxies)
    /\ Len(downstream_oob) <= OobQueues /\ Len(upstream_oob) <= OobQueues
    /\ watching \subseteq Sinks
    /\ provider \in [Requests -> Sinks \cup {None}]

About(p) == {m \in Messages : m.request = p}

(* The messages below and above that are about a proxy.                    *)
Below(p) == Cardinality(Where(downstream_oob, About(p)))
Above(p) == Cardinality(Where(upstream_oob, {p}))

Counted(p) ==
    refs[p] = One(p \in request_list) + One(p \in registered) + Below(p) + Above(p)

(* There are two messages about a proxy at most: it is registered and then *)
(* unregistered.                                                           *)
Twice ==
    \A i, j \in DOMAIN downstream_oob :
      i < j /\ downstream_oob[i].request = downstream_oob[j].request =>
        downstream_oob[i].type = "REGISTER" /\ downstream_oob[j].type = "UNREGISTER"

Sent(type, p) ==
    \E i \in DOMAIN downstream_oob :
      downstream_oob[i].type = type /\ downstream_oob[i].request = p

Known(p) == p \in registered \/ Sent("REGISTER", p)

(* What the source knows of, or will: what is listed, what it was not told *)
(* to forget, and what it is about to be told to.                          *)
Followed(p) ==
    /\ ~(p \in registered /\ Sent("REGISTER", p))
    /\ Known(p) <=> p \in request_list \cup lost \/ Sent("UNREGISTER", p)
    /\ p \in request_list => p \notin lost
    /\ Sent("UNREGISTER", p) => p \notin request_list \cup lost

RequestInv == Typed /\ Twice /\ \A p \in Proxies : Counted(p) /\ Followed(p)

-----------------------------------------------------------------------------
LEMMA AppendIs ==
    ASSUME NEW S, NEW s \in Seq(S), NEW e \in S, NEW t, t = Append(s, e)
    PROVE  /\ t \in Seq(S) /\ Len(t) = Len(s) + 1 /\ Len(s) \in Nat
           /\ DOMAIN t = 1..Len(s) + 1 /\ DOMAIN s = 1..Len(s)
           /\ t[Len(s) + 1] = e /\ \A i \in 1..Len(s) : t[i] = s[i]
<1>1. /\ t \in Seq(S) /\ Len(t) = Len(s) + 1
      /\ t[Len(s) + 1] = e /\ \A i \in 1..Len(s) : t[i] = s[i]
  BY AppendProperties
<1> QED BY <1>1, LenProperties

LEMMA TailIs ==
    ASSUME NEW S, NEW s \in Seq(S), s # <<>>, NEW t, t = Tail(s)
    PROVE  /\ t \in Seq(S) /\ Len(t) = Len(s) - 1 /\ Len(s) \in Nat /\ Len(s) > 0
           /\ DOMAIN t = 1..Len(s) - 1 /\ DOMAIN s = 1..Len(s)
           /\ Head(s) = s[1] /\ Head(s) \in S /\ \A i \in 1..Len(s) - 1 : t[i] = s[i + 1]
<1>1. t \in Seq(S) /\ Len(t) = Len(s) - 1 /\ \A i \in 1..Len(t) : t[i] = s[i + 1]
  BY HeadTailProperties
<1>2. Len(s) \in Nat /\ Len(s) > 0 /\ DOMAIN s = 1..Len(s)
  BY LenProperties, EmptySeq
<1>3. DOMAIN t = 1..Len(s) - 1
  BY <1>1, LenProperties
<1>4. Head(s) = s[1] /\ Head(s) \in S
  BY HeadTailProperties
<1> QED BY <1>1, <1>2, <1>3, <1>4

(* A message about p is sent: the first one, or the second.                *)
LEMMA MessageSent ==
    ASSUME RequestInv, NEW p \in Proxies, NEW type \in {"REGISTER", "UNREGISTER"},
           downstream_oob' = Append(downstream_oob, Message(type, p)),
           type = "REGISTER" => ~Sent("REGISTER", p), ~Sent("UNREGISTER", p)
    PROVE  /\ downstream_oob' \in Seq(Messages) /\ Len(downstream_oob') = Len(downstream_oob) + 1
           /\ Twice'
           /\ \A t, q : Sent(t, q)' <=> Sent(t, q) \/ (t = type /\ q = p)
           /\ \A q : Below(q)' = Below(q) + One(q = p)
<1>1. PICK d, e, m : d = downstream_oob /\ e = downstream_oob' /\ m = Message(type, p)
  OBVIOUS
<1>2. m \in Messages /\ m.type = type /\ m.request = p
  BY <1>1 DEF Message, Messages
<1>3. d \in Seq(Messages) /\ e = Append(d, m)
  BY <1>1 DEF RequestInv, Typed
<1>4. PICK n \in Nat : n = Len(d)
  BY <1>3, LenProperties
<1>5. /\ e \in Seq(Messages) /\ Len(e) = n + 1 /\ DOMAIN e = 1..n + 1 /\ DOMAIN d = 1..n
      /\ e[n + 1] = m /\ \A i \in 1..n : e[i] = d[i]
  BY <1>2, <1>3, <1>4, AppendIs
<1>6. \A i \in 1..n : d[i] \in Messages
  BY <1>3, <1>4, ElementOfSeq
<1>7. \A i \in 1..n : d[i].request = p => d[i].type = "REGISTER" /\ type = "UNREGISTER"
  <2> SUFFICES ASSUME NEW i \in 1..n, d[i].request = p
               PROVE  d[i].type = "REGISTER" /\ type = "UNREGISTER"
    OBVIOUS
  <2>1. d[i].type \in {"REGISTER", "UNREGISTER"}
    BY <1>6 DEF Messages
  <2>2. Sent(d[i].type, p)
    BY <1>1, <1>5 DEF Sent
  <2> QED BY <2>1, <2>2
<1>8. Twice'
  <2> SUFFICES ASSUME NEW i \in 1..n + 1, NEW j \in 1..n + 1, i < j, e[i].request = e[j].request
               PROVE  e[i].type = "REGISTER" /\ e[j].type = "UNREGISTER"
    BY <1>1, <1>5 DEF Twice
  <2>1. i \in 1..n /\ e[i] = d[i]
    BY <1>5
  <2>2. CASE j = n + 1
    BY <1>2, <1>5, <1>7, <2>1, <2>2
  <2>3. CASE j # n + 1
    <3>1. j \in 1..n /\ e[j] = d[j]
      BY <1>5, <2>3
    <3> QED BY <1>1, <1>5, <2>1, <3>1 DEF RequestInv, Twice
  <2> QED BY <2>2, <2>3
<1>9. ASSUME NEW t, NEW q
      PROVE  Sent(t, q)' <=> Sent(t, q) \/ (t = type /\ q = p)
  <2>1. Sent(t, q)' <=> \E i \in 1..n + 1 : e[i].type = t /\ e[i].request = q
    BY <1>1, <1>5 DEF Sent
  <2>2. Sent(t, q) <=> \E i \in 1..n : d[i].type = t /\ d[i].request = q
    BY <1>1, <1>5 DEF Sent
  <2>3. \A i \in 1..n + 1 : i \in 1..n \/ i = n + 1
    OBVIOUS
  <2>4. n + 1 \in 1..n + 1 /\ \A i \in 1..n : i \in 1..n + 1
    OBVIOUS
  <2>5. ASSUME NEW i \in 1..n + 1, e[i].type = t, e[i].request = q
        PROVE  Sent(t, q) \/ (t = type /\ q = p)
    <3>1. CASE i = n + 1
      BY <1>2, <1>5, <2>5, <3>1
    <3>2. CASE i # n + 1
      <4>1. i \in 1..n /\ d[i].type = t /\ d[i].request = q
        BY <1>5, <2>5, <3>2
      <4> QED BY <2>2, <4>1
    <3> QED BY <3>1, <3>2
  <2>6. ASSUME NEW i \in 1..n, d[i].type = t, d[i].request = q
        PROVE  Sent(t, q)'
    <3>1. i \in 1..n + 1 /\ e[i].type = t /\ e[i].request = q
      BY <1>5, <2>6
    <3> QED BY <2>1, <3>1
  <2>7. t = type /\ q = p => Sent(t, q)'
    BY <1>2, <1>5, <2>1, <2>4
  <2> QED BY <2>1, <2>2, <2>5, <2>6, <2>7
<1>10. ASSUME NEW q
       PROVE  Below(q)' = Below(q) + One(q = p)
  <2>1. Where(downstream_oob, About(q))' = Where(e, About(q))
    BY <1>1 DEF Where, About, Messages
  <2>2. Cardinality(Where(Append(d, m), About(q))) = Cardinality(Where(d, About(q))) + One(m \in About(q))
    BY <1>2, <1>3, WhereAppended
  <2>3. m \in About(q) <=> q = p
    BY <1>2 DEF About
  <2> QED BY <1>1, <1>3, <2>1, <2>2, <2>3 DEF One, Below
<1> QED BY <1>1, <1>4, <1>5, <1>8, <1>9, <1>10

(* The first message is received.                                          *)
LEMMA MessageReceived ==
    ASSUME RequestInv, downstream_oob # <<>>, downstream_oob' = Tail(downstream_oob)
    PROVE  \E p \in Proxies, type \in {"REGISTER", "UNREGISTER"} :
             /\ Head(downstream_oob).type = type /\ Head(downstream_oob).request = p
             /\ Sent(type, p) /\ ~Sent(type, p)'
             /\ type = "UNREGISTER" => ~Sent("REGISTER", p)
             /\ \A t, q : t # type \/ q # p => (Sent(t, q)' <=> Sent(t, q))
             /\ downstream_oob' \in Seq(Messages) /\ Len(downstream_oob') = Len(downstream_oob) - 1
             /\ Twice'
             /\ \A q : Below(q)' = Below(q) - One(q = p)
<1>1. PICK d, e, m : d = downstream_oob /\ e = downstream_oob' /\ m = Head(downstream_oob)
  OBVIOUS
<1>2. d \in Seq(Messages) /\ d # <<>> /\ e = Tail(d)
  BY <1>1 DEF RequestInv, Typed
<1>3. PICK n \in Nat : n = Len(d)
  BY <1>2, LenProperties
<1>4. /\ e \in Seq(Messages) /\ Len(e) = n - 1 /\ DOMAIN e = 1..n - 1 /\ DOMAIN d = 1..n /\ n > 0
      /\ m = d[1] /\ m \in Messages /\ \A i \in 1..n - 1 : e[i] = d[i + 1]
  BY <1>1, <1>2, <1>3, TailIs
<1>5. PICK p \in Proxies, type \in {"REGISTER", "UNREGISTER"} : m.type = type /\ m.request = p
  BY <1>4 DEF Messages
<1>6. \A i, j \in 1..n : i < j /\ d[i].request = d[j].request =>
        d[i].type = "REGISTER" /\ d[j].type = "UNREGISTER"
  BY <1>1, <1>4 DEF RequestInv, Twice
<1>7. \A i \in 1..n - 1 : e[i].request = p => type = "REGISTER" /\ e[i].type = "UNREGISTER"
  <2> SUFFICES ASSUME NEW i \in 1..n - 1, e[i].request = p
               PROVE  type = "REGISTER" /\ e[i].type = "UNREGISTER"
    OBVIOUS
  <2>1. 1 \in 1..n /\ i + 1 \in 1..n /\ 1 < i + 1
    OBVIOUS
  <2>2. d[1].request = d[i + 1].request /\ e[i] = d[i + 1]
    BY <1>4, <1>5
  <2> QED BY <1>4, <1>5, <1>6, <2>1, <2>2
<1>8. \A t, q : Sent(t, q)' <=> \E i \in 1..n - 1 : e[i].type = t /\ e[i].request = q
  BY <1>1, <1>4 DEF Sent
<1>9. ASSUME NEW t, NEW q
      PROVE  Sent(t, q) <=> Sent(t, q)' \/ (t = type /\ q = p)
  <2>1. Sent(t, q) <=> \E i \in 1..n : d[i].type = t /\ d[i].request = q
    BY <1>1, <1>4 DEF Sent
  <2>2. ASSUME NEW i \in 1..n, d[i].type = t, d[i].request = q
        PROVE  Sent(t, q)' \/ (t = type /\ q = p)
    <3>1. CASE i = 1
      BY <1>4, <1>5, <2>2, <3>1
    <3>2. CASE i # 1
      <4>1. PICK j \in 1..n - 1 : j = i - 1 /\ j + 1 = i
        BY <3>2
      <4>2. e[j].type = t /\ e[j].request = q
        BY <1>4, <2>2, <4>1
      <4> QED BY <1>8, <4>2
    <3> QED BY <3>1, <3>2
  <2>3. ASSUME NEW i \in 1..n - 1, e[i].type = t, e[i].request = q
        PROVE  Sent(t, q)
    <3>1. i + 1 \in 1..n /\ e[i] = d[i + 1]
      BY <1>4
    <3> QED BY <2>1, <2>3, <3>1
  <2>4. t = type /\ q = p => Sent(t, q)
    <3>1. 1 \in 1..n
      BY <1>4
    <3> QED BY <1>4, <1>5, <2>1, <3>1
  <2> QED BY <1>8, <2>1, <2>2, <2>3, <2>4
<1>10. ~Sent(type, p)' /\ (type = "UNREGISTER" => ~Sent("REGISTER", p)')
  BY <1>7, <1>8
<1>11. Twice'
  <2> SUFFICES ASSUME NEW i \in 1..n - 1, NEW j \in 1..n - 1, i < j, e[i].request = e[j].request
               PROVE  e[i].type = "REGISTER" /\ e[j].type = "UNREGISTER"
    BY <1>1, <1>4 DEF Twice
  <2>1. i + 1 \in 1..n /\ j + 1 \in 1..n /\ i + 1 < j + 1
    OBVIOUS
  <2>2. e[i] = d[i + 1] /\ e[j] = d[j + 1]
    BY <1>4
  <2> QED BY <1>6, <2>1, <2>2
<1>12. ASSUME NEW q
       PROVE  Below(q)' = Below(q) - One(q = p)
  <2>1. Where(downstream_oob, About(q))' = Where(e, About(q))
    BY <1>1 DEF Where, About, Messages
  <2>2. Cardinality(Where(Tail(d), About(q))) = Cardinality(Where(d, About(q))) - One(m \in About(q))
    BY <1>1, <1>2, WhereBeheaded
  <2>3. m \in About(q) <=> q = p
    BY <1>4, <1>5 DEF About
  <2> QED BY <1>1, <1>2, <2>1, <2>2, <2>3 DEF One, Below
<1>13. /\ Head(downstream_oob).type = type /\ Head(downstream_oob).request = p
       /\ downstream_oob' \in Seq(Messages) /\ Len(downstream_oob') = Len(downstream_oob) - 1
  BY <1>1, <1>3, <1>4, <1>5
<1>14. /\ Sent(type, p) /\ ~Sent(type, p)'
       /\ \A t, q : t # type \/ q # p => (Sent(t, q)' <=> Sent(t, q))
  BY <1>9, <1>10
<1>15. type = "UNREGISTER" => ~Sent("REGISTER", p)
  BY <1>9, <1>10
<1> QED BY <1>11, <1>12, <1>13, <1>14, <1>15

(* The number of answers about a proxy that wait.                          *)
LEMMA AnswersCounted ==
    ASSUME RequestInv, NEW q
    PROVE  /\ \A p \in Proxies : upstream_oob' = Append(upstream_oob, p) =>
                /\ upstream_oob' \in Seq(Proxies) /\ Len(upstream_oob') = Len(upstream_oob) + 1
                /\ Above(q)' = Above(q) + One(q = p)
           /\ upstream_oob # <<>> /\ upstream_oob' = Tail(upstream_oob) =>
                /\ upstream_oob' \in Seq(Proxies) /\ Len(upstream_oob') = Len(upstream_oob) - 1
                /\ Head(upstream_oob) \in Proxies
                /\ Above(q)' = Above(q) - One(q = Head(upstream_oob))
<1>1. PICK s, t : s = upstream_oob /\ t = upstream_oob' /\ s \in Seq(Proxies)
  BY DEF RequestInv, Typed
<1>2. Above(q)' = Cardinality(Where(t, {q})) /\ Above(q) = Cardinality(Where(s, {q}))
  BY <1>1 DEF Where, Above
<1>3. ASSUME NEW p \in Proxies, t = Append(s, p)
      PROVE  /\ t \in Seq(Proxies) /\ Len(t) = Len(s) + 1
             /\ Cardinality(Where(t, {q})) = Cardinality(Where(s, {q})) + One(q = p)
  <2>1. Cardinality(Where(Append(s, p), {q})) = Cardinality(Where(s, {q})) + One(p \in {q})
    BY <1>1, WhereAppended
  <2> QED BY <1>1, <1>3, <2>1, AppendProperties DEF One
<1>4. ASSUME s # <<>>, t = Tail(s)
      PROVE  /\ t \in Seq(Proxies) /\ Len(t) = Len(s) - 1 /\ Head(s) \in Proxies
             /\ Cardinality(Where(t, {q})) = Cardinality(Where(s, {q})) - One(q = Head(s))
  <2>1. Cardinality(Where(Tail(s), {q})) = Cardinality(Where(s, {q})) - One(Head(s) \in {q})
    BY <1>1, <1>4, WhereBeheaded
  <2> QED BY <1>1, <1>4, <2>1, HeadTailProperties DEF One
<1> QED BY <1>1, <1>2, <1>3, <1>4

LEMMA NothingSent ==
    ASSUME UNCHANGED downstream_oob
    PROVE  /\ Twice' <=> Twice
           /\ \A t, q : Sent(t, q)' <=> Sent(t, q)
           /\ \A q : Below(q)' = Below(q)
<1>1. Twice' <=> Twice
  BY DEF Twice
<1>2. \A t, q : Sent(t, q)' <=> Sent(t, q)
  BY DEF Sent
<1>3. \A q : Below(q)' = Below(q)
  BY DEF Below, Where, About, Messages
<1> QED BY <1>1, <1>2, <1>3

LEMMA NothingAnswered ==
    ASSUME UNCHANGED upstream_oob
    PROVE  \A q : Above(q)' = Above(q)
BY DEF Above, Where

LEMMA NaturalCounts ==
    ASSUME RequestInv, NEW q
    PROVE  Below(q) \in Nat /\ Above(q) \in Nat
<1>1. Cardinality(Where(downstream_oob, About(q))) \in Nat
  BY WhereFinite DEF RequestInv, Typed
<1>2. Cardinality(Where(upstream_oob, {q})) \in Nat
  BY WhereFinite DEF RequestInv, Typed
<1> QED BY <1>1, <1>2 DEF Below, Above

(* A proxy that is free is not in use anywhere.                            *)
LEMMA FreeIsUnused ==
    ASSUME RequestInv, NEW p \in Proxies, refs[p] = 0
    PROVE  /\ p \notin request_list /\ p \notin registered /\ p \notin lost
           /\ \A t : ~Sent(t, p)
           /\ Below(p) = 0 /\ Above(p) = 0
<1>1. Below(p) \in Nat /\ Above(p) \in Nat
  BY NaturalCounts
<1>2. Counted(p) /\ Followed(p)
  BY DEF RequestInv
<1>3. p \notin request_list /\ p \notin registered /\ Below(p) = 0 /\ Above(p) = 0
  BY <1>1, <1>2 DEF Counted, One
<1>4. \A i \in DOMAIN downstream_oob : downstream_oob[i] \notin About(p)
  BY <1>3, WhereFinite DEF RequestInv, Typed, Below
<1>5. \A i \in DOMAIN downstream_oob : downstream_oob[i] \in Messages
  BY LenProperties, ElementOfSeq DEF RequestInv, Typed
<1>6. \A t : ~Sent(t, p)
  BY <1>4, <1>5 DEF Sent, About
<1> QED BY <1>2, <1>3, <1>6 DEF Followed, Known

-----------------------------------------------------------------------------
LEMMA RegisterKeeps ==
    ASSUME RequestInv, NEW r \in Requests, NEW p \in Proxies, Register(r, p)
    PROVE  RequestInv'
<1>1. CASE RoomBelow
  <2>1. /\ p \notin request_list /\ p \notin registered /\ p \notin lost
        /\ \A t : ~Sent(t, p)
        /\ Below(p) = 0 /\ Above(p) = 0
    BY FreeIsUnused DEF Register
  <2>2. downstream_oob' = Append(downstream_oob, Message("REGISTER", p))
    BY <1>1 DEF Register
  <2>3. /\ downstream_oob' \in Seq(Messages) /\ Len(downstream_oob') = Len(downstream_oob) + 1
        /\ Twice'
        /\ \A t, q : Sent(t, q)' <=> Sent(t, q) \/ (t = "REGISTER" /\ q = p)
        /\ \A q : Below(q)' = Below(q) + One(q = p)
    BY <2>1, <2>2, MessageSent
  <2>4. \A q : Above(q)' = Above(q)
    BY NothingAnswered DEF Register
  <2>5. Typed'
    <3>1. Len(downstream_oob) \in Nat
      BY LenProperties DEF RequestInv, Typed
    <3>2. Len(downstream_oob') <= OobQueues
      BY <1>1, <2>3, <3>1, RequestAssumption DEF RoomBelow
    <3>3. /\ request_list' \subseteq Proxies /\ registered' \subseteq Proxies /\ lost' \subseteq Proxies
          /\ unheard' \subseteq registered'
      BY <1>1 DEF Register, RequestInv, Typed
    <3>4. watching' \subseteq Sinks
      <4>1. watching' = watching \cup {At[r]}
        BY <1>1 DEF Register
      <4> QED BY <4>1, RequestAssumption DEF RequestInv, Typed
    <3>5. UNCHANGED upstream_oob
      BY DEF Register
    <3>6. upstream' \in [Proxies -> Requests \cup {None}]
      BY <1>1 DEF Register, RequestInv, Typed
    <3>7. refs' \in [Proxies -> Int]
      BY <1>1 DEF Register, RequestInv, Typed
    <3>8. provider' \in [Requests -> Sinks \cup {None}]
      BY DEF Register, RequestInv, Typed
    <3> QED BY <2>3, <3>2, <3>3, <3>4, <3>5, <3>6, <3>7, <3>8 DEF RequestInv, Typed
  <2>6. ASSUME NEW q \in Proxies PROVE Counted(q)'
    <3>1. Counted(q) /\ Below(q) \in Nat /\ Above(q) \in Nat
      BY NaturalCounts DEF RequestInv
    <3>2. Below(q)' = Below(q) + One(q = p) /\ Above(q)' = Above(q)
      BY <2>3, <2>4
    <3>3. CASE q = p
      <4>1. refs'[q] = 2 /\ q \in request_list' /\ q \notin registered'
        BY <1>1, <2>1, <3>3 DEF Register, RequestInv, Typed
      <4> QED BY <2>1, <3>2, <3>3, <4>1 DEF Counted, One
    <3>4. CASE q # p
      <4>1. /\ refs'[q] = refs[q] /\ registered' = registered
            /\ q \in request_list' <=> q \in request_list
        BY <1>1, <3>4 DEF Register, RequestInv, Typed
      <4> QED BY <3>1, <3>2, <3>4, <4>1 DEF Counted, One
    <3> QED BY <3>3, <3>4
  <2>7. ASSUME NEW q \in Proxies PROVE Followed(q)'
    <3>1. /\ Sent("REGISTER", q)' <=> Sent("REGISTER", q) \/ q = p
          /\ Sent("UNREGISTER", q)' <=> Sent("UNREGISTER", q)
      BY <2>3
    <3>2. Followed(q)
      BY DEF RequestInv
    <3> QED BY <1>1, <2>1, <3>1, <3>2 DEF Register, Followed, Known
  <2> QED BY <2>3, <2>5, <2>6, <2>7 DEF RequestInv
<1>2. CASE ~RoomBelow
  <2>1. UNCHANGED <<request_list, upstream, refs, downstream_oob, upstream_oob, watching, registered, lost, unheard>>
    BY <1>2 DEF Register
  <2>2. /\ Twice' <=> Twice
        /\ \A t, q : Sent(t, q)' <=> Sent(t, q)
        /\ \A q : Below(q)' = Below(q)
    BY <2>1, NothingSent
  <2>3. \A q : Above(q)' = Above(q)
    BY <2>1, NothingAnswered
  <2>4. Typed'
    BY <2>1 DEF Register, RequestInv, Typed
  <2>5. ASSUME NEW q \in Proxies PROVE Counted(q)'
    BY <2>1, <2>2, <2>3 DEF RequestInv, Counted, One
  <2>6. ASSUME NEW q \in Proxies PROVE Followed(q)'
    BY <2>1, <2>2 DEF RequestInv, Followed, Known
  <2> QED BY <2>2, <2>4, <2>5, <2>6 DEF RequestInv
<1> QED BY <1>1, <1>2

LEMMA UnregisterKeeps ==
    ASSUME RequestInv, NEW r \in Requests, NEW p \in Proxies, Unregister(r, p)
    PROVE  RequestInv'
<1>1. p \in request_list /\ p \notin lost /\ ~Sent("UNREGISTER", p)
  BY DEF Unregister, Listed, RequestInv, Followed
<1>2. \A q : Above(q)' = Above(q)
  BY NothingAnswered DEF Unregister
<1>3. CASE RoomBelow
  <2>1. downstream_oob' = Append(downstream_oob, Message("UNREGISTER", p))
    BY <1>3 DEF Unregister
  <2>2. /\ downstream_oob' \in Seq(Messages) /\ Len(downstream_oob') = Len(downstream_oob) + 1
        /\ Twice'
        /\ \A t, q : Sent(t, q)' <=> Sent(t, q) \/ (t = "UNREGISTER" /\ q = p)
        /\ \A q : Below(q)' = Below(q) + One(q = p)
    BY <1>1, <2>1, MessageSent
  <2>3. Typed'
    <3>1. Len(downstream_oob) \in Nat
      BY LenProperties DEF RequestInv, Typed
    <3>2. Len(downstream_oob') <= OobQueues
      BY <1>3, <2>2, <3>1, RequestAssumption DEF RoomBelow
    <3> QED BY <1>3, <2>2, <3>2 DEF Unregister, RequestInv, Typed
  <2>4. ASSUME NEW q \in Proxies PROVE Counted(q)'
    <3>1. Counted(q) /\ Below(q) \in Nat /\ Above(q) \in Nat
      BY NaturalCounts DEF RequestInv
    <3>2. Below(q)' = Below(q) + One(q = p) /\ Above(q)' = Above(q)
      BY <1>2, <2>2
    <3>3. /\ refs' = refs /\ request_list' = request_list \ {p} /\ registered' = registered
      BY <1>3 DEF Unregister
    <3> QED BY <1>1, <3>1, <3>2, <3>3 DEF Counted, One
  <2>5. ASSUME NEW q \in Proxies PROVE Followed(q)'
    <3>1. /\ Sent("REGISTER", q)' <=> Sent("REGISTER", q)
          /\ Sent("UNREGISTER", q)' <=> Sent("UNREGISTER", q) \/ q = p
      BY <2>2
    <3>2. Followed(q)
      BY DEF RequestInv
    <3> QED BY <1>1, <1>3, <3>1, <3>2 DEF Unregister, Followed, Known
  <2> QED BY <2>2, <2>3, <2>4, <2>5 DEF RequestInv
<1>4. CASE ~RoomBelow
  <2>1. /\ request_list' = request_list \ {p} /\ lost' = lost \cup {p}
        /\ refs' = [refs EXCEPT ![p] = @ - 1]
        /\ UNCHANGED <<upstream, downstream_oob, upstream_oob, watching, registered, provider, unheard>>
    BY <1>4 DEF Unregister
  <2>2. /\ Twice' <=> Twice
        /\ \A t, q : Sent(t, q)' <=> Sent(t, q)
        /\ \A q : Below(q)' = Below(q)
    BY <2>1, NothingSent
  <2>3. Typed'
    BY <2>1 DEF RequestInv, Typed
  <2>4. ASSUME NEW q \in Proxies PROVE Counted(q)'
    <3>1. Counted(q) /\ Below(q) \in Nat /\ Above(q) \in Nat /\ refs[q] \in Int
      BY NaturalCounts DEF RequestInv, Typed
    <3>2. Below(q)' = Below(q) /\ Above(q)' = Above(q)
      BY <1>2, <2>2
    <3>3. refs'[q] = refs[q] - One(q = p)
      BY <2>1, <3>1 DEF One, RequestInv, Typed
    <3> QED BY <1>1, <2>1, <3>1, <3>2, <3>3 DEF Counted, One
  <2>5. ASSUME NEW q \in Proxies PROVE Followed(q)'
    BY <1>1, <2>1, <2>2 DEF RequestInv, Followed, Known
  <2> QED BY <2>2, <2>3, <2>4, <2>5 DEF RequestInv
<1> QED BY <1>3, <1>4

LEMMA SinkOobKeeps ==
    ASSUME RequestInv, NEW s \in Sinks, SinkOob(s)
    PROVE  RequestInv'
<1>1. PICK p : p = Head(upstream_oob)
  OBVIOUS
<1>2. /\ upstream_oob # <<>> /\ upstream_oob' = Tail(upstream_oob)
      /\ refs' = [refs EXCEPT ![p] = @ - 1]
      /\ provider' = [provider EXCEPT ![upstream[p]] = s] \/ provider' = provider
      /\ UNCHANGED <<request_list, upstream, downstream_oob, watching, registered, lost, unheard>>
  BY <1>1 DEF SinkOob
<1>3. /\ upstream_oob' \in Seq(Proxies) /\ Len(upstream_oob') = Len(upstream_oob) - 1
      /\ p \in Proxies /\ \A q : Above(q)' = Above(q) - One(q = p)
  BY <1>1, <1>2, AnswersCounted
<1>4. /\ Twice' <=> Twice
      /\ \A t, q : Sent(t, q)' <=> Sent(t, q)
      /\ \A q : Below(q)' = Below(q)
  BY <1>2, NothingSent
<1>5. Typed'
  <2>1. Len(upstream_oob) \in Nat
    BY LenProperties DEF RequestInv, Typed
  <2>2. Len(upstream_oob') <= OobQueues
    BY <1>3, <2>1, RequestAssumption DEF RequestInv, Typed
  <2>3. provider' \in [Requests -> Sinks \cup {None}]
    BY <1>2 DEF RequestInv, Typed
  <2> QED BY <1>2, <1>3, <2>2, <2>3 DEF RequestInv, Typed
<1>6. ASSUME NEW q \in Proxies PROVE Counted(q)'
  <2>1. Counted(q) /\ Below(q) \in Nat /\ Above(q) \in Nat /\ refs[q] \in Int
    BY NaturalCounts DEF RequestInv, Typed
  <2>2. Below(q)' = Below(q) /\ Above(q)' = Above(q) - One(q = p)
    BY <1>3, <1>4
  <2>3. refs'[q] = refs[q] - One(q = p)
    BY <1>2, <2>1 DEF One, RequestInv, Typed
  <2> QED BY <1>2, <2>1, <2>2, <2>3 DEF Counted, One
<1>7. ASSUME NEW q \in Proxies PROVE Followed(q)'
  BY <1>2, <1>4 DEF RequestInv, Followed, Known
<1> QED BY <1>4, <1>5, <1>6, <1>7 DEF RequestInv

LEMMA SourceRegisterKeeps ==
    ASSUME RequestInv, SourceRegister
    PROVE  RequestInv'
<1>1. PICK p \in Proxies, type \in {"REGISTER", "UNREGISTER"} :
        /\ Head(downstream_oob).type = type /\ Head(downstream_oob).request = p
        /\ Sent(type, p) /\ ~Sent(type, p)'
        /\ \A t, q : t # type \/ q # p => (Sent(t, q)' <=> Sent(t, q))
        /\ downstream_oob' \in Seq(Messages) /\ Len(downstream_oob') = Len(downstream_oob) - 1
        /\ Twice'
        /\ \A q : Below(q)' = Below(q) - One(q = p)
  BY MessageReceived DEF SourceRegister
<1>2. /\ type = "REGISTER" /\ registered' = registered \cup {p}
      /\ UNCHANGED <<request_list, upstream, refs, upstream_oob, watching, provider, lost, unheard>>
  BY <1>1 DEF SourceRegister
<1>3. p \notin registered
  BY <1>1, <1>2 DEF RequestInv, Followed
<1>4. \A q : Above(q)' = Above(q)
  BY <1>2, NothingAnswered
<1>5. Typed'
  <2>1. Len(downstream_oob) \in Nat
    BY LenProperties DEF RequestInv, Typed
  <2>2. Len(downstream_oob') <= OobQueues
    BY <1>1, <2>1, RequestAssumption DEF RequestInv, Typed
  <2> QED BY <1>1, <1>2, <2>2 DEF RequestInv, Typed
<1>6. ASSUME NEW q \in Proxies PROVE Counted(q)'
  <2>1. Counted(q) /\ Below(q) \in Nat /\ Above(q) \in Nat
    BY NaturalCounts DEF RequestInv
  <2>2. Below(q)' = Below(q) - One(q = p) /\ Above(q)' = Above(q)
    BY <1>1, <1>4
  <2> QED BY <1>2, <1>3, <2>1, <2>2 DEF Counted, One
<1>7. ASSUME NEW q \in Proxies PROVE Followed(q)'
  <2>1. Followed(q) /\ (Sent("UNREGISTER", q)' <=> Sent("UNREGISTER", q))
    BY <1>1, <1>2 DEF RequestInv
  <2>2. CASE q = p
    BY <1>1, <1>2, <1>3, <2>1, <2>2 DEF Followed, Known
  <2>3. CASE q # p
    <3>1. Sent("REGISTER", q)' <=> Sent("REGISTER", q)
      BY <1>1, <2>3
    <3> QED BY <1>2, <2>1, <2>3, <3>1 DEF Followed, Known
  <2> QED BY <2>2, <2>3
<1> QED BY <1>1, <1>5, <1>6, <1>7 DEF RequestInv

LEMMA SourceUnregisterKeeps ==
    ASSUME RequestInv, SourceUnregister
    PROVE  RequestInv'
<1>1. PICK p \in Proxies, type \in {"REGISTER", "UNREGISTER"} :
        /\ Head(downstream_oob).type = type /\ Head(downstream_oob).request = p
        /\ Sent(type, p) /\ ~Sent(type, p)'
        /\ type = "UNREGISTER" => ~Sent("REGISTER", p)
        /\ \A t, q : t # type \/ q # p => (Sent(t, q)' <=> Sent(t, q))
        /\ downstream_oob' \in Seq(Messages) /\ Len(downstream_oob') = Len(downstream_oob) - 1
        /\ Twice'
        /\ \A q : Below(q)' = Below(q) - One(q = p)
  BY MessageReceived DEF SourceUnregister
<1>2. /\ type = "UNREGISTER" /\ registered' = registered \ {p}
      /\ refs' = [refs EXCEPT ![p] = @ - 2]
      /\ unheard' = unheard \ {p}
      /\ UNCHANGED <<request_list, upstream, upstream_oob, watching, provider, lost>>
  BY <1>1 DEF SourceUnregister
<1>3. p \in registered /\ p \notin request_list /\ p \notin lost
  BY <1>1, <1>2 DEF RequestInv, Followed, Known
<1>4. \A q : Above(q)' = Above(q)
  BY <1>2, NothingAnswered
<1>5. Typed'
  <2>1. Len(downstream_oob) \in Nat
    BY LenProperties DEF RequestInv, Typed
  <2>2. Len(downstream_oob') <= OobQueues
    BY <1>1, <2>1, RequestAssumption DEF RequestInv, Typed
  <2> QED BY <1>1, <1>2, <2>2 DEF RequestInv, Typed
<1>6. ASSUME NEW q \in Proxies PROVE Counted(q)'
  <2>1. Counted(q) /\ Below(q) \in Nat /\ Above(q) \in Nat /\ refs[q] \in Int
    BY NaturalCounts DEF RequestInv, Typed
  <2>2. Below(q)' = Below(q) - One(q = p) /\ Above(q)' = Above(q)
    BY <1>1, <1>4
  <2>3. refs'[q] = refs[q] - 2 * One(q = p)
    BY <1>2, <2>1 DEF One, RequestInv, Typed
  <2> QED BY <1>2, <1>3, <2>1, <2>2, <2>3 DEF Counted, One
<1>7. ASSUME NEW q \in Proxies PROVE Followed(q)'
  <2>1. Followed(q) /\ (Sent("REGISTER", q)' <=> Sent("REGISTER", q))
    BY <1>1, <1>2 DEF RequestInv
  <2>2. CASE q = p
    BY <1>1, <1>2, <1>3, <2>1, <2>2 DEF Followed, Known
  <2>3. CASE q # p
    <3>1. Sent("UNREGISTER", q)' <=> Sent("UNREGISTER", q)
      BY <1>1, <2>3
    <3> QED BY <1>2, <2>1, <2>3, <3>1 DEF Followed, Known
  <2> QED BY <2>2, <2>3
<1> QED BY <1>1, <1>5, <1>6, <1>7 DEF RequestInv

LEMMA ProvideKeeps ==
    ASSUME RequestInv, NEW p \in Proxies, Provide(p)
    PROVE  RequestInv'
<1>1. CASE RoomAbove
  <2>1. /\ p \in registered /\ RoomAbove /\ upstream_oob' = Append(upstream_oob, p)
        /\ refs' = [refs EXCEPT ![p] = @ + 1]
        /\ UNCHANGED <<request_list, upstream, downstream_oob, watching, registered, provider, lost, unheard>>
    BY <1>1 DEF Provide
  <2>2. /\ upstream_oob' \in Seq(Proxies) /\ Len(upstream_oob') = Len(upstream_oob) + 1
        /\ \A q : Above(q)' = Above(q) + One(q = p)
    BY <2>1, AnswersCounted
  <2>3. /\ Twice' <=> Twice
        /\ \A t, q : Sent(t, q)' <=> Sent(t, q)
        /\ \A q : Below(q)' = Below(q)
    BY <2>1, NothingSent
  <2>4. Typed'
    <3>1. Len(upstream_oob) \in Nat
      BY LenProperties DEF RequestInv, Typed
    <3>2. Len(upstream_oob') <= OobQueues
      BY <2>1, <2>2, <3>1, RequestAssumption DEF RoomAbove
    <3> QED BY <2>1, <2>2, <3>2 DEF RequestInv, Typed
  <2>5. ASSUME NEW q \in Proxies PROVE Counted(q)'
    <3>1. Counted(q) /\ Below(q) \in Nat /\ Above(q) \in Nat /\ refs[q] \in Int
      BY NaturalCounts DEF RequestInv, Typed
    <3>2. Below(q)' = Below(q) /\ Above(q)' = Above(q) + One(q = p)
      BY <2>2, <2>3
    <3>3. refs'[q] = refs[q] + One(q = p)
      BY <2>1, <3>1 DEF One, RequestInv, Typed
    <3> QED BY <2>1, <3>1, <3>2, <3>3 DEF Counted, One
  <2>6. ASSUME NEW q \in Proxies PROVE Followed(q)'
    BY <2>1, <2>3 DEF RequestInv, Followed, Known
  <2> QED BY <2>3, <2>4, <2>5, <2>6 DEF RequestInv
<1>2. CASE ~RoomAbove
  <2>1. /\ p \in registered /\ unheard' = unheard \cup {p}
        /\ UNCHANGED <<request_list, upstream, refs, downstream_oob, upstream_oob, watching, registered, provider, lost>>
    BY <1>2 DEF Provide
  <2>2. /\ Twice' <=> Twice
        /\ \A t, q : Sent(t, q)' <=> Sent(t, q)
        /\ \A q : Below(q)' = Below(q)
    BY <2>1, NothingSent
  <2>3. \A q : Above(q)' = Above(q)
    BY <2>1, NothingAnswered
  <2>4. Typed'
    BY <2>1 DEF RequestInv, Typed
  <2>5. \A q \in Proxies : Counted(q)' /\ Followed(q)'
    BY <2>1, <2>2, <2>3 DEF RequestInv, Counted, Followed, Known, One
  <2> QED BY <2>2, <2>4, <2>5 DEF RequestInv
<1> QED BY <1>1, <1>2

LEMMA InitRequestInv == RequestInit => RequestInv
<1> SUFFICES ASSUME RequestInit PROVE RequestInv
  OBVIOUS
<1>1. DOMAIN downstream_oob = {} /\ DOMAIN upstream_oob = {}
  BY DEF RequestInit
<1>2. Typed
  BY RequestAssumption DEF RequestInit, Typed
<1>3. ASSUME NEW p \in Proxies PROVE Counted(p)
  <2>1. Where(downstream_oob, About(p)) = {} /\ Where(upstream_oob, {p}) = {}
    BY <1>1 DEF Where
  <2>2. Below(p) = 0 /\ Above(p) = 0
    BY <2>1, FS_EmptySet DEF Below, Above
  <2> QED BY <2>2 DEF RequestInit, Counted, One
<1>4. ASSUME NEW p \in Proxies PROVE Followed(p)
  BY <1>1 DEF RequestInit, Followed, Known, Sent
<1>5. Twice
  BY <1>1 DEF Twice
<1> QED BY <1>2, <1>3, <1>4, <1>5 DEF RequestInv

LEMMA NextRequestInv == RequestInv /\ [RequestNext]_requestVars => RequestInv'
<1> SUFFICES ASSUME RequestInv, [RequestNext]_requestVars PROVE RequestInv'
  OBVIOUS
<1>1. CASE UNCHANGED requestVars
  <2>1. /\ Twice' <=> Twice
        /\ \A t, q : Sent(t, q)' <=> Sent(t, q)
        /\ \A q : Below(q)' = Below(q)
    BY <1>1, NothingSent DEF requestVars
  <2>2. \A q : Above(q)' = Above(q)
    BY <1>1, NothingAnswered DEF requestVars
  <2>3. Typed'
    BY <1>1 DEF requestVars, RequestInv, Typed
  <2>4. \A q \in Proxies : Counted(q)' /\ Followed(q)'
    BY <1>1, <2>1, <2>2 DEF requestVars, RequestInv, Counted, Followed, Known, One
  <2> QED BY <2>1, <2>3, <2>4 DEF RequestInv
<1>2. CASE \E r \in Requests, p \in Proxies : Register(r, p)
  BY <1>2, RegisterKeeps
<1>3. CASE \E r \in Requests, p \in Proxies : Unregister(r, p)
  BY <1>3, UnregisterKeeps
<1>4. CASE \E s \in Sinks : SinkOob(s)
  BY <1>4, SinkOobKeeps
<1>5. CASE SourceRegister
  BY <1>5, SourceRegisterKeeps
<1>6. CASE SourceUnregister
  BY <1>6, SourceUnregisterKeeps
<1>7. CASE \E p \in Proxies : Provide(p)
  BY <1>7, ProvideKeeps
<1> QED BY <1>1, <1>2, <1>3, <1>4, <1>5, <1>6, <1>7 DEF RequestNext

LEMMA RequestInvariance == RequestSpec => []RequestInv
BY InitRequestInv, NextRequestInv, PTL DEF RequestSpec

-----------------------------------------------------------------------------
(* A proxy is counted once by each of its users in both threads, whatever  *)
(* the number of sinks, requests and proxies, the length of the queues and *)
(* the order in which threads run (upipe_queue_request of upipe_queue.h).  *)
THEOREM EachProxyCounted == RequestSpec => []ProxyCounted
<1>1. RequestInv => ProxyCounted
  <2> SUFFICES ASSUME RequestInv PROVE ProxyCounted
    OBVIOUS
  <2>1. ASSUME NEW p \in Proxies
        PROVE  /\ refs[p] \in Nat
               /\ refs[p] = One(p \in request_list) + One(p \in registered)
                   + Times(downstream_oob, LAMBDA m : m.request = p)
                   + Times(upstream_oob, LAMBDA q : q = p)
    <3>1. Counted(p) /\ Below(p) \in Nat /\ Above(p) \in Nat
      BY NaturalCounts DEF RequestInv
    <3>2. \A i \in DOMAIN downstream_oob : downstream_oob[i] \in Messages
      BY LenProperties, ElementOfSeq DEF RequestInv, Typed
    <3>3. Where(downstream_oob, About(p)) =
            {i \in DOMAIN downstream_oob : downstream_oob[i].request = p}
      BY <3>2 DEF Where, About
    <3>4. Where(upstream_oob, {p}) = {i \in DOMAIN upstream_oob : upstream_oob[i] = p}
      BY DEF Where
    <3>5. /\ Times(downstream_oob, LAMBDA m : m.request = p) = Below(p)
          /\ Times(upstream_oob, LAMBDA q : q = p) = Above(p)
      BY <3>3, <3>4 DEF Below, Above, Times
    <3> QED BY <3>1, <3>5 DEF Counted, One
  <2>2. RequestTypeOK
    <3>1. refs \in [Proxies -> Nat]
      BY <2>1 DEF RequestInv, Typed
    <3> QED BY <3>1 DEF RequestTypeOK, RequestInv, Typed, Messages
  <2> QED BY <2>1, <2>2 DEF ProxyCounted
<1> QED BY <1>1, RequestInvariance, PTL

(* The source of a queue has just the proxies that its sinks list, but for *)
(* those about which a message is on its way or could not be sent.         *)
THEOREM SourceHasTheListed == RequestSpec => []SourceFollows
<1>1. RequestInv => SourceFollows
  BY DEF RequestInv, Followed, Known, Sent, SourceFollows
<1> QED BY <1>1, RequestInvariance, PTL
=============================================================================
